SPECIFICATION FairSpec
CONSTANTS
  Proc = {q1, q2}
  a = a
  b = b
  pa = pa
  pb = pb
  ta = ta
  Chunk = {a, b}
  Payload = {pb}
  Tape = {ta}
  Content <- MCContent
  Torn = Torn
  Nobody = Nobody
  NoJob = NoJob
  Target = 2
  MaxSegment = 3
  MaxFault = 1
  MaxRebuild = 1
PROPERTIES
  CallsReturn
