SPECIFICATION Spec
CONSTANTS
  Proc = {q1, q2}
  a = a
  b = b
  pa = pa
  pb = pb
  ta = ta
  Chunk = {a, b}
  Payload = {pa, pb}
  Tape = {ta}
  Content <- MCContent
  Torn = Torn
  Nobody = Nobody
  NoJob = NoJob
  Target = 1
  MaxSegment = 3
  MaxFault = 1
  MaxRebuild = 1
INVARIANTS
  Rebuildable
