SPECIFICATION Spec
CHECK_DEADLOCK FALSE
CONSTANTS
  v1 = v1
  i1 = i1
  issuer = issuer
  holder = holder
  os = os
  ot = ot
  ob = ob
  r1 = r1
  r2 = r2
  x1 = x1
  x2 = x2
  Proc = {q1, q2}
  Venue = {v1}
  Instrument = {i1}
  Party = {issuer, holder}
  Issuer <- MCIssuer
  Units <- MCUnits
  Transferable = {i1}
  Order = {os, ot, ob}
  Signed <- MCSigned
  Rank <- MCRank
  Rfq = {r1}
  Asked <- MCAsked
  Quote = {x1}
  Offered <- MCOffered
  NoOrder = NoOrder
  NoCall = NoCall
  Serial = FALSE
  MaxTime = 0
INVARIANT
  WithdrawnTakesNoOrder
