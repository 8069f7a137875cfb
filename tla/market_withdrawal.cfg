SPECIFICATION MarketSpec
CHECK_DEADLOCK FALSE
CONSTANTS
  v1 = v1
  i1 = i1
  issuer = issuer
  treasury = treasury
  holder = holder
  os = os
  r1 = r1
  x1 = x1
  p1 = p1
  p2 = p2
  Proc = {q1}
  Venue = {v1}
  Instrument = {i1}
  Party = {issuer, treasury, holder}
  Issuer <- MCIssuer
  Units <- MCUnits
  Transferable = {i1}
  Order = {os}
  Signed <- MCSigned
  Rank <- MCRank
  Rfq = {r1}
  Asked <- MCAsked
  Quote = {x1}
  Offered <- MCOffered
  NoOrder = NoOrder
  NoCall = NoCall
  Serial = TRUE
  MaxTime = 1
  Agent = {a1, a2}
  Policy = {p1, p2}
  Terms <- MCTerms
  Founding = {p1}
  NoPolicy = NoPolicy
  MaxJob = 3
SYMMETRY MCSymmetry
INVARIANTS
  OneObligationPerTrade
  BalancesExplained
  WithdrawnUnused
  WithdrawalWhole
