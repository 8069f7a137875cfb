SPECIFICATION AuctionSpec
CHECK_DEADLOCK FALSE
CONSTANTS
  v1 = v1
  i1 = i1
  issuer = issuer
  holder = holder
  os = os
  ou = ou
  ob = ob
  oc = oc
  od = od
  r1 = r1
  Proc = {q1}
  Venue = {v1}
  Instrument = {i1}
  Party = {issuer, holder}
  Issuer <- MCIssuer
  Units <- MCUnits
  Transferable = {i1}
  Order = {os, ou, ob, oc, od}
  Signed <- MCSigned
  Rank <- MCRank
  Rfq = {r1}
  Asked <- MCAsked
  Quote = {}
  Offered <- MCOffered
  NoOrder = NoOrder
  NoCall = NoCall
  Serial = TRUE
  MaxTime = 1
  MaxTrade = 4
INVARIANTS
  NoOverfill
  FairTrades
  VolumeIsMaximal
  AuctionExhausts
PROPERTIES
  KeepsReservation
