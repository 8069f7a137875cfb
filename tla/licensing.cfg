SPECIFICATION Spec
CHECK_DEADLOCK FALSE
CONSTANTS
  Thread = {t1, t2}
  Licence = {l1}
  Terms = {x1, x2}
  Claim = {c1, c2}
  Ticket = {k1}
  Nonce = {n1, n2}
  NoCall = NoCall
  NoTicket = NoTicket
  MaxEvents = 5
  MaxLost = 1
SYMMETRY MCSymmetry
INVARIANTS
  LicenceHistory
  AgreementSound
  TicketsAccounted
  LedgerMatches
