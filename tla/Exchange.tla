------------------------------ MODULE Exchange -------------------------------
(***************************************************************************)
(* The ENTITY Exchange Protocol (src/src/31_Profiles/exchange_protocol.py): *)
(* venues, instruments, listings, the order book, requests for quotes,      *)
(* clearing and settlement, over one SQLite database that several callers   *)
(* use at once.  The call auction is in ExchangeAuction.                    *)
(*                                                                          *)
(* A method that opens its transaction with BEGIN IMMEDIATE, or writes      *)
(* without reading first, is one action.  The others read in one            *)
(* transaction and write in another: a Check action, then a Commit action,  *)
(* with everything else in between.                                         *)
(*                                                                          *)
(* Abstracted: signatures and nonces (a signed body is a constant, and is   *)
(* recorded at most once), lots and ticks, evidence, receipts, currencies   *)
(* and surveillance alerts.                                                 *)
(***************************************************************************)
EXTENDS Totals, Sequences

CONSTANTS
  Proc,          \* callers of the exchange
  Venue, Instrument, Party,
  Issuer, Units, \* of each instrument
  Transferable,  \* the instruments whose rights may be sold on
  Order,         \* signed orders: venue, inst, by, side, qty, limit
  Signed,
  Rank,          \* the order of order_id, the last resort of every ORDER BY
  Rfq,           \* signed requests for quotes: venue, inst, by, side, qty, expires
  Asked,
  Quote,         \* signed quotes: rfq, by, price, expires
  Offered,
  NoOrder,       \* the order ids of a trade made from a quote
  NoCall,        \* the argument of a caller outside every method
  Serial,        \* TRUE: one call at a time
  MaxTime        \* bound: ticks of the clock

OrderBody == [venue : Venue, inst : Instrument, by : Party, side : {"BUY", "SELL"},
              qty : Nat \ {0}, limit : Nat]
RfqBody == [venue : Venue, inst : Instrument, by : Party, side : {"BUY", "SELL"},
            qty : Nat \ {0}, expires : Nat]
QuoteBody == [rfq : Rfq, by : Party, price : Nat, expires : Nat]

ASSUME FiniteAssumption ==
  IsFiniteSet(Party) /\ IsFiniteSet(Order) /\ NoOrder \notin Order
ASSUME InstrumentAssumption ==
  /\ Issuer \in [Instrument -> Party] /\ Units \in [Instrument -> Nat \ {0}]
  /\ Transferable \subseteq Instrument
ASSUME BodiesAssumption ==
  /\ Signed \in [Order -> OrderBody] /\ Rank \in [Order -> Nat]
  /\ \A o, x \in Order : Rank[o] = Rank[x] => o = x
  /\ Asked \in [Rfq -> RfqBody] /\ Offered \in [Quote -> QuoteBody]
ASSUME BoundsAssumption == Serial \in BOOLEAN /\ MaxTime \in Nat

VARIABLES
  venueStatus, instStatus,
  balance,      \* balances: the units each party holds of each instrument
  disclosed,    \* venue and instrument pairs with a published disclosure
  listed,       \* venue and instrument pairs with an ACTIVE listing
  orderStatus, remaining, received,  \* orders
  trades,       \* trades and clearing rows, in execution order
  settled,      \* the trades whose rows are SETTLED
  rfqStatus, quoteStatus,
  now,          \* now_ms()
  pc, arg,      \* where each caller is, and what its call is about
  seen          \* the receipt time a call took before its write transaction

market == <<venueStatus, instStatus, disclosed, listed>>
book   == <<orderStatus, remaining, received>>
deals  == <<trades, settled>>
talks  == <<rfqStatus, quoteStatus>>
calls  == <<pc, arg, seen>>
vars   == <<market, balance, book, deals, talks, now, calls>>

-----------------------------------------------------------------------------
(* Calls.  Between its two transactions a call holds only its argument;     *)
(* an error, a locked database or a crash ends it without a trace.          *)

Alone == Serial => \A q \in Proc : pc[q] = "idle"
Begin(q, label, x, time) ==
  /\ pc[q] = "idle" /\ Alone
  /\ pc' = [pc EXCEPT ![q] = label]
  /\ arg' = [arg EXCEPT ![q] = x]
  /\ seen' = [seen EXCEPT ![q] = time]
Return(q) ==
  /\ pc' = [pc EXCEPT ![q] = "idle"]
  /\ arg' = [arg EXCEPT ![q] = NoCall]
  /\ seen' = [seen EXCEPT ![q] = 0]

Abandon(q) ==
  /\ pc[q] # "idle"
  /\ Return(q)
  /\ UNCHANGED <<market, balance, book, deals, talks, now>>

Tick ==
  /\ now < MaxTime
  /\ now' = now + 1
  /\ UNCHANGED <<market, balance, book, deals, talks, calls>>

-----------------------------------------------------------------------------
(* Sums over the tables.                                                    *)

Live == {"OPEN", "PARTIAL"}
SellsOpen(o, i, p) == /\ Signed[o].inst = i /\ Signed[o].by = p /\ Signed[o].side = "SELL"
                      /\ orderStatus[o] \in Live
OpenUnits(i, p) ==
  Total([o \in Order |-> IF SellsOpen(o, i, p) THEN remaining[o] ELSE 0])

Pending == DOMAIN trades \ settled
SellsPending(k, i, p) == k \in Pending /\ trades[k].inst = i /\ trades[k].seller = p
PendingUnits(i, p) ==
  Total([k \in DOMAIN trades |-> IF SellsPending(k, i, p) THEN trades[k].qty ELSE 0])

ReservedSell(i, p) == OpenUnits(i, p) + PendingUnits(i, p)
Available(i, p, n) == ReservedSell(i, p) + n <= balance[i][p]

-----------------------------------------------------------------------------
(* Venues, instruments, disclosures and listings.                           *)

CreateVenue(v) ==
  /\ Alone /\ venueStatus[v] = "absent"
  /\ venueStatus' = [venueStatus EXCEPT ![v] = "ACTIVE"]
  /\ UNCHANGED <<instStatus, disclosed, listed, balance, book, deals, talks, now, calls>>

DefineInstrument(i) ==
  /\ Alone /\ instStatus[i] = "absent"
  /\ instStatus' = [instStatus EXCEPT ![i] = "ACTIVE"]
  /\ balance' = [balance EXCEPT ![i][Issuer[i]] = Units[i]]
  /\ UNCHANGED <<venueStatus, disclosed, listed, book, deals, talks, now, calls>>

AnyVenue(v, i) == instStatus[i] = "ACTIVE"  \* mutant: a retired venue may list
AnyInstrument(v, i) == venueStatus[v] = "ACTIVE"  \* mutant: a withdrawn instrument may be listed
BothActive(v, i) == venueStatus[v] = "ACTIVE" /\ instStatus[i] = "ACTIVE"

(* A second publication for a pair changes nothing kept here.               *)
DiscloseCheck(q, v, i) ==
  /\ BothActive(v, i)
  /\ <<v, i>> \notin disclosed
  /\ Begin(q, "disclose", <<v, i>>, 0)
  /\ UNCHANGED <<market, balance, book, deals, talks, now>>

DiscloseCommit(q) ==
  /\ pc[q] = "disclose"
  /\ disclosed' = disclosed \cup {arg[q]}
  /\ Return(q)
  /\ UNCHANGED <<venueStatus, instStatus, listed, balance, book, deals, talks, now>>

(* The lister is a party with a balance.                                    *)
ListCheck(q, v, i) ==
  /\ BothActive(v, i)
  /\ <<v, i>> \in disclosed
  /\ \E p \in Party : balance[i][p] > 0
  /\ Begin(q, "list", <<v, i>>, 0)
  /\ UNCHANGED <<market, balance, book, deals, talks, now>>

ListCommit(q) ==
  /\ pc[q] = "list"
  /\ listed' = listed \cup {arg[q]}
  /\ Return(q)
  /\ UNCHANGED <<venueStatus, instStatus, disclosed, balance, book, deals, talks, now>>

LiveOrders(v, i, side) ==
  {o \in Order : /\ Signed[o].venue = v /\ Signed[o].inst = i /\ Signed[o].side = side
                 /\ orderStatus[o] \in Live}
InstrumentBusy(i) ==
  \/ \E o \in Order : Signed[o].inst = i /\ orderStatus[o] \in Live
  \/ \E k \in Pending : trades[k].inst = i
  \/ \E r \in Rfq : Asked[r].inst = i /\ rfqStatus[r] = "OPEN"
VenueBusy(v) ==
  \/ \E i \in Instrument : <<v, i>> \in listed
  \/ \E o \in Order : Signed[o].venue = v /\ orderStatus[o] \in Live
  \/ \E r \in Rfq : Asked[r].venue = v /\ rfqStatus[r] = "OPEN"
  \/ \E k \in Pending : trades[k].venue = v

WithdrawInstrument(i) ==
  /\ Alone /\ instStatus[i] = "ACTIVE" /\ ~InstrumentBusy(i)
  /\ instStatus' = [instStatus EXCEPT ![i] = "WITHDRAWN"]
  /\ listed' = {l \in listed : l[2] # i}
  /\ UNCHANGED <<venueStatus, disclosed, balance, book, deals, talks, now, calls>>

RetireVenue(v) ==
  /\ Alone /\ venueStatus[v] = "ACTIVE" /\ ~VenueBusy(v)
  /\ venueStatus' = [venueStatus EXCEPT ![v] = "RETIRED"]
  /\ UNCHANGED <<instStatus, disclosed, listed, balance, book, deals, talks, now, calls>>

-----------------------------------------------------------------------------
(* Orders.  The listing and the instrument are read before the write        *)
(* transaction; a seller's units are checked again inside it.               *)

MaySell(o) == \/ Signed[o].by = Issuer[Signed[o].inst]
              \/ Signed[o].inst \in Transferable
NotRechecked(o) == TRUE  \* mutant: the first check is trusted
SellCovered(o) ==
  Signed[o].side = "SELL" => Available(Signed[o].inst, Signed[o].by, Signed[o].qty)

PlaceCheck(q, o) ==
  /\ orderStatus[o] = "absent"
  /\ <<Signed[o].venue, Signed[o].inst>> \in listed
  /\ instStatus[Signed[o].inst] = "ACTIVE"
  /\ Signed[o].side = "SELL" =>
       /\ MaySell(o)
       /\ Available(Signed[o].inst, Signed[o].by, Signed[o].qty)
  /\ Begin(q, "place", o, now)
  /\ UNCHANGED <<market, balance, book, deals, talks, now>>

PlaceCommit(q) ==
  LET o == arg[q] IN
  /\ pc[q] = "place"
  /\ orderStatus[o] = "absent"
  /\ SellCovered(o)
  /\ orderStatus' = [orderStatus EXCEPT ![o] = "OPEN"]
  /\ remaining' = [remaining EXCEPT ![o] = Signed[o].qty]
  /\ received' = [received EXCEPT ![o] = seen[q]]
  /\ Return(q)
  /\ UNCHANGED <<market, balance, deals, talks, now>>

(* The status is read before the transaction and overwritten in it, blind.  *)
CancelCheck(q, o) ==
  /\ orderStatus[o] \in Live
  /\ Begin(q, "cancel", o, 0)
  /\ UNCHANGED <<market, balance, book, deals, talks, now>>

CancelCommit(q) ==
  /\ pc[q] = "cancel"
  /\ orderStatus' = [orderStatus EXCEPT ![arg[q]] = "CANCELLED"]
  /\ remaining' = [remaining EXCEPT ![arg[q]] = 0]
  /\ Return(q)
  /\ UNCHANGED <<market, received, balance, deals, talks, now>>

-----------------------------------------------------------------------------
(* Matching.  One turn of the loop of match_order_book is one transaction   *)
(* and leaves nothing in the caller, so turns of several matchers are turns *)
(* of one.                                                                  *)

Earlier(o, x) == \/ received[o] < received[x]
                 \/ received[o] = received[x] /\ Rank[o] < Rank[x]
BestBid(b) ==
  \A x \in LiveOrders(Signed[b].venue, Signed[b].inst, "BUY") \ {b} :
    \/ Signed[x].limit < Signed[b].limit
    \/ Signed[x].limit = Signed[b].limit /\ Earlier(b, x)
BestAsk(s) ==
  \A x \in LiveOrders(Signed[s].venue, Signed[s].inst, "SELL") \ {s} :
    \/ Signed[x].limit > Signed[s].limit
    \/ Signed[x].limit = Signed[s].limit /\ Earlier(s, x)
AnyPrice(b, s) == TRUE  \* mutant: limits are not compared
Crosses(b, s) == Signed[b].limit >= Signed[s].limit
Meet(v, i, b, s) ==
  /\ b \in LiveOrders(v, i, "BUY") /\ s \in LiveOrders(v, i, "SELL")
  /\ BestBid(b) /\ BestAsk(s) /\ Crosses(b, s)

Lesser(m, n) == IF m < n THEN m ELSE n
LargerQty(m, n) == IF m < n THEN n ELSE m  \* mutant: the larger side is filled
TradedQty(m, n) == Lesser(m, n)
Resting(b, s) == IF Earlier(b, s) THEN b ELSE s
Newer(b, s) == IF Earlier(s, b) THEN b ELSE s

Swapped(v, i, buyer, seller, b, s, n, p) ==  \* mutant: the parties change places
  [venue |-> v, inst |-> i, buyer |-> seller, seller |-> buyer, buy |-> b, sell |-> s,
   qty |-> n, price |-> p]
Deal(v, i, buyer, seller, b, s, n, p) ==
  [venue |-> v, inst |-> i, buyer |-> buyer, seller |-> seller, buy |-> b, sell |-> s,
   qty |-> n, price |-> p]

(* n units of b and s trade; left[b] and left[s] is what their rows keep.   *)
ExecuteOrders(b, s, n, price, left) ==
  /\ trades' = Append(trades, Deal(Signed[b].venue, Signed[b].inst, Signed[b].by,
                                   Signed[s].by, b, s, n, price))
  /\ remaining' = [x \in Order |-> IF x \in {b, s} THEN left[x] ELSE remaining[x]]
  /\ orderStatus' = [x \in Order |-> IF x \notin {b, s} THEN orderStatus[x]
                                     ELSE IF left[x] = 0 THEN "FILLED" ELSE "PARTIAL"]
  /\ UNCHANGED <<received, settled>>

LeftNothing(b, s, n) == [x \in {b, s} |-> 0]  \* mutant: both rows are marked FILLED
LeftAfter(b, s, n) == [x \in {b, s} |-> remaining[x] - n]

MatchTrade(v, i) ==
  /\ Alone
  /\ \E b, s \in Order :
       /\ Meet(v, i, b, s)
       /\ Signed[b].by # Signed[s].by
       /\ LET n == TradedQty(remaining[b], remaining[s]) IN
          ExecuteOrders(b, s, n, Signed[Resting(b, s)].limit, LeftAfter(b, s, n))
  /\ UNCHANGED <<market, balance, talks, now, calls>>

(* The newer of two crossing orders of one party is cancelled and keeps its *)
(* remaining units.                                                         *)
MatchSelf(v, i) ==
  /\ Alone
  /\ \E b, s \in Order :
       /\ Meet(v, i, b, s)
       /\ Signed[b].by = Signed[s].by
       /\ orderStatus' = [orderStatus EXCEPT ![Newer(b, s)] = "CANCELLED"]
  /\ UNCHANGED <<market, balance, remaining, received, deals, talks, now, calls>>

-----------------------------------------------------------------------------
(* Requests for quotes.  Neither a request nor a quote reserves anything:   *)
(* acceptance looks again, in one transaction with the trade it makes.      *)

RfqCheck(q, r) ==
  /\ rfqStatus[r] = "absent"
  /\ Asked[r].expires > now
  /\ <<Asked[r].venue, Asked[r].inst>> \in listed
  /\ Asked[r].side = "SELL" => Asked[r].qty <= balance[Asked[r].inst][Asked[r].by]
  /\ Begin(q, "rfq", r, 0)
  /\ UNCHANGED <<market, balance, book, deals, talks, now>>

RfqCommit(q) ==
  /\ pc[q] = "rfq" /\ rfqStatus[arg[q]] = "absent"
  /\ rfqStatus' = [rfqStatus EXCEPT ![arg[q]] = "OPEN"]
  /\ Return(q)
  /\ UNCHANGED <<market, balance, book, deals, quoteStatus, now>>

QuoteCheck(q, x) ==
  LET r == Offered[x].rfq IN
  /\ quoteStatus[x] = "absent"
  /\ Offered[x].expires > now
  /\ rfqStatus[r] = "OPEN" /\ now <= Asked[r].expires
  /\ Asked[r].side = "BUY" => Available(Asked[r].inst, Offered[x].by, Asked[r].qty)
  /\ Begin(q, "quote", x, 0)
  /\ UNCHANGED <<market, balance, book, deals, talks, now>>

QuoteCommit(q) ==
  /\ pc[q] = "quote" /\ quoteStatus[arg[q]] = "absent"
  /\ quoteStatus' = [quoteStatus EXCEPT ![arg[q]] = "OPEN"]
  /\ Return(q)
  /\ UNCHANGED <<market, balance, book, deals, rfqStatus, now>>

BuyerOf(x) == LET r == Asked[Offered[x].rfq] IN IF r.side = "BUY" THEN r.by ELSE Offered[x].by
SellerOf(x) == LET r == Asked[Offered[x].rfq] IN IF r.side = "BUY" THEN Offered[x].by ELSE r.by

HoldsEnough(i, p, n) == n <= balance[i][p]  \* mutant: held units, not unreserved ones
StillAvailable(i, p, n) == Available(i, p, n)

AcceptQuote(x) ==
  LET r == Offered[x].rfq IN
  /\ Alone
  /\ rfqStatus[r] = "OPEN" /\ quoteStatus[x] = "OPEN"
  /\ now <= Asked[r].expires /\ now <= Offered[x].expires
  /\ StillAvailable(Asked[r].inst, SellerOf(x), Asked[r].qty)
  /\ venueStatus[Asked[r].venue] = "ACTIVE"
  /\ trades' = Append(trades, Deal(Asked[r].venue, Asked[r].inst, BuyerOf(x), SellerOf(x),
                                   NoOrder, NoOrder, Asked[r].qty, Offered[x].price))
  /\ rfqStatus' = [rfqStatus EXCEPT ![r] = "ACCEPTED"]
  /\ quoteStatus' = [quoteStatus EXCEPT ![x] = "ACCEPTED"]
  /\ UNCHANGED <<market, balance, book, settled, now, calls>>

-----------------------------------------------------------------------------
(* settle_trade: the seller's units go to the buyer, and the trade and its  *)
(* clearing row become SETTLED, in one transaction.                         *)

Moved(i, seller, buyer, n) ==
  [p \in Party |-> (IF p = buyer THEN n ELSE 0)
                   + (IF p = seller THEN balance[i][p] - n ELSE balance[i][p])]
StaysPending(k) == settled  \* mutant: the trade's status is forgotten
MarkSettled(k) == settled \cup {k}

Settle(k) ==
  LET t == trades[k] IN
  /\ Alone
  /\ k \in Pending
  /\ t.qty <= balance[t.inst][t.seller]
  /\ balance' = [balance EXCEPT ![t.inst] = Moved(t.inst, t.seller, t.buyer, t.qty)]
  /\ settled' = MarkSettled(k)
  /\ UNCHANGED <<market, book, trades, talks, now, calls>>

-----------------------------------------------------------------------------
Init ==
  /\ venueStatus = [v \in Venue |-> "absent"]
  /\ instStatus = [i \in Instrument |-> "absent"]
  /\ balance = [i \in Instrument |-> [p \in Party |-> 0]]
  /\ disclosed = {} /\ listed = {}
  /\ orderStatus = [o \in Order |-> "absent"]
  /\ remaining = [o \in Order |-> 0]
  /\ received = [o \in Order |-> 0]
  /\ trades = << >> /\ settled = {}
  /\ rfqStatus = [r \in Rfq |-> "absent"]
  /\ quoteStatus = [x \in Quote |-> "absent"]
  /\ now = 0
  /\ pc = [q \in Proc |-> "idle"]
  /\ arg = [q \in Proc |-> NoCall]
  /\ seen = [q \in Proc |-> 0]

Check(q) ==
  \/ \E v \in Venue, i \in Instrument : DiscloseCheck(q, v, i) \/ ListCheck(q, v, i)
  \/ \E o \in Order : PlaceCheck(q, o) \/ CancelCheck(q, o)
  \/ \E r \in Rfq : RfqCheck(q, r)
  \/ \E x \in Quote : QuoteCheck(q, x)

Commit(q) ==
  \/ DiscloseCommit(q) \/ ListCommit(q) \/ PlaceCommit(q) \/ CancelCommit(q)
  \/ RfqCommit(q) \/ QuoteCommit(q) \/ Abandon(q)

AtOnce ==
  \/ \E v \in Venue : CreateVenue(v) \/ RetireVenue(v)
  \/ \E i \in Instrument : DefineInstrument(i) \/ WithdrawInstrument(i)
  \/ \E v \in Venue, i \in Instrument : MatchTrade(v, i) \/ MatchSelf(v, i)
  \/ \E x \in Quote : AcceptQuote(x)
  \/ \E k \in DOMAIN trades : Settle(k)

Next ==
  \/ \E q \in Proc : Check(q) \/ Commit(q)
  \/ AtOnce
  \/ Tick

Spec == Init /\ [][Next]_vars

-----------------------------------------------------------------------------
(* Properties.                                                              *)

Deals == [venue : Venue, inst : Instrument, buyer : Party, seller : Party,
          buy : Order \cup {NoOrder}, sell : Order \cup {NoOrder}, qty : Nat, price : Nat]
ArgFits(q) ==
  /\ pc[q] \in {"place", "cancel"} => arg[q] \in Order
  /\ pc[q] = "rfq" => arg[q] \in Rfq
  /\ pc[q] = "quote" => arg[q] \in Quote
  /\ pc[q] \in {"disclose", "list"} => arg[q] \in Venue \X Instrument

(* The tables keep their types: no balance and no remaining quantity goes   *)
(* below zero, and every row names rows that exist.                         *)
TablesOK ==
  /\ venueStatus \in [Venue -> {"absent", "ACTIVE", "RETIRED"}]
  /\ instStatus \in [Instrument -> {"absent", "ACTIVE", "WITHDRAWN"}]
  /\ disclosed \subseteq Venue \X Instrument /\ listed \subseteq Venue \X Instrument
  /\ orderStatus \in [Order -> {"absent", "OPEN", "PARTIAL", "FILLED", "CANCELLED"}]
  /\ remaining \in [Order -> Nat] /\ received \in [Order -> Nat]
  /\ trades \in Seq(Deals) /\ settled \subseteq DOMAIN trades
  /\ rfqStatus \in [Rfq -> {"absent", "OPEN", "ACCEPTED"}]
  /\ quoteStatus \in [Quote -> {"absent", "OPEN", "ACCEPTED"}]
  /\ now \in Nat
  /\ pc \in [Proc -> {"idle", "disclose", "list", "place", "cancel", "rfq", "quote", "auction"}]
  /\ DOMAIN arg = Proc /\ seen \in [Proc -> Nat]
  /\ \A q \in Proc : ArgFits(q)
TypeOK == TablesOK /\ balance \in [Instrument -> [Party -> Nat]]

(* What a seller has promised, in open orders and in trades that have not   *)
(* settled, never exceeds what it holds: so settle_trade never finds        *)
(* "seller entitlement unavailable".                                        *)
SellsCovered ==
  \A i \in Instrument, p \in Party : ReservedSell(i, p) <= balance[i][p]

(* The rows of an order agree with the trades made from it: what it traded  *)
(* and what remains add up to its signed quantity while it is live, and no  *)
(* order is ever filled beyond that quantity, whoever cancels meanwhile.    *)
Executed(o) ==
  Total([k \in DOMAIN trades |-> IF o \in {trades[k].buy, trades[k].sell}
                                 THEN trades[k].qty ELSE 0])
AddsUp(o) ==
  /\ orderStatus[o] = "absent" => Executed(o) = 0 /\ remaining[o] = 0
  /\ orderStatus[o] \in Live => remaining[o] > 0 /\ Executed(o) + remaining[o] = Signed[o].qty
  /\ orderStatus[o] = "FILLED" => remaining[o] = 0 /\ Executed(o) = Signed[o].qty
  /\ Executed(o) <= Signed[o].qty
NoOverfill == \A o \in Order : AddsUp(o)

(* Every trade from the book is between the two parties that signed its     *)
(* orders, who differ, in the venue and instrument both named, at a price   *)
(* neither refused, for at least one unit.                                  *)
FairTrade(t) ==
  /\ t.qty > 0
  /\ t.buy # NoOrder =>
       /\ Signed[t.buy].side = "BUY" /\ Signed[t.sell].side = "SELL"
       /\ t.buyer = Signed[t.buy].by /\ t.seller = Signed[t.sell].by /\ t.buyer # t.seller
       /\ \A o \in {t.buy, t.sell} : Signed[o].venue = t.venue /\ Signed[o].inst = t.inst
       /\ Signed[t.sell].limit <= t.price /\ t.price <= Signed[t.buy].limit
FairTrades == \A k \in DOMAIN trades : FairTrade(trades[k])

(* A balance is what was issued and what settled trades moved, each trade   *)
(* once: concurrent settlements of one trade commit at most once.           *)
Bought(i, p) ==
  Total([k \in DOMAIN trades |-> IF k \in settled /\ trades[k].inst = i /\ trades[k].buyer = p
                                 THEN trades[k].qty ELSE 0])
Sold(i, p) ==
  Total([k \in DOMAIN trades |-> IF k \in settled /\ trades[k].inst = i /\ trades[k].seller = p
                                 THEN trades[k].qty ELSE 0])
Granted(i, p) == IF instStatus[i] # "absent" /\ p = Issuer[i] THEN Units[i] ELSE 0
LedgerExplained ==
  \A i \in Instrument, p \in Party : balance[i][p] + Sold(i, p) = Granted(i, p) + Bought(i, p)

(* The inductive invariant: the above, and no units before their instrument. *)
Unissued ==
  \A i \in Instrument : instStatus[i] = "absent" => \A p \in Party : balance[i][p] = 0
IInv == TypeOK /\ Unissued /\ SellsCovered /\ NoOverfill /\ FairTrades /\ LedgerExplained

(* The exchange keeps the promise of EntitlementLedger: units are reserved  *)
(* from the admission of an order to its settlement or cancellation.        *)
Ledger == INSTANCE EntitlementLedger WITH
  issued <- {i \in Instrument : instStatus[i] # "absent"},
  reserved <- [i \in Instrument |-> [p \in Party |-> ReservedSell(i, p)]]
KeepsReservation == Ledger!Spec

(* What a pair of venue and instrument still has in the tables, and what a  *)
(* call between its two transactions may still bring it.                    *)
Business(v, i) ==
  \/ <<v, i>> \in listed
  \/ \E o \in Order : orderStatus[o] \in Live /\ Signed[o].venue = v /\ Signed[o].inst = i
  \/ \E k \in Pending : trades[k].venue = v /\ trades[k].inst = i
  \/ \E r \in Rfq : rfqStatus[r] = "OPEN" /\ Asked[r].venue = v /\ Asked[r].inst = i
Concerns(label, x, v, i) ==
  \/ label \in {"list", "auction"} /\ x = <<v, i>>
  \/ label = "place" /\ Signed[x].venue = v /\ Signed[x].inst = i
  \/ label = "rfq" /\ Asked[x].venue = v /\ Asked[x].inst = i
Exposed(v, i) == Business(v, i) \/ \E q \in Proc : Concerns(pc[q], arg[q], v, i)

(* However calls interleave, a withdrawal finds its instrument without      *)
(* business and is final: what appears on it later is what a call checked   *)
(* before the withdrawal commits, or follows from that.  Once there is no   *)
(* such call and nothing such calls left, there never is again.             *)
WithdrawalIsFinal ==
  [][\A v \in Venue, i \in Instrument :
       /\ instStatus[i] # "WITHDRAWN" /\ instStatus'[i] = "WITHDRAWN" => ~Business(v, i)'
       /\ instStatus[i] = "WITHDRAWN" /\ ~Exposed(v, i) =>
            instStatus'[i] = "WITHDRAWN" /\ ~Exposed(v, i)']_vars

(* Nor does a retired venue get business but from calls checked before.     *)
RetirementIsFinal ==
  [][\A v \in Venue, i \in Instrument :
       /\ venueStatus[v] # "RETIRED" /\ venueStatus'[v] = "RETIRED" => ~Business(v, i)'
       /\ venueStatus[v] = "RETIRED" /\ ~Exposed(v, i) =>
            venueStatus'[v] = "RETIRED" /\ ~Exposed(v, i)']_vars

(* What the tests say: a withdrawn instrument accepts no orders.            *)
WithdrawnTakesNoOrder ==
  \A o \in Order : instStatus[Signed[o].inst] = "WITHDRAWN" => orderStatus[o] \notin Live
=============================================================================
