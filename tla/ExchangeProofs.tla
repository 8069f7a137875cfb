---------------------------- MODULE ExchangeProofs ----------------------------
(***************************************************************************)
(* Theorems of Exchange, for every set of callers, parties, orders,         *)
(* requests and quotes, and whether calls interleave or not.                *)
(***************************************************************************)
EXTENDS Exchange, TotalsProofs

-----------------------------------------------------------------------------
(* Types.                                                                   *)

LEMMA InitType == Init => TypeOK
BY DEF Init, TypeOK, TablesOK, ArgFits

LEMMA CheckType ==
  ASSUME TablesOK, NEW q \in Proc, Check(q)
  PROVE  TablesOK'
<1>1. ASSUME NEW v \in Venue, NEW i \in Instrument, DiscloseCheck(q, v, i) PROVE TablesOK'
  BY <1>1 DEF TablesOK, ArgFits, DiscloseCheck, Begin, market, book, deals, talks
<1>2. ASSUME NEW v \in Venue, NEW i \in Instrument, ListCheck(q, v, i) PROVE TablesOK'
  BY <1>2 DEF TablesOK, ArgFits, ListCheck, Begin, market, book, deals, talks
<1>3. ASSUME NEW o \in Order, PlaceCheck(q, o) PROVE TablesOK'
  BY <1>3 DEF TablesOK, ArgFits, PlaceCheck, Begin, market, book, deals, talks
<1>4. ASSUME NEW o \in Order, CancelCheck(q, o) PROVE TablesOK'
  BY <1>4 DEF TablesOK, ArgFits, CancelCheck, Begin, market, book, deals, talks
<1>5. ASSUME NEW r \in Rfq, RfqCheck(q, r) PROVE TablesOK'
  BY <1>5 DEF TablesOK, ArgFits, RfqCheck, Begin, market, book, deals, talks
<1>6. ASSUME NEW x \in Quote, QuoteCheck(q, x) PROVE TablesOK'
  BY <1>6 DEF TablesOK, ArgFits, QuoteCheck, Begin, market, book, deals, talks
<1> QED
  BY <1>1, <1>2, <1>3, <1>4, <1>5, <1>6 DEF Check

LEMMA CommitType ==
  ASSUME TablesOK, NEW q \in Proc, Commit(q)
  PROVE  TablesOK'
<1> USE DEF TablesOK, ArgFits, Return
<1>1. CASE DiscloseCommit(q)
  BY <1>1 DEF DiscloseCommit, book, deals, talks
<1>2. CASE ListCommit(q)
  BY <1>2 DEF ListCommit, book, deals, talks
<1>3. CASE PlaceCommit(q)
  BY <1>3, BodiesAssumption DEF PlaceCommit, OrderBody, market, deals, talks
<1>4. CASE CancelCommit(q)
  BY <1>4 DEF CancelCommit, market, deals, talks
<1>5. CASE RfqCommit(q)
  BY <1>5 DEF RfqCommit, market, book, deals
<1>6. CASE QuoteCommit(q)
  BY <1>6 DEF QuoteCommit, market, book, deals
<1>7. CASE Abandon(q)
  BY <1>7 DEF Abandon, market, book, deals, talks
<1> QED
  BY <1>1, <1>2, <1>3, <1>4, <1>5, <1>6, <1>7 DEF Commit

(* What a trade of the book is made of.                                     *)
LEMMA MeetFacts ==
  ASSUME TablesOK, NEW v \in Venue, NEW i \in Instrument, NEW b \in Order, NEW s \in Order,
         Meet(v, i, b, s)
  PROVE  LET n == TradedQty(remaining[b], remaining[s]) IN
         /\ b # s /\ Signed[b] \in OrderBody /\ Signed[s] \in OrderBody
         /\ Signed[b].venue = v /\ Signed[s].venue = v
         /\ Signed[b].inst = i /\ Signed[s].inst = i
         /\ Signed[b].side = "BUY" /\ Signed[s].side = "SELL"
         /\ orderStatus[b] \in Live /\ orderStatus[s] \in Live
         /\ Signed[s].limit <= Signed[b].limit
         /\ n \in Nat /\ n <= remaining[b] /\ n <= remaining[s]
         /\ remaining[b] - n \in Nat /\ remaining[s] - n \in Nat
         /\ remaining[b] > 0 /\ remaining[s] > 0 => n > 0
<1>1. /\ b \in LiveOrders(v, i, "BUY") /\ s \in LiveOrders(v, i, "SELL")
      /\ Signed[b].limit >= Signed[s].limit
  BY DEF Meet, Crosses
<1>2. /\ Signed[b].venue = v /\ Signed[s].venue = v
      /\ Signed[b].inst = i /\ Signed[s].inst = i
      /\ Signed[b].side = "BUY" /\ Signed[s].side = "SELL"
      /\ orderStatus[b] \in Live /\ orderStatus[s] \in Live
  BY <1>1 DEF LiveOrders
<1>3. Signed[b] \in OrderBody /\ Signed[s] \in OrderBody
  BY BodiesAssumption
<1>4. Signed[b].limit \in Nat /\ Signed[s].limit \in Nat
  BY <1>3 DEF OrderBody
<1>5. remaining[b] \in Nat /\ remaining[s] \in Nat
  BY DEF TablesOK
<1> QED
  BY <1>1, <1>2, <1>3, <1>4, <1>5 DEF TradedQty, Lesser

(* The rows a turn of the matcher writes.                                   *)
Trades(v, i, b, s, n, t) ==
  /\ Meet(v, i, b, s)
  /\ n = TradedQty(remaining[b], remaining[s])
  /\ t = Deal(v, i, Signed[b].by, Signed[s].by, b, s, n, Signed[Resting(b, s)].limit)
  /\ trades' = Append(trades, t) /\ settled' = settled /\ received' = received
  /\ remaining' = [x \in Order |-> IF x \in {b, s} THEN remaining[x] - n ELSE remaining[x]]
  /\ orderStatus' = [x \in Order |-> IF x \notin {b, s} THEN orderStatus[x]
                                     ELSE IF remaining[x] - n = 0 THEN "FILLED" ELSE "PARTIAL"]

LEMMA TradeFacts ==
  ASSUME TablesOK, NEW v \in Venue, NEW i \in Instrument, MatchTrade(v, i)
  PROVE  \E b, s \in Order, n \in Nat, t \in Deals :
           Trades(v, i, b, s, n, t) /\ Signed[b].by # Signed[s].by
<1>1. PICK b \in Order, s \in Order : /\ Meet(v, i, b, s) /\ Signed[b].by # Signed[s].by
        /\ LET n == TradedQty(remaining[b], remaining[s]) IN
           ExecuteOrders(b, s, n, Signed[Resting(b, s)].limit, LeftAfter(b, s, n))
  BY DEF MatchTrade
<1> DEFINE n == TradedQty(remaining[b], remaining[s])
           t == Deal(v, i, Signed[b].by, Signed[s].by, b, s, n, Signed[Resting(b, s)].limit)
<1>2. n \in Nat /\ Signed[b].venue = v /\ Signed[b].inst = i
  BY <1>1, MeetFacts
<1>3. t \in Deals
  BY <1>1, <1>2, MeetFacts, BodiesAssumption DEF Deal, Deals, Resting, OrderBody
<1>4. Trades(v, i, b, s, n, t)
  BY <1>1, <1>2 DEF Trades, ExecuteOrders, LeftAfter
<1> HIDE DEF n, t
<1> QED BY <1>1, <1>2, <1>3, <1>4

(* n units of a buy and a sell order trade, at a price neither refuses:     *)
(* what a turn of the matcher does, and a trade of the call auction when    *)
(* nobody comes between.                                                    *)
Executes(v, i, b, s, n, t) ==
  /\ b \in LiveOrders(v, i, "BUY") /\ s \in LiveOrders(v, i, "SELL")
  /\ n <= remaining[b] /\ n <= remaining[s]
  /\ Signed[s].limit <= t.price /\ t.price <= Signed[b].limit
  /\ t = Deal(v, i, Signed[b].by, Signed[s].by, b, s, n, t.price)
  /\ trades' = Append(trades, t) /\ settled' = settled
  /\ remaining' = [x \in Order |-> IF x \in {b, s} THEN remaining[x] - n ELSE remaining[x]]
  /\ orderStatus' = [x \in Order |-> IF x \notin {b, s} THEN orderStatus[x]
                                     ELSE IF remaining[x] - n = 0 THEN "FILLED" ELSE "PARTIAL"]

LEMMA TradesExecute ==
  ASSUME TablesOK, NEW v \in Venue, NEW i \in Instrument, NEW b \in Order, NEW s \in Order,
         NEW n, NEW t, Trades(v, i, b, s, n, t)
  PROVE  Executes(v, i, b, s, n, t) /\ (remaining[b] > 0 /\ remaining[s] > 0 => n > 0)
<1>1. /\ Signed[s].limit <= Signed[b].limit /\ n <= remaining[b] /\ n <= remaining[s]
      /\ Signed[b] \in OrderBody /\ Signed[s] \in OrderBody
      /\ remaining[b] > 0 /\ remaining[s] > 0 => n > 0
  BY MeetFacts DEF Trades
<1>2. t.price = Signed[b].limit \/ t.price = Signed[s].limit
  BY DEF Trades, Deal, Resting
<1>3. Signed[b].limit \in Nat /\ Signed[s].limit \in Nat
  BY <1>1 DEF OrderBody
<1>4. Signed[s].limit <= t.price /\ t.price <= Signed[b].limit
  BY <1>1, <1>2, <1>3
<1>5. t = Deal(v, i, Signed[b].by, Signed[s].by, b, s, n, t.price)
  BY DEF Trades, Deal
<1> QED
  BY <1>1, <1>4, <1>5 DEF Trades, Executes, Meet

LEMMA ExecuteFacts ==
  ASSUME TablesOK, NEW v \in Venue, NEW i \in Instrument, NEW b \in Order, NEW s \in Order,
         NEW n \in Nat, NEW t, Executes(v, i, b, s, n, t)
  PROVE  /\ b # s
         /\ Signed[b].venue = v /\ Signed[s].venue = v
         /\ Signed[b].inst = i /\ Signed[s].inst = i
         /\ Signed[b].side = "BUY" /\ Signed[s].side = "SELL"
         /\ orderStatus[b] \in Live /\ orderStatus[s] \in Live
         /\ remaining[b] - n \in Nat /\ remaining[s] - n \in Nat
<1>1. /\ Signed[b].venue = v /\ Signed[s].venue = v
      /\ Signed[b].inst = i /\ Signed[s].inst = i
      /\ Signed[b].side = "BUY" /\ Signed[s].side = "SELL"
      /\ orderStatus[b] \in Live /\ orderStatus[s] \in Live
  BY DEF Executes, LiveOrders
<1>2. remaining[b] \in Nat /\ remaining[s] \in Nat
  BY DEF TablesOK
<1> QED
  BY <1>1, <1>2 DEF Executes

LEMMA AtOnceType ==
  ASSUME TablesOK, AtOnce
  PROVE  TablesOK'
<1>1. ASSUME NEW v \in Venue, CreateVenue(v) PROVE TablesOK'
  BY <1>1 DEF TablesOK, ArgFits, CreateVenue, book, deals, talks, calls
<1>2. ASSUME NEW v \in Venue, RetireVenue(v) PROVE TablesOK'
  BY <1>2 DEF TablesOK, ArgFits, RetireVenue, book, deals, talks, calls
<1>3. ASSUME NEW i \in Instrument, DefineInstrument(i) PROVE TablesOK'
  BY <1>3 DEF TablesOK, ArgFits, DefineInstrument, book, deals, talks, calls
<1>4. ASSUME NEW i \in Instrument, WithdrawInstrument(i) PROVE TablesOK'
  BY <1>4 DEF TablesOK, ArgFits, WithdrawInstrument, book, deals, talks, calls
<1>5. ASSUME NEW v \in Venue, NEW i \in Instrument, MatchTrade(v, i) PROVE TablesOK'
  <2>1. PICK b \in Order, s \in Order, n \in Nat, t \in Deals : Trades(v, i, b, s, n, t)
    BY <1>5, TradeFacts
  <2>2. remaining[b] - n \in Nat /\ remaining[s] - n \in Nat
    BY <2>1, MeetFacts DEF Trades
  <2>3. remaining' \in [Order -> Nat]
        /\ orderStatus' \in [Order -> {"absent", "OPEN", "PARTIAL", "FILLED", "CANCELLED"}]
    BY <2>1, <2>2 DEF Trades, TablesOK
  <2>4. trades' \in Seq(Deals) /\ settled' \subseteq DOMAIN trades'
    BY <2>1 DEF Trades, TablesOK
  <2> QED
    BY <1>5, <2>1, <2>3, <2>4 DEF TablesOK, ArgFits, MatchTrade, Trades, market, talks, calls
<1>6. ASSUME NEW v \in Venue, NEW i \in Instrument, MatchSelf(v, i) PROVE TablesOK'
  BY <1>6 DEF TablesOK, ArgFits, MatchSelf, Newer, market, deals, talks, calls
<1>7. ASSUME NEW x \in Quote, AcceptQuote(x) PROVE TablesOK'
  <2> DEFINE r == Offered[x].rfq
             t == Deal(Asked[r].venue, Asked[r].inst, BuyerOf(x), SellerOf(x),
                       NoOrder, NoOrder, Asked[r].qty, Offered[x].price)
  <2>1. t \in Deals /\ r \in Rfq
    BY BodiesAssumption DEF Deal, Deals, BuyerOf, SellerOf, RfqBody, QuoteBody
  <2>2. trades' = Append(trades, t) /\ settled' = settled
    BY <1>7 DEF AcceptQuote
  <2> HIDE DEF t
  <2>3. trades' \in Seq(Deals) /\ settled' \subseteq DOMAIN trades'
    BY <2>1, <2>2 DEF TablesOK
  <2> QED
    BY <1>7, <2>1, <2>3 DEF TablesOK, ArgFits, AcceptQuote, market, book, calls
<1>8. ASSUME NEW k \in DOMAIN trades, Settle(k) PROVE TablesOK'
  BY <1>8 DEF TablesOK, ArgFits, Settle, Pending, MarkSettled, market, book, talks, calls
<1> QED
  BY <1>1, <1>2, <1>3, <1>4, <1>5, <1>6, <1>7, <1>8 DEF AtOnce

LEMMA TickType == TablesOK /\ Tick => TablesOK'
BY DEF TablesOK, ArgFits, Tick, market, book, deals, talks, calls

LEMMA StutterType == TablesOK /\ UNCHANGED vars => TablesOK'
BY DEF TablesOK, ArgFits, vars, market, book, deals, talks, calls

LEMMA NextTables == TablesOK /\ [Next]_vars => TablesOK'
BY CheckType, CommitType, AtOnceType, TickType, StutterType DEF Next

(* Only an issue and a settlement touch the balances.                       *)
LEMMA BalanceSteps ==
  ASSUME [Next]_vars
  PROVE  \/ balance' = balance
         \/ \E i \in Instrument : DefineInstrument(i)
         \/ \E k \in DOMAIN trades : Settle(k)
<1>1. ASSUME NEW q \in Proc, Check(q) \/ Commit(q) PROVE balance' = balance
  BY <1>1 DEF Check, DiscloseCheck, ListCheck, PlaceCheck, CancelCheck, RfqCheck, QuoteCheck, Commit,
              DiscloseCommit, ListCommit, PlaceCommit, CancelCommit, RfqCommit, QuoteCommit, Abandon
<1>2. CASE AtOnce
  BY <1>2 DEF AtOnce, CreateVenue, RetireVenue, WithdrawInstrument, MatchTrade, MatchSelf, AcceptQuote
<1>3. CASE Tick \/ UNCHANGED vars
  BY <1>3 DEF Tick, vars
<1> QED
  BY <1>1, <1>2, <1>3 DEF Next

LEMMA BalanceType ==
  ASSUME TypeOK, [Next]_vars
  PROVE  balance' \in [Instrument -> [Party -> Nat]]
<1>1. ASSUME NEW i \in Instrument, DefineInstrument(i)
      PROVE  balance' \in [Instrument -> [Party -> Nat]]
  BY <1>1, InstrumentAssumption DEF TypeOK, DefineInstrument
<1>2. ASSUME NEW k \in DOMAIN trades, Settle(k)
      PROVE  balance' \in [Instrument -> [Party -> Nat]]
  <2> DEFINE t == trades[k]
  <2>1. t \in Deals
    BY DEF TypeOK, TablesOK
  <2>2. t.inst \in Instrument /\ t.seller \in Party /\ t.qty \in Nat
        /\ balance[t.inst] \in [Party -> Nat] /\ t.qty <= balance[t.inst][t.seller]
    BY <1>2, <2>1 DEF Settle, TypeOK, Deals
  <2>3. Moved(t.inst, t.seller, t.buyer, t.qty) \in [Party -> Nat]
    <3> HIDE DEF t
    <3> QED BY <2>2 DEF Moved
  <2> QED
    BY <1>2, <2>1, <2>3 DEF Settle, TypeOK, Deals
<1> QED
  BY <1>1, <1>2, BalanceSteps DEF TypeOK

LEMMA NextType == TypeOK /\ [Next]_vars => TypeOK'
BY NextTables, BalanceType DEF TypeOK

(* The tables keep their types in every execution.                          *)
THEOREM TypeCorrect == Spec => []TypeOK
BY InitType, NextType, PTL DEF Spec

-----------------------------------------------------------------------------
(* What a step does to the units a party has promised.                      *)

OpenOf(i, p) == [o \in Order |-> IF SellsOpen(o, i, p) THEN remaining[o] ELSE 0]
PendingOf(i, p) ==
  [k \in DOMAIN trades |-> IF SellsPending(k, i, p) THEN trades[k].qty ELSE 0]

LEMMA TradesFinite ==
  ASSUME TablesOK
  PROVE  /\ IsFiniteSet(DOMAIN trades)
         /\ \A k \in DOMAIN trades : trades[k] \in Deals /\ trades[k].qty \in Nat
<1>1. DOMAIN trades = 1 .. Len(trades) /\ Len(trades) \in Nat
  BY DEF TablesOK
<1>2. IsFiniteSet(1 .. Len(trades))
  BY <1>1, FS_Interval
<1>3. \A k \in DOMAIN trades : trades[k] \in Deals
  BY DEF TablesOK
<1> QED BY <1>1, <1>2, <1>3 DEF Deals

LEMMA OpenType ==
  ASSUME TablesOK, NEW i, NEW p
  PROVE  OpenOf(i, p) \in [Order -> Nat] /\ OpenUnits(i, p) = Total(OpenOf(i, p))
         /\ OpenUnits(i, p) \in Nat
<1>1. OpenOf(i, p) \in [Order -> Nat]
  BY DEF OpenOf, TablesOK
<1>2. OpenUnits(i, p) = Total(OpenOf(i, p))
  BY DEF OpenUnits, OpenOf
<1> QED BY <1>1, <1>2, TotalType, FiniteAssumption

LEMMA PendingType ==
  ASSUME TablesOK, NEW i, NEW p
  PROVE  PendingOf(i, p) \in [DOMAIN trades -> Nat] /\ PendingUnits(i, p) = Total(PendingOf(i, p))
         /\ PendingUnits(i, p) \in Nat
<1>1. PendingOf(i, p) \in [DOMAIN trades -> Nat]
  BY TradesFinite DEF PendingOf
<1>2. PendingUnits(i, p) = Total(PendingOf(i, p))
  BY DEF PendingUnits, PendingOf
<1> QED BY <1>1, <1>2, TotalType, TradesFinite

LEMMA ReservedType ==
  ASSUME TablesOK, NEW i, NEW p
  PROVE  ReservedSell(i, p) = OpenUnits(i, p) + PendingUnits(i, p) /\ ReservedSell(i, p) \in Nat
BY OpenType, PendingType DEF ReservedSell

(* Of the sell orders only the row of o changes.                            *)
LEMMA OpenStep ==
  ASSUME TablesOK, TablesOK', NEW i, NEW p, NEW o \in Order,
         \A x \in Order \ {o} : Signed[x].side = "SELL" =>
           orderStatus'[x] = orderStatus[x] /\ remaining'[x] = remaining[x]
  PROVE  /\ OpenUnits(i, p)' \in Nat
         /\ OpenUnits(i, p)' + (IF SellsOpen(o, i, p) THEN remaining[o] ELSE 0)
            = OpenUnits(i, p) + (IF SellsOpen(o, i, p)' THEN remaining'[o] ELSE 0)
<1> DEFINE f == OpenOf(i, p)
           g == [x \in Order |-> IF SellsOpen(x, i, p)' THEN remaining'[x] ELSE 0]
<1>1. f \in [Order -> Nat] /\ OpenUnits(i, p) = Total(f)
  BY OpenType
<1>2. g \in [Order -> Nat]
  BY DEF TablesOK
<1>3. OpenUnits(i, p)' = Total(g)
  BY DEF OpenUnits
<1>4. \A x \in Order \ {o} : g[x] = f[x]
  BY DEF OpenOf, SellsOpen
<1>5. f[o] = (IF SellsOpen(o, i, p) THEN remaining[o] ELSE 0)
  BY DEF OpenOf
<1>6. g[o] = (IF SellsOpen(o, i, p)' THEN remaining'[o] ELSE 0)
  OBVIOUS
<1> HIDE DEF f, g
<1>7. Total(g) + f[o] = Total(f) + g[o] /\ Total(g) \in Nat
  BY <1>1, <1>2, <1>4, FiniteAssumption, TotalUpdate, TotalType
<1> QED BY <1>1, <1>3, <1>5, <1>6, <1>7

LEMMA OpenSame ==
  ASSUME UNCHANGED <<orderStatus, remaining>>, NEW i, NEW p
  PROVE  OpenUnits(i, p)' = OpenUnits(i, p)
BY DEF OpenUnits, SellsOpen

LEMMA PendingSame ==
  ASSUME UNCHANGED <<trades, settled>>, NEW i, NEW p
  PROVE  PendingUnits(i, p)' = PendingUnits(i, p)
BY DEF PendingUnits, SellsPending, Pending

(* A trade is executed: the table of trades has one row more.               *)
NewRow(m, t) ==
  /\ m \notin DOMAIN trades /\ m \notin settled
  /\ DOMAIN trades' = DOMAIN trades \cup {m} /\ trades'[m] = t
  /\ \A k \in DOMAIN trades : trades'[k] = trades[k]
  /\ settled' = settled

LEMMA AppendFacts ==
  ASSUME TablesOK, NEW t \in Deals, trades' = Append(trades, t), settled' = settled
  PROVE  \E m : NewRow(m, t)
<1> DEFINE m == Len(trades) + 1
<1>1. NewRow(m, t)
  BY DEF TablesOK, NewRow
<1> HIDE DEF m
<1> QED BY <1>1

(* A column summed over the trades, before and after.                       *)
LEMMA ColumnAppend ==
  ASSUME NEW t, NEW m, NewRow(m, t), IsFiniteSet(DOMAIN trades),
         NEW f \in [DOMAIN trades -> Nat], NEW g \in [DOMAIN trades' -> Nat],
         \A k \in DOMAIN trades : g[k] = f[k]
  PROVE  Total(g) = Total(f) + g[m]
<1>1. m \notin DOMAIN trades /\ DOMAIN trades' = DOMAIN trades \cup {m}
  BY DEF NewRow
<1>2. g \in [DOMAIN trades \cup {m} -> Nat]
  BY <1>1
<1> QED BY <1>1, <1>2, TotalExtend

LEMMA PendingAppend ==
  ASSUME TablesOK, NEW i, NEW p, NEW t \in Deals, NEW m, NewRow(m, t)
  PROVE  PendingUnits(i, p)' = PendingUnits(i, p)
                               + (IF t.inst = i /\ t.seller = p THEN t.qty ELSE 0)
<1> DEFINE f == PendingOf(i, p)
           g == [k \in DOMAIN trades' |-> IF SellsPending(k, i, p)' THEN trades'[k].qty ELSE 0]
<1>2. f \in [DOMAIN trades -> Nat] /\ PendingUnits(i, p) = Total(f)
  BY PendingType
<1>3. t.qty \in Nat
  BY DEF Deals
<1>4. PendingUnits(i, p)' = Total(g)
  BY DEF PendingUnits
<1>5. \A k \in DOMAIN trades : g[k] = f[k]
  BY DEF NewRow, PendingOf, SellsPending, Pending
<1>6. g[m] = IF t.inst = i /\ t.seller = p THEN t.qty ELSE 0
  BY DEF NewRow, SellsPending, Pending
<1>7. g \in [DOMAIN trades' -> Nat]
  BY <1>2, <1>3, <1>5, <1>6 DEF NewRow
<1> HIDE DEF f, g
<1>8. Total(g) = Total(f) + g[m]
  BY <1>2, <1>5, <1>7, TradesFinite, ColumnAppend
<1> QED BY <1>2, <1>4, <1>6, <1>8

(* Trade k settles.                                                         *)
LEMMA PendingSettle ==
  ASSUME TablesOK, NEW i, NEW p, NEW k \in Pending, trades' = trades, settled' = settled \cup {k}
  PROVE  /\ PendingUnits(i, p)' \in Nat
         /\ PendingUnits(i, p)' + (IF trades[k].inst = i /\ trades[k].seller = p
                                  THEN trades[k].qty ELSE 0) = PendingUnits(i, p)
<1> DEFINE f == PendingOf(i, p)
           g == [x \in DOMAIN trades |-> IF SellsPending(x, i, p)' THEN trades[x].qty ELSE 0]
<1>1. f \in [DOMAIN trades -> Nat] /\ PendingUnits(i, p) = Total(f)
  BY PendingType
<1>2. k \in DOMAIN trades /\ k \notin settled
  BY DEF Pending
<1>3. g \in [DOMAIN trades -> Nat]
  BY TradesFinite
<1>4. PendingUnits(i, p)' = Total(g)
  BY DEF PendingUnits
<1>5. \A x \in DOMAIN trades \ {k} : g[x] = f[x]
  BY DEF PendingOf, SellsPending, Pending
<1>6. g[k] = 0
  BY <1>2 DEF SellsPending, Pending
<1>7. f[k] = (IF trades[k].inst = i /\ trades[k].seller = p THEN trades[k].qty ELSE 0)
  BY <1>2 DEF PendingOf, SellsPending, Pending
<1> HIDE DEF f, g
<1>8. Total(g) + f[k] = Total(f) + g[k] /\ Total(g) \in Nat /\ Total(f) \in Nat
  BY <1>1, <1>2, <1>3, <1>5, TradesFinite, TotalUpdate, TotalType
<1>9. f[k] \in Nat
  BY <1>1, <1>2
<1> QED BY <1>1, <1>4, <1>6, <1>7, <1>8, <1>9

-----------------------------------------------------------------------------
(* The units each action reserves, releases or delivers.                    *)

LEMMA PlaceReserves ==
  ASSUME TablesOK, TablesOK', NEW q \in Proc, PlaceCommit(q), NEW i, NEW p,
         NEW o \in Order, o = arg[q]
  PROVE  ReservedSell(i, p)' = ReservedSell(i, p)
           + (IF Signed[o].side = "SELL" /\ Signed[o].inst = i /\ Signed[o].by = p
              THEN Signed[o].qty ELSE 0)
<1>1. /\ orderStatus[o] = "absent"
      /\ orderStatus'[o] = "OPEN" /\ remaining'[o] = Signed[o].qty
      /\ \A x \in Order \ {o} : orderStatus'[x] = orderStatus[x] /\ remaining'[x] = remaining[x]
      /\ UNCHANGED <<trades, settled>>
  BY DEF PlaceCommit, TablesOK, deals
<1>2. /\ OpenUnits(i, p)' \in Nat
      /\ OpenUnits(i, p)' + (IF SellsOpen(o, i, p) THEN remaining[o] ELSE 0)
         = OpenUnits(i, p) + (IF SellsOpen(o, i, p)' THEN remaining'[o] ELSE 0)
  BY <1>1, OpenStep
<1>3. ~SellsOpen(o, i, p)
  BY <1>1 DEF SellsOpen, Live
<1>4. SellsOpen(o, i, p)' <=> Signed[o].side = "SELL" /\ Signed[o].inst = i /\ Signed[o].by = p
  BY <1>1 DEF SellsOpen, Live
<1>5. OpenUnits(i, p)' = OpenUnits(i, p)
        + (IF Signed[o].side = "SELL" /\ Signed[o].inst = i /\ Signed[o].by = p
           THEN Signed[o].qty ELSE 0)
  <2>1. OpenUnits(i, p)' = OpenUnits(i, p) + (IF SellsOpen(o, i, p)' THEN Signed[o].qty ELSE 0)
    BY <1>1, <1>2, <1>3
  <2> QED BY <1>4, <2>1
<1>6. PendingUnits(i, p)' = PendingUnits(i, p)
  BY <1>1, PendingSame
<1>7. OpenUnits(i, p) \in Nat /\ PendingUnits(i, p) \in Nat /\ Signed[o].qty \in Nat
  BY OpenType, PendingType, BodiesAssumption DEF OrderBody
<1> QED BY <1>5, <1>6, <1>7 DEF ReservedSell

(* A cancelled order, by its owner or by the matcher, frees what remained.  *)
LEMMA CancelReleases ==
  ASSUME TablesOK, TablesOK', NEW o \in Order, NEW i, NEW p, UNCHANGED <<trades, settled>>,
         orderStatus' = [orderStatus EXCEPT ![o] = "CANCELLED"],
         \A x \in Order \ {o} : remaining'[x] = remaining[x]
  PROVE  /\ ReservedSell(i, p)' \in Nat
         /\ ReservedSell(i, p) = ReservedSell(i, p)'
              + (IF SellsOpen(o, i, p) THEN remaining[o] ELSE 0)
<1>1. /\ orderStatus'[o] = "CANCELLED"
      /\ \A x \in Order \ {o} : orderStatus'[x] = orderStatus[x]
  BY DEF TablesOK
<1>2. /\ OpenUnits(i, p)' \in Nat
      /\ OpenUnits(i, p)' + (IF SellsOpen(o, i, p) THEN remaining[o] ELSE 0)
         = OpenUnits(i, p) + (IF SellsOpen(o, i, p)' THEN remaining'[o] ELSE 0)
  BY <1>1, OpenStep
<1>3. ~SellsOpen(o, i, p)'
  BY <1>1 DEF SellsOpen, Live
<1>4. PendingUnits(i, p)' = PendingUnits(i, p)
  BY PendingSame
<1>5. OpenUnits(i, p) \in Nat /\ PendingUnits(i, p) \in Nat /\ remaining[o] \in Nat
  BY OpenType, PendingType DEF TablesOK
<1> QED BY <1>2, <1>3, <1>4, <1>5 DEF ReservedSell

(* A trade moves units from the seller's order to what it owes.             *)
LEMMA ExecuteReserves ==
  ASSUME TablesOK, TablesOK', NEW v \in Venue, NEW j \in Instrument, NEW b \in Order, NEW s \in Order,
         NEW n \in Nat, NEW t \in Deals, Executes(v, j, b, s, n, t), NEW i, NEW p
  PROVE  ReservedSell(i, p)' = ReservedSell(i, p)
<1>2. /\ b # s /\ Signed[b].side = "BUY" /\ Signed[s].side = "SELL" /\ Signed[s].inst = j
      /\ orderStatus[s] \in Live /\ remaining[s] - n \in Nat /\ n <= remaining[s]
  BY ExecuteFacts DEF Executes
<1>3. \A x \in Order \ {s} : Signed[x].side = "SELL" =>
        orderStatus'[x] = orderStatus[x] /\ remaining'[x] = remaining[x]
  BY <1>2 DEF Executes
<1>4. /\ OpenUnits(i, p)' \in Nat
      /\ OpenUnits(i, p)' + (IF SellsOpen(s, i, p) THEN remaining[s] ELSE 0)
         = OpenUnits(i, p) + (IF SellsOpen(s, i, p)' THEN remaining'[s] ELSE 0)
  BY <1>3, OpenStep
<1>5. /\ remaining'[s] = remaining[s] - n
      /\ orderStatus'[s] = IF remaining[s] - n = 0 THEN "FILLED" ELSE "PARTIAL"
  BY DEF Executes
<1>6. SellsOpen(s, i, p) <=> j = i /\ Signed[s].by = p
  BY <1>2 DEF SellsOpen
<1>7. SellsOpen(s, i, p)' <=> j = i /\ Signed[s].by = p /\ remaining[s] - n # 0
  BY <1>2, <1>5 DEF SellsOpen, Live
<1>8. /\ t.inst = j /\ t.seller = Signed[s].by /\ t.qty = n
      /\ trades' = Append(trades, t) /\ settled' = settled
  BY DEF Executes, Deal
<1>13. PICK m : NewRow(m, t)
  BY <1>8, AppendFacts
<1>9. PendingUnits(i, p)' = PendingUnits(i, p) + (IF t.inst = i /\ t.seller = p THEN t.qty ELSE 0)
  BY <1>13, PendingAppend
<1>10. OpenUnits(i, p) \in Nat /\ PendingUnits(i, p) \in Nat /\ remaining[s] \in Nat
  BY OpenType, PendingType DEF TablesOK
<1>11. CASE j = i /\ Signed[s].by = p
  <2>1. PendingUnits(i, p)' = PendingUnits(i, p) + n
    BY <1>8, <1>9, <1>11
  <2>2. OpenUnits(i, p)' + remaining[s] = OpenUnits(i, p) + (remaining[s] - n)
    <3>1. (IF SellsOpen(s, i, p)' THEN remaining'[s] ELSE 0) = remaining[s] - n
      BY <1>5, <1>7, <1>11
    <3> QED BY <1>4, <1>6, <1>11, <3>1
  <2> QED BY <1>2, <1>4, <1>10, <2>1, <2>2 DEF ReservedSell
<1>12. CASE ~(j = i /\ Signed[s].by = p)
  BY <1>4, <1>6, <1>7, <1>8, <1>9, <1>10, <1>12 DEF ReservedSell
<1> QED BY <1>11, <1>12

LEMMA MatchReserves ==
  ASSUME TablesOK, TablesOK', NEW v \in Venue, NEW j \in Instrument, MatchTrade(v, j), NEW i, NEW p
  PROVE  ReservedSell(i, p)' = ReservedSell(i, p)
<1>1. PICK b \in Order, s \in Order, n \in Nat, t \in Deals : Trades(v, j, b, s, n, t)
  BY TradeFacts
<1> QED BY <1>1, TradesExecute, ExecuteReserves

LEMMA AcceptReserves ==
  ASSUME TablesOK, NEW x \in Quote, AcceptQuote(x), NEW i, NEW p
  PROVE  LET r == Offered[x].rfq IN
         ReservedSell(i, p)' = ReservedSell(i, p)
           + (IF Asked[r].inst = i /\ SellerOf(x) = p THEN Asked[r].qty ELSE 0)
<1> DEFINE r == Offered[x].rfq
           t == Deal(Asked[r].venue, Asked[r].inst, BuyerOf(x), SellerOf(x),
                     NoOrder, NoOrder, Asked[r].qty, Offered[x].price)
<1>1. t \in Deals /\ t.inst = Asked[r].inst /\ t.seller = SellerOf(x) /\ t.qty = Asked[r].qty
      /\ Asked[r].qty \in Nat
  BY BodiesAssumption DEF Deal, Deals, BuyerOf, SellerOf, RfqBody, QuoteBody
<1>2. trades' = Append(trades, t) /\ settled' = settled /\ UNCHANGED <<orderStatus, remaining>>
  BY DEF AcceptQuote, book
<1> HIDE DEF t
<1>6. PICK m : NewRow(m, t)
  BY <1>1, <1>2, AppendFacts
<1>3. PendingUnits(i, p)' = PendingUnits(i, p) + (IF t.inst = i /\ t.seller = p THEN t.qty ELSE 0)
  BY <1>1, <1>6, PendingAppend
<1>4. OpenUnits(i, p)' = OpenUnits(i, p)
  BY <1>2, OpenSame
<1>5. OpenUnits(i, p) \in Nat /\ PendingUnits(i, p) \in Nat
  BY OpenType, PendingType
<1> QED BY <1>1, <1>3, <1>4, <1>5 DEF ReservedSell

LEMMA SettleDelivers ==
  ASSUME TablesOK, NEW k \in DOMAIN trades, Settle(k), NEW i, NEW p
  PROVE  /\ ReservedSell(i, p)' \in Nat
         /\ ReservedSell(i, p) = ReservedSell(i, p)'
              + (IF trades[k].inst = i /\ trades[k].seller = p THEN trades[k].qty ELSE 0)
<1>1. k \in Pending /\ trades' = trades /\ settled' = settled \cup {k}
      /\ UNCHANGED <<orderStatus, remaining>>
  BY DEF Settle, MarkSettled, book
<1>2. /\ PendingUnits(i, p)' \in Nat
      /\ PendingUnits(i, p)' + (IF trades[k].inst = i /\ trades[k].seller = p
                               THEN trades[k].qty ELSE 0) = PendingUnits(i, p)
  BY <1>1, PendingSettle
<1>3. OpenUnits(i, p)' = OpenUnits(i, p)
  BY <1>1, OpenSame
<1>4. OpenUnits(i, p) \in Nat /\ trades[k].qty \in Nat
  BY OpenType, TradesFinite
<1> QED BY <1>2, <1>3, <1>4 DEF ReservedSell

LEMMA OthersKeep ==
  ASSUME UNCHANGED <<book, deals>>, NEW i, NEW p
  PROVE  ReservedSell(i, p)' = ReservedSell(i, p)
BY OpenSame, PendingSame DEF ReservedSell, book, deals

-----------------------------------------------------------------------------
(* The other sums over the trades.                                          *)

ExecutedOf(o) == [k \in DOMAIN trades |-> IF o \in {trades[k].buy, trades[k].sell}
                                          THEN trades[k].qty ELSE 0]
BoughtOf(i, p) ==
  [k \in DOMAIN trades |-> IF k \in settled /\ trades[k].inst = i /\ trades[k].buyer = p
                           THEN trades[k].qty ELSE 0]
SoldOf(i, p) ==
  [k \in DOMAIN trades |-> IF k \in settled /\ trades[k].inst = i /\ trades[k].seller = p
                           THEN trades[k].qty ELSE 0]

LEMMA ColumnsType ==
  ASSUME TablesOK, NEW o, NEW i, NEW p
  PROVE  /\ ExecutedOf(o) \in [DOMAIN trades -> Nat] /\ Executed(o) = Total(ExecutedOf(o))
         /\ BoughtOf(i, p) \in [DOMAIN trades -> Nat] /\ Bought(i, p) = Total(BoughtOf(i, p))
         /\ SoldOf(i, p) \in [DOMAIN trades -> Nat] /\ Sold(i, p) = Total(SoldOf(i, p))
         /\ Executed(o) \in Nat /\ Bought(i, p) \in Nat /\ Sold(i, p) \in Nat
<1>1. /\ ExecutedOf(o) \in [DOMAIN trades -> Nat] /\ BoughtOf(i, p) \in [DOMAIN trades -> Nat]
      /\ SoldOf(i, p) \in [DOMAIN trades -> Nat]
  BY TradesFinite DEF ExecutedOf, BoughtOf, SoldOf
<1>2. /\ Executed(o) = Total(ExecutedOf(o)) /\ Bought(i, p) = Total(BoughtOf(i, p))
      /\ Sold(i, p) = Total(SoldOf(i, p))
  BY DEF Executed, Bought, Sold, ExecutedOf, BoughtOf, SoldOf
<1>3. Executed(o) \in Nat
  BY <1>1, <1>2, TradesFinite, TotalType
<1>4. Bought(i, p) \in Nat
  BY <1>1, <1>2, TradesFinite, TotalType
<1>5. Sold(i, p) \in Nat
  BY <1>1, <1>2, TradesFinite, TotalType
<1> QED BY <1>1, <1>2, <1>3, <1>4, <1>5

LEMMA ColumnsSame ==
  ASSUME UNCHANGED <<trades, settled>>, NEW o, NEW i, NEW p
  PROVE  Executed(o)' = Executed(o) /\ Bought(i, p)' = Bought(i, p) /\ Sold(i, p)' = Sold(i, p)
BY DEF Executed, Bought, Sold

LEMMA ExecutedAppend ==
  ASSUME TablesOK, NEW o, NEW t \in Deals, NEW m, NewRow(m, t)
  PROVE  Executed(o)' = Executed(o) + (IF o \in {t.buy, t.sell} THEN t.qty ELSE 0)
<1> DEFINE f == ExecutedOf(o)
           g == [k \in DOMAIN trades' |-> IF o \in {trades'[k].buy, trades'[k].sell}
                                          THEN trades'[k].qty ELSE 0]
<1>1. f \in [DOMAIN trades -> Nat] /\ Executed(o) = Total(f)
  BY ColumnsType
<1>2. Executed(o)' = Total(g)
  BY DEF Executed
<1>3. \A k \in DOMAIN trades : g[k] = f[k]
  BY DEF NewRow, ExecutedOf
<1>4. g[m] = IF o \in {t.buy, t.sell} THEN t.qty ELSE 0
  BY DEF NewRow
<1>5. g \in [DOMAIN trades' -> Nat]
  BY <1>1, <1>3, <1>4 DEF NewRow, Deals
<1> HIDE DEF f, g
<1>6. Total(g) = Total(f) + g[m]
  BY <1>1, <1>3, <1>5, TradesFinite, ColumnAppend
<1> QED BY <1>1, <1>2, <1>4, <1>6

(* A new trade is not settled.                                              *)
LEMMA MovedAppend ==
  ASSUME TablesOK, NEW i, NEW p, NEW t \in Deals, NEW m, NewRow(m, t)
  PROVE  Bought(i, p)' = Bought(i, p) /\ Sold(i, p)' = Sold(i, p)
<1> DEFINE f == BoughtOf(i, p)
           g == [k \in DOMAIN trades' |->
                   IF k \in settled' /\ trades'[k].inst = i /\ trades'[k].buyer = p
                   THEN trades'[k].qty ELSE 0]
           f2 == SoldOf(i, p)
           g2 == [k \in DOMAIN trades' |->
                   IF k \in settled' /\ trades'[k].inst = i /\ trades'[k].seller = p
                   THEN trades'[k].qty ELSE 0]
<1>1. /\ f \in [DOMAIN trades -> Nat] /\ Bought(i, p) = Total(f) /\ Total(f) \in Nat
      /\ f2 \in [DOMAIN trades -> Nat] /\ Sold(i, p) = Total(f2) /\ Total(f2) \in Nat
  BY ColumnsType
<1>2. Bought(i, p)' = Total(g) /\ Sold(i, p)' = Total(g2)
  BY DEF Bought, Sold
<1>3. \A k \in DOMAIN trades : g[k] = f[k] /\ g2[k] = f2[k]
  BY DEF NewRow, BoughtOf, SoldOf
<1>4. g[m] = 0 /\ g2[m] = 0
  BY DEF NewRow
<1>5. g \in [DOMAIN trades' -> Nat] /\ g2 \in [DOMAIN trades' -> Nat]
  <2>1. DOMAIN trades' = DOMAIN trades \cup {m}
    BY DEF NewRow
  <2>2. \A k \in DOMAIN trades' : g[k] \in Nat /\ g2[k] \in Nat
    BY <1>1, <1>3, <1>4, <2>1
  <2> QED BY <2>2
<1> HIDE DEF f, g, f2, g2
<1>6. Total(g) = Total(f) + g[m]
  BY <1>1, <1>3, <1>5, TradesFinite, ColumnAppend
<1>7. Total(g2) = Total(f2) + g2[m]
  BY <1>1, <1>3, <1>5, TradesFinite, ColumnAppend
<1> QED BY <1>1, <1>2, <1>4, <1>6, <1>7

LEMMA MovedSettle ==
  ASSUME TablesOK, NEW i, NEW p, NEW k \in Pending, trades' = trades, settled' = settled \cup {k}
  PROVE  /\ Bought(i, p)' = Bought(i, p) + (IF trades[k].inst = i /\ trades[k].buyer = p
                                            THEN trades[k].qty ELSE 0)
         /\ Sold(i, p)' = Sold(i, p) + (IF trades[k].inst = i /\ trades[k].seller = p
                                        THEN trades[k].qty ELSE 0)
<1> DEFINE f == BoughtOf(i, p)
           g == [x \in DOMAIN trades |->
                   IF x \in settled' /\ trades[x].inst = i /\ trades[x].buyer = p
                   THEN trades[x].qty ELSE 0]
           f2 == SoldOf(i, p)
           g2 == [x \in DOMAIN trades |->
                   IF x \in settled' /\ trades[x].inst = i /\ trades[x].seller = p
                   THEN trades[x].qty ELSE 0]
<1>1. /\ f \in [DOMAIN trades -> Nat] /\ Bought(i, p) = Total(f) /\ Total(f) \in Nat
      /\ f2 \in [DOMAIN trades -> Nat] /\ Sold(i, p) = Total(f2) /\ Total(f2) \in Nat
  BY ColumnsType
<1>2. k \in DOMAIN trades /\ k \notin settled
  BY DEF Pending
<1>3. g \in [DOMAIN trades -> Nat] /\ g2 \in [DOMAIN trades -> Nat]
  BY TradesFinite
<1>4. Bought(i, p)' = Total(g) /\ Sold(i, p)' = Total(g2)
  BY DEF Bought, Sold
<1>5. \A x \in DOMAIN trades \ {k} : g[x] = f[x] /\ g2[x] = f2[x]
  BY DEF BoughtOf, SoldOf
<1>6. f[k] = 0 /\ f2[k] = 0
  BY <1>2 DEF BoughtOf, SoldOf
<1>7. /\ g[k] = (IF trades[k].inst = i /\ trades[k].buyer = p THEN trades[k].qty ELSE 0)
      /\ g2[k] = (IF trades[k].inst = i /\ trades[k].seller = p THEN trades[k].qty ELSE 0)
  BY <1>2
<1> HIDE DEF f, g, f2, g2
<1>8. Total(g) + f[k] = Total(f) + g[k] /\ Total(g) \in Nat
  BY <1>1, <1>2, <1>3, <1>5, TradesFinite, TotalUpdate, TotalType
<1>9. Total(g2) + f2[k] = Total(f2) + g2[k] /\ Total(g2) \in Nat
  BY <1>1, <1>2, <1>3, <1>5, TradesFinite, TotalUpdate, TotalType
<1> QED BY <1>1, <1>4, <1>6, <1>7, <1>8, <1>9

-----------------------------------------------------------------------------
(* The invariant.                                                           *)

LEMMA InitInv == Init => IInv
<1> SUFFICES ASSUME Init PROVE IInv
  OBVIOUS
<1>1. TypeOK /\ TablesOK
  BY InitType DEF TypeOK
<1>2. DOMAIN trades = {} /\ settled = {} /\ Pending = {}
  BY DEF Init, Pending
<1>3. ASSUME NEW o, NEW i, NEW p PROVE Executed(o) = 0 /\ Bought(i, p) = 0 /\ Sold(i, p) = 0
  <2>1. /\ ExecutedOf(o) \in [DOMAIN trades -> Nat] /\ Executed(o) = Total(ExecutedOf(o))
        /\ BoughtOf(i, p) \in [DOMAIN trades -> Nat] /\ Bought(i, p) = Total(BoughtOf(i, p))
        /\ SoldOf(i, p) \in [DOMAIN trades -> Nat] /\ Sold(i, p) = Total(SoldOf(i, p))
    BY <1>1, ColumnsType
  <2>2. Total(ExecutedOf(o)) = 0 /\ Total(BoughtOf(i, p)) = 0 /\ Total(SoldOf(i, p)) = 0
    BY <1>2, <2>1, TotalZero
  <2> QED BY <2>1, <2>2
<1>4. ASSUME NEW i, NEW p PROVE ReservedSell(i, p) = 0
  <2>1. /\ OpenOf(i, p) \in [Order -> Nat] /\ OpenUnits(i, p) = Total(OpenOf(i, p))
        /\ PendingOf(i, p) \in [DOMAIN trades -> Nat] /\ PendingUnits(i, p) = Total(PendingOf(i, p))
    BY <1>1, OpenType, PendingType
  <2>2. \A o \in Order : OpenOf(i, p)[o] = 0
    BY DEF OpenOf, Init
  <2>3. Total(OpenOf(i, p)) = 0
    BY <2>1, <2>2, TotalZero
  <2>4. Total(PendingOf(i, p)) = 0
    BY <1>2, <2>1, TotalZero
  <2> QED BY <2>1, <2>3, <2>4 DEF ReservedSell
<1>5. Unissued /\ SellsCovered
  BY <1>4 DEF Unissued, SellsCovered, Init
<1>6. NoOverfill
  <2> SUFFICES ASSUME NEW o \in Order PROVE AddsUp(o)
    BY DEF NoOverfill
  <2>1. Signed[o].qty \in Nat
    BY BodiesAssumption DEF OrderBody
  <2> QED BY <1>3, <2>1 DEF AddsUp, Init, Live
<1>7. FairTrades
  BY <1>2 DEF FairTrades
<1>8. LedgerExplained
  BY <1>3 DEF LedgerExplained, Granted, Init
<1> QED BY <1>1, <1>5, <1>6, <1>7, <1>8 DEF IInv

(* Which orders and balances the sums depend on.                            *)
LEMMA AddsUpSame ==
  ASSUME NEW o \in Order, AddsUp(o), Executed(o)' = Executed(o),
         orderStatus'[o] = orderStatus[o], remaining'[o] = remaining[o]
  PROVE  AddsUp(o)'
BY DEF AddsUp

(* A step that leaves orders, trades and balances alone.                    *)
LEMMA QuietInv ==
  ASSUME IInv, TypeOK', UNCHANGED <<book, deals, balance>>,
         \A i \in Instrument : (instStatus'[i] = "absent") <=> (instStatus[i] = "absent")
  PROVE  IInv'
<1>1. UNCHANGED <<trades, settled>> /\ UNCHANGED <<orderStatus, remaining>>
  BY DEF book, deals
<1>2. Unissued'
  BY DEF IInv, Unissued
<1>3. SellsCovered'
  BY OthersKeep DEF IInv, SellsCovered
<1>4. NoOverfill'
  BY <1>1, ColumnsSame, AddsUpSame DEF IInv, NoOverfill
<1>5. FairTrades'
  BY <1>1 DEF IInv, FairTrades, FairTrade
<1>6. LedgerExplained'
  BY <1>1, ColumnsSame DEF IInv, LedgerExplained, Granted
<1> QED BY <1>2, <1>3, <1>4, <1>5, <1>6 DEF IInv

LEMMA DefineInv ==
  ASSUME IInv, TypeOK', NEW j \in Instrument, DefineInstrument(j)
  PROVE  IInv'
<1>1. /\ UNCHANGED <<trades, settled>> /\ UNCHANGED <<orderStatus, remaining>>
      /\ UNCHANGED <<book, deals>>
      /\ instStatus[j] = "absent" /\ instStatus' = [instStatus EXCEPT ![j] = "ACTIVE"]
      /\ balance' = [balance EXCEPT ![j][Issuer[j]] = Units[j]]
  BY DEF DefineInstrument, book, deals
<1>2. /\ TypeOK /\ TablesOK /\ \A p \in Party : balance[j][p] = 0
      /\ Issuer[j] \in Party /\ Units[j] \in Nat
  BY <1>1, InstrumentAssumption DEF IInv, Unissued, TypeOK
<1>3. /\ \A i \in Instrument \ {j} : balance'[i] = balance[i] /\ instStatus'[i] = instStatus[i]
      /\ \A p \in Party : balance'[j][p] = IF p = Issuer[j] THEN Units[j] ELSE 0
      /\ instStatus'[j] = "ACTIVE"
  BY <1>1, <1>2 DEF TypeOK, TablesOK
<1>4. Unissued'
  BY <1>3 DEF IInv, Unissued
<1>5. SellsCovered'
  <2> SUFFICES ASSUME NEW i \in Instrument, NEW p \in Party
               PROVE  ReservedSell(i, p)' <= balance'[i][p]
    BY DEF SellsCovered
  <2>1. ReservedSell(i, p)' = ReservedSell(i, p) /\ ReservedSell(i, p) \in Nat
        /\ ReservedSell(i, p) <= balance[i][p]
    BY <1>1, <1>2, OthersKeep, ReservedType DEF IInv, SellsCovered
  <2>2. CASE i = j
    BY <1>2, <1>3, <2>1, <2>2
  <2>3. CASE i # j
    BY <1>3, <2>1, <2>3
  <2> QED BY <2>2, <2>3
<1>6. NoOverfill'
  BY <1>1, ColumnsSame, AddsUpSame DEF IInv, NoOverfill
<1>7. FairTrades'
  BY <1>1 DEF IInv, FairTrades, FairTrade
<1>8. LedgerExplained'
  <2> SUFFICES ASSUME NEW i \in Instrument, NEW p \in Party
               PROVE  balance'[i][p] + Sold(i, p)' = Granted(i, p)' + Bought(i, p)'
    BY DEF LedgerExplained
  <2>1. /\ Sold(i, p)' = Sold(i, p) /\ Bought(i, p)' = Bought(i, p)
        /\ Sold(i, p) \in Nat /\ Bought(i, p) \in Nat
        /\ balance[i][p] + Sold(i, p) = Granted(i, p) + Bought(i, p)
    BY <1>1, <1>2, ColumnsSame, ColumnsType DEF IInv, LedgerExplained
  <2>2. CASE i = j
    <3>1. Sold(i, p) = Bought(i, p)
      BY <1>1, <1>2, <2>1, <2>2 DEF Granted
    <3>2. Granted(i, p)' = IF p = Issuer[j] THEN Units[j] ELSE 0
      BY <1>3, <2>2 DEF Granted
    <3> QED BY <1>2, <1>3, <2>1, <2>2, <3>1, <3>2
  <2>3. CASE i # j
    BY <1>3, <2>1, <2>3 DEF Granted
  <2> QED BY <2>2, <2>3
<1> QED BY <1>4, <1>5, <1>6, <1>7, <1>8 DEF IInv

LEMMA PlaceInv ==
  ASSUME IInv, TypeOK', NEW q \in Proc, PlaceCommit(q)
  PROVE  IInv'
<1>1. TypeOK /\ TablesOK /\ TablesOK' /\ arg[q] \in Order
  BY DEF IInv, TypeOK, TablesOK, ArgFits, PlaceCommit
<1>2. PICK o \in Order : o = arg[q]
  BY <1>1
<1>3. /\ orderStatus[o] = "absent" /\ SellCovered(o)
      /\ orderStatus'[o] = "OPEN" /\ remaining'[o] = Signed[o].qty
      /\ \A x \in Order \ {o} : orderStatus'[x] = orderStatus[x] /\ remaining'[x] = remaining[x]
      /\ UNCHANGED <<trades, settled>> /\ balance' = balance /\ instStatus' = instStatus
  BY <1>1, <1>2 DEF PlaceCommit, TypeOK, TablesOK, deals, market
<1>4. Signed[o].qty \in Nat \ {0}
  BY BodiesAssumption DEF OrderBody
<1>5. Unissued'
  BY <1>3 DEF IInv, Unissued
<1>6. SellsCovered'
  <2> SUFFICES ASSUME NEW i \in Instrument, NEW p \in Party
               PROVE  ReservedSell(i, p)' <= balance'[i][p]
    BY DEF SellsCovered
  <2>1. ReservedSell(i, p)' = ReservedSell(i, p)
          + (IF Signed[o].side = "SELL" /\ Signed[o].inst = i /\ Signed[o].by = p
             THEN Signed[o].qty ELSE 0)
    BY <1>1, <1>2, PlaceReserves
  <2>2. ReservedSell(i, p) \in Nat /\ ReservedSell(i, p) <= balance[i][p]
    BY <1>1, ReservedType DEF IInv, SellsCovered
  <2>3. CASE Signed[o].side = "SELL" /\ Signed[o].inst = i /\ Signed[o].by = p
    <3>1. ReservedSell(i, p) + Signed[o].qty <= balance[i][p]
      BY <1>3, <2>3 DEF SellCovered, Available
    <3> QED BY <1>3, <2>1, <2>3, <3>1
  <2>4. CASE ~(Signed[o].side = "SELL" /\ Signed[o].inst = i /\ Signed[o].by = p)
    <3>1. ReservedSell(i, p)' = ReservedSell(i, p) + 0
      BY <2>1, <2>4
    <3> QED BY <1>3, <2>2, <3>1
  <2> QED BY <2>3, <2>4
<1>7. NoOverfill'
  <2> SUFFICES ASSUME NEW x \in Order PROVE AddsUp(x)'
    BY DEF NoOverfill
  <2>1. Executed(x)' = Executed(x) /\ AddsUp(x)
    BY <1>3, ColumnsSame DEF IInv, NoOverfill
  <2>2. CASE x = o
    BY <1>3, <1>4, <2>1, <2>2 DEF AddsUp, Live
  <2>3. CASE x # o
    BY <1>3, <2>1, <2>3, AddsUpSame
  <2> QED BY <2>2, <2>3
<1>8. FairTrades' /\ LedgerExplained'
  BY <1>3, ColumnsSame DEF IInv, FairTrades, FairTrade, LedgerExplained, Granted
<1> QED BY <1>5, <1>6, <1>7, <1>8 DEF IInv

(* Order o is cancelled, by its owner or by the matcher.                     *)
LEMMA CancelledInv ==
  ASSUME IInv, TypeOK', NEW o \in Order, UNCHANGED <<trades, settled>>, balance' = balance,
         instStatus' = instStatus, orderStatus' = [orderStatus EXCEPT ![o] = "CANCELLED"],
         \A x \in Order \ {o} : remaining'[x] = remaining[x]
  PROVE  IInv'
<1>t. TypeOK /\ TablesOK /\ TablesOK'
  BY DEF IInv, TypeOK
<1>1. orderStatus'[o] = "CANCELLED" /\ \A x \in Order \ {o} : orderStatus'[x] = orderStatus[x]
  BY <1>t DEF TablesOK
<1>2. SellsCovered'
  <2> SUFFICES ASSUME NEW i \in Instrument, NEW p \in Party
               PROVE  ReservedSell(i, p)' <= balance'[i][p]
    BY DEF SellsCovered
  <2>1. /\ ReservedSell(i, p)' \in Nat
        /\ ReservedSell(i, p) = ReservedSell(i, p)'
             + (IF SellsOpen(o, i, p) THEN remaining[o] ELSE 0)
    BY <1>t, <1>1, CancelReleases
  <2>2. ReservedSell(i, p) \in Nat /\ ReservedSell(i, p) <= balance[i][p]
    BY <1>t, <1>1, ReservedType DEF IInv, SellsCovered
  <2>3. remaining[o] \in Nat /\ balance[i][p] \in Nat
    BY <1>t, <1>1 DEF TypeOK, TablesOK
  <2> QED BY <2>1, <2>2, <2>3
<1>3. NoOverfill'
  <2> SUFFICES ASSUME NEW x \in Order PROVE AddsUp(x)'
    BY DEF NoOverfill
  <2>1. Executed(x)' = Executed(x) /\ AddsUp(x)
    BY ColumnsSame DEF IInv, NoOverfill
  <2>2. CASE x = o
    BY <1>t, <1>1, <2>1, <2>2 DEF AddsUp, Live
  <2>3. CASE x # o
    BY <1>t, <1>1, <2>1, <2>3, AddsUpSame
  <2> QED BY <2>2, <2>3
<1>4. FairTrades' /\ LedgerExplained' /\ Unissued'
  BY ColumnsSame DEF IInv, FairTrades, FairTrade, LedgerExplained, Granted, Unissued
<1> QED BY <1>2, <1>3, <1>4 DEF IInv

LEMMA ExecuteInv ==
  ASSUME IInv, TypeOK', NEW v \in Venue, NEW j \in Instrument, NEW b \in Order, NEW s \in Order,
         NEW n \in Nat, NEW t \in Deals, Executes(v, j, b, s, n, t), Signed[b].by # Signed[s].by,
         n > 0, balance' = balance, instStatus' = instStatus
  PROVE  IInv'
<1>1. TypeOK /\ TablesOK /\ TablesOK'
  BY DEF IInv, TypeOK
<1>3. /\ b # s /\ Signed[b].venue = v /\ Signed[s].venue = v
      /\ Signed[b].inst = j /\ Signed[s].inst = j
      /\ Signed[b].side = "BUY" /\ Signed[s].side = "SELL"
      /\ orderStatus[b] \in Live /\ orderStatus[s] \in Live
      /\ remaining[b] - n \in Nat /\ remaining[s] - n \in Nat
  BY <1>1, ExecuteFacts
<1>6. /\ t = Deal(v, j, Signed[b].by, Signed[s].by, b, s, n, t.price)
      /\ Signed[s].limit <= t.price /\ t.price <= Signed[b].limit
      /\ trades' = Append(trades, t) /\ settled' = settled
  BY DEF Executes
<1>7. /\ t.buy = b /\ t.sell = s /\ t.qty = n /\ t.venue = v /\ t.inst = j
      /\ t.buyer = Signed[b].by /\ t.seller = Signed[s].by
  BY <1>6 DEF Deal
<1>8. PICK m : NewRow(m, t)
  BY <1>1, <1>6, AppendFacts
<1>10. SellsCovered'
  BY <1>1, ExecuteReserves DEF IInv, SellsCovered
<1>11. NoOverfill'
  <2> SUFFICES ASSUME NEW x \in Order PROVE AddsUp(x)'
    BY DEF NoOverfill
  <2>1. Executed(x)' = Executed(x) + (IF x \in {b, s} THEN n ELSE 0)
    BY <1>1, <1>7, <1>8, ExecutedAppend
  <2>2. AddsUp(x) /\ Executed(x) \in Nat
    BY <1>1, ColumnsType DEF IInv, NoOverfill
  <2>3. CASE x \in {b, s}
    <3>1. remaining'[x] = remaining[x] - n /\ remaining[x] - n \in Nat
          /\ orderStatus[x] \in Live
          /\ orderStatus'[x] = IF remaining[x] - n = 0 THEN "FILLED" ELSE "PARTIAL"
      BY <1>3, <2>3 DEF Executes
    <3>2. Executed(x) + remaining[x] = Signed[x].qty /\ Executed(x)' = Executed(x) + n
      BY <2>1, <2>2, <2>3, <3>1 DEF AddsUp
    <3>3. remaining[x] \in Nat
      BY <1>1 DEF TypeOK, TablesOK
    <3>4. Executed(x)' + remaining'[x] = Signed[x].qty /\ Executed(x)' <= Signed[x].qty
      BY <2>2, <3>1, <3>2, <3>3
    <3>5. Executed(x)' \in Nat
      BY <2>2, <3>2
    <3>6. CASE remaining[x] - n = 0
      BY <3>1, <3>4, <3>5, <3>6 DEF AddsUp, Live
    <3>7. CASE remaining[x] - n # 0
      BY <3>1, <3>4, <3>7 DEF AddsUp, Live
    <3> QED BY <3>6, <3>7
  <2>4. CASE x \notin {b, s}
    <3>1. Executed(x)' = Executed(x)
      BY <2>1, <2>2, <2>4
    <3>2. orderStatus'[x] = orderStatus[x] /\ remaining'[x] = remaining[x]
      BY <2>4 DEF Executes
    <3> QED BY <2>2, <3>1, <3>2, AddsUpSame
  <2> QED BY <2>3, <2>4
<1>12. FairTrade(t)
  BY <1>3, <1>6, <1>7 DEF FairTrade
<1>13. FairTrades'
  BY <1>8, <1>12 DEF IInv, FairTrades, FairTrade, NewRow
<1>14. LedgerExplained'
  BY <1>1, <1>8, MovedAppend DEF IInv, LedgerExplained, Granted
<1>15. Unissued'
  BY DEF IInv, Unissued
<1> QED BY <1>10, <1>11, <1>13, <1>14, <1>15 DEF IInv

LEMMA MatchInv ==
  ASSUME IInv, TypeOK', NEW v \in Venue, NEW j \in Instrument, MatchTrade(v, j)
  PROVE  IInv'
<1>1. TypeOK /\ TablesOK
  BY DEF IInv, TypeOK
<1>2. PICK b \in Order, s \in Order, n \in Nat, t \in Deals :
        Trades(v, j, b, s, n, t) /\ Signed[b].by # Signed[s].by
  BY <1>1, TradeFacts
<1>3. Executes(v, j, b, s, n, t) /\ (remaining[b] > 0 /\ remaining[s] > 0 => n > 0)
  BY <1>1, <1>2, TradesExecute
<1>4. orderStatus[b] \in Live /\ orderStatus[s] \in Live /\ AddsUp(b) /\ AddsUp(s)
  BY <1>1, <1>3, ExecuteFacts DEF IInv, NoOverfill
<1>5. n > 0
  BY <1>3, <1>4 DEF AddsUp
<1>6. balance' = balance /\ instStatus' = instStatus
  BY DEF MatchTrade, market
<1> QED BY <1>2, <1>3, <1>5, <1>6, ExecuteInv

LEMMA AcceptInv ==
  ASSUME IInv, TypeOK', NEW x \in Quote, AcceptQuote(x)
  PROVE  IInv'
<1> DEFINE r == Offered[x].rfq
           t == Deal(Asked[r].venue, Asked[r].inst, BuyerOf(x), SellerOf(x),
                     NoOrder, NoOrder, Asked[r].qty, Offered[x].price)
<1>1. TypeOK /\ TablesOK
  BY DEF IInv, TypeOK
<1>2. /\ t \in Deals /\ t.buy = NoOrder /\ t.sell = NoOrder
      /\ Asked[r].qty \in Nat \ {0} /\ t.qty = Asked[r].qty
      /\ Asked[r].inst \in Instrument /\ SellerOf(x) \in Party
  BY BodiesAssumption DEF Deal, Deals, BuyerOf, SellerOf, RfqBody, QuoteBody
<1>3. /\ trades' = Append(trades, t) /\ settled' = settled
      /\ UNCHANGED <<orderStatus, remaining>> /\ balance' = balance /\ instStatus' = instStatus
      /\ Available(Asked[r].inst, SellerOf(x), Asked[r].qty)
  BY DEF AcceptQuote, book, market, StillAvailable
<1>4. ASSUME NEW i, NEW p
      PROVE  ReservedSell(i, p)' = ReservedSell(i, p)
               + (IF Asked[r].inst = i /\ SellerOf(x) = p THEN Asked[r].qty ELSE 0)
  BY <1>1, AcceptReserves
<1> HIDE DEF t, r
<1>5. PICK m : NewRow(m, t)
  BY <1>1, <1>2, <1>3, AppendFacts
<1>6. SellsCovered'
  <2> SUFFICES ASSUME NEW i \in Instrument, NEW p \in Party
               PROVE  ReservedSell(i, p)' <= balance'[i][p]
    BY DEF SellsCovered
  <2>1. ReservedSell(i, p) \in Nat /\ ReservedSell(i, p) <= balance[i][p]
    BY <1>1, ReservedType DEF IInv, SellsCovered
  <2>2. CASE Asked[r].inst = i /\ SellerOf(x) = p
    <3>1. ReservedSell(i, p)' = ReservedSell(i, p) + Asked[r].qty
      BY <1>4, <2>2
    <3>2. ReservedSell(i, p) + Asked[r].qty <= balance[i][p]
      BY <1>3, <2>2 DEF Available
    <3> QED BY <1>3, <3>1, <3>2
  <2>3. CASE ~(Asked[r].inst = i /\ SellerOf(x) = p)
    <3>1. ReservedSell(i, p)' = ReservedSell(i, p) + 0
      BY <1>4, <2>3
    <3> QED BY <1>3, <2>1, <3>1
  <2> QED BY <2>2, <2>3
<1>7. NoOverfill'
  <2> SUFFICES ASSUME NEW o \in Order PROVE AddsUp(o)'
    BY DEF NoOverfill
  <2>1. Executed(o)' = Executed(o) + (IF o \in {t.buy, t.sell} THEN t.qty ELSE 0)
    BY <1>1, <1>2, <1>5, ExecutedAppend
  <2>2. o \notin {t.buy, t.sell} /\ Executed(o) \in Nat
    BY <1>1, <1>2, FiniteAssumption, ColumnsType
  <2>3. Executed(o)' = Executed(o)
    BY <2>1, <2>2
  <2> QED BY <1>3, <2>3, AddsUpSame DEF IInv, NoOverfill
<1>8. FairTrade(t)
  BY <1>2 DEF FairTrade
<1>9. FairTrades'
  BY <1>5, <1>8 DEF IInv, FairTrades, FairTrade, NewRow
<1>10. LedgerExplained'
  BY <1>1, <1>2, <1>3, <1>5, MovedAppend DEF IInv, LedgerExplained, Granted
<1>11. Unissued'
  BY <1>3 DEF IInv, Unissued
<1> QED BY <1>6, <1>7, <1>9, <1>10, <1>11 DEF IInv

LEMMA SettleInv ==
  ASSUME IInv, TypeOK', NEW k \in DOMAIN trades, Settle(k)
  PROVE  IInv'
<1>1. PICK t \in Deals : t = trades[k]
  BY DEF IInv, TypeOK, TablesOK
<1>2. /\ TypeOK /\ TablesOK /\ k \in Pending
      /\ t.inst \in Instrument /\ t.seller \in Party /\ t.buyer \in Party /\ t.qty \in Nat
      /\ t.qty <= balance[t.inst][t.seller]
      /\ balance' = [balance EXCEPT ![t.inst] = Moved(t.inst, t.seller, t.buyer, t.qty)]
      /\ trades' = trades /\ settled' = settled \cup {k} /\ instStatus' = instStatus
      /\ UNCHANGED <<orderStatus, remaining>>
  BY <1>1 DEF IInv, TypeOK, Settle, MarkSettled, book, market, Deals
<1>3. /\ \A i \in Instrument \ {t.inst} : balance'[i] = balance[i]
      /\ \A p \in Party : balance'[t.inst][p] =
           (IF p = t.buyer THEN t.qty ELSE 0)
           + (IF p = t.seller THEN balance[t.inst][p] - t.qty ELSE balance[t.inst][p])
  BY <1>2 DEF TypeOK, TablesOK, Moved
<1>4. \A i \in Instrument, p \in Party : balance[i][p] \in Nat
  BY <1>2 DEF TypeOK, TablesOK
<1>5. SellsCovered'
  <2> SUFFICES ASSUME NEW i \in Instrument, NEW p \in Party
               PROVE  ReservedSell(i, p)' <= balance'[i][p]
    BY DEF SellsCovered
  <2>1. /\ ReservedSell(i, p)' \in Nat
        /\ ReservedSell(i, p) = ReservedSell(i, p)'
             + (IF t.inst = i /\ t.seller = p THEN t.qty ELSE 0)
    BY <1>1, <1>2, SettleDelivers
  <2>2. ReservedSell(i, p) <= balance[i][p]
    BY DEF IInv, SellsCovered
  <2>3. CASE i = t.inst /\ p = t.seller
    <3>1. ReservedSell(i, p) = ReservedSell(i, p)' + t.qty
      BY <2>1, <2>3
    <3>2. balance'[i][p] = (IF p = t.buyer THEN t.qty ELSE 0) + (balance[i][p] - t.qty)
      BY <1>3, <2>3
    <3>3. CASE p = t.buyer
      BY <1>2, <1>4, <2>1, <2>2, <3>1, <3>2, <3>3
    <3>4. CASE p # t.buyer
      BY <1>2, <1>4, <2>1, <2>2, <3>1, <3>2, <3>4
    <3> QED BY <3>3, <3>4
  <2>4. CASE ~(i = t.inst /\ p = t.seller)
    <3>1. ReservedSell(i, p) = ReservedSell(i, p)' + 0
      BY <2>1, <2>4
    <3>2. balance[i][p] <= balance'[i][p]
      <4>1. CASE i = t.inst
        <5>1. balance'[i][p] = (IF p = t.buyer THEN t.qty ELSE 0) + balance[i][p]
          BY <1>3, <2>4, <4>1
        <5>2. CASE p = t.buyer
          BY <1>2, <1>4, <5>1, <5>2
        <5>3. CASE p # t.buyer
          BY <1>4, <5>1, <5>3
        <5> QED BY <5>2, <5>3
      <4>2. CASE i # t.inst
        BY <1>3, <1>4, <4>2
      <4> QED BY <4>1, <4>2
    <3>3. balance'[i][p] \in Nat
      BY DEF TypeOK, TablesOK
    <3> QED BY <1>4, <2>1, <2>2, <3>1, <3>2, <3>3
  <2> QED BY <2>3, <2>4
<1>6. NoOverfill'
  <2> SUFFICES ASSUME NEW o \in Order PROVE AddsUp(o)'
    BY DEF NoOverfill
  <2>1. Executed(o)' = Executed(o)
    BY <1>2 DEF Executed
  <2> QED BY <1>2, <2>1, AddsUpSame DEF IInv, NoOverfill
<1>7. FairTrades'
  BY <1>2 DEF IInv, FairTrades, FairTrade
<1>8. LedgerExplained'
  <2> SUFFICES ASSUME NEW i \in Instrument, NEW p \in Party
               PROVE  balance'[i][p] + Sold(i, p)' = Granted(i, p)' + Bought(i, p)'
    BY DEF LedgerExplained
  <2>1. /\ Bought(i, p)' = Bought(i, p) + (IF t.inst = i /\ t.buyer = p THEN t.qty ELSE 0)
        /\ Sold(i, p)' = Sold(i, p) + (IF t.inst = i /\ t.seller = p THEN t.qty ELSE 0)
    BY <1>1, <1>2, MovedSettle
  <2>2. /\ Sold(i, p) \in Nat /\ Bought(i, p) \in Nat
        /\ balance[i][p] + Sold(i, p) = Granted(i, p) + Bought(i, p)
        /\ Granted(i, p)' = Granted(i, p)
    BY <1>2, ColumnsType DEF IInv, LedgerExplained, Granted
  <2>3. Granted(i, p) \in Nat
    BY InstrumentAssumption DEF Granted
  <2>4. CASE i = t.inst
    <3>1. /\ Bought(i, p)' = Bought(i, p) + (IF p = t.buyer THEN t.qty ELSE 0)
          /\ Sold(i, p)' = Sold(i, p) + (IF p = t.seller THEN t.qty ELSE 0)
          /\ balance'[i][p] = (IF p = t.buyer THEN t.qty ELSE 0)
               + (IF p = t.seller THEN balance[i][p] - t.qty ELSE balance[i][p])
      BY <1>3, <2>1, <2>4
    <3> QED BY <1>2, <1>4, <2>2, <2>3, <3>1
  <2>5. CASE i # t.inst
    <3>1. Bought(i, p)' = Bought(i, p) + 0 /\ Sold(i, p)' = Sold(i, p) + 0
      BY <2>1, <2>5
    <3> QED BY <1>3, <2>2, <2>5, <3>1
  <2> QED BY <2>4, <2>5
<1>9. Unissued'
  <2> SUFFICES ASSUME NEW i \in Instrument, instStatus'[i] = "absent", NEW p \in Party
               PROVE  balance'[i][p] = 0
    BY DEF Unissued
  <2>1. \A y \in Party : balance[i][y] = 0
    BY <1>2 DEF IInv, Unissued
  <2>2. CASE i = t.inst
    <3>1. t.qty = 0
      BY <1>2, <2>1, <2>2
    <3> QED BY <1>3, <2>1, <2>2, <3>1
  <2>3. CASE i # t.inst
    BY <1>3, <2>1, <2>3
  <2> QED BY <2>2, <2>3
<1> QED BY <1>5, <1>6, <1>7, <1>8, <1>9 DEF IInv

(* Each action keeps the invariant.                                          *)
LEMMA NextInv == IInv /\ [Next]_vars => IInv'
<1> SUFFICES ASSUME IInv, [Next]_vars PROVE IInv'
  OBVIOUS
<1>0. TypeOK /\ TypeOK' /\ TablesOK /\ TablesOK'
  BY NextType DEF IInv, TypeOK
<1> USE <1>0
<1>1. ASSUME NEW q \in Proc, Check(q) PROVE IInv'
  <2>1. UNCHANGED <<market, balance, book, deals>>
    BY <1>1 DEF Check, DiscloseCheck, ListCheck, PlaceCheck, CancelCheck, RfqCheck, QuoteCheck
  <2> QED BY <2>1, QuietInv DEF market
<1>2. ASSUME NEW q \in Proc, Commit(q) PROVE IInv'
  <2>1. CASE PlaceCommit(q)
    BY <2>1, PlaceInv
  <2>2. CASE CancelCommit(q)
    <3>1. arg[q] \in Order
      BY <2>2 DEF TypeOK, TablesOK, ArgFits, CancelCommit
    <3>2. PICK o \in Order : o = arg[q]
      BY <3>1
    <3>3. /\ UNCHANGED <<trades, settled>> /\ balance' = balance /\ instStatus' = instStatus
          /\ orderStatus' = [orderStatus EXCEPT ![o] = "CANCELLED"]
          /\ \A x \in Order \ {o} : remaining'[x] = remaining[x]
      BY <2>2, <3>2 DEF CancelCommit, TypeOK, TablesOK, deals, market
    <3> QED BY <3>3, CancelledInv
  <2>3. CASE DiscloseCommit(q) \/ ListCommit(q) \/ RfqCommit(q) \/ QuoteCommit(q) \/ Abandon(q)
    <3>1. UNCHANGED <<instStatus, balance, book, deals>>
      BY <2>3 DEF DiscloseCommit, ListCommit, RfqCommit, QuoteCommit, Abandon, market
    <3> QED BY <3>1, QuietInv
  <2> QED BY <1>2, <2>1, <2>2, <2>3 DEF Commit
<1>3. ASSUME NEW v \in Venue, CreateVenue(v) \/ RetireVenue(v) PROVE IInv'
  <2>1. UNCHANGED <<instStatus, balance, book, deals>>
    BY <1>3 DEF CreateVenue, RetireVenue
  <2> QED BY <2>1, QuietInv
<1>4. ASSUME NEW i \in Instrument, DefineInstrument(i) PROVE IInv'
  BY <1>4, DefineInv
<1>5. ASSUME NEW i \in Instrument, WithdrawInstrument(i) PROVE IInv'
  <2>1. UNCHANGED <<balance, book, deals>>
        /\ instStatus[i] = "ACTIVE" /\ instStatus' = [instStatus EXCEPT ![i] = "WITHDRAWN"]
    BY <1>5 DEF WithdrawInstrument
  <2>2. \A j \in Instrument : (instStatus'[j] = "absent") <=> (instStatus[j] = "absent")
    BY <2>1 DEF TypeOK, TablesOK
  <2> QED BY <2>1, <2>2, QuietInv
<1>6. ASSUME NEW v \in Venue, NEW i \in Instrument, MatchTrade(v, i) PROVE IInv'
  BY <1>6, MatchInv
<1>7. ASSUME NEW v \in Venue, NEW i \in Instrument, MatchSelf(v, i) PROVE IInv'
  <2>1. PICK o \in Order : orderStatus' = [orderStatus EXCEPT ![o] = "CANCELLED"]
    BY <1>7 DEF MatchSelf, Newer
  <2>2. /\ UNCHANGED <<trades, settled>> /\ balance' = balance /\ instStatus' = instStatus
        /\ \A x \in Order \ {o} : remaining'[x] = remaining[x]
    BY <1>7 DEF MatchSelf, deals, market
  <2> QED BY <2>1, <2>2, CancelledInv
<1>8. ASSUME NEW x \in Quote, AcceptQuote(x) PROVE IInv'
  BY <1>8, AcceptInv
<1>9. ASSUME NEW k \in DOMAIN trades, Settle(k) PROVE IInv'
  BY <1>9, SettleInv
<1>10. CASE Tick \/ UNCHANGED vars
  <2>1. UNCHANGED <<instStatus, balance, book, deals>>
    BY <1>10 DEF Tick, vars, market
  <2> QED BY <2>1, QuietInv
<1> QED
  BY <1>1, <1>2, <1>3, <1>4, <1>5, <1>6, <1>7, <1>8, <1>9, <1>10 DEF Next, AtOnce

LEMMA Inductive == Spec => []IInv
BY InitInv, NextInv, PTL DEF Spec

(* No seller ever owes more units than it holds, whatever the callers        *)
(* interleave: settle_trade never finds "seller entitlement unavailable".    *)
THEOREM SellersAreCovered == Spec => []SellsCovered
BY Inductive, PTL DEF IInv

(* The rows of an order always agree with its trades, and no order is filled *)
(* beyond its signed quantity, as long as no call auction runs.              *)
THEOREM OrdersAddUp == Spec => []NoOverfill
BY Inductive, PTL DEF IInv

(* Every trade of the book is one both signed orders allow.                  *)
THEOREM TradesAreFair == Spec => []FairTrades
BY Inductive, PTL DEF IInv

(* Units are neither created nor lost: balances are issues plus settlements. *)
THEOREM BalancesAreExplained == Spec => []LedgerExplained
BY Inductive, PTL DEF IInv

-----------------------------------------------------------------------------
(* The exchange implements EntitlementLedger.  Each step of the exchange     *)
(* issues, reserves, releases or delivers units of one party, or moves       *)
(* nothing: a trade of the book turns units promised by an order into units  *)
(* promised by a trade.                                                      *)

Issued == {i \in Instrument : instStatus[i] # "absent"}
ReservedTable == [i \in Instrument |-> [p \in Party |-> ReservedSell(i, p)]]
LedgerVars == <<Issued, balance, ReservedTable>>

LEMMA LedgerInit == Init => Ledger!Init
<1> SUFFICES ASSUME Init PROVE Ledger!Init
  OBVIOUS
<1>1. TypeOK /\ TablesOK /\ SellsCovered
  BY InitInv DEF IInv, TypeOK
<1>2. ASSUME NEW i \in Instrument, NEW p \in Party PROVE ReservedSell(i, p) = 0
  <2>1. ReservedSell(i, p) \in Nat /\ ReservedSell(i, p) <= 0
    BY <1>1, ReservedType DEF SellsCovered, Init
  <2> QED BY <2>1
<1>3. ReservedTable = [i \in Instrument |-> [p \in Party |-> 0]]
  BY <1>2 DEF ReservedTable
<1>4. Issued = {}
  BY DEF Issued, Init
<1> QED BY <1>3, <1>4 DEF Ledger!Init, Issued, ReservedTable, Init

LEMMA SameStep ==
  ASSUME balance' = balance, Issued' = Issued,
         \A j \in Instrument, y \in Party : ReservedSell(j, y)' = ReservedSell(j, y)
  PROVE  UNCHANGED LedgerVars
BY DEF LedgerVars, ReservedTable

LEMMA ReserveStep ==
  ASSUME TypeOK, NEW i \in Instrument, NEW p \in Party, NEW n \in Nat \ {0},
         balance' = balance, Issued' = Issued, Available(i, p, n),
         \A j \in Instrument, y \in Party :
           ReservedSell(j, y)' = ReservedSell(j, y) + (IF j = i /\ y = p THEN n ELSE 0)
  PROVE  Ledger!Next
<1>1. \A j \in Instrument, y \in Party : ReservedSell(j, y) \in Nat
  BY ReservedType DEF TypeOK
<1>2. n \in 1 .. balance[i][p]
  BY <1>1 DEF Available, TypeOK, TablesOK
<1>3. ReservedTable' = [ReservedTable EXCEPT ![i][p] = @ + n]
  <2>1. \A j \in Instrument, y \in Party :
          ReservedSell(j, y)' = IF j = i /\ y = p THEN ReservedSell(j, y) + n ELSE ReservedSell(j, y)
    BY <1>1
  <2> QED BY <2>1 DEF ReservedTable
<1>4. ReservedTable[i][p] + n <= balance[i][p]
  BY DEF Available, ReservedTable
<1>5. Ledger!Reserve(i, p, n)
  BY <1>3, <1>4 DEF Ledger!Reserve, ReservedTable, Issued
<1> QED BY <1>2, <1>5 DEF Ledger!Next

LEMMA ReleaseStep ==
  ASSUME IInv, NEW i \in Instrument, NEW p \in Party, NEW n \in Nat \ {0},
         balance' = balance, Issued' = Issued,
         \A j \in Instrument, y \in Party :
           /\ ReservedSell(j, y)' \in Nat
           /\ ReservedSell(j, y) = ReservedSell(j, y)' + (IF j = i /\ y = p THEN n ELSE 0)
  PROVE  Ledger!Next
<1>1. \A j \in Instrument, y \in Party : ReservedSell(j, y) \in Nat
  BY ReservedType DEF IInv
<1>2. n <= ReservedSell(i, p) /\ ReservedSell(i, p) <= balance[i][p]
  BY DEF IInv, SellsCovered
<1>3. n \in 1 .. balance[i][p]
  BY <1>1, <1>2 DEF IInv, TypeOK, TablesOK
<1>4. ReservedTable' = [ReservedTable EXCEPT ![i][p] = @ - n]
  <2>1. \A j \in Instrument, y \in Party :
          ReservedSell(j, y)' = IF j = i /\ y = p THEN ReservedSell(j, y) - n ELSE ReservedSell(j, y)
    BY <1>1
  <2> QED BY <2>1 DEF ReservedTable
<1>5. Ledger!Release(i, p, n)
  BY <1>2, <1>4 DEF Ledger!Release, ReservedTable, Issued
<1> QED BY <1>3, <1>5 DEF Ledger!Next

LEMMA IssueStep ==
  ASSUME IInv, NEW i \in Instrument, DefineInstrument(i)
  PROVE  Ledger!Next
<1>1. /\ instStatus[i] = "absent" /\ instStatus' = [instStatus EXCEPT ![i] = "ACTIVE"]
      /\ balance' = [balance EXCEPT ![i][Issuer[i]] = Units[i]] /\ UNCHANGED <<book, deals>>
      /\ TypeOK /\ TablesOK /\ Issuer[i] \in Party /\ Units[i] \in Nat
  BY InstrumentAssumption DEF DefineInstrument, IInv, TypeOK
<1>2. Units[i] = balance[i][Issuer[i]] + Units[i]
  <2>1. balance[i][Issuer[i]] = 0
    BY <1>1 DEF IInv, Unissued
  <2> QED BY <1>1, <2>1
<1>3. balance' = [balance EXCEPT ![i][Issuer[i]] = balance[i][Issuer[i]] + Units[i]]
  BY <1>1, <1>2
<1>4. Issued' = Issued \cup {i} /\ i \notin Issued
  BY <1>1 DEF Issued, TypeOK, TablesOK
<1>5. ReservedTable' = ReservedTable
  BY <1>1, OthersKeep DEF ReservedTable
<1>6. Ledger!Issue(i)
  BY <1>3, <1>4, <1>5 DEF Ledger!Issue, ReservedTable, Issued
<1> QED BY <1>6 DEF Ledger!Next

LEMMA DeliverStep ==
  ASSUME IInv, NEW k \in DOMAIN trades, Settle(k)
  PROVE  Ledger!Next
<1>1. PICK t \in Deals : t = trades[k]
  BY DEF IInv, TypeOK, TablesOK
<1>2. /\ TypeOK /\ TablesOK /\ FairTrade(t)
      /\ t.inst \in Instrument /\ t.seller \in Party /\ t.buyer \in Party /\ t.qty \in Nat
      /\ t.qty <= balance[t.inst][t.seller]
      /\ balance' = [balance EXCEPT ![t.inst] = Moved(t.inst, t.seller, t.buyer, t.qty)]
      /\ instStatus' = instStatus
  BY <1>1 DEF IInv, TypeOK, Settle, FairTrades, market, Deals
<1>3. t.qty \in 1 .. balance[t.inst][t.seller]
  BY <1>2 DEF FairTrade, TypeOK, TablesOK
<1>4. ASSUME NEW j \in Instrument, NEW y \in Party
      PROVE  /\ ReservedSell(j, y)' \in Nat /\ ReservedSell(j, y) \in Nat
             /\ ReservedSell(j, y) = ReservedSell(j, y)'
                  + (IF t.inst = j /\ t.seller = y THEN t.qty ELSE 0)
  BY <1>1, <1>2, SettleDelivers, ReservedType
<1>5. ReservedTable' = [ReservedTable EXCEPT ![t.inst][t.seller] = @ - t.qty]
  <2>1. \A j \in Instrument, y \in Party :
          ReservedSell(j, y)' = IF j = t.inst /\ y = t.seller THEN ReservedSell(j, y) - t.qty
                                ELSE ReservedSell(j, y)
    BY <1>2, <1>4
  <2> QED BY <1>2, <2>1 DEF ReservedTable
<1>6. t.qty <= ReservedTable[t.inst][t.seller]
  <2>1. t.qty <= ReservedSell(t.inst, t.seller)
    BY <1>2, <1>4
  <2> QED BY <1>2, <2>1 DEF ReservedTable
<1>7. Issued' = Issued
  BY <1>2 DEF Issued
<1>8. Ledger!Deliver(t.inst, t.seller, t.buyer, t.qty)
  BY <1>2, <1>5, <1>6, <1>7 DEF Ledger!Deliver, ReservedTable, Issued, Moved
<1> QED BY <1>2, <1>3, <1>8 DEF Ledger!Next

LEMMA LedgerStep ==
  ASSUME IInv, TypeOK', [Next]_vars
  PROVE  Ledger!Next \/ UNCHANGED LedgerVars
<1>0. TypeOK /\ TablesOK /\ TablesOK'
  BY DEF IInv, TypeOK
<1> USE <1>0
<1>1. ASSUME UNCHANGED <<book, deals>>, balance' = balance,
             \A i \in Instrument : (instStatus'[i] = "absent") <=> (instStatus[i] = "absent")
      PROVE  UNCHANGED LedgerVars
  <2>1. Issued' = Issued
    BY <1>1 DEF Issued
  <2> QED BY <1>1, <2>1, OthersKeep, SameStep
(* Order o is cancelled.                                                     *)
<1>2. ASSUME NEW o \in Order, UNCHANGED <<trades, settled>>, balance' = balance,
             instStatus' = instStatus, orderStatus' = [orderStatus EXCEPT ![o] = "CANCELLED"],
             \A x \in Order \ {o} : remaining'[x] = remaining[x]
      PROVE  Ledger!Next \/ UNCHANGED LedgerVars
  <2>1. Issued' = Issued
    BY <1>2 DEF Issued
  <2>2. \A i \in Instrument, p \in Party :
          /\ ReservedSell(i, p)' \in Nat /\ ReservedSell(i, p) \in Nat
          /\ ReservedSell(i, p) = ReservedSell(i, p)'
               + (IF SellsOpen(o, i, p) THEN remaining[o] ELSE 0)
    BY <1>2, CancelReleases, ReservedType
  <2>3. Signed[o].inst \in Instrument /\ Signed[o].by \in Party
    BY BodiesAssumption DEF OrderBody
  <2>4. CASE Signed[o].side = "SELL" /\ orderStatus[o] \in Live
    <3>1. remaining[o] \in Nat \ {0}
      BY <2>4 DEF IInv, NoOverfill, AddsUp, TypeOK, TablesOK
    <3>2. \A i \in Instrument, p \in Party :
            /\ ReservedSell(i, p)' \in Nat
            /\ ReservedSell(i, p) = ReservedSell(i, p)'
                 + (IF i = Signed[o].inst /\ p = Signed[o].by THEN remaining[o] ELSE 0)
      BY <2>2, <2>4 DEF SellsOpen
    <3> QED BY <1>2, <2>1, <2>3, <3>1, <3>2, ReleaseStep
  <2>5. CASE ~(Signed[o].side = "SELL" /\ orderStatus[o] \in Live)
    <3>1. \A i \in Instrument, p \in Party : ~SellsOpen(o, i, p)
      BY <2>5 DEF SellsOpen
    <3>2. \A i \in Instrument, p \in Party : ReservedSell(i, p)' = ReservedSell(i, p)
      BY <2>2, <3>1
    <3> QED BY <1>2, <2>1, <3>2, SameStep
  <2> QED BY <2>4, <2>5
<1>3. ASSUME NEW q \in Proc, Check(q) PROVE UNCHANGED LedgerVars
  <2>1. UNCHANGED <<market, balance, book, deals>>
    BY <1>3 DEF Check, DiscloseCheck, ListCheck, PlaceCheck, CancelCheck, RfqCheck, QuoteCheck
  <2> QED BY <1>1, <2>1 DEF market
<1>4. ASSUME NEW q \in Proc, PlaceCommit(q) PROVE Ledger!Next \/ UNCHANGED LedgerVars
  <2>1. arg[q] \in Order
    BY <1>4 DEF TypeOK, TablesOK, ArgFits, PlaceCommit
  <2>2. PICK o \in Order : o = arg[q]
    BY <2>1
  <2>3. SellCovered(o) /\ balance' = balance /\ Issued' = Issued
    BY <1>4, <2>2 DEF PlaceCommit, market, Issued
  <2>4. \A i \in Instrument, p \in Party :
          /\ ReservedSell(i, p) \in Nat
          /\ ReservedSell(i, p)' = ReservedSell(i, p)
               + (IF Signed[o].side = "SELL" /\ Signed[o].inst = i /\ Signed[o].by = p
                  THEN Signed[o].qty ELSE 0)
    BY <1>4, <2>2, PlaceReserves, ReservedType
  <2>5. /\ Signed[o].inst \in Instrument /\ Signed[o].by \in Party
        /\ Signed[o].qty \in Nat \ {0}
    BY BodiesAssumption DEF OrderBody
  <2>6. CASE Signed[o].side = "SELL"
    <3>1. \A i \in Instrument, p \in Party :
            ReservedSell(i, p)' = ReservedSell(i, p)
              + (IF i = Signed[o].inst /\ p = Signed[o].by THEN Signed[o].qty ELSE 0)
      BY <2>4, <2>6
    <3>2. Available(Signed[o].inst, Signed[o].by, Signed[o].qty)
      BY <2>3, <2>6 DEF SellCovered
    <3> QED BY <2>3, <2>5, <3>1, <3>2, ReserveStep
  <2>7. CASE Signed[o].side # "SELL"
    <3>1. \A i \in Instrument, p \in Party : ReservedSell(i, p)' = ReservedSell(i, p)
      BY <2>4, <2>7
    <3> QED BY <2>3, <3>1, SameStep
  <2> QED BY <2>6, <2>7
<1>5. ASSUME NEW q \in Proc, Commit(q) PROVE Ledger!Next \/ UNCHANGED LedgerVars
  <2>1. CASE CancelCommit(q)
    <3>1. arg[q] \in Order
      BY <2>1 DEF TypeOK, TablesOK, ArgFits, CancelCommit
    <3>2. PICK o \in Order : o = arg[q]
      BY <3>1
    <3>3. /\ UNCHANGED <<trades, settled>> /\ balance' = balance /\ instStatus' = instStatus
          /\ orderStatus' = [orderStatus EXCEPT ![o] = "CANCELLED"]
          /\ \A x \in Order \ {o} : remaining'[x] = remaining[x]
      BY <2>1, <3>2 DEF CancelCommit, TypeOK, TablesOK, deals, market
    <3> QED BY <1>2, <3>3
  <2>2. CASE DiscloseCommit(q) \/ ListCommit(q) \/ RfqCommit(q) \/ QuoteCommit(q) \/ Abandon(q)
    <3>1. UNCHANGED <<instStatus, balance, book, deals>>
      BY <2>2 DEF DiscloseCommit, ListCommit, RfqCommit, QuoteCommit, Abandon, market
    <3> QED BY <1>1, <3>1
  <2> QED BY <1>4, <1>5, <2>1, <2>2 DEF Commit
<1>6. ASSUME NEW v \in Venue, CreateVenue(v) \/ RetireVenue(v) PROVE UNCHANGED LedgerVars
  <2>1. UNCHANGED <<instStatus, balance, book, deals>>
    BY <1>6 DEF CreateVenue, RetireVenue
  <2> QED BY <1>1, <2>1
<1>7. ASSUME NEW i \in Instrument, WithdrawInstrument(i) PROVE UNCHANGED LedgerVars
  <2>1. UNCHANGED <<balance, book, deals>>
        /\ instStatus[i] = "ACTIVE" /\ instStatus' = [instStatus EXCEPT ![i] = "WITHDRAWN"]
    BY <1>7 DEF WithdrawInstrument
  <2>2. \A j \in Instrument : (instStatus'[j] = "absent") <=> (instStatus[j] = "absent")
    BY <2>1 DEF TypeOK, TablesOK
  <2> QED BY <1>1, <2>1, <2>2
<1>8. ASSUME NEW v \in Venue, NEW i \in Instrument, MatchTrade(v, i) PROVE UNCHANGED LedgerVars
  <2>1. balance' = balance /\ Issued' = Issued
    BY <1>8 DEF MatchTrade, market, Issued
  <2> QED BY <1>8, <2>1, MatchReserves, SameStep
<1>9. ASSUME NEW v \in Venue, NEW i \in Instrument, MatchSelf(v, i)
      PROVE  Ledger!Next \/ UNCHANGED LedgerVars
  <2>1. PICK o \in Order : orderStatus' = [orderStatus EXCEPT ![o] = "CANCELLED"]
    BY <1>9 DEF MatchSelf, Newer
  <2>2. /\ UNCHANGED <<trades, settled>> /\ balance' = balance /\ instStatus' = instStatus
        /\ \A x \in Order \ {o} : remaining'[x] = remaining[x]
    BY <1>9 DEF MatchSelf, deals, market
  <2> QED BY <1>2, <2>1, <2>2
<1>10. ASSUME NEW x \in Quote, AcceptQuote(x) PROVE Ledger!Next
  <2> DEFINE r == Offered[x].rfq
  <2>1. /\ Asked[r].inst \in Instrument /\ SellerOf(x) \in Party /\ Asked[r].qty \in Nat \ {0}
    BY BodiesAssumption DEF SellerOf, RfqBody, QuoteBody
  <2>2. /\ balance' = balance /\ Issued' = Issued
        /\ Available(Asked[r].inst, SellerOf(x), Asked[r].qty)
    BY <1>10 DEF AcceptQuote, market, Issued, StillAvailable
  <2>3. \A i \in Instrument, p \in Party :
          ReservedSell(i, p)' = ReservedSell(i, p)
            + (IF Asked[r].inst = i /\ SellerOf(x) = p THEN Asked[r].qty ELSE 0)
    BY <1>10, AcceptReserves
  <2> HIDE DEF r
  <2>4. \A i \in Instrument, p \in Party :
          ReservedSell(i, p)' = ReservedSell(i, p)
            + (IF i = Asked[r].inst /\ p = SellerOf(x) THEN Asked[r].qty ELSE 0)
    BY <2>3
  <2> QED BY <2>1, <2>2, <2>4, ReserveStep
<1>11. CASE Tick \/ UNCHANGED vars
  <2>1. UNCHANGED <<instStatus, balance, book, deals>>
    BY <1>11 DEF Tick, vars, market
  <2> QED BY <1>1, <2>1
<1> QED
  BY <1>3, <1>5, <1>6, <1>7, <1>8, <1>9, <1>10, <1>11, IssueStep, DeliverStep DEF Next, AtOnce

(* The exchange implements EntitlementLedger.                                *)
THEOREM ReservationKept == Spec => KeepsReservation
<1>1. IInv /\ IInv' /\ [Next]_vars => [Ledger!Next]_LedgerVars
  BY LedgerStep DEF IInv
<1>2. Init => Ledger!Init
  BY LedgerInit
<1> QED BY <1>1, <1>2, Inductive, PTL DEF Spec, KeepsReservation, Ledger!Spec, LedgerVars, Issued, ReservedTable
-----------------------------------------------------------------------------
(* Withdrawn instruments and retired venues, however calls interleave.  A   *)
(* pair that has one of them, no business and no call that may bring some   *)
(* stays so: every first look at it fails.                                  *)

NotOpen(v, i) == venueStatus[v] = "RETIRED" \/ instStatus[i] = "WITHDRAWN"

(* The tables say the same, or less.                                        *)
LEMMA NoNewBusiness ==
  ASSUME NEW v, NEW i, ~Business(v, i),
         <<v, i>> \in listed' => <<v, i>> \in listed,
         \A o \in Order : orderStatus'[o] \in Live => orderStatus[o] \in Live,
         trades' = trades, settled \subseteq settled',
         \A r \in Rfq : rfqStatus'[r] = "OPEN" => rfqStatus[r] = "OPEN"
  PROVE  ~Business(v, i)'
BY DEF Business, Pending

LEMMA CheckStaysOut ==
  ASSUME TablesOK, NEW v \in Venue, NEW i \in Instrument, NotOpen(v, i), ~Exposed(v, i),
         NEW q \in Proc, Check(q)
  PROVE  ~Exposed(v, i)'
<1>1. ~Business(v, i)'
  <2>1. UNCHANGED <<listed, orderStatus, trades, settled, rfqStatus>>
    BY DEF Check, DiscloseCheck, ListCheck, PlaceCheck, CancelCheck, RfqCheck, QuoteCheck,
           market, book, deals, talks
  <2> QED BY <2>1 DEF Exposed, Business, Pending
<1>2. ASSUME NEW label, NEW x, NEW time, Begin(q, label, x, time), ~Concerns(label, x, v, i)
      PROVE  ~Exposed(v, i)'
  <2>1. \A r \in Proc : ~Concerns(pc'[r], arg'[r], v, i)
    BY <1>2 DEF Begin, TablesOK, Exposed
  <2> QED BY <1>1, <2>1 DEF Exposed, Concerns
<1>3. ASSUME NEW w \in Venue, NEW j \in Instrument, DiscloseCheck(q, w, j) PROVE ~Exposed(v, i)'
  BY <1>2, <1>3 DEF DiscloseCheck, Concerns
<1>4. ASSUME NEW w \in Venue, NEW j \in Instrument, ListCheck(q, w, j) PROVE ~Exposed(v, i)'
  BY <1>2, <1>4 DEF ListCheck, BothActive, NotOpen, Concerns
<1>5. ASSUME NEW o \in Order, PlaceCheck(q, o) PROVE ~Exposed(v, i)'
  BY <1>2, <1>5 DEF PlaceCheck, Exposed, Business, Concerns
<1>6. ASSUME NEW o \in Order, CancelCheck(q, o) PROVE ~Exposed(v, i)'
  BY <1>2, <1>6 DEF CancelCheck, Concerns
<1>7. ASSUME NEW r \in Rfq, RfqCheck(q, r) PROVE ~Exposed(v, i)'
  BY <1>2, <1>7 DEF RfqCheck, Exposed, Business, Concerns
<1>8. ASSUME NEW x \in Quote, QuoteCheck(q, x) PROVE ~Exposed(v, i)'
  BY <1>2, <1>8 DEF QuoteCheck, Concerns
<1> QED
  BY <1>3, <1>4, <1>5, <1>6, <1>7, <1>8 DEF Check

(* A caller that is back outside every method concerns nothing.             *)
LEMMA ReturnStaysOut ==
  ASSUME TablesOK, NEW v, NEW i, ~Exposed(v, i), ~Business(v, i)', NEW q \in Proc, Return(q)
  PROVE  ~Exposed(v, i)'
<1>1. \A r \in Proc : ~Concerns(pc'[r], arg'[r], v, i)
  <2>1. ~Concerns(pc'[q], arg'[q], v, i)
    BY DEF Return, TablesOK, Concerns
  <2>2. \A r \in Proc \ {q} : pc'[r] = pc[r] /\ arg'[r] = arg[r]
    BY DEF Return, TablesOK
  <2> QED BY <2>1, <2>2 DEF Exposed
<1> QED BY <1>1 DEF Exposed, Concerns

LEMMA CommitStaysOut ==
  ASSUME TablesOK, NEW v \in Venue, NEW i \in Instrument, ~Exposed(v, i), NEW q \in Proc, Commit(q)
  PROVE  ~Exposed(v, i)'
<1>0. /\ Return(q) /\ UNCHANGED <<trades, settled>>
      /\ ~Business(v, i) /\ ~Concerns(pc[q], arg[q], v, i)
  BY DEF Commit, DiscloseCommit, ListCommit, PlaceCommit, CancelCommit, RfqCommit, QuoteCommit,
         Abandon, deals, Exposed
<1> SUFFICES ~Business(v, i)'
  BY <1>0, ReturnStaysOut
<1>1. CASE DiscloseCommit(q) \/ QuoteCommit(q) \/ Abandon(q)
  <2>1. UNCHANGED <<listed, orderStatus, rfqStatus>>
    BY <1>1 DEF DiscloseCommit, QuoteCommit, Abandon, market, book, talks
  <2> QED BY <1>0, <2>1, NoNewBusiness
<1>2. CASE ListCommit(q)
  <2>1. <<v, i>> # arg[q] /\ UNCHANGED <<orderStatus, rfqStatus>>
    BY <1>0, <1>2 DEF ListCommit, Concerns, book, talks
  <2> QED BY <1>0, <1>2, <2>1, NoNewBusiness DEF ListCommit
<1>3. CASE PlaceCommit(q)
  <2>1. \A o \in Order : orderStatus'[o] \in Live => orderStatus[o] \in Live \/ o = arg[q]
    BY <1>3 DEF PlaceCommit, TablesOK
  <2>2. ~(Signed[arg[q]].venue = v /\ Signed[arg[q]].inst = i) /\ UNCHANGED <<listed, rfqStatus>>
    BY <1>0, <1>3 DEF PlaceCommit, Concerns, market, talks
  <2> QED BY <1>0, <2>1, <2>2 DEF Business, Pending
<1>4. CASE CancelCommit(q)
  <2>1. \A o \in Order : orderStatus'[o] \in Live => orderStatus[o] \in Live
    BY <1>4 DEF CancelCommit, TablesOK, Live
  <2>2. UNCHANGED <<listed, rfqStatus>>
    BY <1>4 DEF CancelCommit, market, talks
  <2> QED BY <1>0, <2>1, <2>2, NoNewBusiness
<1>5. CASE RfqCommit(q)
  <2>1. \A r \in Rfq : rfqStatus'[r] = "OPEN" => rfqStatus[r] = "OPEN" \/ r = arg[q]
    BY <1>5 DEF RfqCommit, TablesOK
  <2>2. ~(Asked[arg[q]].venue = v /\ Asked[arg[q]].inst = i) /\ UNCHANGED <<listed, orderStatus>>
    BY <1>0, <1>5 DEF RfqCommit, Concerns, market, book
  <2> QED BY <1>0, <2>1, <2>2 DEF Business, Pending
<1> QED
  BY <1>1, <1>2, <1>3, <1>4, <1>5 DEF Commit

(* A new trade of another pair.                                             *)
LEMMA TradeElsewhere ==
  ASSUME TablesOK, NEW v, NEW i, ~Business(v, i), NEW t \in Deals, ~(t.venue = v /\ t.inst = i),
         trades' = Append(trades, t), settled' = settled, listed' = listed,
         \A o \in Order : orderStatus'[o] \in Live /\ Signed[o].venue = v /\ Signed[o].inst = i =>
           orderStatus[o] \in Live,
         \A r \in Rfq : rfqStatus'[r] = "OPEN" => rfqStatus[r] = "OPEN"
  PROVE  ~Business(v, i)'
<1>1. PICK m : NewRow(m, t)
  BY AppendFacts
<1>2. \A k \in Pending' : (k \in Pending /\ trades'[k] = trades[k]) \/ k = m
  BY <1>1 DEF NewRow, Pending
<1>3. trades'[m] = t
  BY <1>1 DEF NewRow
<1> QED BY <1>2, <1>3 DEF Business

LEMMA AtOnceStaysOut ==
  ASSUME TablesOK, NEW v \in Venue, NEW i \in Instrument, ~Exposed(v, i), AtOnce
  PROVE  ~Exposed(v, i)'
<1>0. UNCHANGED calls /\ ~Business(v, i)
  BY DEF AtOnce, CreateVenue, RetireVenue, DefineInstrument, WithdrawInstrument, MatchTrade,
         MatchSelf, AcceptQuote, Settle, Exposed
<1> SUFFICES ~Business(v, i)'
  BY <1>0 DEF Exposed, Concerns, calls
<1>1. ASSUME NEW w \in Venue, CreateVenue(w) \/ RetireVenue(w) PROVE ~Business(v, i)'
  BY <1>0, <1>1, NoNewBusiness DEF CreateVenue, RetireVenue, book, deals, talks
<1>2. ASSUME NEW j \in Instrument, DefineInstrument(j) \/ WithdrawInstrument(j)
      PROVE  ~Business(v, i)'
  <2>1. /\ listed' \subseteq listed
        /\ UNCHANGED <<orderStatus, trades, settled, rfqStatus>>
    BY <1>2 DEF DefineInstrument, WithdrawInstrument, book, deals, talks
  <2> QED BY <1>0, <2>1, NoNewBusiness
<1>3. ASSUME NEW w \in Venue, NEW j \in Instrument, MatchTrade(w, j) PROVE ~Business(v, i)'
  <2>1. PICK b \in Order, s \in Order, n \in Nat, t \in Deals : Trades(w, j, b, s, n, t)
    BY <1>3, TradeFacts
  <2>2. Executes(w, j, b, s, n, t)
    BY <2>1, TradesExecute
  <2>3. /\ orderStatus[b] \in Live /\ orderStatus[s] \in Live
        /\ Signed[b].venue = w /\ Signed[b].inst = j /\ t.venue = w /\ t.inst = j
    BY <2>2, ExecuteFacts DEF Executes, Deal
  <2>4. /\ trades' = Append(trades, t) /\ settled' = settled
        /\ \A o \in Order : orderStatus'[o] \in Live => orderStatus[o] \in Live
    BY <2>2, <2>3 DEF Executes
  <2>5. ~(t.venue = v /\ t.inst = i)
    BY <1>0, <2>3 DEF Business
  <2>6. UNCHANGED <<listed, rfqStatus>>
    BY <1>3 DEF MatchTrade, market, talks
  <2> QED BY <1>0, <2>4, <2>5, <2>6, TradeElsewhere
<1>4. ASSUME NEW w \in Venue, NEW j \in Instrument, MatchSelf(w, j) PROVE ~Business(v, i)'
  <2>1. \A o \in Order : orderStatus'[o] \in Live => orderStatus[o] \in Live
    BY <1>4 DEF MatchSelf, TablesOK, Live
  <2>2. UNCHANGED <<listed, trades, settled, rfqStatus>>
    BY <1>4 DEF MatchSelf, market, deals, talks
  <2> QED BY <1>0, <2>1, <2>2, NoNewBusiness
<1>5. ASSUME NEW x \in Quote, AcceptQuote(x) PROVE ~Business(v, i)'
  <2> DEFINE r == Offered[x].rfq
             t == Deal(Asked[r].venue, Asked[r].inst, BuyerOf(x), SellerOf(x),
                       NoOrder, NoOrder, Asked[r].qty, Offered[x].price)
  <2>1. t \in Deals /\ r \in Rfq /\ t.venue = Asked[r].venue /\ t.inst = Asked[r].inst
    BY BodiesAssumption DEF Deal, Deals, BuyerOf, SellerOf, RfqBody, QuoteBody
  <2>2. trades' = Append(trades, t) /\ settled' = settled /\ rfqStatus[r] = "OPEN"
        /\ rfqStatus' = [rfqStatus EXCEPT ![r] = "ACCEPTED"]
        /\ UNCHANGED <<listed, orderStatus>>
    BY <1>5 DEF AcceptQuote, market, book
  <2> HIDE DEF t, r
  <2>3. ~(t.venue = v /\ t.inst = i)
    BY <1>0, <2>1, <2>2 DEF Business
  <2>4. \A y \in Rfq : rfqStatus'[y] = "OPEN" => rfqStatus[y] = "OPEN"
    BY <2>2 DEF TablesOK
  <2> QED BY <1>0, <2>1, <2>2, <2>3, <2>4, TradeElsewhere
<1>6. ASSUME NEW k \in DOMAIN trades, Settle(k) PROVE ~Business(v, i)'
  <2>1. trades' = trades /\ settled \subseteq settled' /\ UNCHANGED <<listed, orderStatus, rfqStatus>>
    BY <1>6 DEF Settle, MarkSettled, market, book, talks
  <2> QED BY <1>0, <2>1, NoNewBusiness
<1> QED
  BY <1>1, <1>2, <1>3, <1>4, <1>5, <1>6 DEF AtOnce

LEMMA StaysOut ==
  ASSUME TablesOK, NEW v \in Venue, NEW i \in Instrument, NotOpen(v, i), ~Exposed(v, i), [Next]_vars
  PROVE  ~Exposed(v, i)'
<1>1. CASE Tick \/ UNCHANGED vars
  BY <1>1 DEF Tick, Exposed, Business, Concerns, Pending, vars, market, book, deals, talks, calls
<1> QED
  BY <1>1, CheckStaysOut, CommitStaysOut, AtOnceStaysOut DEF Next

(* The statuses go one way, and what ends finds nothing in the tables.      *)
LEMMA EndsEmpty ==
  ASSUME TablesOK, NEW v \in Venue, NEW i \in Instrument, [Next]_vars
  PROVE  /\ instStatus[i] = "WITHDRAWN" => instStatus'[i] = "WITHDRAWN"
         /\ instStatus[i] # "WITHDRAWN" /\ instStatus'[i] = "WITHDRAWN" => ~Business(v, i)'
         /\ venueStatus[v] = "RETIRED" => venueStatus'[v] = "RETIRED"
         /\ venueStatus[v] # "RETIRED" /\ venueStatus'[v] = "RETIRED" => ~Business(v, i)'
<1> DEFINE Goal == /\ instStatus[i] = "WITHDRAWN" => instStatus'[i] = "WITHDRAWN"
                   /\ instStatus[i] # "WITHDRAWN" /\ instStatus'[i] = "WITHDRAWN" =>
                        ~Business(v, i)'
                   /\ venueStatus[v] = "RETIRED" => venueStatus'[v] = "RETIRED"
                   /\ venueStatus[v] # "RETIRED" /\ venueStatus'[v] = "RETIRED" =>
                        ~Business(v, i)'
<1>1. CASE UNCHANGED <<venueStatus, instStatus>>
  BY <1>1
<1>2. ASSUME NEW w \in Venue, CreateVenue(w) PROVE Goal
  BY <1>2 DEF CreateVenue, TablesOK
<1>3. ASSUME NEW j \in Instrument, DefineInstrument(j) PROVE Goal
  BY <1>3 DEF DefineInstrument, TablesOK
<1>4. ASSUME NEW w \in Venue, RetireVenue(w) PROVE Goal
  <2>1. instStatus' = instStatus /\ venueStatus' = [venueStatus EXCEPT ![w] = "RETIRED"]
    BY <1>4 DEF RetireVenue
  <2>2. ~Business(w, i)'
    BY <1>4 DEF RetireVenue, VenueBusy, Business, Pending, book, deals, talks
  <2> QED BY <2>1, <2>2 DEF TablesOK
<1>5. ASSUME NEW j \in Instrument, WithdrawInstrument(j) PROVE Goal
  <2>1. venueStatus' = venueStatus /\ instStatus' = [instStatus EXCEPT ![j] = "WITHDRAWN"]
    BY <1>5 DEF WithdrawInstrument
  <2>2. ~Business(v, j)'
    BY <1>5 DEF WithdrawInstrument, InstrumentBusy, Business, Pending, book, deals, talks
  <2> QED BY <2>1, <2>2 DEF TablesOK
<1>6. \/ UNCHANGED <<venueStatus, instStatus>>
      \/ \E w \in Venue : CreateVenue(w) \/ RetireVenue(w)
      \/ \E j \in Instrument : DefineInstrument(j) \/ WithdrawInstrument(j)
  BY DEF Next, Check, DiscloseCheck, ListCheck, PlaceCheck, CancelCheck, RfqCheck, QuoteCheck, Commit,
         DiscloseCommit, ListCommit, PlaceCommit, CancelCommit, RfqCommit, QuoteCommit, Abandon,
         AtOnce, MatchTrade, MatchSelf, AcceptQuote, Settle, Tick, vars, market
<1> QED BY <1>1, <1>2, <1>3, <1>4, <1>5, <1>6

(* However calls interleave, a withdrawal (withdraw_instrument) finds its   *)
(* instrument without a listing, live order, unsettled trade or open        *)
(* request, and is final: once no call that was checked before it is under  *)
(* way and nothing such a call brought is left, nothing ever appears again. *)
THEOREM WithdrawnForGood == Spec => WithdrawalIsFinal
<1> DEFINE Final == \A v \in Venue, i \in Instrument :
             /\ instStatus[i] # "WITHDRAWN" /\ instStatus'[i] = "WITHDRAWN" => ~Business(v, i)'
             /\ instStatus[i] = "WITHDRAWN" /\ ~Exposed(v, i) =>
                  instStatus'[i] = "WITHDRAWN" /\ ~Exposed(v, i)'
<1>1. TablesOK /\ [Next]_vars => Final
  BY EndsEmpty, StaysOut DEF NotOpen
<1>2. TypeOK => TablesOK
  BY DEF TypeOK
<1> QED
  <2>1. [][Final]_vars => WithdrawalIsFinal
    BY PTL DEF WithdrawalIsFinal
  <2> QED
    BY <1>1, <1>2, <2>1, TypeCorrect, PTL DEF Spec

(* Nor, however calls interleave, does a retired venue (retire_venue) get   *)
(* anything but from calls that were checked before it retired.             *)
THEOREM RetiredForGood == Spec => RetirementIsFinal
<1> DEFINE Final == \A v \in Venue, i \in Instrument :
             /\ venueStatus[v] # "RETIRED" /\ venueStatus'[v] = "RETIRED" => ~Business(v, i)'
             /\ venueStatus[v] = "RETIRED" /\ ~Exposed(v, i) =>
                  venueStatus'[v] = "RETIRED" /\ ~Exposed(v, i)'
<1>1. TablesOK /\ [Next]_vars => Final
  BY EndsEmpty, StaysOut DEF NotOpen
<1>2. TypeOK => TablesOK
  BY DEF TypeOK
<1> QED
  <2>1. [][Final]_vars => RetirementIsFinal
    BY PTL DEF RetirementIsFinal
  <2> QED
    BY <1>1, <1>2, <2>1, TypeCorrect, PTL DEF Spec
=============================================================================
