----------------------- MODULE PrelaunchWithdrawalProofs -----------------------
(***************************************************************************)
(* Theorems of the market with its migration, for every set of agents,      *)
(* policies, instruments, parties, orders and quotes, every bound, and      *)
(* whether the exchange's calls interleave or not.                          *)
(***************************************************************************)
EXTENDS PrelaunchWithdrawal, ExchangeProofs, Integers

-----------------------------------------------------------------------------
(* The inductive invariant.                                                 *)

(* The exchange's tables.  A balance may be below zero: a second migration  *)
(* takes a reserve back that is not there.                                  *)
Tables ==
  /\ TablesOK
  /\ balance \in [Instrument -> [Party -> Int]]
  /\ \A i \in Instrument : instStatus[i] # "absent"
  /\ \A q \in Proc : pc[q] = "cancel" => orderStatus[arg[q]] # "absent"

Stamp == [id : Nat, at : Nat]
Stamped ==
  /\ stamps \in Seq(Stamp) /\ Len(stamps) = Len(trades) /\ dealt = Len(trades)
  /\ \A k \in DOMAIN stamps : stamps[k].id = k

AnyPolicy == Policy \cup {NoPolicy}
Event == [trade : Nat, policy : Policy, amount : Int]
Economy ==
  /\ policyStatus \in [Policy -> {"absent", "ACTIVE", "SUPERSEDED", "WITHDRAWN"}]
  /\ effective \in [Policy -> Nat]
  /\ allocation \in [Instrument -> AnyPolicy]
  /\ \A i \in Instrument : allocation[i] # NoPolicy =>
       Terms[allocation[i]].inst = i /\ Terms[allocation[i]].by = Issuer[i]
  /\ events \in Seq(Event) /\ prelaunch \subseteq Policy
  /\ returned \in [Instrument -> Nat] /\ gone \subseteq Instrument
  /\ \A i \in Instrument : returned[i] > 0 => allocation[i] # NoPolicy /\ i \in gone

(* An event's policy was in force when its trade was made, but for policies *)
(* recorded later.                                                          *)
Charged(e) ==
  /\ e.trade \in DOMAIN trades
  /\ e.policy \in Recorded(trades[e.trade].inst)
  /\ effective[e.policy] <= stamps[e.trade].at
  /\ \A x \in Recorded(trades[e.trade].inst) \ {e.policy} :
       effective[x] <= stamps[e.trade].at => Supersedes(e.policy, x) \/ x \in retro
Charges ==
  /\ \A n \in DOMAIN events : Charged(events[n])
  /\ \A m, n \in DOMAIN events : m # n =>
       events[m].trade # events[n].trade \/ events[m].policy # events[n].policy

(* What a call holds between its transactions, and what it knows of the     *)
(* tables it read.                                                          *)
UseRecord == (SUBSET Order) \X (SUBSET Nat) \X BOOLEAN \X AnyPolicy
Planning == {"copy", "copy eopp", "eep", "eopp"}
Plan == [op : Planning, inst : Instrument, reserve : AnyPolicy, at : Nat, use : UseRecord]
Undoing == [op : {"restore"}, inst : Instrument, reserve : AnyPolicy, wrote : BOOLEAN]
JobType(j) ==
  /\ j.op \in {"none", "define", "withdraw", "allocate", "capture"} \cup Migrating
  /\ j.op = "define" => j.policy \in Policy /\ j.at \in Nat
  /\ j.op \in {"withdraw", "allocate"} => j.policy \in Policy
  /\ j.op = "capture" => j.event \in Event
  /\ j.op \in Migrating => j.inst \in Instrument
  /\ j.op \in Planning => j \in Plan
  /\ j.op = "audit" => j.use \in UseRecord /\ (~j.active => j.use[1] = {} /\ j.use[2] = {})
  /\ j.op \in {"copy", "copy eopp", "eep"} =>
       /\ j.use[1] = {} /\ j.use[2] = {} /\ ~j.use[3]
       /\ j.use[4] # NoPolicy => j.reserve = j.use[4]
  /\ j.op = "restore" => j \in Undoing
  /\ j.op = "receipt" => j.policies \subseteq Policy

Closed(P) == \A p \in P : policyStatus[p] \notin {"absent", "ACTIVE"}
Withdrew(j) == j.op \in {"eopp", "receipt"} \/ (j.op = "restore" /\ j.wrote)
Knows(j) ==
  /\ j.op = "capture" => Charged(j.event)
  /\ j.op = "audit" =>
       /\ j.use[3] => economic_events(j.inst)
       /\ j.use[4] # NoPolicy => allocation[j.inst] = j.use[4]
  /\ j.op \in Planning \cup {"restore"} => j.reserve = NoPolicy \/ j.reserve = allocation[j.inst]
  /\ Withdrew(j) => j.inst \in gone
  /\ j.op = "receipt" => Closed(j.policies)
Jobs ==
  /\ DOMAIN job = Agent
  /\ \A a \in Agent : JobType(job[a]) /\ Knows(job[a])
OneMigration ==
  \A a, b \in Agent : job[a].op \in Migrating /\ job[b].op \in Migrating => a = b

(* A migration that wrote has a receipt, or its process died, or it is at   *)
(* work.                                                                    *)
Receipts ==
  \A s \in sealed : s.inst \in gone /\ s.policies \subseteq Policy /\ Closed(s.policies)
Ended(i) == (\E s \in sealed : s.inst = i) \/ i \in cut
AtWork(i) == \E a \in Agent : job[a].op \in {"eopp", "receipt", "restore"} /\ job[a].inst = i
Whole ==
  /\ \A p \in prelaunch : Terms[p].inst \in gone
  /\ \A i \in gone : Ended(i) \/ AtWork(i)

(* A withdrawn instrument has nothing, and nothing on its way.              *)
Left(i) ==
  /\ \A o \in Order : Signed[o].inst = i => orderStatus[o] = "absent"
  /\ \A k \in DOMAIN trades : trades[k].inst # i
  /\ \A l \in listed : l[2] # i
  /\ \A r \in Rfq : Asked[r].inst = i => rfqStatus[r] # "OPEN"
  /\ \A q \in Proc : /\ pc[q] = "list" => arg[q][2] # i
                     /\ pc[q] = "place" => Signed[arg[q]].inst # i
                     /\ pc[q] = "rfq" => Asked[arg[q]].inst # i
NoEvents(i) == \A n \in DOMAIN events : Terms[events[n].policy].inst # i
TookBack(i) == allocation[i] = NoPolicy \/ returned[i] > 0
Withdrawn ==
  /\ \A i \in gone : instStatus[i] = "WITHDRAWN"
  /\ \A i \in gone \ unquiet : Left(i) /\ NoEvents(i) /\ TookBack(i)

(* What a balance has of the reserve: a treasury's, and its issuer's less.   *)
InTreasury(i, p) ==
  IF allocation[i] # NoPolicy /\ p = Terms[allocation[i]].treasury THEN Reserve(i) * (1 - returned[i])
  ELSE IF p = Issuer[i] THEN Reserve(i) * (returned[i] - 1)
  ELSE 0
Balanced ==
  \A i \in Instrument, p \in Party :
    balance[i][p] + Sold(i, p) = Granted(i, p) + Bought(i, p) + InTreasury(i, p)

(* Nothing is below zero before a migration takes anything back.            *)
Solvent == \A i \in Instrument \ gone, p \in Party : balance[i][p] >= 0

(* The copy of the exchange, of which the same may be said when it is put   *)
(* back.                                                                    *)
EepType ==
  [venueStatus : [Venue -> {"absent", "ACTIVE", "RETIRED"}],
   instStatus : [Instrument -> {"ACTIVE", "WITHDRAWN"}],
   disclosed : SUBSET (Venue \X Instrument), listed : SUBSET (Venue \X Instrument),
   balance : [Instrument -> [Party -> Int]],
   orderStatus : [Order -> {"absent", "OPEN", "PARTIAL", "FILLED", "CANCELLED"}],
   remaining : [Order -> Nat], received : [Order -> Nat], trades : Seq(Deals), settled : SUBSET Nat,
   stamps : Seq(Stamp), rfqStatus : [Rfq -> {"absent", "OPEN", "ACCEPTED"}],
   quoteStatus : [Quote -> {"absent", "OPEN", "ACCEPTED"}],
   returned : [Instrument -> Nat], gone : SUBSET Instrument]
Holding == {"copy eopp", "eep", "eopp", "restore"}

CopySound(f) ==
  /\ f \in EepType /\ f.gone \subseteq gone
  /\ \A i \in f.gone : f.instStatus[i] = "WITHDRAWN" /\ Ended(i)
  /\ \A i \in f.gone \ unquiet :
       /\ \A l \in f.listed : l[2] # i
       /\ allocation[i] = NoPolicy \/ f.returned[i] > 0
  /\ \A i \in Instrument : f.returned[i] > 0 => allocation[i] # NoPolicy /\ i \in f.gone
  /\ \A p \in prelaunch : Terms[p].inst \in f.gone
  /\ \A s \in sealed : s.inst \in f.gone
CopySolvent(f) == \A i \in Instrument \ f.gone, p \in Party : f.balance[i][p] >= 0
Copied == \A a \in Agent : job[a].op \in Holding => CopySound(eepCopy) /\ CopySolvent(eepCopy)

MInv ==
  /\ Tables /\ Stamped /\ Economy /\ Charges
  /\ Jobs /\ OneMigration /\ Receipts /\ Whole
  /\ Withdrawn /\ Balanced /\ Solvent /\ Copied


-----------------------------------------------------------------------------
(* What a step of the exchange does to its tables.                          *)

LEMMA InstSteps ==
  ASSUME [Next]_vars
  PROVE  \/ instStatus' = instStatus
         \/ \E i \in Instrument : DefineInstrument(i) \/ WithdrawInstrument(i)
<1>1. ASSUME NEW q \in Proc, Check(q) \/ Commit(q) PROVE instStatus' = instStatus
  BY <1>1 DEF Check, DiscloseCheck, ListCheck, PlaceCheck, CancelCheck, RfqCheck, QuoteCheck, Commit,
              DiscloseCommit, ListCommit, PlaceCommit, CancelCommit, RfqCommit, QuoteCommit, Abandon,
              market
<1>2. CASE AtOnce
  BY <1>2 DEF AtOnce, CreateVenue, RetireVenue, MatchTrade, MatchSelf, AcceptQuote, Settle, market
<1>3. CASE Tick \/ UNCHANGED vars
  BY <1>3 DEF Tick, vars, market
<1> QED
  BY <1>1, <1>2, <1>3 DEF Next

LEMMA InstStatusKept ==
  ASSUME Tables, [Next]_vars, NEW i \in Instrument
  PROVE  /\ ~DefineInstrument(i) /\ instStatus'[i] # "absent"
         /\ instStatus[i] = "WITHDRAWN" => instStatus'[i] = "WITHDRAWN"
<1>1. ASSUME NEW j \in Instrument, DefineInstrument(j) PROVE FALSE
  BY <1>1 DEF DefineInstrument, Tables
<1>2. ASSUME NEW j \in Instrument, WithdrawInstrument(j)
      PROVE  instStatus' = [instStatus EXCEPT ![j] = "WITHDRAWN"]
  BY <1>2 DEF WithdrawInstrument
<1>3. CASE instStatus' = instStatus
  BY <1>1, <1>3 DEF Tables
<1>4. ASSUME NEW j \in Instrument, instStatus' = [instStatus EXCEPT ![j] = "WITHDRAWN"]
      PROVE  instStatus'[i] # "absent" /\ (instStatus[i] = "WITHDRAWN" => instStatus'[i] = "WITHDRAWN")
  BY <1>4 DEF Tables, TablesOK
<1> QED
  BY <1>1, <1>2, <1>3, <1>4, InstSteps

(* An order that was placed is never forgotten.                             *)
LEMMA OrdersStay ==
  ASSUME TablesOK, [Next]_vars, NEW o \in Order, orderStatus[o] # "absent"
  PROVE  orderStatus'[o] # "absent"
<1>1. ASSUME NEW q \in Proc, Check(q) PROVE orderStatus' = orderStatus
  BY <1>1 DEF Check, DiscloseCheck, ListCheck, PlaceCheck, CancelCheck, RfqCheck, QuoteCheck, book
<1>2. ASSUME NEW q \in Proc, Commit(q) PROVE orderStatus'[o] # "absent"
  <2>1. CASE PlaceCommit(q) \/ CancelCommit(q)
    BY <2>1 DEF PlaceCommit, CancelCommit, TablesOK
  <2>2. CASE DiscloseCommit(q) \/ ListCommit(q) \/ RfqCommit(q) \/ QuoteCommit(q) \/ Abandon(q)
    BY <2>2 DEF DiscloseCommit, ListCommit, RfqCommit, QuoteCommit, Abandon, book
  <2> QED BY <1>2, <2>1, <2>2 DEF Commit
<1>3. ASSUME NEW v \in Venue, NEW i \in Instrument, MatchTrade(v, i) PROVE orderStatus'[o] # "absent"
  BY <1>3, TradeFacts DEF Trades
<1>4. ASSUME NEW v \in Venue, NEW i \in Instrument, MatchSelf(v, i) PROVE orderStatus'[o] # "absent"
  BY <1>4 DEF MatchSelf, TablesOK
<1>5. ASSUME NEW v \in Venue, CreateVenue(v) \/ RetireVenue(v) PROVE orderStatus' = orderStatus
  BY <1>5 DEF CreateVenue, RetireVenue, book
<1>6. ASSUME NEW i \in Instrument, DefineInstrument(i) \/ WithdrawInstrument(i)
      PROVE  orderStatus' = orderStatus
  BY <1>6 DEF DefineInstrument, WithdrawInstrument, book
<1>7. ASSUME NEW x \in Quote, AcceptQuote(x) PROVE orderStatus' = orderStatus
  BY <1>7 DEF AcceptQuote, book
<1>8. ASSUME NEW k \in DOMAIN trades, Settle(k) PROVE orderStatus' = orderStatus
  BY <1>8 DEF Settle, book
<1>9. CASE Tick \/ UNCHANGED vars
  BY <1>9 DEF Tick, vars, book
<1> QED
  BY <1>1, <1>2, <1>3, <1>4, <1>5, <1>6, <1>7, <1>8, <1>9 DEF Next, AtOnce

(* A call starts, ends, or stays as it is.                                  *)
LEMMA CallSteps ==
  ASSUME [Next]_vars
  PROVE  UNCHANGED calls \/ \E q \in Proc : Check(q) \/ (Commit(q) /\ Return(q))
<1>1. ASSUME NEW q \in Proc, Commit(q) PROVE Return(q)
  BY <1>1 DEF Commit, DiscloseCommit, ListCommit, PlaceCommit, CancelCommit, RfqCommit, QuoteCommit,
              Abandon
<1>2. CASE AtOnce
  BY <1>2 DEF AtOnce, CreateVenue, RetireVenue, DefineInstrument, WithdrawInstrument, MatchTrade,
              MatchSelf, AcceptQuote, Settle
<1>3. CASE Tick \/ UNCHANGED vars
  BY <1>3 DEF Tick, vars
<1> QED
  BY <1>1, <1>2, <1>3 DEF Next

LEMMA ExchangeCancels ==
  ASSUME Tables, [Next]_vars, NEW q \in Proc, pc'[q] = "cancel"
  PROVE  orderStatus'[arg'[q]] # "absent"
<1>1. CASE UNCHANGED calls
  <2>1. arg[q] \in Order /\ orderStatus[arg[q]] # "absent" /\ arg' = arg
    BY <1>1 DEF calls, Tables, TablesOK, ArgFits
  <2> QED BY <2>1, OrdersStay DEF Tables
<1>2. ASSUME NEW y \in Proc, Commit(y), Return(y) PROVE orderStatus'[arg'[q]] # "absent"
  <2>1. arg[q] \in Order /\ orderStatus[arg[q]] # "absent" /\ arg'[q] = arg[q]
    BY <1>2 DEF Return, Tables, TablesOK, ArgFits
  <2> QED BY <2>1, OrdersStay DEF Tables
<1>3. ASSUME NEW y \in Proc, NEW label, NEW x, NEW time, Begin(y, label, x, time),
             orderStatus' = orderStatus, label = "cancel" => orderStatus[x] # "absent"
      PROVE  orderStatus'[arg'[q]] # "absent"
  BY <1>3 DEF Begin, Tables, TablesOK, ArgFits
<1>4. ASSUME NEW y \in Proc, Check(y) PROVE orderStatus'[arg'[q]] # "absent"
  <2>1. ASSUME NEW v \in Venue, NEW i \in Instrument, DiscloseCheck(y, v, i) \/ ListCheck(y, v, i)
        PROVE  orderStatus'[arg'[q]] # "absent"
    BY <1>3, <2>1 DEF DiscloseCheck, ListCheck, book
  <2>2. ASSUME NEW o \in Order, PlaceCheck(y, o) PROVE orderStatus'[arg'[q]] # "absent"
    BY <1>3, <2>2 DEF PlaceCheck, book
  <2>3. ASSUME NEW o \in Order, CancelCheck(y, o) PROVE orderStatus'[arg'[q]] # "absent"
    BY <1>3, <2>3 DEF CancelCheck, book, Live
  <2>4. ASSUME NEW r \in Rfq, RfqCheck(y, r) PROVE orderStatus'[arg'[q]] # "absent"
    BY <1>3, <2>4 DEF RfqCheck, book
  <2>5. ASSUME NEW x \in Quote, QuoteCheck(y, x) PROVE orderStatus'[arg'[q]] # "absent"
    BY <1>3, <2>5 DEF QuoteCheck, book
  <2> QED BY <1>4, <2>1, <2>2, <2>3, <2>4, <2>5 DEF Check
<1> QED BY <1>1, <1>2, <1>4, CallSteps

LEMMA ExchangeTables ==
  ASSUME Tables, [Next]_vars
  PROVE  Tables'
<1>1. TablesOK'
  BY NextTables DEF Tables
<1>2. ASSUME NEW k \in DOMAIN trades, Settle(k) PROVE balance' \in [Instrument -> [Party -> Int]]
  <2> DEFINE t == trades[k]
  <2>1. t \in Deals
    BY DEF Tables, TablesOK
  <2>2. t.inst \in Instrument /\ t.qty \in Nat /\ balance[t.inst] \in [Party -> Int]
    BY <2>1 DEF Tables, Deals
  <2>3. Moved(t.inst, t.seller, t.buyer, t.qty) \in [Party -> Int]
    <3> HIDE DEF t
    <3> QED BY <2>2 DEF Moved
  <2> QED
    BY <1>2, <2>2, <2>3 DEF Settle, Tables
<1>3. balance' \in [Instrument -> [Party -> Int]]
  BY <1>2, InstStatusKept, BalanceSteps DEF Tables
<1> QED
  BY <1>1, <1>3, InstStatusKept, ExchangeCancels DEF Tables

(* Trades are only ever appended, and settled one at a time.                *)
LEMMA TradeSteps ==
  ASSUME TablesOK, [Next]_vars
  PROVE  \/ UNCHANGED <<trades, settled>>
         \/ settled' = settled /\ \E t \in Deals : trades' = Append(trades, t)
         \/ \E k \in DOMAIN trades : Settle(k)
<1>1. ASSUME NEW q \in Proc, Check(q) \/ Commit(q) PROVE UNCHANGED <<trades, settled>>
  BY <1>1 DEF Check, DiscloseCheck, ListCheck, PlaceCheck, CancelCheck, RfqCheck, QuoteCheck, Commit,
              DiscloseCommit, ListCommit, PlaceCommit, CancelCommit, RfqCommit, QuoteCommit, Abandon,
              deals
<1>2. ASSUME NEW v \in Venue, NEW i \in Instrument, MatchTrade(v, i)
      PROVE  settled' = settled /\ \E t \in Deals : trades' = Append(trades, t)
  BY <1>2, TradeFacts DEF Trades
<1>3. ASSUME NEW x \in Quote, AcceptQuote(x)
      PROVE  settled' = settled /\ \E t \in Deals : trades' = Append(trades, t)
  <2> DEFINE r == Offered[x].rfq
             t == Deal(Asked[r].venue, Asked[r].inst, BuyerOf(x), SellerOf(x),
                       NoOrder, NoOrder, Asked[r].qty, Offered[x].price)
  <2>1. t \in Deals
    BY BodiesAssumption DEF Deal, Deals, BuyerOf, SellerOf, RfqBody, QuoteBody
  <2>2. trades' = Append(trades, t) /\ settled' = settled
    BY <1>3 DEF AcceptQuote
  <2> HIDE DEF t
  <2> QED BY <2>1, <2>2
<1>4. CASE AtOnce
  <2>1. ASSUME NEW v \in Venue, NEW i \in Instrument, MatchSelf(v, i)
        PROVE  UNCHANGED <<trades, settled>>
    BY <2>1 DEF MatchSelf, deals
  <2>2. ASSUME NEW v \in Venue, CreateVenue(v) \/ RetireVenue(v) PROVE UNCHANGED <<trades, settled>>
    BY <2>2 DEF CreateVenue, RetireVenue, deals
  <2>3. ASSUME NEW i \in Instrument, DefineInstrument(i) \/ WithdrawInstrument(i)
        PROVE  UNCHANGED <<trades, settled>>
    BY <2>3 DEF DefineInstrument, WithdrawInstrument, deals
  <2> QED BY <1>2, <1>3, <1>4, <2>1, <2>2, <2>3 DEF AtOnce
<1>5. CASE Tick \/ UNCHANGED vars
  BY <1>5 DEF Tick, vars, deals
<1> QED
  BY <1>1, <1>4, <1>5 DEF Next

(* Trades and their stamps are as they were, but for new ones.              *)
LEMMA ExchangeStamps ==
  ASSUME TablesOK, TablesOK', Stamped, [Next]_vars, StampTrades
  PROVE  /\ Stamped' /\ DOMAIN trades \subseteq DOMAIN trades'
         /\ \A k \in DOMAIN trades : trades'[k] = trades[k] /\ stamps'[k] = stamps[k]
<1>1. Len(trades) \in Nat /\ DOMAIN trades = 1 .. Len(trades) /\ trades \in Seq(Deals)
  BY DEF TablesOK
<1>2. CASE trades' = trades
  <2>1. UNCHANGED <<stamps, dealt>>
    BY <1>1, <1>2 DEF StampTrades
  <2> QED BY <1>2, <2>1 DEF Stamped
<1>3. ASSUME NEW t \in Deals, trades' = Append(trades, t)
      PROVE  /\ Stamped' /\ DOMAIN trades \subseteq DOMAIN trades'
             /\ \A k \in DOMAIN trades : trades'[k] = trades[k] /\ stamps'[k] = stamps[k]
  <2>1. /\ Len(trades') = Len(trades) + 1 /\ DOMAIN trades' = 1 .. Len(trades) + 1
        /\ \A k \in DOMAIN trades : trades'[k] = trades[k]
    BY <1>1, <1>3
  <2>2. /\ stamps' = Append(stamps, [id |-> dealt + 1, at |-> now]) /\ dealt' = dealt + 1
    BY <1>1, <2>1 DEF StampTrades
  <2>3. [id |-> dealt + 1, at |-> now] \in Stamp
    BY <1>1 DEF Stamped, Stamp, TablesOK
  <2>4. /\ stamps' \in Seq(Stamp) /\ Len(stamps') = Len(trades')
        /\ \A k \in DOMAIN trades : stamps'[k] = stamps[k]
        /\ stamps'[Len(trades) + 1] = [id |-> dealt + 1, at |-> now]
    BY <1>1, <2>1, <2>2, <2>3 DEF Stamped
  <2>5. \A k \in DOMAIN stamps' : stamps'[k].id = k
    <3> SUFFICES ASSUME NEW k \in DOMAIN stamps' PROVE stamps'[k].id = k
      OBVIOUS
    <3>1. k \in 1 .. Len(trades) + 1
      BY <1>1, <2>1, <2>4
    <3>2. CASE k = Len(trades) + 1
      BY <2>4, <3>2 DEF Stamped
    <3>3. CASE k \in 1 .. Len(trades)
      BY <1>1, <2>4, <3>3 DEF Stamped
    <3> QED BY <1>1, <3>1, <3>2, <3>3
  <2> QED BY <1>1, <2>1, <2>2, <2>4, <2>5 DEF Stamped
<1>4. ASSUME NEW k \in DOMAIN trades, Settle(k) PROVE trades' = trades
  BY <1>4 DEF Settle
<1> QED BY <1>2, <1>3, <1>4, TradeSteps

(* A settlement moves exactly what the trade says.                          *)
LEMMA SettleMoves ==
  ASSUME Tables, NEW k \in DOMAIN trades, Settle(k), NEW i \in Instrument, NEW p \in Party
  PROVE  /\ trades[k] \in Deals /\ k \in Pending
         /\ trades' = trades /\ settled' = settled \cup {k}
         /\ balance'[i][p] = balance[i][p]
              + (IF trades[k].inst = i /\ trades[k].buyer = p THEN trades[k].qty ELSE 0)
              - (IF trades[k].inst = i /\ trades[k].seller = p THEN trades[k].qty ELSE 0)
<1>1. PICK t \in Deals : t = trades[k]
  BY DEF Tables, TablesOK
<1>2. /\ k \in Pending /\ trades' = trades /\ settled' = settled \cup {k}
      /\ t.inst \in Instrument /\ t.seller \in Party /\ t.buyer \in Party /\ t.qty \in Nat
      /\ balance' = [balance EXCEPT ![t.inst] = Moved(t.inst, t.seller, t.buyer, t.qty)]
      /\ balance[i][p] \in Int
  BY <1>1 DEF Settle, MarkSettled, Deals, Tables
<1>3. CASE i = t.inst
  <2>1. balance'[i][p] = (IF p = t.buyer THEN t.qty ELSE 0)
           + (IF p = t.seller THEN balance[i][p] - t.qty ELSE balance[i][p])
    BY <1>2, <1>3 DEF Tables, Moved
  <2> QED BY <1>1, <1>2, <1>3, <2>1
<1>4. CASE i # t.inst
  <2>1. balance'[i][p] = balance[i][p]
    BY <1>2, <1>4 DEF Tables
  <2> QED BY <1>1, <1>2, <1>4, <2>1
<1> QED BY <1>3, <1>4

(* Each unit of a balance is accounted for.                                 *)
LEMMA BalanceMoves ==
  ASSUME Tables, Tables', [Next]_vars, NEW i \in Instrument, NEW p \in Party
  PROVE  /\ balance[i][p] \in Int /\ balance'[i][p] \in Int
         /\ Sold(i, p) \in Nat /\ Bought(i, p) \in Nat /\ Sold(i, p)' \in Nat /\ Bought(i, p)' \in Nat
         /\ balance'[i][p] + Sold(i, p)' + Bought(i, p) = balance[i][p] + Sold(i, p) + Bought(i, p)'
<1>1. /\ balance[i][p] \in Int /\ balance'[i][p] \in Int
      /\ Sold(i, p) \in Nat /\ Bought(i, p) \in Nat
  BY ColumnsType DEF Tables
<1>2. ASSUME NEW k \in DOMAIN trades, Settle(k)
      PROVE  /\ Sold(i, p)' \in Nat /\ Bought(i, p)' \in Nat
             /\ balance'[i][p] + Sold(i, p)' + Bought(i, p)
                = balance[i][p] + Sold(i, p) + Bought(i, p)'
  <2> DEFINE got == IF trades[k].inst = i /\ trades[k].buyer = p THEN trades[k].qty ELSE 0
             gave == IF trades[k].inst = i /\ trades[k].seller = p THEN trades[k].qty ELSE 0
  <2>1. /\ trades[k] \in Deals /\ k \in Pending /\ trades' = trades /\ settled' = settled \cup {k}
        /\ balance'[i][p] = balance[i][p] + got - gave
    BY <1>2, SettleMoves
  <2>2. got \in Nat /\ gave \in Nat
    BY <2>1 DEF Deals
  <2>3. Bought(i, p)' = Bought(i, p) + got /\ Sold(i, p)' = Sold(i, p) + gave
    BY <2>1, MovedSettle DEF Tables
  <2> HIDE DEF got, gave
  <2> QED BY <1>1, <2>1, <2>2, <2>3
<1>3. ASSUME ~ \E k \in DOMAIN trades : Settle(k) PROVE balance' = balance
  BY <1>3, BalanceSteps, InstStatusKept
<1>4. CASE UNCHANGED <<trades, settled>>
  <2>1. Sold(i, p)' = Sold(i, p) /\ Bought(i, p)' = Bought(i, p)
    BY <1>4, ColumnsSame
  <2>2. ~ \E k \in DOMAIN trades : Settle(k)
    BY <1>4 DEF Settle, MarkSettled, Pending
  <2> QED BY <1>1, <1>3, <2>1, <2>2
<1>5. ASSUME NEW t \in Deals, settled' = settled, trades' = Append(trades, t)
      PROVE  /\ Sold(i, p)' = Sold(i, p) /\ Bought(i, p)' = Bought(i, p)
             /\ balance' = balance
  <2>1. PICK m : NewRow(m, t)
    BY <1>5, AppendFacts DEF Tables
  <2>2. Sold(i, p)' = Sold(i, p) /\ Bought(i, p)' = Bought(i, p)
    BY <2>1, MovedAppend DEF Tables
  <2>3. ~ \E k \in DOMAIN trades : Settle(k)
    BY <1>5 DEF Settle, MarkSettled, Pending
  <2> QED BY <1>3, <2>2, <2>3
<1> QED BY <1>1, <1>2, <1>4, <1>5, TradeSteps DEF Tables

(* A settlement moves only units that the seller holds.                     *)
LEMMA StaysSolvent ==
  ASSUME Tables, [Next]_vars, NEW i \in Instrument, NEW p \in Party, balance[i][p] >= 0
  PROVE  balance'[i][p] >= 0
<1>1. ASSUME NEW k \in DOMAIN trades, Settle(k) PROVE balance'[i][p] >= 0
  <2> DEFINE got == IF trades[k].inst = i /\ trades[k].buyer = p THEN trades[k].qty ELSE 0
             gave == IF trades[k].inst = i /\ trades[k].seller = p THEN trades[k].qty ELSE 0
  <2>1. trades[k] \in Deals /\ balance'[i][p] = balance[i][p] + got - gave
    BY <1>1, SettleMoves
  <2>2. /\ got \in Nat /\ gave \in Nat
        /\ trades[k].inst = i /\ trades[k].seller = p => gave <= balance[i][p]
    BY <1>1, <2>1 DEF Deals, Settle
  <2>3. balance[i][p] \in Int /\ gave <= balance[i][p]
    BY <2>2 DEF Tables
  <2> HIDE DEF got, gave
  <2> QED BY <2>1, <2>2, <2>3
<1>2. CASE ~ \E k \in DOMAIN trades : Settle(k)
  BY <1>2, BalanceSteps, InstStatusKept
<1> QED BY <1>1, <1>2

(* Nothing reaches a withdrawn instrument that had nothing on its way.      *)
LEMMA ExchangeLeft ==
  ASSUME Tables, [Next]_vars, NEW i \in Instrument, instStatus[i] = "WITHDRAWN", Left(i)
  PROVE  Left(i)'
<1> DEFINE Calm ==
      \A q \in Proc : /\ pc'[q] = "list" => arg'[q][2] # i
                      /\ pc'[q] = "place" => Signed[arg'[q]].inst # i
                      /\ pc'[q] = "rfq" => Asked[arg'[q]].inst # i
<1>0. TablesOK
  BY DEF Tables
<1>1. ASSUME UNCHANGED <<listed, orderStatus, trades, rfqStatus>>, Calm PROVE Left(i)'
  BY <1>1 DEF Left
<1>2. ASSUME UNCHANGED calls PROVE Calm
  BY <1>2 DEF calls, Left
<1>3. ASSUME NEW q \in Proc, Return(q) PROVE Calm
  BY <1>0, <1>3 DEF Return, TablesOK, Left
<1>4. ASSUME NEW q \in Proc, Check(q) PROVE Left(i)'
  <2>1. UNCHANGED <<listed, orderStatus, trades, rfqStatus>>
    BY <1>4 DEF Check, DiscloseCheck, ListCheck, PlaceCheck, CancelCheck, RfqCheck, QuoteCheck,
                market, book, deals, talks
  <2>2. ASSUME NEW label, NEW x, NEW time, Begin(q, label, x, time),
               label = "list" => x[2] # i, label = "place" => Signed[x].inst # i,
               label = "rfq" => Asked[x].inst # i
        PROVE  Calm
    BY <1>0, <2>2 DEF Begin, TablesOK, Left
  <2> HIDE DEF Calm
  <2>3. ASSUME NEW v \in Venue, NEW j \in Instrument, DiscloseCheck(q, v, j) PROVE Calm
    BY <2>2, <2>3 DEF DiscloseCheck
  <2>4. ASSUME NEW v \in Venue, NEW j \in Instrument, ListCheck(q, v, j) PROVE Calm
    <3>1. j # i
      BY <2>4 DEF ListCheck, BothActive
    <3> QED BY <2>2, <2>4, <3>1 DEF ListCheck
  <2>5. ASSUME NEW o \in Order, PlaceCheck(q, o) PROVE Calm
    <3>1. Signed[o].inst # i
      BY <2>5 DEF PlaceCheck
    <3> QED BY <2>2, <2>5, <3>1 DEF PlaceCheck
  <2>6. ASSUME NEW o \in Order, CancelCheck(q, o) PROVE Calm
    BY <2>2, <2>6 DEF CancelCheck
  <2>7. ASSUME NEW r \in Rfq, RfqCheck(q, r) PROVE Calm
    <3>1. Asked[r].inst # i
      BY <2>7 DEF RfqCheck, Left
    <3> QED BY <2>2, <2>7, <3>1 DEF RfqCheck
  <2>8. ASSUME NEW x \in Quote, QuoteCheck(q, x) PROVE Calm
    BY <2>2, <2>8 DEF QuoteCheck
  <2>9. Calm
    BY <1>4, <2>3, <2>4, <2>5, <2>6, <2>7, <2>8 DEF Check
  <2> QED BY <1>1, <2>1, <2>9
<1>5. ASSUME NEW q \in Proc, Commit(q) PROVE Left(i)'
  <2>1. Calm
    BY <1>3, <1>5 DEF Commit, DiscloseCommit, ListCommit, PlaceCommit, CancelCommit, RfqCommit,
                      QuoteCommit, Abandon
  <2> HIDE DEF Calm
  <2>2. CASE DiscloseCommit(q) \/ QuoteCommit(q) \/ Abandon(q)
    BY <1>1, <2>1, <2>2 DEF DiscloseCommit, QuoteCommit, Abandon, market, book, deals, talks
  <2>3. CASE ListCommit(q)
    BY <2>1, <2>3 DEF ListCommit, Left, Calm, book, deals, talks
  <2>4. CASE PlaceCommit(q)
    <3>1. /\ UNCHANGED <<listed, trades, rfqStatus>>
          /\ \A o \in Order : Signed[o].inst = i => orderStatus'[o] = orderStatus[o]
      BY <1>0, <2>4 DEF PlaceCommit, Left, TablesOK, market, deals, talks
    <3> QED BY <2>1, <3>1 DEF Left, Calm
  <2>5. CASE CancelCommit(q)
    <3>1. arg[q] \in Order /\ orderStatus[arg[q]] # "absent"
      BY <1>0, <2>5 DEF CancelCommit, TablesOK, ArgFits, Tables
    <3>2. /\ UNCHANGED <<listed, trades, rfqStatus>>
          /\ \A o \in Order : Signed[o].inst = i => orderStatus'[o] = orderStatus[o]
      BY <1>0, <2>5, <3>1 DEF CancelCommit, Left, TablesOK, market, deals, talks
    <3> QED BY <2>1, <3>2 DEF Left, Calm
  <2>6. CASE RfqCommit(q)
    <3>1. /\ UNCHANGED <<listed, trades, orderStatus>>
          /\ \A r \in Rfq : Asked[r].inst = i => rfqStatus'[r] = rfqStatus[r]
      BY <1>0, <2>6 DEF RfqCommit, Left, TablesOK, market, deals, book
    <3> QED BY <2>1, <3>1 DEF Left, Calm
  <2> QED BY <1>5, <2>2, <2>3, <2>4, <2>5, <2>6 DEF Commit
<1>6. ASSUME NEW v \in Venue, CreateVenue(v) \/ RetireVenue(v) PROVE Left(i)'
  <2>1. UNCHANGED <<listed, orderStatus, trades, rfqStatus, calls>>
    BY <1>6 DEF CreateVenue, RetireVenue, book, deals, talks
  <2> QED BY <1>1, <1>2, <2>1
<1>7. ASSUME NEW j \in Instrument, DefineInstrument(j) \/ WithdrawInstrument(j) PROVE Left(i)'
  <2>1. UNCHANGED <<orderStatus, trades, rfqStatus, calls>> /\ listed' \subseteq listed
    BY <1>7 DEF DefineInstrument, WithdrawInstrument, book, deals, talks
  <2> QED BY <1>2, <2>1 DEF Left
<1>8. ASSUME NEW v \in Venue, NEW j \in Instrument, MatchTrade(v, j) PROVE Left(i)'
  <2>1. PICK b \in Order, s \in Order, n \in Nat, t \in Deals : Trades(v, j, b, s, n, t)
    BY <1>0, <1>8, TradeFacts
  <2>2. /\ orderStatus[b] \in Live /\ orderStatus[s] \in Live /\ t.inst = Signed[b].inst
        /\ Signed[b].inst = Signed[s].inst
    BY <1>0, <2>1, MeetFacts DEF Trades, Deal
  <2>3. t.inst # i
    BY <2>2 DEF Left, Live
  <2>4. PICK m : NewRow(m, t)
    BY <1>0, <2>1, AppendFacts DEF Trades
  <2>5. \A k \in DOMAIN trades' : trades'[k].inst # i
    BY <2>3, <2>4 DEF NewRow, Left
  <2>6. \A o \in Order : Signed[o].inst = i => orderStatus'[o] = orderStatus[o]
    BY <2>1, <2>2, <2>3 DEF Trades
  <2>7. UNCHANGED <<listed, rfqStatus, calls>>
    BY <1>8 DEF MatchTrade, market, talks
  <2> QED BY <1>2, <2>5, <2>6, <2>7 DEF Left
<1>9. ASSUME NEW v \in Venue, NEW j \in Instrument, MatchSelf(v, j) PROVE Left(i)'
  <2>1. PICK b \in Order, s \in Order :
          Meet(v, j, b, s) /\ orderStatus' = [orderStatus EXCEPT ![Newer(b, s)] = "CANCELLED"]
    BY <1>9 DEF MatchSelf
  <2>2. orderStatus[b] \in Live /\ orderStatus[s] \in Live
    BY <2>1 DEF Meet, LiveOrders
  <2>3. \A o \in Order : Signed[o].inst = i => orderStatus'[o] = orderStatus[o]
    BY <1>0, <2>1, <2>2 DEF Newer, Left, Live, TablesOK
  <2>4. UNCHANGED <<listed, rfqStatus, trades, calls>>
    BY <1>9 DEF MatchSelf, market, talks, deals
  <2> QED BY <1>2, <2>3, <2>4 DEF Left
<1>10. ASSUME NEW x \in Quote, AcceptQuote(x) PROVE Left(i)'
  <2> DEFINE r == Offered[x].rfq
             t == Deal(Asked[r].venue, Asked[r].inst, BuyerOf(x), SellerOf(x),
                       NoOrder, NoOrder, Asked[r].qty, Offered[x].price)
  <2>1. t \in Deals /\ r \in Rfq /\ t.inst = Asked[r].inst
    BY BodiesAssumption DEF Deal, Deals, BuyerOf, SellerOf, RfqBody, QuoteBody
  <2>2. trades' = Append(trades, t) /\ settled' = settled /\ rfqStatus[r] = "OPEN"
        /\ rfqStatus' = [rfqStatus EXCEPT ![r] = "ACCEPTED"]
        /\ UNCHANGED <<listed, orderStatus, calls>>
    BY <1>10 DEF AcceptQuote, market, book
  <2> HIDE DEF t, r
  <2>3. t.inst # i
    BY <2>1, <2>2 DEF Left
  <2>4. PICK m : NewRow(m, t)
    BY <1>0, <2>1, <2>2, AppendFacts
  <2>5. \A k \in DOMAIN trades' : trades'[k].inst # i
    BY <2>3, <2>4 DEF NewRow, Left
  <2>6. \A y \in Rfq : rfqStatus'[y] = "OPEN" => rfqStatus[y] = "OPEN"
    BY <1>0, <2>2 DEF TablesOK
  <2> QED BY <1>2, <2>2, <2>5, <2>6 DEF Left
<1>11. ASSUME NEW k \in DOMAIN trades, Settle(k) PROVE Left(i)'
  <2>1. UNCHANGED <<listed, orderStatus, trades, rfqStatus, calls>>
    BY <1>11 DEF Settle, market, book, talks
  <2> QED BY <1>1, <1>2, <2>1
<1>12. CASE Tick \/ UNCHANGED vars
  <2>1. UNCHANGED <<listed, orderStatus, trades, rfqStatus, calls>>
    BY <1>12 DEF Tick, vars, market, book, deals, talks
  <2> QED BY <1>1, <1>2, <2>1
<1> QED
  BY <1>4, <1>5, <1>6, <1>7, <1>8, <1>9, <1>10, <1>11, <1>12 DEF Next, AtOnce

-----------------------------------------------------------------------------
(* What the parts of the invariant depend on.                               *)

LEMMA TablesSame ==
  ASSUME Tables, Stamped, UNCHANGED <<vars, stamps, dealt>>
  PROVE  Tables' /\ Stamped'
BY ExchangeTables DEF Stamped, vars, deals

LEMMA ChargedSame ==
  ASSUME TablesOK, Stamped, UNCHANGED <<policyTable, retro>>, DOMAIN trades \subseteq DOMAIN trades',
         \A k \in DOMAIN trades : trades'[k] = trades[k] /\ stamps'[k] = stamps[k],
         NEW e, Charged(e)
  PROVE  Charged(e)'
<1>1. /\ e.trade \in DOMAIN trades' /\ trades'[e.trade] = trades[e.trade]
      /\ stamps'[e.trade] = stamps[e.trade]
  BY DEF Charged
<1>2. \A i : Recorded(i)' = Recorded(i)
  BY DEF Recorded, policyTable
<1>3. effective' = effective /\ retro' = retro
  BY DEF policyTable
<1>4. \A p, x : Supersedes(p, x)' <=> Supersedes(p, x)
  BY <1>3 DEF Supersedes
<1> QED BY <1>1, <1>2, <1>3, <1>4 DEF Charged

LEMMA BalancedSame ==
  ASSUME UNCHANGED <<balance, trades, settled, instStatus, allocation, returned>>, Balanced
  PROVE  Balanced'
<1> SUFFICES ASSUME NEW i \in Instrument, NEW p \in Party
             PROVE  balance'[i][p] + Sold(i, p)' = Granted(i, p)' + Bought(i, p)' + InTreasury(i, p)'
  BY DEF Balanced
<1>1. Sold(i, p)' = Sold(i, p) /\ Bought(i, p)' = Bought(i, p)
  BY ColumnsSame
<1>2. Granted(i, p)' = Granted(i, p) /\ InTreasury(i, p)' = InTreasury(i, p)
  BY DEF Granted, InTreasury, Reserve
<1> QED BY <1>1, <1>2 DEF Balanced

LEMMA SolventSame ==
  ASSUME UNCHANGED <<balance, gone>>, Solvent
  PROVE  Solvent'
BY DEF Solvent

LEMMA WithdrawnSame ==
  ASSUME Withdrawn, UNCHANGED <<market, trades, orderStatus, rfqStatus, pc, arg, events, allocation,
                                returned, gone, unquiet>>
  PROVE  Withdrawn'
BY DEF Withdrawn, Left, NoEvents, TookBack, market

LEMMA CopySame ==
  ASSUME UNCHANGED <<eepCopy, gone, prelaunch, sealed, cut, unquiet, allocation>>
  PROVE  /\ CopySound(eepCopy) => CopySound(eepCopy)'
         /\ CopySolvent(eepCopy) => CopySolvent(eepCopy)'
BY DEF CopySound, CopySolvent, Ended

LEMMA EconomySame ==
  ASSUME Economy, UNCHANGED <<policyTable, events, rows>>
  PROVE  Economy'
BY DEF Economy, policyTable, rows

LEMMA RecordsSame ==
  ASSUME Receipts, Whole, UNCHANGED <<policyTable, prelaunch, gone, sealed, cut>>,
         \A i \in Instrument : AtWork(i) => AtWork(i)' \/ i \notin gone \/ Ended(i),
         gone \subseteq Instrument
  PROVE  Receipts' /\ Whole'
BY DEF Receipts, Closed, Whole, Ended, policyTable

(* A call's knowledge survives what others do.                              *)
Onward ==
  /\ \A e : Charged(e) => Charged(e)'
  /\ \A i : economic_events(i) => economic_events(i)'
  /\ \A i \in Instrument : allocation[i] # NoPolicy => allocation'[i] = allocation[i]
  /\ gone \subseteq gone'
  /\ \A P \in SUBSET Policy : Closed(P) => Closed(P)'

LEMMA KnowsKept ==
  ASSUME NEW j, JobType(j), Knows(j), Onward
  PROVE  Knows(j)'
<1>1. j.op = "capture" => Charged(j.event)'
  BY DEF Knows, Onward
<1>2. j.op = "audit" => /\ j.use[3] => economic_events(j.inst)'
                        /\ j.use[4] # NoPolicy => allocation'[j.inst] = j.use[4]
  <2> HAVE j.op = "audit"
  <2>1. j.inst \in Instrument
    BY DEF JobType, Migrating
  <2>2. /\ j.use[3] => economic_events(j.inst)
        /\ j.use[4] # NoPolicy => allocation[j.inst] = j.use[4]
    BY DEF Knows
  <2> QED BY <2>1, <2>2 DEF Onward
<1>3. j.op \in Planning \cup {"restore"} =>
        j.reserve = NoPolicy \/ j.reserve = allocation'[j.inst]
  <2> HAVE j.op \in Planning \cup {"restore"}
  <2>1. j.inst \in Instrument
    BY DEF JobType, Migrating, Planning
  <2>2. j.reserve = NoPolicy \/ j.reserve = allocation[j.inst]
    BY DEF Knows
  <2> QED BY <2>1, <2>2 DEF Onward
<1>4. Withdrew(j) => j.inst \in gone'
  BY DEF Knows, Onward
<1>5. j.op = "receipt" => Closed(j.policies)'
  BY DEF Knows, Onward, JobType
<1> QED BY <1>1, <1>2, <1>3, <1>4, <1>5 DEF Knows

LEMMA JobsSame ==
  ASSUME Jobs, Onward, job' = job
  PROVE  Jobs'
<1>1. ASSUME NEW a \in Agent PROVE JobType(job'[a])
  BY DEF Jobs
<1>2. ASSUME NEW a \in Agent PROVE Knows(job[a])'
  <2> QED BY KnowsKept DEF Jobs
<1> QED BY <1>1, <1>2 DEF Jobs

(* One call goes on with r.                                                 *)
LEMMA JobsStep ==
  ASSUME Jobs, Onward, NEW a \in Agent, NEW r, job' = [job EXCEPT ![a] = r], JobType(r), Knows(r)'
  PROVE  Jobs'
<1>1. DOMAIN job' = Agent /\ job'[a] = r /\ \A b \in Agent \ {a} : job'[b] = job[b]
  BY DEF Jobs
<1>2. ASSUME NEW b \in Agent \ {a} PROVE JobType(job[b]) /\ Knows(job[b])
  BY DEF Jobs
<1>3. ASSUME NEW b \in Agent \ {a} PROVE Knows(job[b])'
  <2>1. PICK j : j = job[b]
    OBVIOUS
  <2>2. Knows(j)'
    BY <1>2, <2>1, KnowsKept
  <2>3. job'[b] = j
    BY <1>1, <2>1
  <2> QED BY <2>2, <2>3 DEF Knows, Withdrew, Charged, economic_events
<1>4. Knows(job[a])'
  BY <1>1 DEF Knows, Withdrew, Charged, economic_events
<1>5. \A b \in Agent : JobType(job'[b])
  BY <1>1, <1>2
<1> QED BY <1>1, <1>3, <1>4, <1>5 DEF Jobs

LEMMA OneMigrationStep ==
  ASSUME Jobs, OneMigration, NEW a \in Agent, NEW r, job' = [job EXCEPT ![a] = r],
         r.op \in Migrating => job[a].op \in Migrating
  PROVE  OneMigration'
<1>1. job'[a] = r /\ \A b \in Agent \ {a} : job'[b] = job[b]
  BY DEF Jobs
<1> QED BY <1>1 DEF OneMigration

LEMMA TreasuryType ==
  ASSUME Economy, NEW i \in Instrument, NEW p \in Party
  PROVE  /\ Reserve(i) \in Nat /\ InTreasury(i, p) \in Int
         /\ returned[i] \in Nat
<1>0. returned[i] \in Nat /\ (allocation[i] = NoPolicy \/ allocation[i] \in Policy)
  BY DEF Economy, AnyPolicy
<1>1. Reserve(i) \in Nat /\ returned[i] \in Nat
  <2>1. CASE allocation[i] = NoPolicy
    BY <1>0, <2>1 DEF Reserve
  <2>2. CASE allocation[i] \in Policy
    <3>1. Terms[allocation[i]].reserve \in Nat
      BY <2>2, TermsAssumption DEF TermsBody
    <3> QED BY <1>0, <3>1 DEF Reserve
  <2> QED BY <1>0, <2>1, <2>2
<1>3. \A m \in Nat, n \in Nat : m * (1 - n) \in Int /\ m * (n - 1) \in Int
  OBVIOUS
<1>4. InTreasury(i, p) \in Int
  BY <1>1, <1>3 DEF InTreasury
<1> QED BY <1>1, <1>4

-----------------------------------------------------------------------------
(* A step of the exchange.                                                  *)

LEMMA ExchangeKeeps ==
  ASSUME MInv, Next, StampTrades,
         UNCHANGED <<policyTable, events, agents, retro, eepCopy, eoppCopy, rows, history>>
  PROVE  MInv'
<1> USE DEF MInv
<1>0. /\ [Next]_vars /\ TablesOK /\ Tables' /\ TablesOK'
      /\ UNCHANGED <<policyStatus, effective, withdrawn, allocation, events, job, retro, eepCopy,
                     prelaunch, returned, gone, sealed, cut, unquiet>>
  BY ExchangeTables DEF Tables, policyTable, agents, rows, history
<1>1. /\ Stamped' /\ DOMAIN trades \subseteq DOMAIN trades'
      /\ \A k \in DOMAIN trades : trades'[k] = trades[k] /\ stamps'[k] = stamps[k]
  BY <1>0, ExchangeStamps
<1>2. Economy'
  BY EconomySame
<1>3. \A e : Charged(e) => Charged(e)'
  BY <1>0, <1>1, ChargedSame
<1>4. Charges'
  BY <1>0, <1>3 DEF Charges
<1>5. Onward
  BY <1>0, <1>3 DEF Onward, economic_events, Closed
<1>6. Jobs' /\ OneMigration'
  BY <1>0, <1>5, JobsSame DEF OneMigration
<1>7. Receipts' /\ Whole'
  BY <1>0, RecordsSame DEF AtWork, Economy
<1>8. Withdrawn'
  <2>1. \A i \in gone : instStatus'[i] = "WITHDRAWN"
    BY <1>0, InstStatusKept DEF Withdrawn, Economy
  <2>2. \A i \in gone \ unquiet : Left(i)' /\ NoEvents(i)' /\ TookBack(i)'
    BY <1>0, ExchangeLeft DEF Withdrawn, Economy, NoEvents, TookBack
  <2> QED BY <1>0, <2>1, <2>2 DEF Withdrawn
<1>9. Balanced'
  <2> SUFFICES ASSUME NEW i \in Instrument, NEW p \in Party
               PROVE  balance'[i][p] + Sold(i, p)' = Granted(i, p)' + Bought(i, p)' + InTreasury(i, p)'
    BY DEF Balanced
  <2>1. /\ balance[i][p] \in Int /\ balance'[i][p] \in Int
        /\ Sold(i, p) \in Nat /\ Bought(i, p) \in Nat /\ Sold(i, p)' \in Nat /\ Bought(i, p)' \in Nat
        /\ balance'[i][p] + Sold(i, p)' + Bought(i, p) = balance[i][p] + Sold(i, p) + Bought(i, p)'
    BY <1>0, BalanceMoves
  <2>2. Granted(i, p)' = Granted(i, p) /\ Granted(i, p) \in Nat
    BY <1>0, InstStatusKept, InstrumentAssumption DEF Granted, Tables
  <2>3. InTreasury(i, p)' = InTreasury(i, p) /\ InTreasury(i, p) \in Int
    BY <1>0, TreasuryType DEF InTreasury, Reserve
  <2>4. balance[i][p] + Sold(i, p) = Granted(i, p) + Bought(i, p) + InTreasury(i, p)
    BY DEF Balanced
  <2> QED BY <2>1, <2>2, <2>3, <2>4
<1>10. Solvent'
  BY <1>0, StaysSolvent DEF Solvent, Tables
<1>11. Copied'
  BY <1>0, CopySame DEF Copied
<1> QED BY <1>0, <1>1, <1>2, <1>4, <1>6, <1>7, <1>8, <1>9, <1>10, <1>11

-----------------------------------------------------------------------------
(* A step that changes no table, only what a call holds.                    *)

LEMMA JobKeeps ==
  ASSUME MInv, NEW a \in Agent, NEW r, job' = [job EXCEPT ![a] = r], JobType(r), Knows(r),
         UNCHANGED <<vars, policyTable, events, stamps, dealt, retro, rows, sealed, cut,
                     unquiet>>,
         OneMigration', Copied',
         \A i \in Instrument : AtWork(i) => AtWork(i)' \/ i \notin gone \/ Ended(i)
  PROVE  MInv'
<1> USE DEF MInv
<1>0. /\ TablesOK /\ Tables' /\ Stamped'
      /\ UNCHANGED <<market, balance, book, deals, trades, settled, instStatus, orderStatus,
                     rfqStatus, pc, arg, policyStatus, effective, withdrawn, allocation, events, retro,
                     prelaunch, returned, gone, sealed, cut, unquiet>>
  BY TablesSame DEF Tables, policyTable, rows, vars, market, book, deals, talks, calls
<1>1. Economy' /\ Balanced' /\ Solvent' /\ Withdrawn'
  BY <1>0, EconomySame, BalancedSame, SolventSame, WithdrawnSame
<1>2. \A e : Charged(e) => Charged(e)'
  BY <1>0, ChargedSame
<1>3. Charges'
  BY <1>0, <1>2 DEF Charges
<1>4. Onward
  BY <1>0, <1>2 DEF Onward, economic_events, Closed
<1>7. Knows(r)'
  BY <1>4, KnowsKept
<1>5. Jobs'
  BY <1>4, <1>7, JobsStep
<1>6. Receipts' /\ Whole'
  BY <1>0, RecordsSame DEF Economy
<1> QED BY <1>0, <1>1, <1>3, <1>5, <1>6

(* What a call outside a migration leaves to the migrations.                *)
LEMMA OtherCall ==
  ASSUME Jobs, OneMigration, NEW a \in Agent, NEW r, job' = [job EXCEPT ![a] = r],
         r.op \notin Migrating, job[a].op \notin Migrating
  PROVE  /\ OneMigration' /\ \A i \in Instrument : AtWork(i) => AtWork(i)'
         /\ \A b \in Agent : job'[b].op \in Holding => b # a /\ job[b].op \in Holding
<1>1. job'[a] = r /\ \A b \in Agent \ {a} : job'[b] = job[b]
  BY DEF Jobs
<1>2. {"eopp", "receipt", "restore"} \subseteq Migrating /\ Holding \subseteq Migrating
  BY DEF Migrating, Holding
<1>3. OneMigration'
  BY <1>1 DEF OneMigration
<1>4. ASSUME NEW i \in Instrument, AtWork(i) PROVE AtWork(i)'
  BY <1>1, <1>2, <1>4 DEF AtWork
<1> QED BY <1>1, <1>2, <1>3, <1>4

LEMMA NoJobFits == JobType(NoJob) /\ Knows(NoJob) /\ Knows(NoJob)' /\ NoJob.op = "none"
BY DEF JobType, Knows, NoJob, Planning, Migrating, Withdrew

LEMMA AgentJobKeeps ==
  ASSUME MInv, NEW a \in Agent, NEW r, job' = [job EXCEPT ![a] = r], JobType(r), Knows(r),
         r.op \notin Migrating, job[a].op \notin Migrating,
         UNCHANGED <<vars, policyTable, events, stamps, dealt, retro, eepCopy, eoppCopy, rows, history>>
  PROVE  MInv'
<1>1. /\ OneMigration' /\ \A i \in Instrument : AtWork(i) => AtWork(i)'
      /\ \A b \in Agent : job'[b].op \in Holding => b # a /\ job[b].op \in Holding
  BY OtherCall DEF MInv
<1>2. UNCHANGED <<eepCopy, gone, prelaunch, sealed, cut, unquiet, allocation>>
  BY DEF rows, history, policyTable
<1>3. Copied'
  BY <1>1, <1>2, CopySame DEF Copied, MInv
<1> QED BY <1>1, <1>2, <1>3, JobKeeps

(* A call reads, or ends without having changed anything.                   *)
LEMMA AgentLooks ==
  ASSUME MInv, NEW a \in Agent, UNCHANGED <<eepCopy, eoppCopy, rows, history>>,
         \/ \E p \in Policy, e \in 0..MaxTime : DefineCheck(a, p, e)
         \/ \E p \in Policy : WithdrawCheck(a, p) \/ AllocateCheck(a, p)
         \/ \E k \in DOMAIN trades : CaptureCheck(a, k)
         \/ GiveUp(a)
  PROVE  MInv'
<1>1. ASSUME NEW r, Start(a, r), JobType(r), Knows(r), r.op \notin Migrating,
             UNCHANGED <<vars, policyTable, events, stamps, dealt, retro>>
      PROVE  MInv'
  <2>1. job[a].op \notin Migrating
    <3>1. job[a] = NoJob
      BY <1>1 DEF Start
    <3> QED BY <3>1, NoJobFits DEF Migrating
  <2> QED BY <1>1, <2>1, AgentJobKeeps DEF Start
<1> USE DEF Knows, JobType, Migrating, Withdrew, Planning
<1>2. ASSUME NEW p \in Policy, NEW e \in 0..MaxTime, DefineCheck(a, p, e) PROVE MInv'
  <2>1. e \in Nat
    BY BoundsAssumption
  <2> QED BY <1>1, <1>2, <2>1 DEF DefineCheck
<1>3. ASSUME NEW p \in Policy, WithdrawCheck(a, p) PROVE MInv'
  BY <1>1, <1>3 DEF WithdrawCheck
<1>4. ASSUME NEW p \in Policy, AllocateCheck(a, p) PROVE MInv'
  BY <1>1, <1>4 DEF AllocateCheck
<1>5. ASSUME NEW k \in DOMAIN trades, CaptureCheck(a, k) PROVE MInv'
  <2>1. k \in settled /\ UNCHANGED <<vars, policyTable, events, stamps, dealt, retro>>
    BY <1>5 DEF CaptureCheck
  <2>2. PICK p \in active_policy(trades[k].inst, stamps[k].at) :
          Start(a, [op |-> "capture",
                    event |-> [trade |-> stamps[k].id, policy |-> p, amount |-> Share(p, k)]])
    BY <1>5 DEF CaptureCheck
  <2> DEFINE captured == [trade |-> stamps[k].id, policy |-> p, amount |-> Share(p, k)]
  <2>10. PICK e : e = captured
    OBVIOUS
  <2> DEFINE r == [op |-> "capture", event |-> e]
  <2>3. /\ trades[k] \in Deals /\ k \in DOMAIN stamps /\ stamps[k].id = k
        /\ p \in InForce(trades[k].inst, stamps[k].at)
    BY <2>2 DEF MInv, Tables, TablesOK, Stamped, active_policy
  <2>4. /\ p \in Recorded(trades[k].inst) /\ effective[p] <= stamps[k].at
        /\ \A x \in Recorded(trades[k].inst) \ {p} :
             effective[x] <= stamps[k].at => Supersedes(p, x)
    BY <2>3 DEF InForce
  <2>5. Charged(e)
    BY <2>3, <2>4, <2>10 DEF Charged
  <2>6. Share(p, k) \in Int
    <3>1. p \in Policy /\ trades[k].qty \in Nat /\ trades[k].price \in Nat
      BY <2>3, <2>4 DEF Recorded, Deals
    <3>2. Terms[p] \in TermsBody
      BY <3>1, TermsAssumption
    <3>9. BasisPoints \in Nat /\ BasisPoints > 0
      BY DEF BasisPoints
    <3>3. Terms[p].primary \in Nat /\ Terms[p].secondary \in Nat
      BY <3>2, <3>9 DEF TermsBody
    <3>4. \A m, n \in Nat : m * n \in Nat
      OBVIOUS
    <3>5. \A m \in Nat : m \div BasisPoints \in Int
      BY DEF BasisPoints
    <3> DEFINE bps == IF trades[k].seller = Issuer[trades[k].inst] THEN Terms[p].primary
                      ELSE Terms[p].secondary
    <3>6. bps \in Nat
      BY <3>3
    <3>7. Share(p, k) = (trades[k].qty * trades[k].price * bps) \div BasisPoints
      BY DEF Share
    <3> HIDE DEF bps
    <3>8. trades[k].qty * trades[k].price * bps \in Nat
      BY <3>1, <3>4, <3>6
    <3> QED BY <3>5, <3>7, <3>8
  <2>7. e \in Event
    <3>1. k \in Nat /\ p \in Policy
      BY <2>3, <2>4 DEF Recorded, MInv, Tables, TablesOK
    <3> QED BY <2>3, <2>6, <2>10, <3>1 DEF Event
  <2>9. JobType(r) /\ Knows(r) /\ r.op \notin Migrating /\ Start(a, r)
    BY <2>2, <2>5, <2>7, <2>10
  <2> HIDE DEF r
  <2> QED BY <1>1, <2>1, <2>9
<1>6. CASE GiveUp(a)
  <2>1. job[a].op \notin Migrating /\ job' = [job EXCEPT ![a] = NoJob]
        /\ UNCHANGED <<vars, policyTable, events, stamps, dealt, retro>>
    BY <1>6 DEF GiveUp, Forget
  <2>2. NoJob.op \notin Migrating
    BY DEF NoJob
  <2> QED BY <2>1, <2>2, NoJobFits, AgentJobKeeps
<1> QED BY <1>2, <1>3, <1>4, <1>5, <1>6

(* A commit of participation that leaves the exchange's tables and the      *)
(* allocations alone.                                                       *)
LEMMA CommitKeeps ==
  ASSUME MInv, NEW a \in Agent, Finish(a), job[a].op \notin Migrating,
         UNCHANGED <<vars, stamps, dealt, allocation, eepCopy, eoppCopy, rows, history>>,
         Economy', Charges', \A e : Charged(e) => Charged(e)',
         \A i : economic_events(i) => economic_events(i)',
         \A i \in gone \ unquiet : NoEvents(i) => NoEvents(i)',
         \A p \in Policy : /\ policyStatus[p] # "absent" => policyStatus'[p] # "absent"
                           /\ Closed({p}) => Closed({p})'
  PROVE  MInv'
<1> USE DEF MInv
<1>0. /\ TablesOK /\ Tables' /\ Stamped'
      /\ UNCHANGED <<market, balance, book, deals, trades, settled, listed, instStatus, orderStatus,
                     rfqStatus, pc, arg, allocation, prelaunch, returned, gone, sealed, cut, unquiet>>
      /\ job' = [job EXCEPT ![a] = NoJob] /\ NoJob.op \notin Migrating
  BY TablesSame, NoJobFits
     DEF Tables, rows, history, vars, market, book, deals, talks, calls, Finish, Become, Migrating
<1>1. Balanced' /\ Solvent'
  BY <1>0, BalancedSame, SolventSame
<1>2. \A P \in SUBSET Policy : Closed(P) => Closed(P)'
  BY DEF Closed
<1>3. Onward
  BY <1>0, <1>2 DEF Onward
<1>4. Jobs'
  BY <1>0, <1>3, JobsStep, NoJobFits
<1>5. /\ OneMigration' /\ \A i \in Instrument : AtWork(i) => AtWork(i)'
      /\ \A b \in Agent : job'[b].op \in Holding => b # a /\ job[b].op \in Holding
  BY <1>0, OtherCall
<1>6. Copied'
  BY <1>0, <1>5, CopySame DEF Copied
<1>7. Receipts' /\ Whole'
  BY <1>0, <1>2, <1>5 DEF Receipts, Whole, Ended, Economy
<1>8. Withdrawn'
  BY <1>0 DEF Withdrawn, Left, TookBack
<1> QED BY <1>0, <1>1, <1>4, <1>5, <1>6, <1>7, <1>8

LEMMA DefineKeeps ==
  ASSUME MInv, NEW a \in Agent, DefineCommit(a), UNCHANGED <<eepCopy, eoppCopy, rows, history>>
  PROVE  MInv'
<1> DEFINE p == job[a].policy
           i == Terms[p].inst
<1>1. /\ job[a].op = "define" /\ p \in Policy /\ job[a].at \in Nat /\ Finish(a)
      /\ \A x \in Recorded(i) : Terms[x].version # Terms[p].version
      /\ policyStatus' = [x \in Policy |->
           IF x = p THEN "ACTIVE"
           ELSE IF Terms[x].inst = i /\ policyStatus[x] = "ACTIVE" THEN "SUPERSEDED"
           ELSE policyStatus[x]]
      /\ effective' = [effective EXCEPT ![p] = job[a].at]
      /\ retro' = IF \E k \in DOMAIN trades : trades[k].inst = i /\ stamps[k].at >= job[a].at
                  THEN retro \cup {p} ELSE retro
      /\ UNCHANGED <<vars, withdrawn, allocation, events, stamps, dealt>>
  BY DEF DefineCommit, Doing, MInv, Jobs, JobType
<1>2. policyStatus[p] = "absent"
  BY <1>1 DEF Recorded
<1>3. \A x \in Policy : x # p => /\ (policyStatus'[x] = "absent") <=> (policyStatus[x] = "absent")
                                 /\ effective'[x] = effective[x]
  BY <1>1 DEF MInv, Economy
<1>4. policyStatus'[p] # "absent" /\ effective'[p] = job[a].at
  BY <1>1 DEF MInv, Economy
<1>5. Economy'
  BY <1>1 DEF MInv, Economy, rows
<1>6. ASSUME NEW e, Charged(e) PROVE Charged(e)'
  <2>6. PICK j : j = trades[e.trade].inst
    OBVIOUS
  <2>1. /\ e.trade \in DOMAIN trades /\ e.policy \in Recorded(j)
        /\ effective[e.policy] <= stamps[e.trade].at
        /\ \A x \in Recorded(j) \ {e.policy} :
             effective[x] <= stamps[e.trade].at => Supersedes(e.policy, x) \/ x \in retro
    BY <1>6, <2>6 DEF Charged
  <2>2. trades' = trades /\ stamps' = stamps /\ retro \subseteq retro'
    BY <1>1 DEF vars, deals
  <2>3. e.policy # p /\ e.policy \in Policy /\ e.policy \in Recorded(j)'
        /\ effective'[e.policy] = effective[e.policy]
    BY <1>2, <1>3, <2>1 DEF Recorded
  <2>4. ASSUME NEW x \in Recorded(j)' \ {e.policy}, effective'[x] <= stamps[e.trade].at
        PROVE  Supersedes(e.policy, x)' \/ x \in retro'
    <3>1. CASE x # p
      <4>1. x \in Recorded(j) /\ effective'[x] = effective[x]
        BY <1>3, <2>4, <3>1 DEF Recorded
      <4> QED BY <2>1, <2>2, <2>3, <2>4, <4>1 DEF Supersedes
    <3>2. CASE x = p
      <4>1. i = j /\ job[a].at <= stamps[e.trade].at
        BY <1>4, <2>2, <2>4, <3>2 DEF Recorded
      <4>2. stamps[e.trade].at >= job[a].at
        BY <1>1, <2>1, <2>6, <4>1 DEF MInv, Stamped, Stamp, Tables, TablesOK
      <4> QED BY <1>1, <2>1, <2>6, <3>2, <4>1, <4>2
    <3> QED BY <3>1, <3>2
  <2>5. trades'[e.trade].inst = j
    BY <2>2, <2>6
  <2> QED BY <2>1, <2>2, <2>3, <2>4, <2>5 DEF Charged
<1>7. Charges'
  BY <1>1, <1>6 DEF MInv, Charges
<1>8. \A x \in Policy : Closed({x}) => Closed({x})'
  BY <1>1, <1>2 DEF Closed
<1>9. /\ \A j : economic_events(j) => economic_events(j)'
      /\ \A j : NoEvents(j) => NoEvents(j)'
  BY <1>1 DEF economic_events, NoEvents
<1>10. job[a].op \notin Migrating
  BY <1>1 DEF Migrating
<1> HIDE DEF p, i
<1> QED BY <1>1, <1>2, <1>3, <1>4, <1>5, <1>6, <1>7, <1>8, <1>9, <1>10, CommitKeeps

LEMMA WithdrawPolicyKeeps ==
  ASSUME MInv, NEW a \in Agent, WithdrawCommit(a), UNCHANGED <<eepCopy, eoppCopy, rows, history>>
  PROVE  MInv'
<1>1. /\ job[a].op = "withdraw" /\ job[a].policy \in Policy /\ Finish(a)
      /\ policyStatus[job[a].policy] = "ACTIVE"
      /\ policyStatus' = [policyStatus EXCEPT ![job[a].policy] = "WITHDRAWN"]
      /\ UNCHANGED <<vars, effective, allocation, events, stamps, dealt, retro>>
  BY DEF WithdrawCommit, Doing, MInv, Jobs, JobType
<1>2. /\ \A x \in Policy : (policyStatus'[x] = "absent") <=> (policyStatus[x] = "absent")
      /\ \A x \in Policy : Closed({x}) => Closed({x})'
  BY <1>1 DEF MInv, Economy, Closed
<1>3. Economy'
  BY <1>1 DEF MInv, Economy, rows
<1>4. \A j : Recorded(j)' = Recorded(j)
  BY <1>2 DEF Recorded
<1>5. ASSUME NEW e, Charged(e) PROVE Charged(e)'
  <2>1. UNCHANGED <<trades, stamps, effective, retro>>
    BY <1>1 DEF vars, deals
  <2> QED BY <1>4, <1>5, <2>1 DEF Charged, Supersedes
<1>6. Charges'
  BY <1>1, <1>5 DEF MInv, Charges
<1>7. /\ \A j : economic_events(j) => economic_events(j)'
      /\ \A j : NoEvents(j) => NoEvents(j)'
  BY <1>1 DEF economic_events, NoEvents
<1>8. job[a].op \notin Migrating
  BY <1>1 DEF Migrating
<1> QED BY <1>1, <1>2, <1>3, <1>5, <1>6, <1>7, <1>8, CommitKeeps

LEMMA CaptureKeeps ==
  ASSUME MInv, NEW a \in Agent, CaptureCommit(a), UNCHANGED <<eepCopy, eoppCopy, rows, history>>
  PROVE  MInv'
<1>1. PICK e \in Event : e = job[a].event
  BY DEF CaptureCommit, Doing, MInv, Jobs, JobType
<1>2. /\ job[a].op = "capture" /\ Finish(a) /\ Charged(e)
      /\ \A n \in DOMAIN events : <<events[n].trade, events[n].policy>> # <<e.trade, e.policy>>
      /\ events' = Append(events, e) /\ events \in Seq(Event)
      /\ UNCHANGED <<vars, policyTable, stamps, dealt, retro>>
  BY <1>1 DEF CaptureCommit, Doing, NewEvent, MInv, Jobs, Knows, Economy
<1>3. /\ events' \in Seq(Event) /\ DOMAIN events' = DOMAIN events \cup {Len(events) + 1}
      /\ Len(events) + 1 \notin DOMAIN events /\ events'[Len(events) + 1] = e
      /\ \A n \in DOMAIN events : events'[n] = events[n]
  BY <1>2
<1>4. Economy'
  BY <1>2, <1>3 DEF MInv, Economy, policyTable, rows
<1>5. ASSUME NEW x, Charged(x) PROVE Charged(x)'
  <2>1. trades' = trades /\ stamps' = stamps
    BY <1>2 DEF vars, deals
  <2> QED BY <1>2, <1>5, <2>1, ChargedSame DEF MInv, Tables
<1>6. Charges'
  BY <1>2, <1>3, <1>5 DEF MInv, Charges
<1>7. \A j : economic_events(j) => economic_events(j)'
  BY <1>3 DEF economic_events
<1>8. ASSUME NEW j \in gone \ unquiet, NoEvents(j) PROVE NoEvents(j)'
  <2>1. Terms[e.policy].inst = trades[e.trade].inst /\ e.trade \in DOMAIN trades
    BY <1>2 DEF Charged, Recorded
  <2>2. Terms[e.policy].inst # j
    BY <1>8, <2>1 DEF MInv, Withdrawn, Left
  <2> QED BY <1>3, <1>8, <2>2 DEF NoEvents
<1>9. job[a].op \notin Migrating
  BY <1>2 DEF Migrating
<1>10. UNCHANGED <<policyStatus, allocation>>
  BY <1>2 DEF policyTable
<1>11. \A x \in Policy : Closed({x}) => Closed({x})'
  BY <1>10 DEF Closed
<1> QED BY <1>2, <1>4, <1>5, <1>6, <1>7, <1>8, <1>9, <1>10, <1>11, CommitKeeps

(* A reserve is allocated: units of the issuer become its treasury's.       *)
LEMMA AllocateKeeps ==
  ASSUME MInv, NEW a \in Agent, AllocateCommit(a), UNCHANGED <<eepCopy, eoppCopy, rows, history>>
  PROVE  MInv'
<1> USE DEF MInv
<1>1. PICK p \in Policy, i \in Instrument : p = job[a].policy /\ i = Terms[p].inst
  <2>1. job[a].policy \in Policy
    BY DEF AllocateCommit, Doing, Jobs, JobType
  <2>2. \A p \in Policy : Terms[p].inst \in Instrument
    BY TermsAssumption DEF TermsBody
  <2> QED BY <2>1, <2>2
<1>2. /\ Terms[p].by \in Party /\ Terms[p].treasury \in Party /\ Terms[p].reserve \in Nat
      /\ p # NoPolicy
  BY TermsAssumption DEF TermsBody
<1>3. /\ job[a].op = "allocate" /\ Finish(a)
      /\ allocation[i] = NoPolicy /\ instStatus[i] = "ACTIVE" /\ Issuer[i] = Terms[p].by
      /\ balance' = [balance EXCEPT ![i] = Reserved(Terms[p])]
      /\ allocation' = [allocation EXCEPT ![i] = p]
      /\ UNCHANGED <<market, book, deals, talks, now, calls, policyStatus, effective, withdrawn,
                     events, stamps, dealt, retro>>
  BY <1>1 DEF AllocateCommit, Doing, NotAllocated
<1>4. /\ balance[i] \in [Party -> Int] /\ returned[i] = 0 /\ i \notin gone /\ TablesOK
      /\ allocation'[i] = p /\ \A j \in Instrument \ {i} : allocation'[j] = allocation[j]
  BY <1>1, <1>3 DEF Tables, Economy, Withdrawn
<1>5. /\ \A j \in Instrument \ {i} : balance'[j] = balance[j]
      /\ Terms[p].treasury = Issuer[i] => balance'[i] = balance[i]
      /\ Terms[p].treasury # Issuer[i] => \A x \in Party :
           balance'[i][x] = IF x = Issuer[i] THEN balance[i][x] - Terms[p].reserve
                            ELSE IF x = Terms[p].treasury THEN balance[i][x] + Terms[p].reserve
                            ELSE balance[i][x]
      /\ balance' \in [Instrument -> [Party -> Int]]
  <2>1. balance \in [Instrument -> [Party -> Int]] /\ Issuer[i] \in Party
    BY <1>2, <1>3 DEF Tables
  <2>2. CASE Terms[p].treasury = Issuer[i]
    <3>1. balance' = [balance EXCEPT ![i] = balance[i]]
      BY <1>1, <1>3, <2>2 DEF Reserved, SameOwner
    <3> QED BY <2>1, <2>2, <3>1
  <2>3. CASE Terms[p].treasury # Issuer[i]
    <3> DEFINE row == [balance[i] EXCEPT ![Issuer[i]] = @ - Terms[p].reserve,
                                         ![Terms[p].treasury] = @ + Terms[p].reserve]
    <3>1. balance' = [balance EXCEPT ![i] = row]
      BY <1>1, <1>3, <2>3 DEF Reserved, SameOwner
    <3>2. /\ row \in [Party -> Int]
          /\ \A x \in Party : row[x] = IF x = Issuer[i] THEN balance[i][x] - Terms[p].reserve
                            ELSE IF x = Terms[p].treasury THEN balance[i][x] + Terms[p].reserve
                            ELSE balance[i][x]
      BY <1>2, <1>4, <2>1, <2>3
    <3> HIDE DEF row
    <3> QED BY <2>1, <2>3, <3>1, <3>2
  <2> QED BY <2>2, <2>3
<1>6. /\ UNCHANGED <<trades, settled, listed, instStatus, orderStatus, remaining, rfqStatus, pc, arg,
                     prelaunch, returned, gone, sealed, cut, unquiet>>
      /\ job' = [job EXCEPT ![a] = NoJob] /\ NoJob.op \notin Migrating /\ job[a].op \notin Migrating
  BY <1>3, NoJobFits DEF market, book, deals, talks, calls, rows, history, Finish, Become, Migrating
<1>7. Tables'
  BY <1>3, <1>5 DEF Tables, TablesOK, ArgFits, market, book, deals, talks, calls
<1>8. Stamped'
  BY <1>3, <1>6 DEF Stamped
<1>9. Economy'
  BY <1>1, <1>2, <1>3, <1>4, <1>6 DEF Economy, AnyPolicy
<1>10. \A e : Charged(e) => Charged(e)'
  BY <1>3, <1>6 DEF Charged, Recorded, Supersedes
<1>11. Charges'
  BY <1>3, <1>10 DEF Charges
<1>12. Onward
  <2>1. \A P \in SUBSET Policy : Closed(P) => Closed(P)'
    BY <1>3 DEF Closed
  <2>2. \A j \in Instrument : allocation[j] # NoPolicy => allocation'[j] = allocation[j]
    BY <1>3, <1>4
  <2>3. \A j : economic_events(j) => economic_events(j)'
    BY <1>3 DEF economic_events
  <2> QED BY <1>6, <1>10, <2>1, <2>2, <2>3 DEF Onward
<1>13. Jobs'
  BY <1>6, <1>12, JobsStep, NoJobFits
<1>14. /\ OneMigration' /\ \A j \in Instrument : AtWork(j) => AtWork(j)'
       /\ \A b \in Agent : job'[b].op \in Holding => b # a /\ job[b].op \in Holding
  BY <1>6, OtherCall
<1>15. Receipts' /\ Whole'
  BY <1>3, <1>6, <1>14 DEF Receipts, Closed, Whole, Ended, Economy
<1>16. Withdrawn'
  <2>1. \A j \in gone : TookBack(j)' <=> TookBack(j)
    BY <1>4, <1>6 DEF TookBack, Economy
  <2> QED BY <1>3, <1>6, <2>1 DEF Withdrawn, Left, NoEvents
<1>17. /\ Reserve(i) = 0
       /\ Reserve(i)' = IF Terms[p].treasury = Issuer[i] THEN 0 ELSE Terms[p].reserve
       /\ \A j \in Instrument \ {i} : Reserve(j)' = Reserve(j)
  BY <1>2, <1>3, <1>4 DEF Reserve
<1>18. Balanced'
  <2> SUFFICES ASSUME NEW j \in Instrument, NEW x \in Party
               PROVE  balance'[j][x] + Sold(j, x)' = Granted(j, x)' + Bought(j, x)' + InTreasury(j, x)'
    BY DEF Balanced
  <2>1. /\ Sold(j, x)' = Sold(j, x) /\ Bought(j, x)' = Bought(j, x)
        /\ Granted(j, x)' = Granted(j, x)
        /\ Sold(j, x) \in Nat /\ Bought(j, x) \in Nat /\ Granted(j, x) \in Nat
        /\ balance[j][x] \in Int
    BY <1>4, <1>6, ColumnsSame, ColumnsType, InstrumentAssumption DEF Granted, Tables
  <2>2. balance[j][x] + Sold(j, x) = Granted(j, x) + Bought(j, x) + InTreasury(j, x)
    BY DEF Balanced
  <2>3. CASE j # i
    <3>1. InTreasury(j, x)' = InTreasury(j, x)
      BY <1>4, <1>6, <1>17, <2>3 DEF InTreasury
    <3> QED BY <1>5, <2>1, <2>2, <2>3, <3>1
  <2>4. CASE j = i
    <3>1. InTreasury(j, x) = 0
      BY <1>3, <1>4, <1>17, <2>4 DEF InTreasury
    <3>2. InTreasury(j, x)' = IF x = Terms[p].treasury THEN Reserve(i)'
                              ELSE IF x = Issuer[i] THEN 0 - Reserve(i)' ELSE 0
      <4>1. Reserve(i)' \in Nat
        BY <1>2, <1>17
      <4>2. InTreasury(j, x)' = IF x = Terms[p].treasury THEN Reserve(i)' * (1 - 0)
                                ELSE IF x = Issuer[i] THEN Reserve(i)' * (0 - 1) ELSE 0
        BY <1>2, <1>4, <1>6, <2>4 DEF InTreasury
      <4>3. \A n \in Nat : n * (1 - 0) = n /\ n * (0 - 1) = 0 - n
        OBVIOUS
      <4> QED BY <4>1, <4>2, <4>3
    <3>3. CASE Terms[p].treasury = Issuer[i]
      <4>1. balance'[j][x] = balance[j][x] /\ InTreasury(j, x)' = 0
        BY <1>5, <1>17, <2>4, <3>2, <3>3
      <4> QED BY <2>1, <2>2, <3>1, <4>1
    <3>4. CASE Terms[p].treasury # Issuer[i]
      <4>1. balance'[j][x] = balance[j][x] + InTreasury(j, x)' /\ InTreasury(j, x)' \in Int
        BY <1>2, <1>5, <1>17, <2>1, <2>4, <3>2, <3>4
      <4> QED BY <2>1, <2>2, <3>1, <4>1
    <3> QED BY <3>3, <3>4
  <2> QED BY <2>3, <2>4
<1>19. Solvent'
  <2> SUFFICES ASSUME NEW j \in Instrument \ gone, NEW x \in Party PROVE balance'[j][x] >= 0
    BY <1>6 DEF Solvent
  <2>1. balance[j][x] >= 0 /\ balance[j][x] \in Int
    BY <1>4 DEF Solvent, Tables
  <2>2. CASE j # i
    BY <1>5, <2>1, <2>2
  <2>3. CASE j = i
    <3>1. balance[i][Issuer[i]] >= Terms[p].reserve
      BY <1>1, <1>3 DEF AllocateCommit
    <3>2. balance'[i][x] = balance[i][x] \/ x = Issuer[i]
          \/ balance'[i][x] = balance[i][x] + Terms[p].reserve
      BY <1>5
    <3>3. x = Issuer[i] =>
            balance'[i][x] = balance[i][x] \/ balance'[i][x] = balance[i][x] - Terms[p].reserve
      BY <1>5
    <3> QED BY <1>2, <2>1, <2>3, <3>1, <3>2, <3>3
  <2> QED BY <2>2, <2>3
<1>20. Copied'
  <2> SUFFICES ASSUME NEW b \in Agent, job'[b].op \in Holding
               PROVE  CopySound(eepCopy)' /\ CopySolvent(eepCopy)'
    BY DEF Copied
  <2>1. PICK f : f = eepCopy
    OBVIOUS
  <2>2. CopySound(f) /\ CopySolvent(f) /\ eepCopy' = f
    BY <1>14, <2>1 DEF Copied
  <2>3. f \in EepType /\ f.returned[i] = 0 /\ i \notin f.gone /\ f.gone \subseteq Instrument
    <3>1. f \in EepType /\ f.returned[i] \in Nat /\ ~(f.returned[i] > 0)
      BY <1>3, <2>2 DEF CopySound, EepType
    <3> QED BY <1>4, <2>2, <3>1 DEF CopySound, Economy
  <2>4. CopySound(f)'
    BY <1>1, <1>2, <1>4, <1>6, <2>2, <2>3 DEF CopySound, Ended
  <2> QED BY <2>2, <2>4 DEF CopySound, CopySolvent, Ended
<1> QED
  BY <1>7, <1>8, <1>9, <1>11, <1>13, <1>14, <1>15, <1>16, <1>18, <1>19, <1>20

-----------------------------------------------------------------------------
(* A migration looks, copies and raises.                                    *)

LEMMA NowSame ==
  ASSUME KeepEep, KeepEopp, UNCHANGED <<now, calls, dealt, retro, sealed, cut, unquiet>>
  PROVE  UNCHANGED <<vars, policyTable, events, stamps, dealt, retro, rows, sealed, cut, unquiet>>
BY DEF KeepEep, KeepEopp, vars, rows

(* The other agents are outside every migration.                            *)
LEMMA OnlyMigration ==
  ASSUME Jobs, OneMigration, NEW a \in Agent, job[a].op \in Migrating, NEW r,
         job' = [job EXCEPT ![a] = r]
  PROVE  /\ job'[a] = r /\ \A b \in Agent \ {a} : job'[b] = job[b] /\ job[b].op \notin Migrating
         /\ OneMigration'
         /\ \A b \in Agent : job'[b].op \in Holding => b = a
         /\ \A i \in Instrument : AtWork(i) => job[a].inst = i /\ job[a].op \in {"eopp", "receipt", "restore"}
         /\ \A i \in Instrument : r.op \in {"eopp", "receipt", "restore"} /\ r.inst = i => AtWork(i)'
<1>1. job'[a] = r /\ \A b \in Agent \ {a} : job'[b] = job[b] /\ job[b].op \notin Migrating
  BY DEF Jobs, OneMigration
<1>2. {"eopp", "receipt", "restore"} \subseteq Migrating /\ Holding \subseteq Migrating
  BY DEF Migrating, Holding
<1>3. OneMigration' /\ \A b \in Agent : job'[b].op \in Holding => b = a
  BY <1>1, <1>2 DEF OneMigration
<1>4. ASSUME NEW i \in Instrument, AtWork(i)
      PROVE  job[a].inst = i /\ job[a].op \in {"eopp", "receipt", "restore"}
  BY <1>1, <1>2, <1>4 DEF AtWork
<1>5. ASSUME NEW i \in Instrument, r.op \in {"eopp", "receipt", "restore"} /\ r.inst = i
      PROVE  AtWork(i)'
  BY <1>1, <1>5 DEF AtWork
<1> QED BY <1>1, <1>3, <1>4, <1>5

LEMMA AuditEepKeeps ==
  ASSUME MInv, NEW a \in Agent, NEW i \in Instrument, AuditEep(a, i)
  PROVE  MInv'
<1>1. PICK r : r = [op |-> "audit", inst |-> i, active |-> activity(i), held |-> balance[i],
                    use |-> Use(i)]
  OBVIOUS
<1>2. /\ job[a] = NoJob /\ job' = [job EXCEPT ![a] = r]
      /\ \A b \in Agent : job[b] # NoJob => job[b].op \notin Migrating
      /\ UNCHANGED <<vars, policyTable, events, stamps, dealt, retro, rows, sealed, cut, unquiet>>
  BY <1>1, NowSame DEF history, AuditEep, Start
<1>3. \A b \in Agent : job[b].op \notin Migrating
  BY <1>2, NoJobFits DEF Migrating
<1>4. job'[a] = r /\ \A b \in Agent \ {a} : job'[b] = job[b]
  BY <1>2 DEF MInv, Jobs
<1>5. Use(i) \in UseRecord
  <2>1. {k \in DOMAIN trades : trades[k].inst = i} \subseteq Nat
    BY DEF MInv, Tables, TablesOK
  <2>2. economic_events(i) \in BOOLEAN
    BY DEF economic_events
  <2>3. allocation[i] \in AnyPolicy
    BY DEF MInv, Economy
  <2> QED BY <2>1, <2>2, <2>3 DEF Use, UseRecord
<1>6. /\ r.op = "audit" /\ r.inst = i /\ r.use \in UseRecord
      /\ r.use[3] = economic_events(i) /\ r.use[4] = allocation[i]
      /\ ~r.active => r.use[1] = {} /\ r.use[2] = {}
  BY <1>1, <1>5 DEF Use, activity
<1>7. JobType(r)
  BY <1>6 DEF JobType, Migrating, Planning
<1>8. Knows(r)
  BY <1>6 DEF Knows, Planning, Withdrew
<1>9. OneMigration' /\ Copied' /\ \A j \in Instrument : AtWork(j) => AtWork(j)'
  <2>1. "audit" \notin Holding /\ Holding \subseteq Migrating
        /\ {"eopp", "receipt", "restore"} \subseteq Migrating
    BY DEF Holding, Migrating
  <2> QED BY <1>3, <1>4, <1>6, <2>1 DEF OneMigration, Copied, AtWork
<1> QED BY <1>2, <1>7, <1>8, <1>9, JobKeeps

LEMMA AuditEoppKeeps ==
  ASSUME MInv, NEW a \in Agent, AuditEopp(a)
  PROVE  MInv'
<1> USE DEF MInv
<1>0. PICK j : j = job[a]
  OBVIOUS
<1>1. PICK i \in Instrument : j = job[a] /\ i = j.inst
  BY <1>0 DEF AuditEopp, Doing, Jobs, JobType, Migrating
<1>2. /\ j.op = "audit" /\ JobType(j) /\ Knows(j)
      /\ UNCHANGED <<vars, policyTable, events, stamps, dealt, retro, rows, sealed, cut, unquiet>>
  BY <1>1, NowSame DEF history, AuditEopp, Doing, Jobs
<1>3. /\ j.use \in UseRecord /\ (~j.active => j.use[1] = {} /\ j.use[2] = {})
      /\ j.use[3] => economic_events(i)
      /\ j.use[4] # NoPolicy => allocation[i] = j.use[4]
  BY <1>1, <1>2 DEF JobType, Knows
<1>4. PICK r : r = [op |-> "copy", inst |-> i, reserve |-> allocation[i], at |-> now, use |-> j.use]
  OBVIOUS
<1>5. job[a].op \in Migrating /\ "copy" \in Migrating /\ "copy" \notin Holding
  BY <1>1, <1>2 DEF Migrating, Holding
<1>6. ASSUME NEW x, job' = [job EXCEPT ![a] = x], JobType(x), Knows(x), x.op \notin Holding
      PROVE  MInv'
  <2>1. /\ OneMigration' /\ \A b \in Agent : job'[b].op \in Holding => b = a
        /\ job'[a] = x
        /\ \A k \in Instrument : AtWork(k) => job[a].op \in {"eopp", "receipt", "restore"}
    BY <1>5, <1>6, OnlyMigration
  <2>2. Copied' /\ \A k \in Instrument : AtWork(k) => AtWork(k)'
    BY <1>1, <1>2, <1>6, <2>1 DEF Copied
  <2> QED BY <1>2, <1>6, <2>1, <2>2, JobKeeps
<1>7. CASE ~j.active /\ ~economic_events(i) /\ external(i, j.held) = {}
  <2>1. job' = [job EXCEPT ![a] = r]
    BY <1>1, <1>4, <1>7 DEF AuditEopp, Become
  <2>2. r \in Plan
    BY <1>3, <1>4 DEF Plan, Planning, Economy, Tables, TablesOK
  <2>3. JobType(r)
    BY <1>3, <1>4, <1>7, <2>2 DEF JobType, Migrating, Planning
  <2>4. Knows(r)
    BY <1>4 DEF Knows, Planning, Withdrew
  <2> QED BY <1>4, <1>5, <1>6, <2>1, <2>3, <2>4
<1>8. CASE ~(~j.active /\ ~economic_events(i) /\ external(i, j.held) = {})
  <2>1. job' = [job EXCEPT ![a] = NoJob]
    BY <1>1, <1>8 DEF AuditEopp, Forget
  <2>2. NoJob.op \notin Holding
    BY NoJobFits DEF Holding
  <2> QED BY <1>6, <2>1, <2>2, NoJobFits
<1> QED BY <1>7, <1>8

LEMMA EepFits ==
  ASSUME MInv
  PROVE  Eep \in EepType
<1>1. instStatus \in [Instrument -> {"ACTIVE", "WITHDRAWN"}]
  BY DEF MInv, Tables, TablesOK
<1>2. settled \subseteq Nat
  BY DEF MInv, Tables, TablesOK
<1> QED BY <1>1, <1>2 DEF EepType, Eep, MInv, Tables, TablesOK, Stamped, Economy

(* The exchange's file is sound when it is copied.                          *)
LEMMA CopyOfNow ==
  ASSUME MInv, NEW a \in Agent, job[a].op = "copy", NEW f, f = Eep
  PROVE  CopySound(f) /\ CopySolvent(f)
<1> USE DEF MInv
<1>1. /\ f.orderStatus = orderStatus /\ f.remaining = remaining /\ f.trades = trades
      /\ f.settled = settled /\ f.listed = listed /\ f.instStatus = instStatus
      /\ f.balance = balance /\ f.returned = returned /\ f.gone = gone
  BY DEF Eep
<1>2. f \in EepType
  BY EepFits
<1>3. \A i \in gone : Ended(i)
  <2> SUFFICES ASSUME NEW i \in gone, ~Ended(i) PROVE FALSE
    OBVIOUS
  <2>1. AtWork(i)
    BY DEF Whole
  <2>2. PICK b \in Agent : job[b].op \in {"eopp", "receipt", "restore"}
    BY <2>1 DEF AtWork
  <2>3. job[a].op \in Migrating /\ job[b].op \in Migrating /\ a # b
    BY <2>2 DEF Migrating
  <2> QED BY <2>3 DEF OneMigration
<1>4. CopySound(f)
  BY <1>1, <1>2, <1>3 DEF CopySound, Withdrawn, Left, TookBack, Economy, Whole, Receipts
<1>6. CopySolvent(f)
  BY <1>1 DEF CopySolvent, Solvent
<1> QED BY <1>4, <1>6

LEMMA CopyStepsKeep ==
  ASSUME MInv, NEW a \in Agent, CopyEep(a) \/ CopyEopp(a)
  PROVE  MInv'
<1> USE DEF MInv
<1>1. PICK j \in Plan : j = job[a]
  BY DEF CopyEep, CopyEopp, Doing, Jobs, JobType, Planning
<1>2. /\ job[a].op \in Migrating /\ JobType(j) /\ Knows(j)
      /\ UNCHANGED <<vars, policyTable, events, stamps, dealt, retro, rows, sealed, cut, unquiet>>
  BY <1>1, NowSame DEF history, CopyEep, CopyEopp, Doing, Jobs, Migrating
<1>3. ASSUME NEW op \in {"copy eopp", "eep"}, j.op \in {"copy", "copy eopp"}, NEW r,
             r = [j EXCEPT !.op = op], job' = [job EXCEPT ![a] = r],
             CopySound(eepCopy)' /\ CopySolvent(eepCopy)'
      PROVE  MInv'
  <2>1. /\ r.op = op /\ r.inst = j.inst /\ r.reserve = j.reserve /\ r.at = j.at /\ r.use = j.use
        /\ r \in Plan
    BY <1>3 DEF Plan, Planning
  <2>2. JobType(r)
    BY <1>2, <1>3, <2>1 DEF JobType, Migrating, Planning
  <2>3. Knows(r)
    BY <1>2, <1>3, <2>1 DEF Knows, Planning, Withdrew
  <2>4. /\ OneMigration'
        /\ \A k \in Instrument : AtWork(k) => job[a].op \in {"eopp", "receipt", "restore"}
    BY <1>2, <1>3, OnlyMigration
  <2>5. Copied' /\ \A k \in Instrument : AtWork(k) => AtWork(k)'
    BY <1>1, <1>3, <2>4 DEF Copied
  <2> QED BY <1>2, <1>3, <2>2, <2>3, <2>4, <2>5, JobKeeps
<1>4. CASE CopyEep(a)
  <2>1. job[a].op = "copy" /\ eepCopy' = Eep /\ job' = [job EXCEPT ![a] = [j EXCEPT !.op = "copy eopp"]]
    BY <1>1, <1>4 DEF CopyEep, Doing, Proceed, Become
  <2>2. PICK f : f = Eep
    OBVIOUS
  <2>3. CopySound(f) /\ CopySolvent(f) /\ eepCopy' = f
    BY <2>1, <2>2, CopyOfNow
  <2>4. UNCHANGED <<gone, prelaunch, sealed, cut, unquiet, allocation>>
    BY <1>2 DEF rows, policyTable
  <2>5. CopySound(eepCopy)'
    BY <2>3, <2>4 DEF CopySound, Ended
  <2>7. CopySolvent(eepCopy)'
    BY <2>3 DEF CopySolvent
  <2> QED BY <1>1, <1>3, <2>1, <2>5, <2>7
<1>5. CASE CopyEopp(a)
  <2>1. job[a].op = "copy eopp" /\ eepCopy' = eepCopy
        /\ job' = [job EXCEPT ![a] = [j EXCEPT !.op = "eep"]]
    BY <1>1, <1>5 DEF CopyEopp, Doing, Proceed, Become
  <2>2. CopySound(eepCopy) /\ CopySolvent(eepCopy)
    BY <2>1 DEF Copied, Holding
  <2>3. CopySound(eepCopy)' /\ CopySolvent(eepCopy)'
    BY <1>2, <2>1, <2>2, CopySame DEF rows, policyTable
  <2> QED BY <1>1, <1>3, <2>1, <2>3
<1> QED BY <1>4, <1>5

LEMMA RaiseKeeps ==
  ASSUME MInv, NEW a \in Agent, RaiseError(a)
  PROVE  MInv'
<1> USE DEF MInv
<1>1. PICK j \in Plan : j = job[a]
  BY DEF RaiseError, Doing, Jobs, JobType, Planning
<1>2. /\ j.op \in {"eep", "eopp"} /\ job[a].op \in Migrating /\ JobType(j) /\ Knows(j)
      /\ UNCHANGED <<vars, policyTable, events, stamps, dealt, retro, rows, sealed, cut, unquiet>>
      /\ eepCopy' = eepCopy
  BY <1>1, NowSame DEF history, RaiseError, Doing, Jobs, Migrating
<1>3. PICK r : r = [op |-> "restore", inst |-> j.inst, reserve |-> j.reserve, wrote |-> j.op = "eopp"]
  OBVIOUS
<1>4. job' = [job EXCEPT ![a] = r]
  BY <1>1, <1>3 DEF RaiseError, Become
<1>5. JobType(r)
  BY <1>3 DEF JobType, Undoing, Migrating, Planning, Plan
<1>6. Knows(r)
  BY <1>2, <1>3 DEF Knows, Planning, Withdrew
<1>7. /\ OneMigration'
      /\ \A k \in Instrument : AtWork(k) => job[a].inst = k
      /\ \A k \in Instrument : r.op \in {"eopp", "receipt", "restore"} /\ r.inst = k => AtWork(k)'
  BY <1>2, <1>4, OnlyMigration
<1>8. \A k \in Instrument : AtWork(k) => AtWork(k)'
  BY <1>1, <1>3, <1>7
<1>9. CopySound(eepCopy) /\ CopySolvent(eepCopy)
  BY <1>1, <1>2 DEF Copied, Holding
<1>10. Copied'
  BY <1>2, <1>9, CopySame DEF Copied, rows, policyTable
<1> QED BY <1>2, <1>4, <1>5, <1>6, <1>7, <1>8, <1>10, JobKeeps

-----------------------------------------------------------------------------
(* A migration withdraws an instrument.                                     *)

LEMMA WithdrawnFields ==
  ASSUME NEW f \in EepType, NEW i \in Instrument, NEW p, NEW g, g = EepWithdrawn(f, i, p)
  PROVE  /\ g.instStatus = [f.instStatus EXCEPT ![i] = "WITHDRAWN"]
         /\ g.listed = {l \in f.listed : l[2] # i}
         /\ g.balance = [f.balance EXCEPT ![i] = TakenBack(i, f.balance[i], p)]
         /\ g.returned = [f.returned EXCEPT ![i] = IF p = NoPolicy THEN @ ELSE @ + 1]
         /\ g.gone = f.gone \cup {i}
         /\ g.venueStatus = f.venueStatus /\ g.disclosed = f.disclosed
         /\ g.orderStatus = f.orderStatus /\ g.remaining = f.remaining /\ g.received = f.received
         /\ g.trades = f.trades /\ g.settled = f.settled /\ g.stamps = f.stamps
         /\ g.rfqStatus = f.rfqStatus /\ g.quoteStatus = f.quoteStatus
BY DEF EepType, EepWithdrawn

(* What a migration that knows of policy p gives back to p's issuer.        *)
Back(i, p, x) ==
  IF p = NoPolicy THEN 0
  ELSE IF x = Issuer[i] THEN Reserve(i)
  ELSE IF x = Terms[p].treasury THEN 0 - Reserve(i) ELSE 0

LEMMA BackType ==
  ASSUME Economy, NEW i \in Instrument, NEW p, NEW x \in Party
  PROVE  Back(i, p, x) \in Int
BY TreasuryType DEF Back

LEMMA TakenBackUnits ==
  ASSUME Economy, NEW i \in Instrument, NEW b \in [Party -> Int],
         NEW p, p = NoPolicy \/ p = allocation[i]
  PROVE  /\ TakenBack(i, b, p) \in [Party -> Int]
         /\ \A x \in Party : TakenBack(i, b, p)[x] = b[x] + Back(i, p, x)
<1>1. CASE p = NoPolicy
  BY <1>1 DEF TakenBack, Back
<1>2. CASE p # NoPolicy
  <2>1. /\ p \in Policy /\ p = allocation[i]
        /\ Terms[p].treasury \in Party /\ Terms[p].reserve \in Nat
    BY <1>2, TermsAssumption DEF Economy, AnyPolicy, TermsBody
  <2>2. Issuer[i] \in Party
    BY InstrumentAssumption
  <2>3. CASE Terms[p].treasury = Issuer[i]
    <3>1. Reserve(i) = 0 /\ TakenBack(i, b, p) = b
      BY <2>1, <2>3 DEF Reserve, TakenBack
    <3>2. \A x \in Party : b[x] \in Int /\ Back(i, p, x) = 0
      BY <2>3, <3>1 DEF Back
    <3> QED BY <3>1, <3>2
  <2>4. CASE Terms[p].treasury # Issuer[i]
    <3>1. Reserve(i) = Terms[p].reserve
      BY <1>2, <2>1, <2>4 DEF Reserve
    <3>2. TakenBack(i, b, p) = [b EXCEPT ![Terms[p].treasury] = @ - Terms[p].reserve,
                                         ![Issuer[i]] = @ + Terms[p].reserve]
      BY <1>2, <2>4 DEF TakenBack
    <3> QED BY <1>2, <2>1, <2>2, <2>4, <3>1, <3>2 DEF Back
  <2> QED BY <2>3, <2>4
<1> QED BY <1>1, <1>2

(* The account of the treasury changes by as much.                          *)
LEMMA TreasuryGivesBack ==
  ASSUME NEW R \in Nat, NEW r \in Nat
  PROVE  /\ R * (1 - (r + 1)) = R * (1 - r) - R /\ R * ((r + 1) - 1) = R * (r - 1) + R
         /\ R * (1 - r) \in Int /\ R * (r - 1) \in Int
<1>1. \A x \in Int, y \in Int : x * (y - 1) = x * y - x /\ x * (y + 1) = x * y + x /\ x * y \in Int
  OBVIOUS
<1>2. /\ 1 - (r + 1) = (1 - r) - 1 /\ (r + 1) - 1 = (r - 1) + 1
      /\ 1 - r \in Int /\ r - 1 \in Int /\ R \in Int
  OBVIOUS
<1> QED BY <1>1, <1>2

(* The account of a treasury and its issuer after r migrations.             *)
AccountAt(i, x, r) ==
  IF allocation[i] # NoPolicy /\ x = Terms[allocation[i]].treasury THEN Reserve(i) * (1 - r)
  ELSE IF x = Issuer[i] THEN Reserve(i) * (r - 1) ELSE 0

LEMMA AccountStep ==
  ASSUME Economy, NEW i \in Instrument, NEW x \in Party, NEW p, p = NoPolicy \/ p = allocation[i],
         NEW r \in Nat, NEW n, n = IF p = NoPolicy THEN r ELSE r + 1
  PROVE  /\ AccountAt(i, x, n) = Back(i, p, x) + AccountAt(i, x, r)
         /\ AccountAt(i, x, r) \in Int /\ Back(i, p, x) \in Int
<1>1. Reserve(i) \in Nat /\ Back(i, p, x) \in Int
  BY TreasuryType, BackType
<1>2. /\ Reserve(i) * (1 - (r + 1)) = Reserve(i) * (1 - r) - Reserve(i)
      /\ Reserve(i) * ((r + 1) - 1) = Reserve(i) * (r - 1) + Reserve(i)
      /\ Reserve(i) * (1 - r) \in Int /\ Reserve(i) * (r - 1) \in Int
  BY <1>1, TreasuryGivesBack
<1>3. AccountAt(i, x, r) \in Int
  BY <1>2 DEF AccountAt
<1>4. CASE p = NoPolicy
  BY <1>2, <1>3, <1>4 DEF Back
<1>5. CASE p # NoPolicy
  <2>1. p = allocation[i] /\ n = r + 1
    BY <1>5
  <2>2. CASE Terms[p].treasury = Issuer[i]
    <3>1. Reserve(i) = 0
      BY <2>1, <2>2 DEF Reserve
    <3>2. \A m \in Int : 0 * m = 0
      OBVIOUS
    <3>3. 1 - r \in Int /\ r - 1 \in Int /\ 1 - (r + 1) \in Int /\ (r + 1) - 1 \in Int
      OBVIOUS
    <3>4. AccountAt(i, x, n) = 0 /\ AccountAt(i, x, r) = 0
      BY <2>1, <3>1, <3>2, <3>3 DEF AccountAt
    <3>5. Back(i, p, x) = 0
      BY <2>2, <3>1 DEF Back
    <3> QED BY <1>1, <3>4, <3>5
  <2>3. CASE Terms[p].treasury # Issuer[i]
    <3>1. CASE x = Issuer[i]
      <4>1. /\ AccountAt(i, x, n) = Reserve(i) * ((r + 1) - 1)
            /\ AccountAt(i, x, r) = Reserve(i) * (r - 1)
        BY <2>1, <2>3, <3>1 DEF AccountAt
      <4>2. Back(i, p, x) = Reserve(i)
        BY <1>5, <3>1 DEF Back
      <4> QED BY <1>1, <1>2, <1>3, <4>1, <4>2
    <3>2. CASE x # Issuer[i] /\ x = Terms[p].treasury
      <4>1. /\ AccountAt(i, x, n) = Reserve(i) * (1 - (r + 1))
            /\ AccountAt(i, x, r) = Reserve(i) * (1 - r)
        BY <1>5, <2>1, <3>2 DEF AccountAt
      <4>2. Back(i, p, x) = 0 - Reserve(i)
        BY <1>5, <3>2 DEF Back
      <4> QED BY <1>1, <1>2, <1>3, <4>1, <4>2
    <3>3. CASE x # Issuer[i] /\ x # Terms[p].treasury
      BY <1>1, <1>3, <1>5, <2>1, <3>3 DEF AccountAt, Back
    <3> QED BY <3>1, <3>2, <3>3
  <2> QED BY <2>2, <2>3
<1> QED BY <1>1, <1>3, <1>4, <1>5

(* Without orders and trades, nothing is promised and nothing has moved.    *)
LEMMA UnusedUnits ==
  ASSUME TablesOK, NEW i \in Instrument, NEW x \in Party,
         \A o \in Order : Signed[o].inst = i => orderStatus[o] = "absent",
         \A k \in DOMAIN trades : trades[k].inst # i
  PROVE  ReservedSell(i, x) = 0 /\ Sold(i, x) = 0 /\ Bought(i, x) = 0
<1>1. \A o \in Order : OpenOf(i, x)[o] = 0
  BY DEF OpenOf, SellsOpen, Live
<1>2. OpenOf(i, x) \in [Order -> Nat]
  BY <1>1 DEF OpenOf
<1>3. OpenUnits(i, x) = 0
  BY <1>1, <1>2, TotalZero DEF OpenUnits, OpenOf
<1>4. /\ \A k \in DOMAIN trades : PendingOf(i, x)[k] = 0 /\ SoldOf(i, x)[k] = 0 /\ BoughtOf(i, x)[k] = 0
      /\ PendingOf(i, x) \in [DOMAIN trades -> Nat]
      /\ SoldOf(i, x) \in [DOMAIN trades -> Nat] /\ BoughtOf(i, x) \in [DOMAIN trades -> Nat]
  BY DEF PendingOf, SellsPending, SoldOf, BoughtOf
<1>5. Total(PendingOf(i, x)) = 0 /\ Total(SoldOf(i, x)) = 0 /\ Total(BoughtOf(i, x)) = 0
  BY <1>4, TotalZero
<1>6. PendingUnits(i, x) = 0 /\ Sold(i, x) = 0 /\ Bought(i, x) = 0
  BY <1>5 DEF PendingUnits, PendingOf, Sold, SoldOf, Bought, BoughtOf
<1> QED BY <1>3, <1>6 DEF ReservedSell

(* Nothing is on a withdrawn instrument, unless it was in use.              *)
LEMMA NotBusyLeft ==
  ASSUME MInv, NEW a \in Agent, job[a].op = "eep", NEW i \in Instrument, i = job[a].inst, ~Busy(a, i)
  PROVE  /\ \A o \in Order : Signed[o].inst = i => orderStatus[o] = "absent"
         /\ \A k \in DOMAIN trades : trades[k].inst # i
         /\ \A r \in Rfq : Asked[r].inst = i => rfqStatus[r] # "OPEN"
         /\ \A q \in Proc : /\ pc[q] = "list" => arg[q][2] # i
                            /\ pc[q] = "place" => Signed[arg[q]].inst # i
                            /\ pc[q] = "rfq" => Asked[arg[q]].inst # i
         /\ NoEvents(i)
         /\ allocation[i] # NoPolicy => job[a].reserve = allocation[i]
<1> DEFINE u == job[a].use
<1>1. /\ u[1] = {} /\ u[2] = {} /\ ~u[3] /\ (u[4] # NoPolicy => job[a].reserve = u[4])
  BY DEF MInv, Jobs, JobType
<1>2. Use(i) = u
  BY DEF Busy
<1>3. /\ {o \in Order : Signed[o].inst = i /\ orderStatus[o] # "absent"} = u[1]
      /\ {k \in DOMAIN trades : trades[k].inst = i} = u[2]
      /\ economic_events(i) = u[3] /\ allocation[i] = u[4]
  <2> HIDE DEF u
  <2> QED BY <1>2 DEF Use
<1> HIDE DEF u
<1>4. NoEvents(i)
  BY <1>1, <1>3 DEF NoEvents, economic_events
<1>5. /\ \A o \in Order : Signed[o].inst = i => orderStatus[o] = "absent"
      /\ \A k \in DOMAIN trades : trades[k].inst # i
  BY <1>1, <1>3
<1>6. allocation[i] # NoPolicy => job[a].reserve = allocation[i]
  BY <1>1, <1>3
<1> QED BY <1>4, <1>5, <1>6 DEF Busy

LEMMA WithdrawEepKeeps ==
  ASSUME MInv, NEW a \in Agent, WithdrawEep(a)
  PROVE  MInv'
<1> USE DEF MInv
<1>1. PICK j \in Plan : j = job[a]
  BY DEF WithdrawEep, Doing, Jobs, JobType, Planning
<1>2. PICK i \in Instrument, p \in AnyPolicy : i = j.inst /\ p = j.reserve
  BY DEF Plan
<1>3. /\ j.op = "eep" /\ JobType(j) /\ Knows(j)
      /\ UNCHANGED <<now, calls, dealt, retro, eepCopy, eoppCopy, sealed, cut, undone,
                     policyTable, events, prelaunch>>
      /\ unquiet' = IF Busy(a, i) THEN unquiet \cup {i} ELSE unquiet
      /\ job' = [job EXCEPT ![a] = [j EXCEPT !.op = "eopp"]]
  BY <1>1, <1>2 DEF WithdrawEep, Doing, Jobs, KeepEopp, Proceed, Become
<1>4. PICK g : g = EepWithdrawn(Eep, i, p)
  OBVIOUS
<1>5. SetEep(g)
  BY <1>1, <1>2, <1>4 DEF WithdrawEep
<1>6. PICK f \in EepType : f = Eep
  BY EepFits
<1>7. /\ instStatus' = [instStatus EXCEPT ![i] = "WITHDRAWN"]
      /\ listed' = {l \in listed : l[2] # i}
      /\ balance' = [balance EXCEPT ![i] = TakenBack(i, balance[i], p)]
      /\ returned' = [returned EXCEPT ![i] = IF p = NoPolicy THEN @ ELSE @ + 1]
      /\ gone' = gone \cup {i}
      /\ UNCHANGED <<venueStatus, disclosed, book, deals, stamps, talks>>
  <2>1. /\ g.instStatus = [f.instStatus EXCEPT ![i] = "WITHDRAWN"]
        /\ g.listed = {l \in f.listed : l[2] # i}
        /\ g.balance = [f.balance EXCEPT ![i] = TakenBack(i, f.balance[i], p)]
        /\ g.returned = [f.returned EXCEPT ![i] = IF p = NoPolicy THEN @ ELSE @ + 1]
        /\ g.gone = f.gone \cup {i}
        /\ g.venueStatus = f.venueStatus /\ g.disclosed = f.disclosed
        /\ g.orderStatus = f.orderStatus /\ g.remaining = f.remaining /\ g.received = f.received
        /\ g.trades = f.trades /\ g.settled = f.settled /\ g.stamps = f.stamps
        /\ g.rfqStatus = f.rfqStatus /\ g.quoteStatus = f.quoteStatus
    BY <1>4, <1>6, WithdrawnFields
  <2>2. /\ f.venueStatus = venueStatus /\ f.instStatus = instStatus /\ f.disclosed = disclosed
        /\ f.listed = listed /\ f.balance = balance /\ f.orderStatus = orderStatus
        /\ f.remaining = remaining /\ f.received = received /\ f.trades = trades
        /\ f.settled = settled /\ f.stamps = stamps /\ f.rfqStatus = rfqStatus
        /\ f.quoteStatus = quoteStatus /\ f.returned = returned /\ f.gone = gone
    BY <1>6 DEF Eep
  <2> QED BY <1>5, <2>1, <2>2 DEF SetEep, book, deals, talks
<1>8. /\ p = NoPolicy \/ p = allocation[i]
      /\ TablesOK /\ balance[i] \in [Party -> Int] /\ returned[i] \in Nat
  BY <1>2, <1>3 DEF Knows, Planning, Tables, Economy
<1>9. /\ balance' \in [Instrument -> [Party -> Int]]
      /\ \A x \in Party : balance'[i][x] = balance[i][x] + Back(i, p, x)
      /\ \A k \in Instrument \ {i} : balance'[k] = balance[k] /\ returned'[k] = returned[k]
                                     /\ instStatus'[k] = instStatus[k]
      /\ returned'[i] = IF p = NoPolicy THEN returned[i] ELSE returned[i] + 1
      /\ instStatus'[i] = "WITHDRAWN"
  <2>1. /\ TakenBack(i, balance[i], p) \in [Party -> Int]
        /\ \A x \in Party : TakenBack(i, balance[i], p)[x] = balance[i][x] + Back(i, p, x)
    BY <1>8, TakenBackUnits
  <2>2. /\ balance \in [Instrument -> [Party -> Int]] /\ returned \in [Instrument -> Nat]
        /\ instStatus \in [Instrument -> {"absent", "ACTIVE", "WITHDRAWN"}]
    BY DEF Tables, TablesOK, Economy
  <2> QED BY <1>7, <2>1, <2>2
<1>10. /\ allocation' = allocation /\ policyStatus' = policyStatus /\ effective' = effective
       /\ UNCHANGED <<trades, settled, orderStatus, remaining, received, rfqStatus, quoteStatus, pc, arg, seen>>
  BY <1>3, <1>7 DEF policyTable, book, deals, talks, calls
<1>11. Tables'
  BY <1>3, <1>7, <1>9, <1>10 DEF Tables, TablesOK, ArgFits
<1>12. Stamped'
  BY <1>3, <1>7, <1>10 DEF Stamped
<1>13. Economy'
  BY <1>3, <1>7, <1>8, <1>9, <1>10 DEF Economy
<1>14. \A e : Charged(e) => Charged(e)'
  BY <1>3, <1>7, <1>10 DEF Charged, Recorded, Supersedes
<1>15. Charges'
  BY <1>3, <1>14 DEF Charges
<1>16. Onward
  <2>1. \A P \in SUBSET Policy : Closed(P) => Closed(P)'
    BY <1>10 DEF Closed
  <2>2. \A k : economic_events(k) => economic_events(k)'
    BY <1>3 DEF economic_events
  <2> QED BY <1>7, <1>10, <1>14, <2>1, <2>2 DEF Onward
<1>17. PICK r : r = [j EXCEPT !.op = "eopp"]
  OBVIOUS
<1>18. /\ r \in Plan /\ r.op = "eopp" /\ r.inst = i /\ r.reserve = p
  BY <1>2, <1>17 DEF Plan, Planning
<1>19. JobType(r) /\ Knows(r)'
  <2>1. JobType(r)
    BY <1>18 DEF JobType, Migrating, Planning
  <2>2. Knows(r)'
    BY <1>7, <1>8, <1>10, <1>18 DEF Knows, Planning, Withdrew
  <2> QED BY <2>1, <2>2
<1>20. job' = [job EXCEPT ![a] = r] /\ job[a].op \in Migrating
  BY <1>1, <1>3, <1>17 DEF Migrating
<1>21. Jobs'
  BY <1>16, <1>19, <1>20, JobsStep
<1>22. /\ OneMigration' /\ \A b \in Agent : job'[b].op \in Holding => b = a
       /\ \A k \in Instrument : AtWork(k) => job[a].op \in {"eopp", "receipt", "restore"}
       /\ \A k \in Instrument : r.op \in {"eopp", "receipt", "restore"} /\ r.inst = k => AtWork(k)'
  BY <1>20, OnlyMigration
<1>23. Receipts' /\ Whole'
  <2>1. \A k \in gone : Ended(k)
    BY <1>1, <1>3, <1>22 DEF Whole, Economy
  <2>2. AtWork(i)'
    BY <1>18, <1>22
  <2>3. \A k : Ended(k)' <=> Ended(k)
    BY <1>3 DEF Ended
  <2>4. \A s \in sealed : Closed(s.policies)'
    BY <1>10 DEF Receipts, Closed
  <2> QED BY <1>3, <1>7, <2>1, <2>2, <2>3, <2>4 DEF Receipts, Whole
<1>24. ASSUME ~Busy(a, i)
       PROVE  /\ \A o \in Order : Signed[o].inst = i => orderStatus[o] = "absent"
              /\ \A k \in DOMAIN trades : trades[k].inst # i
              /\ \A x \in Rfq : Asked[x].inst = i => rfqStatus[x] # "OPEN"
              /\ \A q \in Proc : /\ pc[q] = "list" => arg[q][2] # i
                                 /\ pc[q] = "place" => Signed[arg[q]].inst # i
                                 /\ pc[q] = "rfq" => Asked[arg[q]].inst # i
              /\ NoEvents(i)
              /\ allocation[i] # NoPolicy => p = allocation[i]
  BY <1>1, <1>2, <1>3, <1>24, NotBusyLeft
<1>25. Withdrawn'
  <2>1. \A k \in gone' : instStatus'[k] = "WITHDRAWN"
    BY <1>7, <1>9 DEF Withdrawn, Economy
  <2>2. ASSUME NEW k \in gone' \ unquiet' PROVE Left(k)' /\ NoEvents(k)' /\ TookBack(k)'
    <3>1. CASE k # i
      <4>1. k \in gone \ unquiet /\ k \in Instrument
        BY <1>3, <1>7, <2>2, <3>1 DEF Economy
      <4>2. Left(k) /\ NoEvents(k) /\ TookBack(k)
        BY <4>1 DEF Withdrawn
      <4>3. Left(k)'
        BY <1>7, <1>10, <4>2 DEF Left
      <4> QED BY <1>3, <1>9, <1>10, <3>1, <4>1, <4>2, <4>3 DEF NoEvents, TookBack
    <3>2. CASE k = i
      <4>1. ~Busy(a, i)
        BY <1>3, <2>2, <3>2
      <4>2. Left(i)'
        BY <1>7, <1>10, <1>24, <4>1 DEF Left
      <4>3. NoEvents(i)'
        BY <1>3, <1>24, <4>1 DEF NoEvents
      <4>4. TookBack(i)'
        BY <1>8, <1>9, <1>10, <1>24, <4>1 DEF TookBack
      <4> QED BY <3>2, <4>2, <4>3, <4>4
    <3> QED BY <3>1, <3>2
  <2> QED BY <2>1, <2>2 DEF Withdrawn
<1>26. /\ \A k \in Instrument : Reserve(k)' = Reserve(k)
       /\ \A k \in Instrument, x \in Party : Granted(k, x)' = Granted(k, x)
  <2>1. \A k \in Instrument : Reserve(k)' = Reserve(k)
    BY <1>10 DEF Reserve
  <2>2. \A k \in Instrument : instStatus[k] # "absent" /\ instStatus'[k] # "absent"
    BY <1>11 DEF Tables
  <2> QED BY <2>1, <2>2 DEF Granted
<1>27. \A x \in Party : /\ InTreasury(i, x) \in Int
                        /\ InTreasury(i, x)' = InTreasury(i, x) + Back(i, p, x)
                        /\ Back(i, p, x) \in Int
  <2> TAKE x \in Party
  <2>1. PICK n : n = IF p = NoPolicy THEN returned[i] ELSE returned[i] + 1
    OBVIOUS
  <2>2. /\ AccountAt(i, x, n) = Back(i, p, x) + AccountAt(i, x, returned[i])
        /\ AccountAt(i, x, returned[i]) \in Int /\ Back(i, p, x) \in Int
    BY <1>8, <2>1, AccountStep
  <2>3. InTreasury(i, x) = AccountAt(i, x, returned[i]) /\ InTreasury(i, x)' = AccountAt(i, x, n)
    BY <1>9, <1>10, <1>26, <2>1 DEF InTreasury, AccountAt
  <2> QED BY <2>2, <2>3
<1>28. Balanced'
  <2> SUFFICES ASSUME NEW k \in Instrument, NEW x \in Party
               PROVE  balance'[k][x] + Sold(k, x)' = Granted(k, x)' + Bought(k, x)' + InTreasury(k, x)'
    BY DEF Balanced
  <2>1. /\ Sold(k, x)' = Sold(k, x) /\ Bought(k, x)' = Bought(k, x)
        /\ Sold(k, x) \in Nat /\ Bought(k, x) \in Nat /\ Granted(k, x) \in Nat
        /\ balance[k][x] \in Int
    BY <1>8, <1>10, ColumnsSame, ColumnsType, InstrumentAssumption DEF Granted, Tables
  <2>2. balance[k][x] + Sold(k, x) = Granted(k, x) + Bought(k, x) + InTreasury(k, x)
    BY DEF Balanced
  <2>3. CASE k # i
    <3>1. InTreasury(k, x)' = InTreasury(k, x)
      BY <1>9, <1>10, <1>26, <2>3 DEF InTreasury
    <3> QED BY <1>9, <1>26, <2>1, <2>2, <2>3, <3>1
  <2>4. CASE k = i
    <3>1. /\ balance'[k][x] = balance[k][x] + Back(i, p, x) /\ Back(i, p, x) \in Int
          /\ InTreasury(k, x)' = InTreasury(k, x) + Back(i, p, x) /\ InTreasury(k, x) \in Int
          /\ Granted(k, x)' = Granted(k, x)
      BY <1>9, <1>26, <1>27, <2>4
    <3> QED BY <2>1, <2>2, <3>1
  <2> QED BY <2>3, <2>4
<1>29. Solvent'
  BY <1>7, <1>9 DEF Solvent
<1>30. Copied'
  <2>1. PICK c : c = eepCopy
    OBVIOUS
  <2>2. CopySound(c) /\ CopySolvent(c) /\ eepCopy' = c
    BY <1>1, <1>3, <2>1 DEF Copied, Holding
  <2>3. UNCHANGED <<sealed, cut, prelaunch, allocation>> /\ unquiet \subseteq unquiet' /\ gone \subseteq gone'
    BY <1>3, <1>7, <1>10
  <2>4. CopySound(c)'
    BY <2>2, <2>3 DEF CopySound, Ended
  <2>7. CopySound(eepCopy)' /\ CopySolvent(eepCopy)'
    BY <2>2, <2>4 DEF CopySound, CopySolvent, Ended
  <2> QED BY <2>7 DEF Copied
<1> QED BY <1>11, <1>12, <1>13, <1>15, <1>21, <1>22, <1>23, <1>25, <1>28, <1>29, <1>30

LEMMA WithdrawEoppKeeps ==
  ASSUME MInv, NEW a \in Agent, WithdrawEopp(a)
  PROVE  MInv'
<1> USE DEF MInv
<1>1. PICK j \in Plan : j = job[a]
  BY DEF WithdrawEopp, Doing, Jobs, JobType, Planning
<1>2. PICK i \in Instrument : i = j.inst
  BY DEF Plan
<1>3. PICK time \in Nat : time = j.at
  BY DEF Plan
<1>4. PICK g : g = EoppWithdrawn(Eopp, i, time)
  OBVIOUS
<1>5. /\ j.op = "eopp" /\ JobType(j) /\ Knows(j) /\ SetEopp(g) /\ KeepEep
      /\ UNCHANGED <<now, calls, dealt, retro, history>>
      /\ job' = [job EXCEPT ![a] = [op |-> "receipt", inst |-> i, policies |-> Recorded(i)]]
  BY <1>1, <1>2, <1>3, <1>4 DEF WithdrawEopp, Doing, Jobs, Become
<1>6. /\ g.policyStatus = [x \in Policy |-> IF x \in ActivePolicies(i) THEN "WITHDRAWN" ELSE policyStatus[x]]
      /\ g.prelaunch = prelaunch \cup {x \in ActivePolicies(i) : withdrawn[x] = Never}
      /\ g.effective = effective /\ g.allocation = allocation /\ g.events = events
  BY <1>4 DEF EoppWithdrawn, Eopp
<1>7. /\ policyStatus' = [x \in Policy |-> IF x \in ActivePolicies(i) THEN "WITHDRAWN" ELSE policyStatus[x]]
      /\ prelaunch' = prelaunch \cup {x \in ActivePolicies(i) : withdrawn[x] = Never}
      /\ UNCHANGED <<effective, allocation, events>>
  BY <1>5, <1>6 DEF SetEopp
<1>8. /\ UNCHANGED <<vars, stamps, dealt, returned, gone, retro, sealed, cut, unquiet>>
      /\ UNCHANGED <<market, balance, book, deals, trades, settled, listed, instStatus, orderStatus,
                     rfqStatus, pc, arg>>
  BY <1>5 DEF KeepEep, vars, history, market, deals, book, talks, calls
<1>9. /\ \A x \in Policy : (policyStatus'[x] = "absent") <=> (policyStatus[x] = "absent")
      /\ \A x \in Policy : policyStatus[x] \notin {"absent", "ACTIVE"} =>
                             policyStatus'[x] \notin {"absent", "ACTIVE"}
      /\ \A k : Recorded(k)' = Recorded(k)
      /\ \A x \in Recorded(i) : policyStatus'[x] \notin {"absent", "ACTIVE"}
  <2>1. \A x \in Policy : (policyStatus'[x] = "absent") <=> (policyStatus[x] = "absent")
    BY <1>7 DEF ActivePolicies
  <2>2. \A k : Recorded(k)' = Recorded(k)
    BY <2>1 DEF Recorded
  <2> QED BY <1>7, <2>1, <2>2 DEF ActivePolicies, Recorded
<1>10. Tables' /\ Stamped'
  BY <1>8, TablesSame
<1>11. Economy'
  <2>1. policyStatus' \in [Policy -> {"absent", "ACTIVE", "SUPERSEDED", "WITHDRAWN"}]
    BY <1>7 DEF Economy
  <2>2. prelaunch' \subseteq Policy
    BY <1>7 DEF ActivePolicies, Economy
  <2> QED BY <1>7, <1>8, <2>1, <2>2 DEF Economy
<1>12. \A e : Charged(e) => Charged(e)'
  BY <1>7, <1>8, <1>9 DEF Charged, Supersedes
<1>13. Charges'
  BY <1>7, <1>12 DEF Charges
<1>14. \A P \in SUBSET Policy : Closed(P) => Closed(P)'
  BY <1>9 DEF Closed
<1>15. Onward
  BY <1>7, <1>8, <1>12, <1>14 DEF Onward, economic_events
<1>16. PICK r : r = [op |-> "receipt", inst |-> i, policies |-> Recorded(i)]
  OBVIOUS
<1>17. JobType(r) /\ Knows(r)'
  <2>1. JobType(r)
    BY <1>16 DEF JobType, Migrating, Planning, Recorded
  <2>2. Closed(r.policies)'
    BY <1>9, <1>16 DEF Closed
  <2>3. i \in gone'
    BY <1>2, <1>5, <1>8 DEF Knows, Withdrew
  <2> QED BY <1>16, <2>1, <2>2, <2>3 DEF Knows, Planning, Withdrew
<1>18. job' = [job EXCEPT ![a] = r] /\ job[a].op \in Migrating
  BY <1>1, <1>5, <1>16 DEF Migrating
<1>19. Jobs'
  BY <1>15, <1>17, <1>18, JobsStep
<1>20. /\ OneMigration' /\ \A b \in Agent : job'[b].op \in Holding => b = a
       /\ job'[a] = r
       /\ \A k \in Instrument : AtWork(k) => job[a].inst = k
       /\ \A k \in Instrument : r.op \in {"eopp", "receipt", "restore"} /\ r.inst = k => AtWork(k)'
  BY <1>18, OnlyMigration
<1>21. Receipts' /\ Whole'
  <2>1. \A k \in Instrument : AtWork(k) => AtWork(k)'
    BY <1>1, <1>2, <1>16, <1>20
  <2>2. \A x \in prelaunch' : Terms[x].inst \in gone'
    <3>1. i \in gone
      BY <1>2, <1>5 DEF Knows, Withdrew
    <3> QED BY <1>7, <1>8, <3>1 DEF ActivePolicies, Whole
  <2>3. \A s \in sealed : Closed(s.policies)'
    BY <1>14 DEF Receipts
  <2> QED BY <1>8, <2>1, <2>2, <2>3 DEF Receipts, Whole, Ended, Economy
<1>22. Withdrawn'
  BY <1>7, <1>8, WithdrawnSame
<1>23. Balanced' /\ Solvent'
  <2>1. Balanced'
    BY <1>7, <1>8, BalancedSame
  <2>2. Solvent'
    BY <1>7, <1>8, SolventSame
  <2> QED BY <2>1, <2>2
<1>24. Copied'
  <2>1. r.op \notin Holding
    BY <1>16 DEF Holding
  <2> QED BY <1>20, <2>1 DEF Copied
<1> QED BY <1>10, <1>11, <1>13, <1>19, <1>20, <1>21, <1>22, <1>23, <1>24

LEMMA WriteReceiptKeeps ==
  ASSUME MInv, NEW a \in Agent, WriteReceipt(a)
  PROVE  MInv'
<1> USE DEF MInv
<1>1. PICK j : j = job[a]
  OBVIOUS
<1>2. /\ j.op = "receipt" /\ JobType(j) /\ Knows(j)
      /\ sealed' = sealed \cup {[inst |-> j.inst, policies |-> j.policies]}
      /\ job' = [job EXCEPT ![a] = NoJob] /\ NoJob.op = "none"
      /\ KeepEep /\ KeepEopp /\ UNCHANGED <<now, calls, dealt, retro, cut, unquiet>>
  BY <1>1, NoJobFits DEF WriteReceipt, Doing, Jobs, Finish, Become
<1>3. PICK i \in Instrument : i = j.inst
  BY <1>2 DEF JobType, Migrating
<1>4. i \in gone /\ j.policies \subseteq Policy /\ Closed(j.policies)
  BY <1>2, <1>3 DEF JobType, Knows, Withdrew
<1>5. /\ UNCHANGED <<vars, stamps, dealt, policyTable, events, rows, retro, cut, unquiet>>
      /\ UNCHANGED <<market, balance, book, deals, trades, settled, listed, instStatus, orderStatus,
                     rfqStatus, pc, arg, policyStatus, effective, allocation, prelaunch, returned, gone>>
  BY <1>2 DEF KeepEep, KeepEopp, vars, market, deals, book, talks, calls, policyTable, rows
<1>6. Tables' /\ Stamped' /\ Economy' /\ Withdrawn' /\ Balanced' /\ Solvent'
  BY <1>5, TablesSame, EconomySame, WithdrawnSame, BalancedSame, SolventSame
<1>7. \A e : Charged(e) => Charged(e)'
  BY <1>5 DEF Charged, Recorded, Supersedes
<1>8. Charges'
  BY <1>5, <1>7 DEF Charges
<1>9. \A P : Closed(P) => Closed(P)'
  BY <1>5 DEF Closed
<1>10. Onward
  BY <1>5, <1>7, <1>9 DEF Onward, economic_events
<1>11. Jobs'
  BY <1>2, <1>10, JobsStep, NoJobFits
<1>12. /\ OneMigration' /\ \A b \in Agent : job'[b].op \in Holding => b = a
       /\ job'[a] = NoJob
       /\ \A k \in Instrument : AtWork(k) => job[a].inst = k
  <2>1. job[a].op \in Migrating
    BY <1>1, <1>2 DEF Migrating
  <2> QED BY <1>2, <2>1, OnlyMigration
<1>13. Receipts' /\ Whole'
  <2>1. \A k \in gone : Ended(k)'
    <3> DEFINE s == [inst |-> j.inst, policies |-> j.policies]
    <3>3. s \in sealed' /\ s.inst = i
      BY <1>2, <1>3
    <3> HIDE DEF s
    <3>1. Ended(i)'
      BY <3>3 DEF Ended
    <3>2. \A k : Ended(k) => Ended(k)'
      BY <1>2 DEF Ended
    <3> QED BY <1>1, <1>3, <1>12, <3>1, <3>2 DEF Whole, Economy
  <2> QED BY <1>2, <1>3, <1>4, <1>5, <1>9, <2>1 DEF Receipts, Whole
<1>14. Copied'
  BY <1>2, <1>12 DEF Copied, Holding
<1> QED BY <1>6, <1>8, <1>11, <1>12, <1>13, <1>14

(* A migration dies.                                                        *)
LEMMA DieKeeps ==
  ASSUME MInv, NEW a \in Agent, Die(a)
  PROVE  MInv'
<1> USE DEF MInv
<1>1. PICK j : j = job[a]
  OBVIOUS
<1>2. /\ j.op \in Migrating
      /\ cut' = IF j.op \in {"eopp", "receipt", "restore"} THEN cut \cup {j.inst} ELSE cut
      /\ job' = [job EXCEPT ![a] = NoJob] /\ NoJob.op = "none"
      /\ KeepEep /\ KeepEopp /\ UNCHANGED <<now, calls, dealt, retro, sealed, unquiet>>
  BY <1>1, NoJobFits DEF Die, Finish, Become, Forget
<1>5. /\ UNCHANGED <<vars, stamps, dealt, policyTable, events, rows, retro, sealed, unquiet>>
      /\ UNCHANGED <<market, balance, book, deals, trades, settled, listed, instStatus, orderStatus,
                     rfqStatus, pc, arg, policyStatus, effective, allocation, prelaunch, returned, gone>>
  BY <1>2 DEF KeepEep, KeepEopp, vars, market, deals, book, talks, calls, policyTable, rows
<1>6. Tables' /\ Stamped' /\ Economy' /\ Withdrawn' /\ Balanced' /\ Solvent'
  BY <1>5, TablesSame, EconomySame, WithdrawnSame, BalancedSame, SolventSame
<1>7. \A e : Charged(e) => Charged(e)'
  BY <1>5 DEF Charged, Recorded, Supersedes
<1>8. Charges'
  BY <1>5, <1>7 DEF Charges
<1>9. \A P : Closed(P) => Closed(P)'
  BY <1>5 DEF Closed
<1>10. Onward
  BY <1>5, <1>7, <1>9 DEF Onward, economic_events
<1>11. Jobs'
  BY <1>2, <1>10, JobsStep, NoJobFits
<1>12. /\ OneMigration' /\ \A b \in Agent : job'[b].op \in Holding => b = a
       /\ job'[a] = NoJob
       /\ \A k \in Instrument : AtWork(k) =>
            job[a].inst = k /\ job[a].op \in {"eopp", "receipt", "restore"}
  BY <1>1, <1>2, OnlyMigration
<1>13. Receipts' /\ Whole'
  <2>1. \A k \in gone : Ended(k)'
    BY <1>1, <1>2, <1>12 DEF Whole, Economy, Ended
  <2> QED BY <1>5, <1>9, <2>1 DEF Receipts, Whole
<1>14. Copied'
  BY <1>2, <1>12 DEF Copied, Holding
<1> QED BY <1>6, <1>8, <1>11, <1>12, <1>13, <1>14

-----------------------------------------------------------------------------
(* A migration puts the copies back, and nobody's commits with them.        *)

LEMMA RestoreEepKeeps ==
  ASSUME MInv, NEW a \in Agent, RestoreEep(a), ~undone'
  PROVE  MInv'
<1> USE DEF MInv
<1>0. PICK j : j = job[a]
  OBVIOUS
<1>1. /\ j.op = "restore" /\ JobType(j) /\ Knows(j) /\ KeepEopp
      /\ UNCHANGED <<now, calls, dealt, retro, sealed, cut, unquiet>>
      /\ job' = [job EXCEPT ![a] = [j EXCEPT !.op = "restore eopp"]]
      /\ SetEep(eepCopy)
      /\ Eep = IF j.wrote THEN EepWithdrawn(eepCopy, j.inst, j.reserve) ELSE eepCopy
  BY <1>0 DEF RestoreEep, Doing, Jobs, Restored, Proceed, Become
<1>2. PICK i \in Instrument, p \in AnyPolicy : i = j.inst /\ p = j.reserve
  BY <1>1 DEF JobType, Undoing
<1>3. PICK f \in EepType : f = eepCopy /\ CopySound(f) /\ CopySolvent(f)
  BY <1>0, <1>1 DEF Copied, Holding, CopySound
<1>4. PICK r : r = [j EXCEPT !.op = "restore eopp"]
  OBVIOUS
<1>5. /\ r.op = "restore eopp" /\ r.inst = i /\ job' = [job EXCEPT ![a] = r]
      /\ job[a].op \in Migrating /\ r.op \notin Holding
  BY <1>0, <1>1, <1>2, <1>4 DEF JobType, Undoing, Migrating, Holding
<1>6. /\ OneMigration' /\ \A b \in Agent : job'[b].op \in Holding => b = a
      /\ job'[a] = r /\ \A b \in Agent \ {a} : job'[b] = job[b] /\ job[b].op \notin Migrating
      /\ \A k \in Instrument : AtWork(k) => job[a].inst = k
  BY <1>5, OnlyMigration
<1>7. JobType(r) /\ Knows(r) /\ Knows(r)'
  BY <1>2, <1>5 DEF JobType, Knows, Migrating, Planning, Withdrew
<1>8. Copied'
  BY <1>5, <1>6 DEF Copied
<1>9. /\ venueStatus' = f.venueStatus /\ instStatus' = f.instStatus /\ disclosed' = f.disclosed
      /\ listed' = f.listed /\ balance' = f.balance /\ orderStatus' = f.orderStatus
      /\ remaining' = f.remaining /\ received' = f.received /\ trades' = f.trades
      /\ settled' = f.settled /\ stamps' = f.stamps /\ rfqStatus' = f.rfqStatus
      /\ quoteStatus' = f.quoteStatus /\ returned' = f.returned /\ gone' = f.gone
  BY <1>1, <1>3 DEF SetEep
<1>10. PICK e : e = Eep
  OBVIOUS
<1>11. /\ e.venueStatus = venueStatus /\ e.instStatus = instStatus /\ e.disclosed = disclosed
       /\ e.listed = listed /\ e.balance = balance /\ e.orderStatus = orderStatus
       /\ e.remaining = remaining /\ e.received = received /\ e.trades = trades
       /\ e.settled = settled /\ e.stamps = stamps /\ e.rfqStatus = rfqStatus
       /\ e.quoteStatus = quoteStatus /\ e.returned = returned /\ e.gone = gone
  BY <1>10 DEF Eep
<1>12. UNCHANGED <<policyStatus, effective, withdrawn, allocation, events, prelaunch>>
  BY <1>1 DEF KeepEopp, policyTable
<1>13. CASE ~j.wrote
  <2>1. e = f
    BY <1>1, <1>3, <1>10, <1>13
  <2>2. UNCHANGED <<vars, policyTable, events, stamps, dealt, retro, rows, sealed, cut, unquiet>>
    BY <1>1, <1>9, <1>11, <1>12, <2>1
       DEF vars, market, book, deals, talks, policyTable, rows
  <2>3. \A k \in Instrument : AtWork(k) => AtWork(k)' \/ k \notin gone \/ Ended(k)
    BY <1>3, <1>11, <2>1 DEF CopySound
  <2> QED BY <1>5, <1>6, <1>7, <1>8, <2>2, <2>3, JobKeeps
<1>14. CASE j.wrote
  <2>1. e = EepWithdrawn(f, i, p)
    BY <1>1, <1>2, <1>3, <1>10, <1>14
  <2>2. /\ instStatus = [f.instStatus EXCEPT ![i] = "WITHDRAWN"]
        /\ balance = [f.balance EXCEPT ![i] = TakenBack(i, f.balance[i], p)]
        /\ returned = [f.returned EXCEPT ![i] = IF p = NoPolicy THEN @ ELSE @ + 1]
        /\ gone = f.gone \cup {i}
        /\ UNCHANGED <<venueStatus, disclosed, orderStatus, remaining, received, trades, settled,
                       stamps, rfqStatus, quoteStatus>>
    <3>1. /\ e.instStatus = [f.instStatus EXCEPT ![i] = "WITHDRAWN"]
          /\ e.balance = [f.balance EXCEPT ![i] = TakenBack(i, f.balance[i], p)]
          /\ e.returned = [f.returned EXCEPT ![i] = IF p = NoPolicy THEN @ ELSE @ + 1]
          /\ e.gone = f.gone \cup {i}
          /\ e.venueStatus = f.venueStatus /\ e.disclosed = f.disclosed
          /\ e.orderStatus = f.orderStatus /\ e.remaining = f.remaining /\ e.received = f.received
          /\ e.trades = f.trades /\ e.settled = f.settled /\ e.stamps = f.stamps
          /\ e.rfqStatus = f.rfqStatus /\ e.quoteStatus = f.quoteStatus
      BY <2>1, WithdrawnFields
    <3> QED BY <1>9, <1>11, <3>1
  <2>3. /\ TablesOK /\ allocation[i] \in AnyPolicy /\ (p = NoPolicy \/ p = allocation[i])
        /\ UNCHANGED <<pc, arg, seen>>
    BY <1>1, <1>2 DEF Tables, Economy, Knows, calls
  <2>4. Tables'
    <3>1. /\ instStatus' \in [Instrument -> {"ACTIVE", "WITHDRAWN"}]
          /\ listed' \subseteq Venue \X Instrument /\ balance' \in [Instrument -> [Party -> Int]]
      BY <1>9 DEF EepType
    <3> QED BY <1>1, <2>2, <2>3, <3>1 DEF Tables, TablesOK, ArgFits
  <2>5. Stamped'
    BY <1>1, <2>2 DEF Stamped
  <2>6. Economy'
    <3>1. /\ returned' \in [Instrument -> Nat] /\ gone' \subseteq Instrument
          /\ \A k \in Instrument : returned'[k] > 0 => allocation[k] # NoPolicy /\ k \in gone'
      BY <1>3, <1>9 DEF EepType, CopySound
    <3> QED BY <1>12, <3>1 DEF Economy
  <2>7. \A x : Charged(x) => Charged(x)'
    BY <1>1, <1>12, <2>2 DEF Charged, Recorded, Supersedes
  <2>8. Charges'
    BY <1>12, <2>7 DEF Charges
  <2>9. Jobs'
    <3>1. ASSUME NEW b \in Agent \ {a} PROVE JobType(job[b]) /\ Knows(job[b])
      BY DEF Jobs
    <3>2. ASSUME NEW b \in Agent \ {a} PROVE JobType(job'[b]) /\ Knows(job[b])'
      <4>1. PICK x : x = job[b]
        OBVIOUS
      <4>2. JobType(x) /\ Knows(x) /\ x.op \notin Migrating /\ job'[b] = x
        BY <1>6, <3>1, <4>1
      <4>3. x.op \notin {"audit", "receipt"} \cup Planning \cup {"restore", "eopp"}
        BY <4>2 DEF Migrating, Planning
      <4>4. x.op = "capture" => Charged(x.event)'
        BY <2>7, <4>2 DEF Knows
      <4>5. Knows(x)'
        BY <4>3, <4>4 DEF Knows, Withdrew
      <4> QED BY <4>2, <4>5 DEF Knows, Withdrew, Charged, economic_events
    <3>3. Knows(job[a])'
      BY <1>6, <1>7 DEF Knows, Withdrew, Charged, economic_events
    <3>4. DOMAIN job' = Agent
      BY <1>5 DEF Jobs
    <3> QED BY <1>6, <1>7, <3>2, <3>3, <3>4 DEF Jobs
  <2>10. Receipts' /\ Whole'
    <3>1. (\A s \in sealed : s.inst \in gone') /\ (\A k \in gone' : Ended(k))
      BY <1>3, <1>9 DEF CopySound
    <3>2. \A x \in prelaunch : Terms[x].inst \in gone'
      BY <1>3, <1>9 DEF CopySound
    <3>3. \A P : Closed(P)' <=> Closed(P)
      BY <1>12 DEF Closed
    <3>4. Receipts'
      BY <1>1, <3>1, <3>3 DEF Receipts
    <3>5. Whole'
      <4>1. ASSUME NEW k \in gone' PROVE Ended(k)'
        <5>1. Ended(k)
          BY <3>1
        <5> QED BY <1>1, <5>1 DEF Ended
      <4>2. prelaunch' = prelaunch
        BY <1>12
      <4>3. \A x \in prelaunch' : Terms[x].inst \in gone'
        BY <3>2, <4>2
      <4> QED BY <4>1, <4>3 DEF Whole
    <3> QED BY <3>4, <3>5
  <2>11. Withdrawn'
    <3>1. \A k \in gone' : k \in gone /\ instStatus'[k] = "WITHDRAWN"
      BY <1>3, <1>9 DEF CopySound
    <3>2. ASSUME NEW k \in gone' \ unquiet' PROVE Left(k)' /\ NoEvents(k)' /\ TookBack(k)'
      <4>1. Left(k) /\ NoEvents(k)
        BY <1>1, <3>1, <3>2 DEF Withdrawn
      <4>2. (\A l \in listed' : l[2] # k) /\ TookBack(k)'
        BY <1>1, <1>3, <1>9, <1>12, <3>2 DEF CopySound, TookBack
      <4>3. Left(k)'
        BY <2>2, <2>3, <4>1, <4>2 DEF Left
      <4> QED BY <1>12, <4>1, <4>2, <4>3 DEF NoEvents
    <3> QED BY <3>1, <3>2 DEF Withdrawn
  <2>12. \A k \in Instrument : Reserve(k)' = Reserve(k)
    BY <1>12 DEF Reserve
  <2>13. Balanced'
    <3> SUFFICES ASSUME NEW k \in Instrument, NEW x \in Party
                 PROVE  balance'[k][x] + Sold(k, x)' = Granted(k, x)' + Bought(k, x)' + InTreasury(k, x)'
      BY DEF Balanced
    <3>1. /\ Sold(k, x)' = Sold(k, x) /\ Bought(k, x)' = Bought(k, x)
          /\ Sold(k, x) \in Nat /\ Bought(k, x) \in Nat
      BY <2>2, <2>3, ColumnsSame, ColumnsType
    <3>2. Granted(k, x)' = Granted(k, x) /\ Granted(k, x) \in Nat
      <4>1. instStatus[k] # "absent" /\ instStatus'[k] # "absent"
        BY <2>4 DEF Tables
      <4> QED BY <4>1, InstrumentAssumption DEF Granted
    <3>3. balance[k][x] + Sold(k, x) = Granted(k, x) + Bought(k, x) + InTreasury(k, x)
      BY DEF Balanced
    <3>4. /\ balance[k][x] \in Int /\ balance'[k][x] \in Int /\ f.returned[k] \in Nat
          /\ f.balance[k] \in [Party -> Int]
      BY <1>9, <2>4 DEF Tables, EepType
    <3>5. InTreasury(k, x)' = AccountAt(k, x, f.returned[k])
      BY <1>9, <1>12, <2>12 DEF InTreasury, AccountAt
    <3>6. InTreasury(k, x) = AccountAt(k, x, returned[k])
      BY DEF InTreasury, AccountAt
    <3>7. CASE k # i
      <4>1. balance[k][x] = balance'[k][x] /\ returned[k] = f.returned[k]
        BY <1>9, <2>2, <3>7
      <4> QED BY <3>1, <3>2, <3>3, <3>5, <3>6, <4>1
    <3>8. CASE k = i
      <4>1. balance[k] = TakenBack(i, f.balance[i], p)
        BY <2>2, <3>8 DEF EepType
      <4>2. balance[k][x] = balance'[k][x] + Back(i, p, x)
        BY <1>9, <2>3, <3>4, <3>8, <4>1, TakenBackUnits
      <4>3. returned[k] = IF p = NoPolicy THEN f.returned[k] ELSE f.returned[k] + 1
        BY <2>2, <3>8 DEF EepType
      <4>4. /\ InTreasury(k, x) = Back(i, p, x) + InTreasury(k, x)'
            /\ Back(i, p, x) \in Int /\ InTreasury(k, x)' \in Int
        BY <2>3, <3>4, <3>5, <3>6, <3>8, <4>3, AccountStep
      <4> QED BY <3>1, <3>2, <3>3, <3>4, <4>2, <4>4
    <3> QED BY <3>7, <3>8
  <2>14. Solvent'
    BY <1>3, <1>9 DEF CopySolvent, Solvent
  <2> QED
    BY <1>6, <1>8, <2>4, <2>5, <2>6, <2>8, <2>9, <2>10, <2>11, <2>13, <2>14
<1> QED BY <1>13, <1>14

LEMMA RestoreEoppKeeps ==
  ASSUME MInv, NEW a \in Agent, RestoreEopp(a), ~undone'
  PROVE  MInv'
<1> USE DEF MInv
<1>1. /\ job[a].op = "restore eopp" /\ job' = [job EXCEPT ![a] = NoJob] /\ NoJob.op = "none"
      /\ KeepEep /\ UNCHANGED <<now, calls, dealt, retro, sealed, cut, unquiet>>
      /\ SetEopp(eoppCopy) /\ Eopp = eoppCopy
  BY NoJobFits DEF RestoreEopp, Doing, Forget
<1>2. UNCHANGED <<policyTable, events, prelaunch>>
  BY <1>1 DEF SetEopp, Eopp, policyTable
<1>3. UNCHANGED <<vars, policyTable, events, stamps, dealt, retro, rows, sealed, cut, unquiet>>
  BY <1>1, <1>2 DEF KeepEep, vars, rows
<1>4. /\ OneMigration' /\ \A b \in Agent : job'[b].op \in Holding => b = a
      /\ job'[a] = NoJob
      /\ \A k \in Instrument : AtWork(k) => job[a].op \in {"eopp", "receipt", "restore"}
  <2>1. job[a].op \in Migrating
    BY <1>1 DEF Migrating
  <2> QED BY <1>1, <2>1, OnlyMigration
<1>5. Copied' /\ \A k \in Instrument : AtWork(k) => AtWork(k)'
  BY <1>1, <1>4 DEF Copied, Holding
<1> QED BY <1>1, <1>3, <1>4, <1>5, NoJobFits, JobKeeps

-----------------------------------------------------------------------------
(* The invariant holds until a restoration writes over what others did.     *)

LEMMA MarketInitInv == MarketInit => MInv
<1> SUFFICES ASSUME MarketInit PROVE MInv
  OBVIOUS
<1> USE DEF MarketInit, OpenMarket, ParticipationInit
<1>1. Tables
  <2>1. balance \in [Instrument -> [Party -> Int]]
    <3>1. \A i \in Instrument : Units[i] \in Int
      BY InstrumentAssumption
    <3> QED BY <3>1
  <2> QED BY <2>1 DEF Tables, TablesOK, ArgFits
<1>2. Stamped /\ Charges
  BY DEF Stamped, Charges
<1>3. Economy
  BY DEF Economy, AnyPolicy
<1>4. job \in [Agent -> {NoJob}] /\ NoJob.op = "none" /\ "none" \notin Migrating
  BY NoJobFits DEF Migrating
<1>5. Jobs
  BY <1>4, NoJobFits DEF Jobs
<1>6. OneMigration /\ Copied
  BY <1>4 DEF OneMigration, Copied, Holding
<1>7. Receipts /\ Whole /\ Withdrawn
  BY DEF Receipts, Whole, Withdrawn
<1>8. ASSUME NEW i \in Instrument, NEW p \in Party
      PROVE  /\ Sold(i, p) = 0 /\ Bought(i, p) = 0
             /\ balance[i][p] = Granted(i, p) /\ Granted(i, p) \in Nat
             /\ InTreasury(i, p) = 0
  <2>1. Sold(i, p) = 0 /\ Bought(i, p) = 0
    BY <1>1, UnusedUnits DEF Tables
  <2>2. balance[i][p] = Granted(i, p) /\ Granted(i, p) \in Nat
    BY InstrumentAssumption DEF Granted
  <2>3. InTreasury(i, p) = 0
    BY DEF InTreasury, Reserve
  <2> QED BY <2>1, <2>2, <2>3
<1>9. Balanced /\ Solvent
  BY <1>8 DEF Balanced, Solvent
<1> QED BY <1>1, <1>2, <1>3, <1>5, <1>6, <1>7, <1>9 DEF MInv

LEMMA StutterKeeps ==
  ASSUME MInv, UNCHANGED <<vars, policyTable, events, stamps, dealt, retro, job, eepCopy, rows,
                           sealed, cut, unquiet>>
  PROVE  MInv'
<1> USE DEF MInv
<1>0. /\ TablesOK /\ Tables' /\ Stamped'
      /\ UNCHANGED <<market, balance, book, deals, trades, settled, instStatus, orderStatus,
                     rfqStatus, pc, arg, policyStatus, effective, withdrawn, allocation, events, retro,
                     prelaunch, returned, gone, sealed, cut, unquiet>>
  BY TablesSame DEF Tables, policyTable, rows, vars, market, book, deals, talks, calls
<1>1. Economy' /\ Balanced' /\ Solvent' /\ Withdrawn'
  BY <1>0, EconomySame, BalancedSame, SolventSame, WithdrawnSame
<1>2. \A e : Charged(e) => Charged(e)'
  BY <1>0, ChargedSame
<1>3. Charges'
  BY <1>0, <1>2 DEF Charges
<1>4. Onward
  BY <1>0, <1>2 DEF Onward, economic_events, Closed
<1>5. Jobs' /\ OneMigration'
  BY <1>4, JobsSame DEF OneMigration
<1>6. Receipts' /\ Whole'
  BY <1>0, RecordsSame DEF Economy, AtWork
<1>7. Copied'
  BY <1>0, CopySame DEF Copied
<1> QED BY <1>0, <1>1, <1>3, <1>5, <1>6, <1>7

LEMMA MarketStep == (undone \/ MInv) /\ [MarketNext]_allVars => undone' \/ MInv'
<1> SUFFICES ASSUME undone \/ MInv, [MarketNext]_allVars, ~undone' PROVE MInv'
  OBVIOUS
<1>1. CASE UNCHANGED allVars
  <2>1. /\ MInv
        /\ UNCHANGED <<vars, policyTable, events, stamps, dealt, retro, job, eepCopy, rows,
                       sealed, cut, unquiet>>
    BY <1>1 DEF allVars, participation, history, agents
  <2> QED BY <2>1, StutterKeeps
<1>2. ASSUME ~undone, MInv, MarketNext PROVE MInv'
  <2>1. CASE ExchangeStep
    BY <1>2, <2>1, ExchangeKeeps DEF ExchangeStep
  <2>2. CASE ParticipationStep
    <3>1. PICK a \in Agent : AgentStep(a)
      BY <2>2 DEF ParticipationStep
    <3>2. UNCHANGED <<eepCopy, eoppCopy, rows, history>>
      BY <2>2 DEF ParticipationStep
    <3> QED BY <1>2, <3>1, <3>2, AgentLooks, DefineKeeps, WithdrawPolicyKeeps, AllocateKeeps,
               CaptureKeeps DEF AgentStep
  <2>3. CASE MigrationStep
    <3>1. PICK a \in Agent :
            \/ \E i \in Instrument : AuditEep(a, i)
            \/ AuditEopp(a) \/ CopyEep(a) \/ CopyEopp(a) \/ WithdrawEep(a) \/ WithdrawEopp(a)
            \/ WriteReceipt(a) \/ RaiseError(a) \/ RestoreEep(a) \/ RestoreEopp(a) \/ Die(a)
      BY <2>3 DEF MigrationStep
    <3> QED BY <1>2, <3>1, AuditEepKeeps, AuditEoppKeeps, CopyStepsKeep, WithdrawEepKeeps,
               WithdrawEoppKeeps, WriteReceiptKeeps, RaiseKeeps, RestoreEepKeeps,
               RestoreEoppKeeps, DieKeeps
  <2> QED BY <1>2, <2>1, <2>2, <2>3 DEF MarketNext
<1> QED BY <1>1, <1>2 DEF MarketNext

LEMMA MarketInductive == MarketSpec => [](undone \/ MInv)
BY MarketInitInv, MarketStep, PTL DEF MarketSpec

-----------------------------------------------------------------------------

LEMMA ChargesOnce == MInv => OneObligationPerTrade
<1> SUFFICES ASSUME MInv, NEW m \in DOMAIN events, NEW n \in DOMAIN events,
                    m # n, events[m].trade = events[n].trade
             PROVE  \E e \in {events[m], events[n]} : e.policy \in retro
  BY DEF OneObligationPerTrade
<1> USE DEF MInv
<1>1. PICK d, e : d = events[m] /\ e = events[n]
  OBVIOUS
<1>2. Charged(d) /\ Charged(e) /\ d.policy # e.policy /\ d.trade = e.trade
  BY <1>1 DEF Charges
<1>3. PICK x, y : x = d.policy /\ y = e.policy
  OBVIOUS
<1>4. PICK i : i = trades[d.trade].inst
  OBVIOUS
<1>5. /\ x \in Recorded(i) /\ y \in Recorded(i) /\ x # y
      /\ Supersedes(x, y) \/ y \in retro
      /\ Supersedes(y, x) \/ x \in retro
  BY <1>2, <1>3, <1>4 DEF Charged
<1>6. /\ x \in Policy /\ y \in Policy
      /\ effective[x] \in Nat /\ effective[y] \in Nat
      /\ Terms[x].version \in Nat /\ Terms[y].version \in Nat
  <2>1. x \in Policy /\ y \in Policy
    BY <1>5 DEF Recorded
  <2> QED BY <2>1, TermsAssumption DEF Economy, TermsBody
<1>7. ~(Supersedes(x, y) /\ Supersedes(y, x))
  BY <1>6 DEF Supersedes
<1> QED BY <1>1, <1>3, <1>5, <1>7

LEMMA UnusedWhole == MInv => WithdrawnUnused
<1> SUFFICES ASSUME MInv, NEW i \in gone \ unquiet
             PROVE  /\ \A o \in Order : Signed[o].inst = i => orderStatus[o] = "absent"
                    /\ \A k \in DOMAIN trades : trades[k].inst # i
                    /\ \A n \in DOMAIN events : Terms[events[n].policy].inst # i
                    /\ returned[i] <= 1 => \A p \in Party : balance[i][p] = Granted(i, p)
  BY DEF WithdrawnUnused
<1> USE DEF MInv
<1>1. i \in Instrument /\ Left(i) /\ NoEvents(i) /\ TookBack(i) /\ TablesOK
  BY DEF Withdrawn, Economy, Tables
<1>2. ASSUME returned[i] <= 1, NEW p \in Party PROVE balance[i][p] = Granted(i, p)
  <2>1. Sold(i, p) = 0 /\ Bought(i, p) = 0
    BY <1>1, UnusedUnits DEF Left
  <2>2. InTreasury(i, p) = 0
    <3>1. Reserve(i) \in Nat /\ returned[i] \in Nat
      BY <1>1, TreasuryType
    <3>2. CASE allocation[i] = NoPolicy
      <4>1. Reserve(i) = 0 /\ returned[i] = 0
        BY <1>1, <3>1, <3>2 DEF Reserve, Economy
      <4>2. 0 * (0 - 1) = 0
        OBVIOUS
      <4> QED BY <3>2, <4>1, <4>2 DEF InTreasury
    <3>3. CASE allocation[i] # NoPolicy
      <4>1. returned[i] = 1
        BY <1>1, <1>2, <3>1, <3>3 DEF TookBack
      <4>2. Reserve(i) * (1 - 1) = 0
        BY <3>1
      <4> QED BY <3>3, <4>1, <4>2 DEF InTreasury
    <3> QED BY <3>2, <3>3
  <2>3. balance[i][p] + Sold(i, p) = Granted(i, p) + Bought(i, p) + InTreasury(i, p)
    BY <1>1 DEF Balanced
  <2>4. balance[i][p] \in Int /\ Granted(i, p) \in Nat
    BY <1>1, InstrumentAssumption DEF Tables, Granted
  <2> QED BY <2>1, <2>2, <2>3, <2>4
<1> QED BY <1>1, <1>2 DEF Left, NoEvents

LEMMA ExplainedNow == MInv => BalancesExplained
<1> SUFFICES ASSUME MInv, NEW i \in Instrument, returned[i] <= 1
             PROVE  /\ i \notin gone => WithTreasury(i)
                    /\ i \in gone => WithIssuer(i) \/ (i \in unquiet /\ WithTreasury(i))
                    /\ i \in gone \cap unquiet \/ \A p \in Party : balance[i][p] >= 0
  BY DEF BalancesExplained
<1> USE DEF MInv
<1>1. /\ returned[i] \in {0, 1} /\ (returned[i] > 0 => i \in gone)
      /\ \A p \in Party : Reserve(i) \in Nat /\ InTreasury(i, p) \in Int
  BY TreasuryType DEF Economy
<1>2. ASSUME NEW p \in Party
      PROVE  /\ balance[i][p] + Sold(i, p) = Granted(i, p) + Bought(i, p) + InTreasury(i, p)
             /\ balance[i][p] \in Int /\ Granted(i, p) \in Nat
             /\ Sold(i, p) \in Nat /\ Bought(i, p) \in Nat
  BY ColumnsType, InstrumentAssumption DEF Balanced, Tables, Granted
<1>3. Reserve(i) = 0 \/ (/\ allocation[i] # NoPolicy
                         /\ Terms[allocation[i]].treasury # Issuer[i])
  BY DEF Reserve
<1>4. ASSUME NEW p \in Party PROVE ReserveAt(i, p) \in Nat /\ ReserveFrom(i, p) \in Nat
  BY <1>1 DEF ReserveAt, ReserveFrom
<1>5. ASSUME returned[i] = 0 PROVE WithTreasury(i)
  <2> SUFFICES ASSUME NEW p \in Party
               PROVE  balance[i][p] + Sold(i, p) + ReserveFrom(i, p)
                      = Granted(i, p) + Bought(i, p) + ReserveAt(i, p)
    BY DEF WithTreasury
  <2>1. \A m \in Nat : m * (1 - 0) = m /\ m * (0 - 1) = 0 - m
    OBVIOUS
  <2>2. InTreasury(i, p) = IF allocation[i] # NoPolicy /\ p = Terms[allocation[i]].treasury THEN Reserve(i)
                           ELSE IF p = Issuer[i] THEN 0 - Reserve(i) ELSE 0
    BY <1>1, <1>5, <2>1 DEF InTreasury
  <2>3. InTreasury(i, p) + ReserveFrom(i, p) = ReserveAt(i, p)
    BY <1>1, <1>3, <2>2 DEF ReserveAt, ReserveFrom
  <2> QED BY <1>1, <1>2, <1>4, <2>3
<1>6. ASSUME returned[i] = 1 \/ allocation[i] = NoPolicy PROVE WithIssuer(i)
  <2> SUFFICES ASSUME NEW p \in Party
               PROVE  balance[i][p] + Sold(i, p) = Granted(i, p) + Bought(i, p)
    BY DEF WithIssuer
  <2>1. InTreasury(i, p) = 0
    <3>1. \A m \in Nat : m * (1 - 1) = 0
      OBVIOUS
    <3>2. allocation[i] = NoPolicy => returned[i] = 0 /\ Reserve(i) = 0
      BY <1>1 DEF Economy, Reserve
    <3>3. 0 * (0 - 1) = 0
      OBVIOUS
    <3> QED BY <1>1, <1>6, <3>1, <3>2, <3>3 DEF InTreasury
  <2> QED BY <1>2, <2>1
<1>7. i \notin gone => WithTreasury(i)
  BY <1>1, <1>5
<1>8. i \in gone /\ i \notin unquiet => returned[i] = 1 \/ allocation[i] = NoPolicy
  BY <1>1 DEF Withdrawn, TookBack
<1>9. ASSUME i \in gone PROVE WithIssuer(i) \/ (i \in unquiet /\ WithTreasury(i))
  BY <1>1, <1>5, <1>6, <1>8, <1>9
<1>10. ASSUME ~(i \in gone \cap unquiet), NEW p \in Party PROVE balance[i][p] >= 0
  <2>1. CASE i \notin gone
    BY <2>1 DEF Solvent
  <2>2. CASE i \in gone \ unquiet
    <3>1. Left(i) /\ TablesOK
      BY <2>2 DEF Withdrawn, Tables
    <3>2. Sold(i, p) = 0 /\ Bought(i, p) = 0
      BY <3>1, UnusedUnits DEF Left
    <3>3. balance[i][p] + Sold(i, p) = Granted(i, p) + Bought(i, p)
      BY <1>1, <1>6, <1>8, <2>2 DEF WithIssuer
    <3> QED BY <1>2, <3>2, <3>3
  <2> QED BY <1>10, <2>1, <2>2
<1> QED BY <1>7, <1>9, <1>10

LEMMA WithdrawnTogether == MInv => WithdrawalWhole
<1> SUFFICES ASSUME MInv
             PROVE  /\ \A p \in prelaunch : Terms[p].inst \in gone
                    /\ \A i \in gone :
                         \/ \E s \in sealed : s.inst = i
                         \/ i \in cut
                         \/ \E a \in Agent : /\ job[a] # NoJob
                                             /\ job[a].op \in {"eopp", "receipt", "restore"}
                                             /\ job[a].inst = i
                    /\ \A s \in sealed : /\ s.inst \in gone
                                         /\ \A p \in s.policies : policyStatus[p] # "ACTIVE"
  BY DEF WithdrawalWhole
<1> USE DEF MInv
<1>1. ASSUME NEW i \in gone, AtWork(i)
      PROVE  \E a \in Agent : /\ job[a] # NoJob
                              /\ job[a].op \in {"eopp", "receipt", "restore"}
                              /\ job[a].inst = i
  BY <1>1, NoJobFits DEF AtWork
<1> QED BY <1>1 DEF Whole, Ended, Receipts, Closed

(* However captures, policies and withdrawals of several callers interleave, *)
(* a trade is charged under one policy only, but for policies recorded after *)
(* a trade they already applied to.                                          *)
THEOREM TradesAreChargedOnce == MarketSpec => []OneObligationPerTrade
<1>1. undone \/ MInv => OneObligationPerTrade
  BY ChargesOnce DEF OneObligationPerTrade
<1> QED BY <1>1, MarketInductive, PTL

(* Every balance is what was issued, what settled trades moved and the       *)
(* reserve in the participation database, which is with the treasury before  *)
(* a migration and with the issuer after it, and no balance is negative: but *)
(* for an instrument in use when its migration committed (its reserve may be *)
(* at either place, its treasury in debt), one that a repeated migration     *)
(* took the reserve from twice, and a restoration over others' commits.      *)
THEOREM BothDatabasesAgree == MarketSpec => []BalancesExplained
<1>1. undone \/ MInv => BalancesExplained
  BY ExplainedNow DEF BalancesExplained
<1> QED BY <1>1, MarketInductive, PTL

(* A migration withdraws only what nobody used or will use, with every unit  *)
(* back at its issuer: but for an instrument in use when its migration       *)
(* committed, units that a repeated migration moved once more, and a         *)
(* restoration over others' commits.                                         *)
THEOREM WithdrawnWasUnused == MarketSpec => []WithdrawnUnused
<1>1. undone \/ MInv => WithdrawnUnused
  BY UnusedWhole DEF WithdrawnUnused
<1> QED BY <1>1, MarketInductive, PTL

(* Through errors between the commits and their restorations, the two        *)
(* databases and the receipts tell of a withdrawal together, or a migration  *)
(* is still at work: but for an instrument whose migration's process died    *)
(* after its first commit, and once a restoration wrote over others'         *)
(* commits.                                                                  *)
THEOREM WithdrawalIsWhole == MarketSpec => []WithdrawalWhole
<1>1. undone \/ MInv => WithdrawalWhole
  BY WithdrawnTogether DEF WithdrawalWhole
<1> QED BY <1>1, MarketInductive, PTL
================================================================================
