------------------------- MODULE PrelaunchWithdrawal -------------------------
(***************************************************************************)
(* The exchange, the participation policies beside it, and the migration    *)
(* that withdraws unused economics from both databases                      *)
(* (src/src/45_ENTITY_Market/prelaunch_withdrawal.py).                      *)
(*                                                                          *)
(* A migration audits the two databases without a transaction, copies their *)
(* files, then commits to one and to the other.  When it raises it copies   *)
(* the files back over whatever is there; when it dies it does not.         *)
(*                                                                          *)
(* Migrations are an operator's (src/tools/retire_prelaunch_economic_issuance.py) *)
(* and run one at a time.                                                   *)
(*                                                                          *)
(* Abstracted: an object is its instrument; signatures and the audit's      *)
(* hash; dco_ids is empty, so the factory's database is left alone; the     *)
(* audit reads each of the two databases at one moment, and a file is       *)
(* copied at one moment.                                                    *)
(*                                                                          *)
(* The behaviours start with the market open, and end when a restoration    *)
(* has written over what others committed.                                  *)
(***************************************************************************)
EXTENDS Participation

VARIABLES
  eepCopy, eoppCopy,  \* the running migration's copies of the two databases
  prelaunch,  \* participation_policy_withdrawals: those made by a migration
  returned,   \* history of the exchange's rows: commits that took a reserve back
  gone,       \* history of the exchange's rows: instruments withdrawn by a migration
  sealed,     \* the migrations whose receipt is written
  cut,        \* history: instruments whose migration ended without its receipt
  unquiet,    \* history: instruments in use when their withdrawal committed
  undone      \* history: a restoration wrote over commits of others

rows == <<prelaunch, returned, gone>>
history == <<sealed, cut, unquiet, undone>>
allVars == <<vars, participation, eepCopy, eoppCopy, rows, history>>

-----------------------------------------------------------------------------
(* The two databases as values.                                             *)

Eep == [venueStatus |-> venueStatus, instStatus |-> instStatus, disclosed |-> disclosed,
        listed |-> listed, balance |-> balance,
        orderStatus |-> orderStatus, remaining |-> remaining, received |-> received,
        trades |-> trades, settled |-> settled, stamps |-> stamps, rfqStatus |-> rfqStatus,
        quoteStatus |-> quoteStatus, returned |-> returned, gone |-> gone]
SetEep(f) ==
  /\ venueStatus' = f.venueStatus /\ instStatus' = f.instStatus /\ disclosed' = f.disclosed
  /\ listed' = f.listed /\ balance' = f.balance
  /\ orderStatus' = f.orderStatus /\ remaining' = f.remaining /\ received' = f.received
  /\ trades' = f.trades /\ settled' = f.settled /\ stamps' = f.stamps
  /\ rfqStatus' = f.rfqStatus /\ quoteStatus' = f.quoteStatus
  /\ returned' = f.returned /\ gone' = f.gone
KeepEep == UNCHANGED <<market, balance, book, deals, stamps, talks, returned, gone>>

Eopp == [policyStatus |-> policyStatus, effective |-> effective, withdrawn |-> withdrawn,
         allocation |-> allocation, events |-> events, prelaunch |-> prelaunch]
SetEopp(f) ==
  /\ policyStatus' = f.policyStatus /\ effective' = f.effective /\ withdrawn' = f.withdrawn
  /\ allocation' = f.allocation /\ events' = f.events /\ prelaunch' = f.prelaunch
KeepEopp == UNCHANGED <<policyTable, events, prelaunch>>

NoCopy == [of |-> "nothing"]

-----------------------------------------------------------------------------
(* The audit: first the exchange's tables, then the policies'.              *)

OnlyOrders(i) == {o \in Order : Signed[o].inst = i /\ orderStatus[o] # "absent"} # {}  \* mutant: trades are forgotten
activity(i) ==
  \/ \E o \in Order : Signed[o].inst = i /\ orderStatus[o] # "absent"
  \/ \E k \in DOMAIN trades : trades[k].inst = i
economic_events(i) == \E n \in DOMAIN events : Terms[events[n].policy].inst = i

(* What the audit does not read together, for the history unquiet.          *)
Use(i) == <<{o \in Order : Signed[o].inst = i /\ orderStatus[o] # "absent"},
            {k \in DOMAIN trades : trades[k].inst = i}, economic_events(i), allocation[i]>>

Migrating == {"audit", "copy", "copy eopp", "eep", "eopp", "receipt", "restore", "restore eopp"}

AuditEep(a, i) ==
  /\ \A b \in Agent : job[b] # NoJob => job[b].op \notin Migrating
  /\ instStatus[i] # "absent"
  /\ Start(a, [op |-> "audit", inst |-> i, active |-> activity(i), held |-> balance[i],
               use |-> Use(i)])
  /\ UNCHANGED <<now, calls, dealt, retro, eepCopy, eoppCopy, history>>
  /\ KeepEep /\ KeepEopp

(* A holder other than the issuer may only be its treasury, with exactly    *)
(* the reserve allocated to it.                                             *)
Explained(i, p, units) ==
  /\ allocation[i] # NoPolicy
  /\ LET t == Terms[allocation[i]] IN
     t.by = Issuer[i] /\ t.treasury = p /\ t.reserve = units
external(i, held) == {p \in Party \ {Issuer[i]} : held[p] > 0 /\ ~Explained(i, p, held[p])}

AuditEopp(a) ==
  /\ Doing(a, "audit")
  /\ LET j == job[a]
         i == j.inst IN
     IF ~j.active /\ ~economic_events(i) /\ external(i, j.held) = {}
     THEN Become(a, [op |-> "copy", inst |-> i, reserve |-> allocation[i], at |-> now,
                     use |-> j.use])
     ELSE Forget(a)
  /\ UNCHANGED <<now, calls, dealt, retro, eepCopy, eoppCopy, history>>
  /\ KeepEep /\ KeepEopp

-----------------------------------------------------------------------------
(* The copies and the two commits.                                          *)

Proceed(a, op) == Become(a, [job[a] EXCEPT !.op = op])

CopyEep(a) ==
  /\ Doing(a, "copy")
  /\ eepCopy' = Eep
  /\ Proceed(a, "copy eopp")
  /\ UNCHANGED <<now, calls, dealt, retro, eoppCopy, history>>
  /\ KeepEep /\ KeepEopp

CopyEopp(a) ==
  /\ Doing(a, "copy eopp")
  /\ eoppCopy' = Eopp
  /\ Proceed(a, "eep")
  /\ UNCHANGED <<now, calls, dealt, retro, eepCopy, history>>
  /\ KeepEep /\ KeepEopp

(* The units moved are those of the reserve the audit saw.                  *)
TakenBack(i, b, p) ==
  IF p = NoPolicy \/ Terms[p].treasury = Issuer[i] THEN b
  ELSE [b EXCEPT ![Terms[p].treasury] = @ - Terms[p].reserve, ![Issuer[i]] = @ + Terms[p].reserve]
EepWithdrawn(f, i, p) ==
  [f EXCEPT !.instStatus[i] = IF @ = "ACTIVE" THEN "WITHDRAWN" ELSE @,
            !.listed = {l \in @ : l[2] # i},
            !.balance[i] = TakenBack(i, @, p),
            !.returned[i] = IF p = NoPolicy THEN @ ELSE @ + 1,
            !.gone = @ \cup {i}]

(* In use at this moment, or differently used than when the audit looked.   *)
Busy(a, i) ==
  \/ Use(i) # job[a].use
  \/ \E q \in Proc : pc[q] = "list" /\ arg[q][2] = i
  \/ \E q \in Proc : pc[q] = "place" /\ Signed[arg[q]].inst = i
  \/ \E q \in Proc : pc[q] = "rfq" /\ Asked[arg[q]].inst = i
  \/ \E r \in Rfq : Asked[r].inst = i /\ rfqStatus[r] = "OPEN"

WithdrawEep(a) ==
  /\ Doing(a, "eep")
  /\ SetEep(EepWithdrawn(Eep, job[a].inst, job[a].reserve))
  /\ Proceed(a, "eopp")
  /\ unquiet' = IF Busy(a, job[a].inst) THEN unquiet \cup {job[a].inst} ELSE unquiet
  /\ UNCHANGED <<now, calls, dealt, retro, eepCopy, eoppCopy, sealed, cut, undone>>
  /\ KeepEopp

ActivePolicies(i) == {p \in Policy : Terms[p].inst = i /\ policyStatus[p] = "ACTIVE"}
EoppWithdrawn(f, i, time) ==
  [f EXCEPT !.policyStatus = [p \in Policy |-> IF p \in ActivePolicies(i) THEN "WITHDRAWN" ELSE @[p]],
            !.withdrawn = [p \in Policy |-> IF p \in ActivePolicies(i) /\ @[p] = Never THEN time ELSE @[p]],
            !.prelaunch = @ \cup {p \in ActivePolicies(i) : withdrawn[p] = Never}]

WithdrawEopp(a) ==
  /\ Doing(a, "eopp")
  /\ SetEopp(EoppWithdrawn(Eopp, job[a].inst, job[a].at))
  /\ Become(a, [op |-> "receipt", inst |-> job[a].inst, policies |-> Recorded(job[a].inst)])
  /\ eepCopy' = NoCopy /\ eoppCopy' = NoCopy
  /\ UNCHANGED <<now, calls, dealt, retro, history>>
  /\ KeepEep

WriteReceipt(a) ==
  /\ Doing(a, "receipt")
  /\ sealed' = sealed \cup {[inst |-> job[a].inst, policies |-> job[a].policies]}
  /\ Finish(a)
  /\ UNCHANGED <<now, calls, dealt, retro, eepCopy, eoppCopy, cut, unquiet, undone>>
  /\ KeepEep /\ KeepEopp

-----------------------------------------------------------------------------
(* A commit that raises puts the copies back, one file after the other.     *)

RaiseError(a) ==
  /\ Doing(a, "eep") \/ Doing(a, "eopp")
  /\ Become(a, [op |-> "restore", inst |-> job[a].inst, reserve |-> job[a].reserve,
                wrote |-> job[a].op = "eopp"])
  /\ UNCHANGED <<now, calls, dealt, retro, eepCopy, eoppCopy, history>>
  /\ KeepEep /\ KeepEopp

NothingRestored(f) == Eep    \* mutant: the exchange's file is not put back
Restored(f) == f

RestoreEep(a) ==
  /\ Doing(a, "restore")
  /\ SetEep(Restored(eepCopy))
  /\ LET mine == IF job[a].wrote THEN EepWithdrawn(eepCopy, job[a].inst, job[a].reserve)
                 ELSE eepCopy IN
     undone' = (undone \/ Eep # mine)
  /\ Proceed(a, "restore eopp")
  /\ UNCHANGED <<now, calls, dealt, retro, eepCopy, eoppCopy, sealed, cut, unquiet>>
  /\ KeepEopp

RestoreEopp(a) ==
  /\ Doing(a, "restore eopp")
  /\ SetEopp(eoppCopy)
  /\ undone' = (undone \/ Eopp # eoppCopy)
  /\ Forget(a)
  /\ eepCopy' = NoCopy /\ eoppCopy' = NoCopy
  /\ UNCHANGED <<now, calls, dealt, retro, sealed, cut, unquiet>>
  /\ KeepEep

(* The process of a migration dies; nothing at the next start looks for it. *)
Die(a) ==
  /\ job[a] # NoJob /\ job[a].op \in Migrating
  /\ IF job[a].op \in {"eopp", "receipt", "restore"}
     THEN cut' = cut \cup {job[a].inst} /\ Finish(a)
     ELSE UNCHANGED cut /\ Forget(a)
  /\ eepCopy' = NoCopy /\ eoppCopy' = NoCopy
  /\ UNCHANGED <<now, calls, dealt, retro, sealed, unquiet, undone>>
  /\ KeepEep /\ KeepEopp

-----------------------------------------------------------------------------
(* The market is open: every instrument is issued, disclosed and listed.     *)
OpenMarket ==
  /\ venueStatus = [v \in Venue |-> "ACTIVE"] /\ instStatus = [i \in Instrument |-> "ACTIVE"]
  /\ disclosed = Venue \X Instrument /\ listed = Venue \X Instrument
  /\ balance = [i \in Instrument |-> [p \in Party |-> IF p = Issuer[i] THEN Units[i] ELSE 0]]
  /\ orderStatus = [o \in Order |-> "absent"]
  /\ remaining = [o \in Order |-> 0] /\ received = [o \in Order |-> 0]
  /\ trades = << >> /\ settled = {}
  /\ rfqStatus = [r \in Rfq |-> "absent"] /\ quoteStatus = [x \in Quote |-> "absent"]
  /\ now = 0 /\ pc = [q \in Proc |-> "idle"]
  /\ arg = [q \in Proc |-> NoCall] /\ seen = [q \in Proc |-> 0]

MarketInit ==
  /\ OpenMarket /\ ParticipationInit
  /\ eepCopy = NoCopy /\ eoppCopy = NoCopy
  /\ prelaunch = {} /\ returned = [i \in Instrument |-> 0] /\ gone = {}
  /\ sealed = {} /\ cut = {} /\ unquiet = {} /\ undone = FALSE

ExchangeStep ==
  /\ Next
  /\ StampTrades
  /\ UNCHANGED <<policyTable, events, agents, retro, eepCopy, eoppCopy, rows, history>>

ParticipationStep ==
  /\ \E a \in Agent : AgentStep(a)
  /\ UNCHANGED <<eepCopy, eoppCopy, rows, history>>

MigrationStep ==
  \E a \in Agent :
    \/ \E i \in Instrument : AuditEep(a, i)
    \/ AuditEopp(a) \/ CopyEep(a) \/ CopyEopp(a) \/ WithdrawEep(a) \/ WithdrawEopp(a)
    \/ WriteReceipt(a) \/ RaiseError(a) \/ RestoreEep(a) \/ RestoreEopp(a) \/ Die(a)

(* Nothing is claimed once a restoration has undone what others committed,   *)
(* so the behaviours end there.                                             *)
MarketNext == ~undone /\ (ExchangeStep \/ ParticipationStep \/ MigrationStep)
MarketSpec == MarketInit /\ [][MarketNext]_allVars

-----------------------------------------------------------------------------
(* Properties.                                                              *)

(* A trade is charged for at most one policy, however often and by however  *)
(* many callers it is captured and whatever policies follow, unless a       *)
(* policy was recorded after a trade it already applied to.                 *)
OneObligationPerTrade ==
  undone \/ \A m, n \in DOMAIN events :
    m # n /\ events[m].trade = events[n].trade =>
      \E e \in {events[m], events[n]} : e.policy \in retro

(* A balance is what was issued, what settled trades moved, and the reserve *)
(* of the one policy in reserve_allocations: with the treasury while the    *)
(* instrument is not withdrawn by a migration, back with its issuer         *)
(* afterwards; and no balance is negative.                                  *)
(* Excepted: an instrument in use when its migration committed, whose       *)
(* reserve may have been allocated since the audit and stay where it is, or *)
(* have been sold on and leave the treasury owing it; and one that a        *)
(* repeated migration took the reserve back from twice.                     *)
Reserve(i) == IF allocation[i] = NoPolicy \/ Terms[allocation[i]].treasury = Issuer[i] THEN 0
              ELSE Terms[allocation[i]].reserve
ReserveFrom(i, p) == IF p = Issuer[i] THEN Reserve(i) ELSE 0
ReserveAt(i, p) ==
  IF allocation[i] # NoPolicy /\ p = Terms[allocation[i]].treasury THEN Reserve(i) ELSE 0
WithIssuer(i) == \A p \in Party : balance[i][p] + Sold(i, p) = Granted(i, p) + Bought(i, p)
WithTreasury(i) ==
  \A p \in Party :
    balance[i][p] + Sold(i, p) + ReserveFrom(i, p) = Granted(i, p) + Bought(i, p) + ReserveAt(i, p)
BalancesExplained ==
  undone \/ \A i \in Instrument : returned[i] <= 1 =>
    /\ i \notin gone => WithTreasury(i)
    /\ i \in gone => WithIssuer(i) \/ (i \in unquiet /\ WithTreasury(i))
    /\ i \in gone \cap unquiet \/ \A p \in Party : balance[i][p] >= 0

(* An instrument withdrawn as unused was unused and stays so, with every    *)
(* unit back with its issuer: no order, trade or event on it, before or     *)
(* after, unless it was in use between the audit and the commit, or its     *)
(* requests for quotes were open, which the audit does not look at.  Its    *)
(* units are where they were issued unless a repeated migration moved them. *)
WithdrawnUnused ==
  undone \/ \A i \in gone \ unquiet :
    /\ \A o \in Order : Signed[o].inst = i => orderStatus[o] = "absent"
    /\ \A k \in DOMAIN trades : trades[k].inst # i
    /\ \A n \in DOMAIN events : Terms[events[n].policy].inst # i
    /\ returned[i] <= 1 => \A p \in Party : balance[i][p] = Granted(i, p)

(* The two databases are withdrawn together, through errors between their   *)
(* commits: policies only after their instrument; behind a receipt, an      *)
(* instrument and all its policies; an instrument without a receipt only    *)
(* while its migration runs.  Excepted: an instrument whose migration's     *)
(* process died after the first commit, which nothing recovers.             *)
WithdrawalWhole ==
  undone \/
    /\ \A p \in prelaunch : Terms[p].inst \in gone
    /\ \A i \in gone :
         \/ \E s \in sealed : s.inst = i
         \/ i \in cut
         \/ \E a \in Agent : /\ job[a] # NoJob /\ job[a].op \in {"eopp", "receipt", "restore"}
                             /\ job[a].inst = i
    /\ \A s \in sealed : /\ s.inst \in gone
                         /\ \A p \in s.policies : policyStatus[p] # "ACTIVE"
=============================================================================
