---------------------------- MODULE Participation ----------------------------
(***************************************************************************)
(* Economic participation                                                   *)
(* (src/src/33_Economic_Participation/economic_participation.py): policies  *)
(* that give a treasury a share of an instrument's trades, the treasury's   *)
(* reserve of units, and the events and obligations captured from settled   *)
(* trades.  Its database stands beside the exchange's, which it reads, and  *)
(* writes when it allocates a reserve: that is one transaction over both.   *)
(*                                                                          *)
(* A call reads in one transaction and writes in another, as in Exchange.   *)
(*                                                                          *)
(* Abstracted: signatures, currencies, verification of a trade's signed     *)
(* source (its orders are constants); treasuries exist from the start and   *)
(* none is ever closed.  Derivative and service revenue, settlement of      *)
(* obligations and reports are not modelled.  The policies of Founding were *)
(* recorded before the behaviour starts, and policies take effect no later  *)
(* than MaxTime, the last moment of the exchange's clock.                   *)
(***************************************************************************)
EXTENDS Exchange

CONSTANTS
  Agent,     \* callers of economic participation
  Policy,    \* signed policies
  Terms,     \* what they say, with the treasury they select
  Founding,  \* the policies recorded before the market opened
  NoPolicy,
  MaxJob     \* bound: calls of agents, but for those that change nothing

BasisPoints == 10000
TermsBody == [inst : Instrument, by : Party, treasury : Party, total : Nat, reserve : Nat,
              primary : 0..BasisPoints, secondary : 0..BasisPoints, version : Nat \ {0}]

ASSUME TermsAssumption ==
  /\ Terms \in [Policy -> TermsBody] /\ NoPolicy \notin Policy
  /\ Founding \subseteq Policy
  /\ \A p, x \in Founding : Terms[p].inst = Terms[x].inst => p = x
  /\ \A p \in Policy : Terms[p].reserve <= Terms[p].total /\ Terms[p].total > 0

VARIABLES
  policyStatus, effective,  \* participation_policies
  withdrawn,    \* participation_policy_withdrawals: created_at_ms, or Never
  allocation,   \* reserve_allocations: the policy whose reserve each instrument gave
  events,       \* economic_events captured from trades; with an amount, an obligation too
  stamps,       \* exchange: trade_id and created_at_ms of each trade
  dealt,        \* the trade ids used
  job, jobs,    \* what each agent has read, and the counter of MaxJob
  retro         \* history: policies recorded after a trade they are in force for

policyTable == <<policyStatus, effective, withdrawn, allocation>>
agents == <<job, jobs>>
participation == <<policyTable, events, stamps, dealt, agents, retro>>

Never == MaxTime + 2
NoJob == [op |-> "none"]  \* an agent outside every method

-----------------------------------------------------------------------------
Start(a, record) ==
  /\ job[a] = NoJob /\ jobs < MaxJob
  /\ job' = [job EXCEPT ![a] = record]
  /\ jobs' = jobs + 1
Become(a, record) == job' = [job EXCEPT ![a] = record] /\ UNCHANGED jobs
Finish(a) == Become(a, NoJob)
(* A call that ends without having changed anything does not count.          *)
Forget(a) == job' = [job EXCEPT ![a] = NoJob] /\ jobs' = jobs - 1
Doing(a, op) == job[a] # NoJob /\ job[a].op = op

(* An error, a lost race or a crash: nothing of the call remains.           *)
GiveUp(a) ==
  /\ job[a] # NoJob /\ job[a].op \in {"define", "withdraw", "allocate", "capture"}
  /\ Forget(a)
  /\ UNCHANGED <<vars, policyTable, events, stamps, dealt, retro>>

-----------------------------------------------------------------------------
(* Policies.                                                                *)

Recorded(i) == {p \in Policy : Terms[p].inst = i /\ policyStatus[p] # "absent"}
LatestVersion(i) ==
  {p \in Recorded(i) : \A x \in Recorded(i) : Terms[x].version <= Terms[p].version}

MayFollow(p, e) ==
  \A x \in LatestVersion(Terms[p].inst) :
    Terms[x].version < Terms[p].version /\ effective[x] < e
ReserveKept(p) ==
  LET held == allocation[Terms[p].inst] IN
  held # NoPolicy => Terms[p].reserve = Terms[held].reserve

DefineCheck(a, p, e) ==
  /\ policyStatus[p] = "absent"
  /\ now <= e /\ MayFollow(p, e) /\ ReserveKept(p)
  /\ Start(a, [op |-> "define", policy |-> p, at |-> e])
  /\ UNCHANGED <<vars, policyTable, events, stamps, dealt, retro>>

(* UNIQUE(instrument_id, version) is all that is checked again.             *)
DefineCommit(a) ==
  /\ Doing(a, "define")
  /\ LET p == job[a].policy
         i == Terms[p].inst IN
     /\ \A x \in Recorded(i) : Terms[x].version # Terms[p].version
     /\ policyStatus' = [x \in Policy |->
          IF x = p THEN "ACTIVE"
          ELSE IF Terms[x].inst = i /\ policyStatus[x] = "ACTIVE" THEN "SUPERSEDED"
          ELSE policyStatus[x]]
     /\ effective' = [effective EXCEPT ![p] = job[a].at]
     /\ retro' = IF \E k \in DOMAIN trades : trades[k].inst = i /\ stamps[k].at >= job[a].at
                 THEN retro \cup {p} ELSE retro
  /\ Finish(a)
  /\ UNCHANGED <<vars, withdrawn, allocation, events, stamps, dealt>>

(* The policy in force at a time, and none if it was withdrawn by then.     *)
Supersedes(p, x) ==
  \/ effective[p] > effective[x]
  \/ effective[p] = effective[x] /\ Terms[p].version > Terms[x].version
InForce(i, time) ==
  LET due == {p \in Recorded(i) : effective[p] <= time} IN
  {p \in due : \A x \in due \ {p} : Supersedes(p, x)}
LatestOfAll(i, time) == LatestVersion(i)   \* mutant: today's policy for a trade of the past
active_policy(i, time) == {p \in InForce(i, time) : withdrawn[p] > time}

WithdrawCheck(a, p) ==
  /\ policyStatus[p] = "ACTIVE" /\ withdrawn[p] = Never
  /\ Start(a, [op |-> "withdraw", policy |-> p, at |-> now])
  /\ UNCHANGED <<vars, policyTable, events, stamps, dealt, retro>>

WithdrawCommit(a) ==
  /\ Doing(a, "withdraw")
  /\ LET p == job[a].policy IN
     /\ policyStatus[p] = "ACTIVE" /\ withdrawn[p] = Never
     /\ withdrawn' = [withdrawn EXCEPT ![p] = job[a].at]
     /\ policyStatus' = [policyStatus EXCEPT ![p] = "WITHDRAWN"]
  /\ Finish(a)
  /\ UNCHANGED <<vars, effective, allocation, events, stamps, dealt, retro>>

-----------------------------------------------------------------------------
(* The reserve: units of the issuer go to its treasury, once for an         *)
(* instrument.  What the issuer has promised to buyers is not looked at,    *)
(* nor, the second time, whether the policy has been withdrawn.             *)

AllocateCheck(a, p) ==
  /\ p \in active_policy(Terms[p].inst, now)
  /\ Start(a, [op |-> "allocate", policy |-> p])
  /\ UNCHANGED <<vars, policyTable, events, stamps, dealt, retro>>

SameOwner(t) == t.treasury = t.by
NotDebited(t) == [balance[t.inst] EXCEPT ![t.treasury] = @ + t.reserve]  \* mutant: the issuer keeps the units
Reserved(t) ==
  IF SameOwner(t) THEN balance[t.inst]
  ELSE [balance[t.inst] EXCEPT ![t.by] = @ - t.reserve, ![t.treasury] = @ + t.reserve]

NotAllocated(i) == allocation[i] = NoPolicy

AllocateCommit(a) ==
  /\ Doing(a, "allocate")
  /\ LET p == job[a].policy
         t == Terms[p] IN
     /\ NotAllocated(t.inst)
     /\ p \in InForce(t.inst, now)
     /\ instStatus[t.inst] = "ACTIVE" /\ Issuer[t.inst] = t.by
     /\ Units[t.inst] = t.total
     /\ balance[t.inst][t.by] >= t.reserve
     /\ balance' = [balance EXCEPT ![t.inst] = Reserved(t)]
     /\ allocation' = [allocation EXCEPT ![t.inst] = p]
  /\ Finish(a)
  /\ UNCHANGED <<market, book, deals, talks, now, calls, policyStatus, effective, withdrawn,
                 events, stamps, dealt, retro>>

-----------------------------------------------------------------------------
(* A settled trade is captured under the policy in force when it was made;  *)
(* the dedupe key is the trade and that policy.                             *)

Share(p, k) ==
  LET t == trades[k]
      bps == IF t.seller = Issuer[t.inst] THEN Terms[p].primary ELSE Terms[p].secondary
  IN (t.qty * t.price * bps) \div BasisPoints

NewEvent(e) == \A n \in DOMAIN events : <<events[n].trade, events[n].policy>> # <<e.trade, e.policy>>

CaptureCheck(a, k) ==
  /\ k \in settled
  /\ \E p \in active_policy(trades[k].inst, stamps[k].at) :
       /\ Terms[p].by = Issuer[trades[k].inst]
       /\ Start(a, [op |-> "capture",
                    event |-> [trade |-> stamps[k].id, policy |-> p, amount |-> Share(p, k)]])
  /\ UNCHANGED <<vars, policyTable, events, stamps, dealt, retro>>

CaptureCommit(a) ==
  /\ Doing(a, "capture")
  /\ NewEvent(job[a].event)
  /\ events' = Append(events, job[a].event)
  /\ Finish(a)
  /\ UNCHANGED <<vars, policyTable, stamps, dealt, retro>>

-----------------------------------------------------------------------------
(* Every new trade of the exchange gets an id and the time.                 *)
StampTrades ==
  IF Len(trades') > Len(trades)
  THEN /\ stamps' = Append(stamps, [id |-> dealt + 1, at |-> now])
       /\ dealt' = dealt + 1
  ELSE UNCHANGED <<stamps, dealt>>

ParticipationInit ==
  /\ policyStatus = [p \in Policy |-> IF p \in Founding THEN "ACTIVE" ELSE "absent"]
  /\ effective = [p \in Policy |-> 0]
  /\ withdrawn = [p \in Policy |-> Never]
  /\ allocation = [i \in Instrument |-> NoPolicy]
  /\ events = << >> /\ stamps = << >> /\ dealt = 0
  /\ job = [a \in Agent |-> NoJob] /\ jobs = 0 /\ retro = {}

AgentStep(a) ==
  \/ \E p \in Policy, e \in 0..MaxTime : DefineCheck(a, p, e)
  \/ \E p \in Policy : WithdrawCheck(a, p) \/ AllocateCheck(a, p)
  \/ \E k \in DOMAIN trades : CaptureCheck(a, k)
  \/ DefineCommit(a) \/ WithdrawCommit(a) \/ AllocateCommit(a) \/ CaptureCommit(a)
  \/ GiveUp(a)
=============================================================================
