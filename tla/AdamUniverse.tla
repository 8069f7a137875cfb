---------------------------- MODULE AdamUniverse ----------------------------
(***************************************************************************)
(* The ADAM universe behind ENTITY's runtime: an event log, its replay and  *)
(* its checkpoint (memory_bounded_recovery.py over adam_v41/log.py and      *)
(* universe.py), and the calls of EntityFullAdamRuntime that commit to it.  *)
(*                                                                          *)
(* Recording one authorized transition commits up to four times: the entity *)
(* if it is new, the exact evidence, the claim with its alignment proof,    *)
(* and the reaction that makes the event the entity's latest.  A commit is  *)
(* planned from what the thread reads without the lock; under the lock it   *)
(* checks entity versions, appends one frame to the log, then applies it.   *)
(* A compaction holds the lock and writes a checkpoint, its receipt, and an *)
(* empty log.  Appends fail half-way, compactions fail between two steps,   *)
(* and the process dies anywhere; opening reads the checkpoint and replays. *)
(*                                                                          *)
(* Abstracted: an event is its digest; bytes, signatures, chunks, manifest;  *)
(* a chain hash is the sequence of commits it covers, a checkpoint's digest *)
(* the root it was written at.  The process dies; the disk does not lose    *)
(* what was written.                                                        *)
(***************************************************************************)
EXTENDS Naturals, Sequences, FiniteSets, SequencesExt

CONSTANTS
  Thread,        \* threads that share one EntityFullAdamRuntime
  Entity,        \* entities of type entity_record
  Event,         \* authorized events
  Subject,       \* the entity each event is about
  Predicate,     \* the facts a reaction sets: last_event_id, last_event_type, ...
  Value,         \* what they may be
  Shows,         \* the value of each predicate for each event
  Junk,          \* what an append cut short leaves at the end of the log
  None,          \* no checkpoint, no receipt, no event
  MaxCall,       \* bound: calls of record_authorized_transition
  MaxCompact,    \* bound: calls of compact_authority
  MaxFault       \* bound: failed appends, failed compactions and crashes

ASSUME EventAssumption ==
  Subject \in [Event -> Entity] /\ Shows \in [Event -> [Predicate -> Value]]
ASSUME BoundsAssumption == 
  MaxCall \in Nat /\ MaxCompact \in Nat /\ MaxFault \in Nat

VARIABLES
  phase,       \* "open", "closed", or "blocked": opening raised an error
  state,       \* memory: atoms, bonds, entity_versions and the log's seq
  root,        \* memory: log.root_hash, the commits it covers
  log,         \* disk: the frames of universe.a41log
  checkpoint,  \* disk: checkpoint.a41
  receipt,     \* disk: the root signed in checkpoint.a41.receipt.json
  compacting,  \* "no", or the last step a compaction made under the lock
  pc, event,   \* where each thread is in its call, and the event it records
  plan,        \* the operations the thread is about to commit
  calls, compactions, faults,  \* counters of the bounds
  acked,       \* history: commits that returned, as <<position, commit>>
  leftover,    \* history: a failed append of this process left bytes in the log
  behind,      \* history: commits that returned, appended behind such bytes
  harm,        \* history: what has damaged the disk since the last compaction
  overtaken,   \* history: threads whose reading a commit on the entity overlapped
  mixed        \* history: entities that such a thread has since committed on

memory  == <<phase, state, root>>
disk    == <<log, checkpoint, receipt>>
threads == <<pc, event, plan>>
bounds  == <<calls, compactions, faults>>
history == <<acked, leftover, behind, harm, overtaken, mixed>>
vars == <<memory, disk, compacting, threads, bounds, history>>

-----------------------------------------------------------------------------
(* Commits and the state they build.                                        *)

(* A bond's identifier is the digest of its source, predicate and target.    *)
factsOf(e) == {<<Subject[e], p, Shows[e][p]>> : p \in Predicate}
Fact == UNION {factsOf(e) : e \in Event}

Op == {"genesis", "ingest", "claim", "react"}
Commit == [op : Op, event : Event, revoked : SUBSET Fact,
           previous : Nat, expected : Nat]
NoCommit == [op |-> "ingest", event |-> None, revoked |-> {},
             previous |-> 0, expected |-> 0]

NoBond == [created |-> 0, revoked |-> 0]
EmptyState == [seq |-> 0, atoms |-> {}, bonds |-> [f \in Fact |-> NoBond],
               version |-> [x \in Entity |-> 0]]

entityAtom(x) == <<"entity", x>>
exactObject(e) == <<"exact_object", e>>
claimAtom(e) == <<"semantic_claim", e>>

About(c) == Subject[c.event]
bumpsVersion(c) == c.op \in {"genesis", "react"}

(* active_bonds at a sequence number: the facts an entity then shows.       *)
active(bond, n) ==
  /\ bond.created # 0 /\ bond.created <= n
  /\ bond.revoked = 0 \/ bond.revoked > n
active_bonds(s, x, n) == {f \in Fact : f[1] = x /\ active(s.bonds[f], n)}

RevokedTooEarly(s, c, n) ==   \* mutant: the revocation takes effect one commit early
  [f \in Fact |->
     IF f \in factsOf(c.event) THEN [created |-> n, revoked |-> 0]
     ELSE IF f \in c.revoked THEN [s.bonds[f] EXCEPT !.revoked = n - 1]
     ELSE s.bonds[f]]

(* put_bond overwrites a bond of the same content, even a revoked one.      *)
appliedBonds(s, c, n) ==
  [f \in Fact |->
     IF f \in factsOf(c.event) THEN [created |-> n, revoked |-> 0]
     ELSE IF f \in c.revoked /\ s.bonds[f].revoked = 0
          THEN [s.bonds[f] EXCEPT !.revoked = n]
          ELSE s.bonds[f]]

(* bump_entity_version comes last: when it raises, what precedes it stays.  *)
applyRaises(s, c) == bumpsVersion(c) /\ s.version[About(c)] # c.previous

applyCore(s, c) ==
  [seq |-> s.seq + 1,
   atoms |-> s.atoms \cup CASE c.op = "genesis" -> {entityAtom(About(c))}
                            [] c.op = "ingest"  -> {exactObject(c.event)}
                            [] c.op = "claim"   -> {claimAtom(c.event)}
                            [] c.op = "react"   -> {},
   bonds |-> IF c.op = "react" THEN appliedBonds(s, c, s.seq + 1) ELSE s.bonds,
   version |-> IF bumpsVersion(c) /\ ~applyRaises(s, c)
               THEN [s.version EXCEPT ![About(c)] = @ + 1] ELSE s.version]

Frame(c) == [prev |-> root, commit |-> c]

-----------------------------------------------------------------------------
(* What opening the universe reads from the disk.                           *)

CheckpointForgotten ==        \* mutant: the new log starts at base_seq 0
  IF checkpoint = None THEN [state |-> EmptyState, root |-> <<>>]
  ELSE [state |-> checkpoint.state, root |-> <<>>]
base == IF checkpoint = None THEN [state |-> EmptyState, root |-> <<>>]
        ELSE checkpoint

(* _verified_receipt: a checkpoint is accepted with the receipt of its bytes.*)
receiptFits == checkpoint = None \/ receipt = checkpoint.root

junkAt == {i \in DOMAIN log : log[i] = Junk}
frames == IF junkAt = {} THEN log ELSE SubSeq(log, 1, Min(junkAt) - 1)
junkInside == Len(log) > Len(frames) + 1

(* One round of recover's loop: the frame must chain, then it is applied.   *)
replayFrame(acc, f) ==
  IF acc.ok /\ f.prev = acc.root /\ ~applyRaises(acc.state, f.commit)
  THEN [ok |-> TRUE, state |-> applyCore(acc.state, f.commit),
        root |-> Append(acc.root, f.commit)]
  ELSE [acc EXCEPT !.ok = FALSE]

recover ==
  FoldLeft(replayFrame,
           [ok |-> receiptFits, state |-> base.state, root |-> base.root],
           frames)

held == {<<i, root[i]>> : i \in DOMAIN root}

Init ==
  /\ phase = "open" /\ state = EmptyState /\ root = <<>>
  /\ log = <<>> /\ checkpoint = None /\ receipt = None
  /\ compacting = "no"
  /\ pc = [t \in Thread |-> "idle"]
  /\ event = [t \in Thread |-> None]
  /\ plan = [t \in Thread |-> NoCommit]
  /\ calls = 0 /\ compactions = 0 /\ faults = 0
  /\ acked = {} /\ leftover = FALSE /\ behind = {} /\ harm = {}
  /\ overtaken = {} /\ mixed = {}

-----------------------------------------------------------------------------
(* record_authorized_transition: planning, without the lock.                *)

(* The call is over, whether it returned or raised.                         *)
endCall(t) ==
  /\ pc' = [pc EXCEPT ![t] = "idle"]
  /\ event' = [event EXCEPT ![t] = None]
  /\ plan' = [plan EXCEPT ![t] = NoCommit]
  /\ overtaken' = overtaken \ {t}

planCommit(t, op) ==
  /\ plan' = [plan EXCEPT ![t] = [NoCommit EXCEPT !.op = op, !.event = event[t]]]
  /\ pc' = [pc EXCEPT ![t] = "commit"]

goOn(t, stage) ==
  /\ pc' = [pc EXCEPT ![t] = stage]
  /\ UNCHANGED plan

Record(t, e) ==
  /\ phase = "open" /\ pc[t] = "idle" /\ calls < MaxCall
  /\ calls' = calls + 1
  /\ event' = [event EXCEPT ![t] = e]
  /\ goOn(t, "register")
  /\ UNCHANGED <<memory, disk, compacting, compactions, faults, history>>

(* Operations on what the universe already holds are left out of a commit,  *)
(* and a commit without operations returns at once.                         *)
PlanRegister(t) ==
  /\ pc[t] = "register"
  /\ IF entityAtom(Subject[event[t]]) \in state.atoms
     THEN goOn(t, "ingest") ELSE planCommit(t, "genesis")
  /\ UNCHANGED <<memory, disk, compacting, event, bounds, history>>

PlanIngest(t) ==
  /\ pc[t] = "ingest"
  /\ IF exactObject(event[t]) \in state.atoms
     THEN goOn(t, "claim") ELSE planCommit(t, "ingest")
  /\ UNCHANGED <<memory, disk, compacting, event, bounds, history>>

PlanClaim(t) ==
  /\ pc[t] = "claim"
  /\ exactObject(event[t]) \in state.atoms
  /\ IF claimAtom(event[t]) \in state.atoms
     THEN goOn(t, "react") ELSE planCommit(t, "claim")
  /\ UNCHANGED <<memory, disk, compacting, event, bounds, history>>

(* _project_and_plan reads the bonds to revoke, then the version to bump;   *)
(* apply reads the version to expect once more.                             *)
ReadBonds(t) ==
  /\ pc[t] = "react"
  /\ plan' = [plan EXCEPT ![t] =
       [NoCommit EXCEPT !.op = "react", !.event = event[t],
          !.revoked = active_bonds(state, Subject[event[t]], state.seq)]]
  /\ pc' = [pc EXCEPT ![t] = "previous"]
  /\ UNCHANGED <<memory, disk, compacting, event, bounds, history>>

ReadPrevious(t) ==
  /\ pc[t] = "previous"
  /\ plan' = [plan EXCEPT ![t].previous = state.version[Subject[event[t]]]]
  /\ pc' = [pc EXCEPT ![t] = "expected"]
  /\ UNCHANGED <<memory, disk, compacting, event, bounds, history>>

ReadExpected(t) ==
  /\ pc[t] = "expected"
  /\ plan' = [plan EXCEPT ![t].expected = state.version[Subject[event[t]]]]
  /\ pc' = [pc EXCEPT ![t] = "commit"]
  /\ UNCHANGED <<memory, disk, compacting, event, bounds, history>>

-----------------------------------------------------------------------------
(* AtomicUniverse.commit, under the lock.                                   *)

atCommit(t) == phase = "open" /\ compacting = "no" /\ pc[t] = "commit"

NoVersionCheck(t) == TRUE      \* mutant: commits without expected_versions
versionsMatch(t) ==
  bumpsVersion(plan[t]) => state.version[About(plan[t])] = plan[t].expected

Conflict(t) ==
  /\ atCommit(t) /\ ~versionsMatch(t)
  /\ endCall(t)
  /\ UNCHANGED <<memory, disk, compacting, bounds,
                 acked, leftover, behind, harm, mixed>>

EvidenceLast(op) ==            \* mutant: the reaction does not wait for its claim
  CASE op = "genesis" -> "react" [] op = "ingest" -> "claim"
    [] op = "claim" -> "idle" [] op = "react" -> "ingest"
nextStage(op) == CASE op = "genesis" -> "ingest"
                   [] op = "ingest"  -> "claim"
                   [] op = "claim"   -> "react"
                   [] op = "react"   -> "idle"

(* The threads that are between the reads of a plan on the same entity.     *)
readersOf(c) ==
  {u \in Thread : /\ bumpsVersion(c) /\ pc[u] \in {"previous", "expected"}
                  /\ Subject[event[u]] = About(c)}

mixedBy(t) == IF t \in overtaken THEN {About(plan[t])} ELSE {}

CommitPlan(t) ==
  LET c == plan[t]
      entry == <<Len(root) + 1, c>>
  IN /\ atCommit(t) /\ versionsMatch(t)
     /\ log' = Append(log, Frame(c))
     /\ root' = Append(root, c)
     /\ state' = applyCore(state, c)
     /\ acked' = IF applyRaises(state, c) THEN acked ELSE acked \cup {entry}
     /\ behind' = IF leftover THEN behind \cup {entry} ELSE behind
     /\ harm' = IF leftover THEN harm \cup {"append"} ELSE harm
     /\ mixed' = mixed \cup mixedBy(t)
     /\ IF applyRaises(state, c) \/ nextStage(c.op) = "idle"
        THEN pc' = [pc EXCEPT ![t] = "idle"] /\ event' = [event EXCEPT ![t] = None]
        ELSE pc' = [pc EXCEPT ![t] = nextStage(c.op)] /\ UNCHANGED event
     /\ plan' = [plan EXCEPT ![t] = NoCommit]
     /\ overtaken' = (overtaken \cup readersOf(c)) \ {t}
     /\ UNCHANGED <<phase, checkpoint, receipt, compacting, bounds, leftover>>

(* What a write and its fsync may have put on the disk before they stopped. *)
partOf(t) == {<<>>, <<Junk>>, <<Frame(plan[t])>>}

leave(part) ==
  /\ log' = log \o part
  /\ harm' = IF part # <<>> /\ leftover THEN harm \cup {"append"} ELSE harm
  /\ leftover' = (leftover \/ part # <<>>)

(* The disk is full, or the fsync fails: the process lives on.              *)
FailAppend(t) ==
  /\ atCommit(t) /\ versionsMatch(t) /\ faults < MaxFault
  /\ faults' = faults + 1
  /\ \E part \in partOf(t) : leave(part)
  /\ mixed' = mixed \cup mixedBy(t)
  /\ endCall(t)
  /\ UNCHANGED <<memory, checkpoint, receipt, compacting, calls, compactions,
                 acked, behind>>

-----------------------------------------------------------------------------
(* compact_authority, under the lock.                                       *)

BeginCompact ==
  /\ phase = "open" /\ compacting = "no" /\ compactions < MaxCompact
  /\ compactions' = compactions + 1
  /\ compacting' = "written"
  /\ UNCHANGED <<memory, disk, threads, calls, faults, history>>

ReplaceCheckpoint ==
  /\ compacting = "written"
  /\ checkpoint' = [state |-> state, root |-> root]
  /\ compacting' = "checkpoint"
  /\ UNCHANGED <<memory, log, receipt, threads, bounds, history>>

ReplaceReceipt ==
  /\ compacting = "checkpoint"
  /\ receipt' = root
  /\ compacting' = "receipt"
  /\ UNCHANGED <<memory, log, checkpoint, threads, bounds, history>>

LogKept ==                     \* mutant: the old log is not emptied
  /\ compacting = "receipt"
  /\ compacting' = "no"
  /\ behind' = behind \ held /\ harm' = {} /\ leftover' = FALSE
  /\ UNCHANGED <<memory, disk, threads, bounds, acked, overtaken, mixed>>

TruncateLog ==
  /\ compacting = "receipt"
  /\ log' = <<>>
  /\ compacting' = "no"
  /\ behind' = behind \ held /\ harm' = {} /\ leftover' = FALSE
  /\ UNCHANGED <<memory, checkpoint, receipt, threads, bounds,
                 acked, overtaken, mixed>>

halfCompacted == compacting \in {"checkpoint", "receipt"}

FailCompact ==
  /\ compacting # "no" /\ faults < MaxFault
  /\ faults' = faults + 1
  /\ compacting' = "no"
  /\ harm' = IF halfCompacted THEN harm \cup {"compact"} ELSE harm
  /\ UNCHANGED <<memory, disk, threads, calls, compactions, acked, leftover, behind,
                 overtaken, mixed>>

-----------------------------------------------------------------------------
(* The process dies, and the next one opens the universe.                   *)

Crash ==
  /\ phase = "open" /\ faults < MaxFault
  /\ faults' = faults + 1
  /\ phase' = "closed"
  /\ \/ leave(<<>>) /\ ~halfCompacted /\ UNCHANGED mixed
     \/ \E t \in Thread : /\ atCommit(t) /\ versionsMatch(t)
                          /\ \E part \in partOf(t) : leave(part)
                          /\ mixed' = mixed \cup mixedBy(t)
     \/ /\ halfCompacted
        /\ harm' = harm \cup {"compact"}
        /\ UNCHANGED <<log, leftover, mixed>>
  /\ compacting' = "no"
  /\ state' = EmptyState /\ root' = <<>>
  /\ pc' = [t \in Thread |-> "idle"]
  /\ event' = [t \in Thread |-> None]
  /\ plan' = [t \in Thread |-> NoCommit]
  /\ overtaken' = {}
  /\ UNCHANGED <<checkpoint, receipt, calls, compactions, acked, behind>>

TornTailKept ==                \* mutant: what a torn append left is not truncated
  /\ phase = "closed" /\ recover.ok
  /\ phase' = "open"
  /\ state' = recover.state /\ root' = recover.root
  /\ leftover' = FALSE
  /\ UNCHANGED <<disk, compacting, threads, bounds,
                 acked, behind, harm, overtaken, mixed>>

(* A torn tail is cut off.  Junk with frames after it is taken for a torn   *)
(* tail, or for a corrupt frame, by what its first four bytes say.          *)
Open ==
  /\ phase = "closed" /\ recover.ok
  /\ phase' = "open"
  /\ state' = recover.state /\ root' = recover.root
  /\ log' = frames
  /\ leftover' = FALSE
  /\ UNCHANGED <<checkpoint, receipt, compacting, threads, bounds,
                 acked, behind, harm, overtaken, mixed>>

Refuse ==
  /\ phase = "closed" /\ (~recover.ok \/ junkInside)
  /\ phase' = "blocked"
  /\ UNCHANGED <<state, root, disk, compacting, threads, bounds, history>>

-----------------------------------------------------------------------------
Step(t) ==
  \/ PlanRegister(t) \/ PlanIngest(t) \/ PlanClaim(t)
  \/ ReadBonds(t) \/ ReadPrevious(t) \/ ReadExpected(t)
  \/ Conflict(t) \/ CommitPlan(t)
Compact == ReplaceCheckpoint \/ ReplaceReceipt \/ TruncateLog

Next ==
  \/ \E t \in Thread : \/ Step(t) \/ FailAppend(t)
                       \/ \E e \in Event : Record(t, e)
  \/ BeginCompact \/ Compact \/ FailCompact
  \/ Crash \/ Open \/ Refuse

Spec == Init /\ [][Next]_vars

-----------------------------------------------------------------------------
(* What the universe must keep true.                                        *)

Stage == {"idle", "register", "ingest", "claim", "react", "previous",
          "expected", "commit"}
State == [seq : Nat, bonds : [Fact -> [created : Nat, revoked : Nat]],
          atoms : SUBSET ({"entity"} \X Entity
                          \cup {"exact_object", "semantic_claim"} \X Event),
          version : [Entity -> Nat]]
Snapshot == [state : State, root : Seq(Commit)]
FrameOf == [prev : Seq(Commit), commit : Commit]
ASSUME NoneAssumption == None \notin Snapshot /\ Junk \notin FrameOf

(* Every variable has its type, and what memory holds counts the commits of *)
(* the root it is at.                                                       *)
TypeOK ==
  /\ phase \in {"open", "closed", "blocked"}
  /\ state \in State /\ root \in Seq(Commit) /\ state.seq = Len(root)
  /\ log \in Seq(FrameOf \cup {Junk})
  /\ checkpoint \in Snapshot \cup {None}
  /\ receipt \in Seq(Commit) \cup {None}
  /\ compacting \in {"no", "written", "checkpoint", "receipt"}
  /\ pc \in [Thread -> Stage]
  /\ event \in [Thread -> Event \cup {None}]
  /\ plan \in [Thread -> Commit \cup {[NoCommit EXCEPT !.op = o] : o \in Op}]
  /\ calls \in 0 .. MaxCall /\ compactions \in 0 .. MaxCompact
  /\ faults \in 0 .. MaxFault
  /\ acked \in SUBSET (Nat \X Commit) /\ behind \in SUBSET (Nat \X Commit)
  /\ leftover \in BOOLEAN
  /\ harm \subseteq {"append", "compact"}
  /\ overtaken \subseteq Thread /\ mixed \subseteq Entity

(* A commit that returned is in the universe whenever it is open, through   *)
(* crashes, torn tails, checkpoints and replays, at the position it was     *)
(* given; only what was appended behind the leftovers of a failed append    *)
(* can be cut off with them.                                                *)
AckedSurvive ==
  phase = "open" => acked \ behind \subseteq held

(* As long as no append followed a failed one, no compaction was abandoned  *)
(* between its renames and no plan was overtaken while it was read, the     *)
(* disk opens, and gives what memory holds and at most the one commit that  *)
(* was under way.                                                           *)
RecoversLive ==
  harm = {} /\ mixed = {} =>
    /\ phase # "blocked"
    /\ phase = "closed" => recover.ok /\ ~junkInside
    /\ phase = "open" /\ ~halfCompacted =>
         /\ recover.ok /\ ~junkInside
         /\ IsPrefix(root, recover.root) /\ Len(recover.root) <= Len(root) + 1
         /\ recover.root = root => recover.state = state

reactionsOn(x) == {i \in DOMAIN root : root[i].op = "react" /\ About(root[i]) = x}
latestBefore(x, n) ==
  LET earlier == {i \in reactionsOn(x) : i < n}
  IN IF earlier = {} THEN {} ELSE factsOf(root[Max(earlier)].event)

(* No lost update: unless a plan was overtaken between its own reads, each  *)
(* reaction replaces exactly the facts its predecessor left, the entity     *)
(* shows the facts of its last reaction and no others, and its version      *)
(* counts every commit on it.                                               *)
NoLostUpdate ==
  \A x \in Entity \ mixed :
    /\ \A i \in reactionsOn(x) : root[i].revoked = latestBefore(x, i)
    /\ active_bonds(state, x, state.seq) = latestBefore(x, Len(root) + 1)
    /\ state.version[x] =
         Cardinality({i \in DOMAIN root : bumpsVersion(root[i]) /\ About(root[i]) = x})

(* What EntityFullAdamRuntime.verify asks of an open universe: a fact of an *)
(* entity was claimed by an event, and a claim has its evidence and its     *)
(* entity, after every restart too.                                         *)
Grounded ==
  /\ \A f \in Fact : state.bonds[f] # NoBond =>
       \E e \in Event : f \in factsOf(e) /\ claimAtom(e) \in state.atoms
  /\ \A e \in Event : claimAtom(e) \in state.atoms =>
       {exactObject(e), entityAtom(Subject[e])} \subseteq state.atoms

(* The facts the commit of this step puts: those a recorded reaction shows. *)
newFacts ==
  IF Len(root') = Len(root) THEN {}
  ELSE LET c == root'[Len(root')] IN IF c.op = "react" THEN factsOf(c.event) ELSE {}

(* What became of the past: an entity shows at an earlier sequence number   *)
(* what it showed there before the step, less the facts the step puts.      *)
(* put_bond keeps one interval for a bond, so a fact that returns, such as  *)
(* the same last_event_type, is erased from its own past; nothing else is,  *)
(* nothing is added, and compaction leaves the past alone.                  *)
PastOnlyErased ==
  [][phase = "open" /\ phase' = "open" =>
       \A x \in Entity : \A n \in 1 .. state.seq :
         active_bonds(state', x, n) = active_bonds(state, x, n) \ newFacts]_vars
=============================================================================
