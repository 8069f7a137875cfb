-------------------------- MODULE PayloadStoreProofs --------------------------
(***************************************************************************)
(* What the storage kernel promises its callers: theorems of BTDUStorage    *)
(* about acknowledged and deleted payloads and the growth of segments, and  *)
(* that it implements PayloadStore, for every set of processes, chunks,     *)
(* payloads and tapes and every bound.                                      *)
(***************************************************************************)
EXTENDS BTDUStorageProofs

-----------------------------------------------------------------------------
(* The inductive invariant, beside IInv.                                    *)

(* An index that was not lost lists what was acknowledged.                  *)
Listed == rebuilt = "whole" => acked \cap Payload \subseteq payloads

(* A payload being put is acknowledged or asked for.                        *)
Asked == \A q \in Proc, p \in Payload : Putting(q, p) => p \in acked \cup undecided

(* A payload being deleted is out of the index, and its delete is undecided. *)
Doomed == \A d \in Proc, p \in Payload : Deleting(d, p) => p \in undecided /\ p \notin payloads

Promised == IInv /\ Listed /\ Asked /\ Doomed /\ NothingResurrected

-----------------------------------------------------------------------------
(* Steps, those that touch no payload as one kind.                          *)

Quiet ==
  /\ UNCHANGED <<payloads, manifests, undecided, rebuilt>>
  /\ acked' \cap Payload = acked \cap Payload
  /\ \A q \in Proc, p \in Payload : Putting(q, p)' => Putting(q, p)
  /\ \A q \in Proc, p \in Payload : Deleting(q, p)' => Deleting(q, p)

LEMMA Kinds ==
  ASSUME Basic, [Next]_vars
  PROVE  \/ \E q \in Proc, j \in Job : PutStart(q, j)
         \/ \E q \in Proc, p \in Payload : DeleteCommit(q, p)
         \/ \E q \in Proc : WriteManifest(q) \/ PutCommit(q) \/ DeleteUnlink(q)
                            \/ RecoverStart(q) \/ RecoverCommit(q)
         \/ Quiet
<1> USE SetsAssumption DEF Basic, TypeOK, Quiet, Putting, Deleting, Return, Goto, disk, index, calls, history, bounds
<1>1. ASSUME NEW q \in Proc, NEW t \in Tape, ReleaseReference(q, t) PROVE Quiet
  BY <1>1 DEF ReleaseReference
<1>2. ASSUME NEW q \in Proc, EnsureKnown(q) PROVE Quiet
  BY <1>2 DEF EnsureKnown
<1>3. ASSUME NEW q \in Proc, EnsureAppend(q) PROVE Quiet
  BY <1>3 DEF EnsureAppend, MoreChunks
<1>4. ASSUME NEW q \in Proc, EnsureCommit(q) PROVE Quiet
  BY <1>4 DEF EnsureCommit
<1>5. ASSUME NEW q \in Proc, RetainReferences(q) PROVE Quiet
  BY <1>5 DEF RetainReferences
<1>6. ASSUME NEW q \in Proc, CommitRejected(q) PROVE Quiet
  BY <1>6 DEF CommitRejected
<1>7. ASSUME NEW q \in Proc, RecoverFail(q) PROVE Quiet
  BY <1>7 DEF RecoverFail
<1>8. ASSUME NEW q \in Proc, EnsureTorn(q) PROVE Quiet
  BY <1>8 DEF EnsureTorn
<1>9. ASSUME NEW q \in Proc, Interrupt(q) PROVE Quiet
  BY <1>9 DEF Interrupt
<1>10. CASE UNCHANGED vars
  BY <1>10 DEF vars
<1> QED
  BY <1>1, <1>2, <1>3, <1>4, <1>5, <1>6, <1>7, <1>8, <1>9, <1>10 DEF Next, Continue

-----------------------------------------------------------------------------
(* Each part of the invariant.                                              *)

LEMMA InitPromised == Init => Promised
  BY InitIInv DEF Init, Promised, Listed, Asked, Doomed, NothingResurrected, Putting, Deleting

LEMMA ListedStep ==
  ASSUME Promised, [Next]_vars
  PROVE  Listed'
<1>0. Basic /\ AckedDurable /\ Listed
  BY DEF Promised, IInv, Basic
<1>1. ASSUME NEW q \in Proc, RecoverCommit(q) PROVE Listed'
  BY <1>0, <1>1 DEF RecoverCommit, Relist, Listed, AckedDurable, Basic, TypeOK
<1>2. ASSUME NEW q \in Proc, NEW j \in Job, PutStart(q, j) PROVE Listed'
  BY <1>0, <1>2 DEF PutStart, Listed, index
<1>3. ASSUME NEW q \in Proc, NEW p \in Payload, DeleteCommit(q, p) PROVE Listed'
  BY <1>0, <1>3 DEF DeleteCommit, Listed
<1>4. ASSUME NEW q \in Proc, PutCommit(q) PROVE Listed'
  BY <1>0, <1>4 DEF PutCommit, Listed
<1>5. ASSUME NEW q \in Proc, WriteManifest(q) \/ DeleteUnlink(q) \/ RecoverStart(q) PROVE Listed'
  BY <1>0, <1>5 DEF WriteManifest, DeleteUnlink, RecoverStart, Listed, index, history
<1>6. CASE Quiet
  BY <1>0, <1>6 DEF Quiet, Listed
<1> QED
  BY <1>0, <1>1, <1>2, <1>3, <1>4, <1>5, <1>6, Kinds

LEMMA AskedStep ==
  ASSUME Promised, [Next]_vars
  PROVE  Asked'
<1>0. Basic /\ Asked
  BY DEF Promised, IInv, Basic
<1> USE <1>0 DEF Basic, TypeOK, Asked, Putting, Return, Goto
<1>1. ASSUME NEW q \in Proc, NEW j \in Job, PutStart(q, j) PROVE Asked'
  BY <1>1 DEF PutStart
<1>2. ASSUME NEW q \in Proc, NEW p \in Payload, DeleteCommit(q, p) PROVE Asked'
  BY <1>2 DEF DeleteCommit
<1>3. ASSUME NEW q \in Proc, PutCommit(q) PROVE Asked'
  BY <1>3 DEF PutCommit
<1>4. ASSUME NEW q \in Proc, WriteManifest(q) PROVE Asked'
  BY <1>4 DEF WriteManifest, AllEnsured, history
<1>5. ASSUME NEW q \in Proc, DeleteUnlink(q) PROVE Asked'
  BY <1>5 DEF DeleteUnlink
<1>6. ASSUME NEW q \in Proc, RecoverStart(q) PROVE Asked'
  BY <1>6 DEF RecoverStart
<1>7. ASSUME NEW q \in Proc, RecoverCommit(q) PROVE Asked'
  BY <1>7 DEF RecoverCommit
<1>8. CASE Quiet
  BY <1>8 DEF Quiet
<1> QED
  BY <1>1, <1>2, <1>3, <1>4, <1>5, <1>6, <1>7, <1>8, Kinds

LEMMA DoomedStep ==
  ASSUME Promised, [Next]_vars
  PROVE  Doomed'
<1>0. Basic /\ Doomed
  BY DEF Promised, IInv, Basic
<1> USE <1>0, SetsAssumption DEF Basic, TypeOK, LockDiscipline, Doomed, Deleting, Return, Goto, index, history, disk
<1>1. ASSUME NEW q \in Proc, NEW j \in Job, PutStart(q, j) PROVE Doomed'
  BY <1>1 DEF PutStart
<1>2. ASSUME NEW q \in Proc, NEW p \in Payload, DeleteCommit(q, p) PROVE Doomed'
  BY <1>2 DEF DeleteCommit
<1>3. ASSUME NEW q \in Proc, PutCommit(q) PROVE Doomed'
  BY <1>3 DEF PutCommit
<1>4. ASSUME NEW q \in Proc, WriteManifest(q) PROVE Doomed'
  BY <1>4 DEF WriteManifest
<1>5. ASSUME NEW q \in Proc, DeleteUnlink(q) PROVE Doomed'
  BY <1>5 DEF DeleteUnlink
<1>6. ASSUME NEW q \in Proc, RecoverStart(q) PROVE Doomed'
  BY <1>6 DEF RecoverStart
<1>7. ASSUME NEW q \in Proc, RecoverCommit(q) PROVE Doomed'
  BY <1>7 DEF RecoverCommit
<1>8. CASE Quiet
  BY <1>8 DEF Quiet
<1> QED
  BY <1>1, <1>2, <1>3, <1>4, <1>5, <1>6, <1>7, <1>8, Kinds
LEMMA ResurrectedStep ==
  ASSUME Promised, [Next]_vars
  PROVE  NothingResurrected'
<1>0. Basic /\ Asked /\ Doomed /\ NothingResurrected
  BY DEF Promised, IInv, Basic
<1> USE <1>0 DEF Basic, TypeOK, NothingResurrected, Return, Goto, disk, index, history
<1>1. ASSUME NEW q \in Proc, NEW j \in Job, PutStart(q, j) PROVE NothingResurrected'
  BY <1>1 DEF PutStart
<1>2. ASSUME NEW q \in Proc, NEW p \in Payload, DeleteCommit(q, p) PROVE NothingResurrected'
  BY <1>2 DEF DeleteCommit
<1>3. ASSUME NEW q \in Proc, PutCommit(q) PROVE NothingResurrected'
  <2>1. job[q] \in Payload /\ Putting(q, job[q])
    BY <1>3 DEF PutCommit, CallShape, Putting
  <2>2. job[q] \in acked \cup undecided
    BY <2>1 DEF Asked
  <2> QED
    BY <1>3, <2>2 DEF PutCommit
<1>4. ASSUME NEW q \in Proc, WriteManifest(q) PROVE NothingResurrected'
  <2>1. job[q] \in acked \cup undecided
    BY <1>4 DEF WriteManifest, AllEnsured, Asked, Putting
  <2> QED
    BY <1>4, <2>1 DEF WriteManifest
<1>5. ASSUME NEW q \in Proc, DeleteUnlink(q) PROVE NothingResurrected'
  <2>1. job[q] \in Payload /\ job[q] \notin payloads
    BY <1>5 DEF DeleteUnlink, CallShape, Doomed, Deleting
  <2> QED
    BY <1>5, <2>1 DEF DeleteUnlink, UnlinkManifest
<1>6. ASSUME NEW q \in Proc, RecoverStart(q) PROVE NothingResurrected'
  BY <1>6 DEF RecoverStart
<1>7. ASSUME NEW q \in Proc, RecoverCommit(q) PROVE NothingResurrected'
  BY <1>7 DEF RecoverCommit, Relist
<1>8. CASE Quiet
  BY <1>8 DEF Quiet
<1> QED
  BY <1>1, <1>2, <1>3, <1>4, <1>5, <1>6, <1>7, <1>8, Kinds

THEOREM PromisesKept == Spec => []Promised
<1>1. Init => Promised
  BY InitPromised
<1>2. Promised /\ [Next]_vars => Promised'
  BY StepIInv, ListedStep, AskedStep, DoomedStep, ResurrectedStep DEF Promised
<1> QED
  BY <1>1, <1>2, PTL DEF Spec

(* An acknowledged payload can be read as long as no rebuild of the index   *)
(* is under way or failed: put, delete and rebuild, however they interleave *)
(* and wherever they stop, leave its row, its manifest and its chunks.      *)
THEOREM AcknowledgedIsReadable == Spec => []AckedReadable
<1>1. Promised => AckedReadable
  BY DEF Promised, IInv, Listed, AckedDurable, NoDangling, AckedReadable, TypeOK
<1> QED
  BY <1>1, PromisesKept, PTL

(* What is stored was acknowledged, or its last call has no known outcome:  *)
(* no rebuild brings back a payload whose delete returned.                  *)
THEOREM NothingIsResurrected == Spec => []NothingResurrected
<1>1. Promised => NothingResurrected
  BY DEF Promised
<1> QED
  BY <1>1, PromisesKept, PTL

-----------------------------------------------------------------------------
(* The refinement: each step is one of PayloadStore, or changes nothing of  *)
(* it.                                                                      *)

Seen == <<acked \cap Payload, undecided, manifests>>

PromiseStep ==
  \/ \E p \in Payload : \/ Promise!BeginPut(p) \/ Promise!Write(p) \/ Promise!AckPut(p)
                        \/ Promise!BeginDelete(p) \/ Promise!Remove(p)
  \/ UNCHANGED Seen

LEMMA StepKeepsPromise ==
  ASSUME Promised, [Next]_vars
  PROVE  [Promise!Next]_Seen
<1>0. Basic /\ Overlaps /\ Asked /\ Doomed
  BY DEF Promised, IInv, Basic
<1>k. \/ \E q \in Proc, j \in Job : PutStart(q, j)
      \/ \E q \in Proc, p \in Payload : DeleteCommit(q, p)
      \/ \E q \in Proc : WriteManifest(q) \/ PutCommit(q) \/ DeleteUnlink(q)
                         \/ RecoverStart(q) \/ RecoverCommit(q)
      \/ Quiet
  BY <1>0, Kinds
<1> USE <1>0, SetsAssumption DEF Basic, TypeOK, Return, Goto, disk, index, history, Seen, PromiseStep
<1>1. ASSUME NEW q \in Proc, NEW j \in Job, PutStart(q, j) PROVE PromiseStep
  <2>1. CASE j \in Payload \ acked
    <3>1. Promise!BeginPut(j)
      BY <1>1, <2>1 DEF PutStart, Promise!BeginPut
    <3> QED
      BY <2>1, <3>1
  <2>2. CASE j \notin Payload \ acked
    BY <1>1, <2>2 DEF PutStart
  <2> QED
    BY <2>1, <2>2
<1>2. ASSUME NEW q \in Proc, NEW p \in Payload, DeleteCommit(q, p) PROVE PromiseStep
  <2>1. Promise!BeginDelete(p)
    BY <1>2 DEF DeleteCommit, Promise!BeginDelete
  <2> QED
    BY <2>1
<1>3. ASSUME NEW q \in Proc, PutCommit(q) PROVE PromiseStep
  <2> DEFINE p == job[q]
  <2>1. p \in Payload /\ p \in acked \cup undecided
    BY <1>3 DEF PutCommit, CallShape, Putting, Asked
  <2>2. CASE q \in raced
    BY <1>3, <2>2 DEF PutCommit
  <2>3. CASE q \notin raced
    <3>1. p \in manifests
      BY <1>3, <2>3 DEF PutCommit, Overlaps
    <3>2. acked' \cap Payload = (acked \cap Payload) \cup {p} /\ undecided' = undecided \ {p}
          /\ manifests' = manifests
      BY <1>3, <2>1, <2>3 DEF PutCommit
    <3>3. Promise!AckPut(p)
      BY <2>1, <3>1, <3>2 DEF Promise!AckPut
    <3> QED
      BY <2>1, <3>3
  <2> QED
    BY <2>2, <2>3
<1>4. ASSUME NEW q \in Proc, WriteManifest(q) PROVE PromiseStep
  <2>1. job[q] \in Payload /\ job[q] \in acked \cup undecided
    BY <1>4 DEF WriteManifest, AllEnsured, Asked, Putting
  <2>2. Promise!Write(job[q])
    BY <1>4, <2>1 DEF WriteManifest, Promise!Write
  <2> QED
    BY <2>1, <2>2
<1>5. ASSUME NEW q \in Proc, DeleteUnlink(q) PROVE PromiseStep
  <2>1. job[q] \in Payload /\ job[q] \in undecided
    BY <1>5 DEF DeleteUnlink, CallShape, Doomed, Deleting
  <2>2. Promise!Remove(job[q])
    BY <1>5, <2>1 DEF DeleteUnlink, UnlinkManifest, Promise!Remove
  <2> QED
    BY <2>1, <2>2
<1>6. ASSUME NEW q \in Proc, RecoverStart(q) PROVE PromiseStep
  BY <1>6 DEF RecoverStart
<1>7. ASSUME NEW q \in Proc, RecoverCommit(q) PROVE PromiseStep
  BY <1>7 DEF RecoverCommit
<1>8. ASSUME Quiet PROVE PromiseStep
  BY <1>8 DEF Quiet
<1> HIDE DEF Basic, TypeOK, Return, Goto, disk, index, history, Seen, PromiseStep
<1>9. PromiseStep
  <2>1. CASE \E q \in Proc, j \in Job : PutStart(q, j)
    BY <1>1, <2>1
  <2>2. CASE \E q \in Proc, p \in Payload : DeleteCommit(q, p)
    BY <1>2, <2>2
  <2>3. CASE \E q \in Proc : WriteManifest(q) \/ PutCommit(q) \/ DeleteUnlink(q)
                           \/ RecoverStart(q) \/ RecoverCommit(q)
    BY <1>3, <1>4, <1>5, <1>6, <1>7, <2>3
  <2> QED
    BY <1>8, <1>k, <2>1, <2>2, <2>3
<1> QED
  BY <1>9 DEF PromiseStep, Promise!Next

(* The storage kernel implements PayloadStore: callers see payloads that    *)
(* stay from acknowledged put to delete and go from acknowledged delete to  *)
(* put, with manifests as what is stored.                                   *)
THEOREM ImplementsPayloadStore == Spec => KeepsPromise
<1>1. Init => Promise!Init
  BY DEF Init, Promise!Init
<1>2. Promised /\ [Next]_vars => [Promise!Next]_Seen
  BY StepKeepsPromise
<1>3. Promised /\ [Next]_vars => [Promise!Next]_(Promise!vars)
  BY <1>2 DEF Promise!vars, Seen
<1> QED
  BY <1>1, <1>3, PromisesKept, PTL DEF Spec, KeepsPromise, Promise!Spec
-----------------------------------------------------------------------------
(* The growth of segments.  At most one append is in flight, that of the    *)
(* process that holds the lock, so Flying counts what InFlight collects.    *)

InAir(s) == \E q \in Proc : pc[q] = "append" /\ at[q].seg = s
Flying(s) == IF InAir(s) THEN 1 ELSE 0

(* A row is behind its file only by the records of appends cut short and in *)
(* flight.                                                                  *)
RowsTrail ==
  \A s \in SegId : segments[s].state # "absent" =>
    /\ segments[s].bytes <= Len(files[s])
    /\ Len(files[s]) <= segments[s].bytes + faults + Flying(s)

(* A file without a row has room for the append that selects it next: it is *)
(* new, or the index that had its row was lost.                             *)
Forgotten ==
  \A s \in SegId : segments[s].state = "absent" =>
    Len(files[s]) < Target + faults + rebuilds + Flying(s)

Growth == RowsTrail /\ Forgotten /\ SegmentOverflow

LEMMA NewestIsLargest ==
  ASSUME NEW S, S \subseteq SegId, S # {}
  PROVE  Newest(S) \in S /\ \A t \in S : t <= Newest(S)
<1> DEFINE Above == {MaxSegment - s : s \in S}
<1>1. Above \subseteq Nat /\ Above # {}
  <2>1. ASSUME NEW s \in S PROVE MaxSegment - s \in Nat
    BY BoundsAssumption DEF SegId
  <2> QED
    BY <2>1
<1>2. PICK m \in Above : \A n \in Above : m <= n
  BY <1>1, NatMinimum
<1>3. PICK s \in S : m = MaxSegment - s
  BY <1>2
<1>4. \A t \in S : t <= s
  <2>1. ASSUME NEW t \in S PROVE t <= s
    <3>1. MaxSegment - t \in Above
      OBVIOUS
    <3>2. MaxSegment - s <= MaxSegment - t
      BY <1>2, <1>3, <3>1
    <3> QED
      BY <3>2, BoundsAssumption DEF SegId
  <2> QED
    BY <2>1
<1> QED
  BY <1>4 DEF Newest

(* _select_segment returns a segment whose row has room, or one without row. *)
LEMMA SelectedSegment ==
  ASSUME TypeOK, SelectSegment \in SegId
  PROVE  segments[SelectSegment].state = "absent" \/ HasRoom(SelectSegment)
<1>1. CASE Open # {} /\ HasRoom(Newest(Open))
  BY <1>1 DEF SelectSegment
<1>2. CASE ~ (Open # {} /\ HasRoom(Newest(Open)))
  <2>1. SelectSegment = NewSegment
    BY <1>2 DEF SelectSegment
  <2>2. CASE Existing = {}
    BY <2>2, <2>1 DEF Existing
  <2>3. CASE Existing # {}
    <3>1. Newest(Existing) \in SegId /\ \A t \in Existing : t <= Newest(Existing)
      BY <2>3, NewestIsLargest DEF Existing
    <3>2. SelectSegment = Newest(Existing) + 1
      BY <2>1, <2>3 DEF NewSegment
    <3>3. SelectSegment \notin Existing
      BY <3>1, <3>2, BoundsAssumption DEF SegId
    <3> QED
      BY <3>3 DEF Existing
  <2> QED
    BY <2>2, <2>3
<1> QED
  BY <1>1, <1>2

LEMMA InitGrowth == Init => Growth
<1> SUFFICES ASSUME Init PROVE Growth
  OBVIOUS
<1> USE BoundsAssumption
<1>1. \A s \in SegId : Len(files[s]) = 0 /\ segments[s].state = "absent"
  BY DEF Init, NoSegment
<1>2. \A s \in SegId : ~ InAir(s)
  BY DEF Init, InAir
<1> QED
  BY <1>1, <1>2 DEF Init, Growth, RowsTrail, Forgotten, SegmentOverflow, Flying

(* A step that appends nothing, commits no segment row and ends no append.  *)
Grounded ==
  /\ UNCHANGED <<files, segments, faults, rebuilds>>
  /\ \A s \in SegId : InAir(s)' <=> InAir(s)

LEMMA GroundedSteps ==
  ASSUME Basic, [Next]_vars
  PROVE  \/ \E q \in Proc : \/ EnsureAppend(q) \/ EnsureTorn(q) \/ EnsureCommit(q)
                            \/ RecoverStart(q) \/ RecoverCommit(q) \/ Interrupt(q)
         \/ Grounded
<1> USE DEF Basic, TypeOK, Grounded, InAir, Return, Goto, disk, index, calls, history, bounds
<1>1. ASSUME NEW q \in Proc, NEW j \in Job, PutStart(q, j) PROVE Grounded
  BY <1>1 DEF PutStart
<1>2. ASSUME NEW q \in Proc, NEW p \in Payload, DeleteCommit(q, p) PROVE Grounded
  BY <1>2 DEF DeleteCommit
<1>3. ASSUME NEW q \in Proc, NEW t \in Tape, ReleaseReference(q, t) PROVE Grounded
  BY <1>3 DEF ReleaseReference
<1>4. ASSUME NEW q \in Proc, EnsureKnown(q) PROVE Grounded
  BY <1>4 DEF EnsureKnown
<1>5. ASSUME NEW q \in Proc, WriteManifest(q) PROVE Grounded
  BY <1>5 DEF WriteManifest, AllEnsured
<1>6. ASSUME NEW q \in Proc, PutCommit(q) PROVE Grounded
  BY <1>6 DEF PutCommit
<1>7. ASSUME NEW q \in Proc, RetainReferences(q) PROVE Grounded
  BY <1>7 DEF RetainReferences, AllEnsured
<1>8. ASSUME NEW q \in Proc, CommitRejected(q) PROVE Grounded
  BY <1>8 DEF CommitRejected, AllEnsured
<1>9. ASSUME NEW q \in Proc, DeleteUnlink(q) PROVE Grounded
  BY <1>9 DEF DeleteUnlink
<1>10. ASSUME NEW q \in Proc, RecoverFail(q) PROVE Grounded
  BY <1>10 DEF RecoverFail
<1>11. CASE UNCHANGED vars
  BY <1>11 DEF vars
<1> HIDE DEF Basic, TypeOK, Grounded
<1> QED
  BY <1>1, <1>2, <1>3, <1>4, <1>5, <1>6, <1>7, <1>8, <1>9, <1>10, <1>11 DEF Next, Continue

LEMMA GrowthStep == IInv /\ Growth /\ [Next]_vars => Growth'
<1> SUFFICES ASSUME IInv, Growth, [Next]_vars PROVE Growth'
  OBVIOUS
<1>0. Basic /\ Basic'
  BY BasicStep DEF IInv, Basic
<1>t. TypeOK /\ TypeOK'
  BY <1>0 DEF Basic
<1>n. /\ Target \in Nat \ {0} /\ faults \in Nat /\ rebuilds \in Nat
      /\ \A s \in SegId : Len(files[s]) \in Nat /\ segments[s].bytes \in Nat
      /\ faults' \in Nat /\ rebuilds' \in Nat
      /\ \A s \in SegId : Len(files'[s]) \in Nat /\ segments'[s].bytes \in Nat
  BY <1>t, BoundsAssumption DEF TypeOK
<1>g. /\ \A s \in SegId : segments[s].state # "absent" =>
            /\ segments[s].bytes <= Len(files[s])
            /\ Len(files[s]) <= segments[s].bytes + faults + (IF InAir(s) THEN 1 ELSE 0)
      /\ \A s \in SegId : segments[s].state = "absent" =>
            Len(files[s]) < Target + faults + rebuilds + (IF InAir(s) THEN 1 ELSE 0)
      /\ \A s \in SegId : Len(files[s]) <= Target + faults + rebuilds
  BY DEF Growth, RowsTrail, Forgotten, SegmentOverflow, Flying
<1> DEFINE After ==
      /\ \A s \in SegId : segments'[s].state # "absent" =>
            /\ segments'[s].bytes <= Len(files'[s])
            /\ Len(files'[s]) <= segments'[s].bytes + faults' + (IF InAir(s)' THEN 1 ELSE 0)
      /\ \A s \in SegId : segments'[s].state = "absent" =>
            Len(files'[s]) < Target + faults' + rebuilds' + (IF InAir(s)' THEN 1 ELSE 0)
      /\ \A s \in SegId : Len(files'[s]) <= Target + faults' + rebuilds'
<1>free. lock = Nobody => \A s \in SegId : ~ InAir(s)
  BY <1>0, SetsAssumption DEF Basic, LockDiscipline, InAir
<1>1. ASSUME NEW q \in Proc, EnsureAppend(q) PROVE After
  <2> DEFINE z == SelectSegment
  <2>1. /\ z \in SegId /\ lock = Nobody
        /\ UNCHANGED <<segments, faults, rebuilds>>
        /\ files' = [files EXCEPT ![z] = Append(@, Current(q))]
        /\ pc' = [pc EXCEPT ![q] = "append"]
        /\ at' = [at EXCEPT ![q] = [seg |-> z, off |-> EndOfFile(z)]]
    BY <1>1 DEF EnsureAppend, Goto, index, bounds
  <2>2. \A s \in SegId : InAir(s)' <=> s = z
    <3>1. \A r \in Proc : pc[r] # "append"
      BY <2>1, <1>0, SetsAssumption DEF Basic, LockDiscipline
    <3> HIDE DEF z
    <3> QED
      BY <2>1, <3>1, <1>t DEF InAir, TypeOK
  <2>3. Len(files'[z]) = Len(files[z]) + 1 /\ \A s \in SegId : s # z => files'[s] = files[s]
    BY <2>1, <1>t DEF TypeOK
  <2>4. segments[z].state = "absent" \/ segments[z].bytes + 1 <= Target
    BY <2>1, <1>t, SelectedSegment DEF HasRoom
  <2>5. \A s \in SegId : ~ InAir(s)
    BY <1>free, <2>1
  <2> HIDE DEF z
  <2> QED
    BY <1>n, <1>g, <2>1, <2>2, <2>3, <2>4, <2>5
<1>2. ASSUME NEW q \in Proc, EnsureTorn(q) PROVE After
  <2> DEFINE z == SelectSegment
  <2>1. /\ z \in SegId /\ lock = Nobody /\ faults' = faults + 1
        /\ UNCHANGED <<segments, rebuilds>>
        /\ files' = [files EXCEPT ![z] = Append(@, Torn)]
    BY <1>2 DEF EnsureTorn, index
  <2>3. Len(files'[z]) = Len(files[z]) + 1 /\ \A s \in SegId : s # z => files'[s] = files[s]
    BY <2>1, <1>t DEF TypeOK
  <2>4. segments[z].state = "absent" \/ segments[z].bytes + 1 <= Target
    BY <2>1, <1>t, SelectedSegment DEF HasRoom
  <2>5. \A s \in SegId : ~ InAir(s)
    BY <1>free, <2>1
  <2> HIDE DEF z
  <2> QED
    <3>1. ASSUME NEW s \in SegId, segments'[s].state # "absent"
          PROVE  /\ segments'[s].bytes <= Len(files'[s])
                 /\ Len(files'[s]) <= segments'[s].bytes + faults' + (IF InAir(s)' THEN 1 ELSE 0)
      <4>1. segments[s].bytes <= Len(files[s]) /\ Len(files[s]) <= segments[s].bytes + faults
        BY <1>n, <1>g, <2>1, <2>5, <3>1
      <4>2. Len(files'[s]) \in {Len(files[s]), Len(files[s]) + 1}
        BY <2>3
      <4> QED
        BY <1>n, <2>1, <4>1, <4>2
    <3>2. \A s \in SegId : segments'[s].state = "absent" =>
            Len(files'[s]) < Target + faults' + rebuilds' + (IF InAir(s)' THEN 1 ELSE 0)
      BY <1>n, <1>g, <2>1, <2>3, <2>4, <2>5
    <3>3. \A s \in SegId : Len(files'[s]) <= Target + faults' + rebuilds'
      BY <1>n, <1>g, <2>1, <2>3, <2>4, <2>5
    <3> QED
      BY <3>1, <3>2, <3>3
<1>3. ASSUME NEW q \in Proc, EnsureCommit(q) PROVE After
  <2> DEFINE z == at[q].seg
  <2>1. /\ pc[q] = "append" /\ segments' = SegmentsAfter(z)
        /\ UNCHANGED <<files, faults, rebuilds>>
    BY <1>3 DEF EnsureCommit, disk, bounds
  <2>2. z \in SegId
    BY <2>1 DEF IInv, Appended, Holds
  <2>3. \A r \in Proc : pc[r] = "append" => r = q
    BY <2>1, <1>0 DEF Basic, LockDiscipline
  <2>4. \A s \in SegId : InAir(s) => s = z
    BY <2>3 DEF InAir
  <2>5. segments'[z].state = "open" /\ segments'[z].bytes = Len(files[z])
    BY <2>1, <2>2 DEF SegmentsAfter, SizeNow
  <2>6. \A s \in SegId : s # z =>
          /\ segments'[s].bytes = segments[s].bytes
          /\ segments'[s].state = "absent" <=> segments[s].state = "absent"
    BY <2>1 DEF SegmentsAfter, Filled, Open
  <2> HIDE DEF z
  <2> QED
    <3>1. \A s \in SegId : segments'[s].state # "absent" =>
            /\ segments'[s].bytes <= Len(files'[s])
            /\ Len(files'[s]) <= segments'[s].bytes + faults' + (IF InAir(s)' THEN 1 ELSE 0)
      BY <1>n, <1>g, <2>1, <2>2, <2>4, <2>5, <2>6
    <3>2. \A s \in SegId : segments'[s].state = "absent" =>
            Len(files'[s]) < Target + faults' + rebuilds' + (IF InAir(s)' THEN 1 ELSE 0)
      BY <1>n, <1>g, <2>1, <2>2, <2>4, <2>5, <2>6
    <3>3. \A s \in SegId : Len(files'[s]) <= Target + faults' + rebuilds'
      BY <1>n, <1>g, <2>1, <2>2, <2>4, <2>5, <2>6
    <3> QED
      BY <3>1, <3>2, <3>3
<1>4. ASSUME NEW q \in Proc, RecoverStart(q) PROVE After
  <2>1. /\ lock = Nobody /\ rebuilds' = rebuilds + 1 /\ UNCHANGED <<files, faults>>
        /\ \A s \in SegId : segments'[s].state = "absent"
    BY <1>4 DEF RecoverStart, disk, NoSegment
  <2> QED
    BY <1>n, <1>g, <2>1
<1>5. ASSUME NEW q \in Proc, RecoverCommit(q) PROVE After
  <2>1. /\ UNCHANGED <<files, faults, rebuilds>>
        /\ \A s \in SegId : /\ segments'[s].state = "absent" => Len(files[s]) = 0
                            /\ segments'[s].state # "absent" => segments'[s].bytes = Len(files[s])
    BY <1>5 DEF RecoverCommit, disk, bounds, NoSegment
  <2> QED
    BY <1>n, <1>g, <2>1
<1>6. ASSUME NEW q \in Proc, Interrupt(q) PROVE After
  <2>1. UNCHANGED <<files, segments, rebuilds>> /\ faults' = faults + 1
    BY <1>6 DEF Interrupt, disk, index
  <2> QED
    BY <1>n, <1>g, <2>1
<1>7. ASSUME Grounded PROVE After
  BY <1>7, <1>g, <1>n DEF Grounded
<1>8. After
  BY <1>0, <1>1, <1>2, <1>3, <1>4, <1>5, <1>6, <1>7, GroundedSteps
<1> QED
  BY <1>8 DEF Growth, RowsTrail, Forgotten, SegmentOverflow, Flying

LEMMA GrowthHolds == Spec => [](IInv /\ Growth)
<1>1. Init => IInv /\ Growth
  BY InitIInv, InitGrowth
<1>2. IInv /\ Growth /\ [Next]_vars => (IInv /\ Growth)'
  BY StepIInv, GrowthStep
<1> QED
  BY <1>1, <1>2, PTL DEF Spec

(* A segment outgrows its target by at most one record for each interrupted *)
(* append and each lost index (_select_segment judges room from the row).   *)
THEOREM SegmentsAreBounded == Spec => []SegmentOverflow
<1>1. IInv /\ Growth => SegmentOverflow
  BY DEF Growth
<1> QED
  BY <1>1, GrowthHolds, PTL

(* A segment's row is behind its file by no more than the records that were *)
(* cut short and the one in flight: what verify() may blame.                *)
THEOREM RowsTrailFiles == Spec => []SegmentRowTrails
<1>1. IInv /\ Growth => SegmentRowTrails
  <2> SUFFICES ASSUME IInv, Growth, NEW s \in Existing
               PROVE  /\ segments[s].bytes <= Len(files[s])
                      /\ Len(files[s]) <= segments[s].bytes + faults + Cardinality(InFlight(s))
    BY DEF SegmentRowTrails
  <2>1. s \in SegId /\ segments[s].state # "absent"
    BY DEF Existing
  <2>2. Cardinality(InFlight(s)) = Flying(s)
    <3>1. CASE InAir(s)
      <4>1. PICK q \in Proc : pc[q] = "append" /\ at[q].seg = s
        BY <3>1 DEF InAir
      <4>2. InFlight(s) = {q}
        BY <4>1 DEF InFlight, IInv, LockDiscipline
      <4> QED
        BY <3>1, <4>2, FS_Singleton DEF Flying
    <3>2. CASE ~ InAir(s)
      <4>1. InFlight(s) = {}
        BY <3>2 DEF InFlight, InAir
      <4> QED
        BY <3>2, <4>1, FS_EmptySet DEF Flying
    <3> QED
      BY <3>1, <3>2
  <2> QED
    BY <2>1, <2>2 DEF Growth, RowsTrail
<1> QED
  BY <1>1, GrowthHolds, PTL
=============================================================================
