-------------------------- MODULE BTDUStorageProofs --------------------------
(***************************************************************************)
(* Theorems of BTDUStorage, for every set of processes, chunks, payloads    *)
(* and tapes and every bound.                                               *)
(***************************************************************************)
EXTENDS BTDUStorage, FiniteSetTheorems, WellFoundedInduction, TLAPS

(* The part of the inductive invariant every other part rests on.           *)
Basic == TypeOK /\ CallShape /\ LockDiscipline

LEMMA NatMinimum ==
  ASSUME NEW T, T \subseteq Nat, T # {}
  PROVE  \E m \in T : \A n \in T : m <= n
<1>1. PICK m \in T : \A n \in T : ~ (<<n, m>> \in OpToRel(<, Nat))
  BY NatLessThanWellFounded, WFMin
<1>2. ASSUME NEW n \in T, n < m PROVE <<n, m>> \in OpToRel(<, Nat)
  BY <1>2 DEF OpToRel
<1>3. \A n \in T : ~ (n < m)
  BY <1>1, <1>2, Zenon
<1> QED
  BY <1>3

(* The scan finds a first record of every chunk that is recorded: the       *)
(* least offset in the least segment that holds one.                        *)
LEMMA FirstRecordIsOne ==
  ASSUME TypeOK, NEW c, Recorded(c)
  PROVE  /\ FirstRecord(c) \in Place
         /\ Holds(FirstRecord(c), c)
         /\ FirstRecord(c) # NoPlace
<1> DEFINE R == RecordsOf(c)
<1>1. /\ R # {}
      /\ \A pl \in R : Holds(pl, c) /\ pl \in Place /\ pl # NoPlace
  <2>1. PICK s \in SegId : \E i \in DOMAIN files[s] : files[s][i] = c
    BY DEF Recorded
  <2>2. PICK i \in DOMAIN files[s] : files[s][i] = c
    BY <2>1
  <2>3. [seg |-> s, off |-> i] \in R
    BY <2>2 DEF RecordsOf, Records
  <2> QED
    <3>1. ASSUME NEW pl \in R PROVE Holds(pl, c) /\ pl \in Place /\ pl # NoPlace
      <4>0. PICK t \in SegId : pl \in {[seg |-> t, off |-> k] : k \in DOMAIN files[t]}
        BY DEF RecordsOf, Records
      <4>1. PICK k \in DOMAIN files[t] : pl = [seg |-> t, off |-> k]
        BY <4>0
      <4>2. files[t][k] = c
        BY <4>1 DEF RecordsOf
      <4>3. t \in Nat \ {0} /\ k \in 1 .. Len(files[t]) /\ Len(files[t]) \in Nat
        BY BoundsAssumption DEF TypeOK, SegId
      <4> QED
        BY <4>1, <4>2, <4>3 DEF Holds, Place, NoPlace
    <3> QED
      BY <2>3, <3>1
<1> DEFINE S == {pl.seg : pl \in R}
<1>8. S # {} /\ S \subseteq Nat
  BY <1>1 DEF Place
<1>2. PICK s \in S : \A t \in S : s <= t
  BY <1>8, NatMinimum
<1> DEFINE O == {pl.off : pl \in {r \in R : r.seg = s}}
<1>3. O # {} /\ O \subseteq Nat
  BY <1>1, <1>2 DEF Place
<1>4. PICK i \in O : \A k \in O : i <= k
  BY <1>3, NatMinimum
<1>7. PICK pl \in R : pl.seg = s /\ pl.off = i
  BY <1>4
<1>5. \A other \in R : NotAfter(pl, other)
  BY <1>1, <1>2, <1>4, <1>7 DEF NotAfter, Place
<1>6. FirstRecord(c) \in R
  BY <1>5 DEF FirstRecord
<1> QED
  BY <1>1, <1>6

LEMMA PayloadChunksFinite ==
  ASSUME NEW P \in SUBSET Payload, NEW c
  PROVE  IsFiniteSet(PayloadChunks(P, c)) /\ Cardinality(PayloadChunks(P, c)) \in Nat
<1>1. IsFiniteSet(P)
  BY SetsAssumption, FS_Subset
<1>2. ASSUME NEW p \in P PROVE IsFiniteSet({p} \X DOMAIN Content[p])
  <2>1. DOMAIN Content[p] = 1 .. Len(Content[p]) /\ Len(Content[p]) \in Nat
    BY ContentAssumption DEF Job
  <2>2. IsFiniteSet({p})
    BY FS_Singleton
  <2>3. IsFiniteSet(DOMAIN Content[p])
    BY <2>1, FS_Interval
  <2> QED
    BY <2>2, <2>3, FS_Product
<1> DEFINE f == [p \in P |-> {p} \X DOMAIN Content[p]]
           rows == {f[p] : p \in P}
<1>3. IsFiniteSet(rows)
  <2>1. f \in Surjection(P, rows)
    BY DEF Surjection
  <2> QED
    BY <1>1, <2>1, FS_Surjection
<1>4. IsFiniteSet(UNION rows)
  BY <1>2, <1>3, FS_UNION
<1> QED
  BY <1>4, FS_Subset, FS_CardinalityType DEF PayloadChunks

LEMMA InitBasic == Init => Basic
  BY SetsAssumption, BoundsAssumption
  DEF Init, Basic, TypeOK, CallShape, LockDiscipline, NoPlace, Place, NoSegment, SegId

(* What Current(q) is while q still has chunks to store.                    *)
LEMMA CurrentChunk ==
  ASSUME Basic, NEW q \in Proc, MoreChunks(q) \/ pc[q] = "append"
  PROVE  /\ Current(q) \in Chunk /\ job[q] \in Job
         /\ next[q] \in DOMAIN Content[job[q]]
         /\ Current(q) \in ChunksOf(job[q])
  BY ContentAssumption DEF Basic, TypeOK, CallShape, MoreChunks, Current, ChunksOf

LEMMA OccursType == ASSUME NEW j \in Job, NEW c PROVE Occurs(j, c) \in Nat
<1>1. IsFiniteSet(DOMAIN Content[j])
  BY ContentAssumption, FS_Interval DEF Job
<1>2. IsFiniteSet({i \in DOMAIN Content[j] : Content[j][i] = c})
  BY <1>1, FS_Subset
<1> QED
  BY <1>2, FS_CardinalityType DEF Occurs

LEMMA TypeStep == Basic /\ [Next]_vars => TypeOK'
<1> SUFFICES ASSUME Basic, [Next]_vars PROVE TypeOK'
  OBVIOUS
<1> USE DEF Basic, TypeOK, Return, Goto, disk, index, calls, history, bounds, NoPlace, Place
<1>1. ASSUME NEW q \in Proc, NEW j \in Job, PutStart(q, j) PROVE TypeOK'
  BY <1>1 DEF PutStart, Job
<1>2. ASSUME NEW q \in Proc, NEW p \in Payload, DeleteCommit(q, p) PROVE TypeOK'
  <2>1. \A c \in Chunk : Decrement(refCount[c], Occurs(p, c)) \in Nat
    BY OccursType DEF Decrement, Job
  <2> QED
    BY <1>2, <2>1 DEF DeleteCommit, Job
<1>3. ASSUME NEW q \in Proc, NEW t \in Tape, ReleaseReference(q, t) PROVE TypeOK'
  BY <1>3 DEF ReleaseReference, Decrement
<1>4. ASSUME NEW q \in Proc, RecoverStart(q) PROVE TypeOK'
  BY <1>4 DEF RecoverStart, NoSegment
<1>5. ASSUME NEW q \in Proc, EnsureKnown(q) PROVE TypeOK'
  BY <1>5 DEF EnsureKnown
<1>6. ASSUME NEW q \in Proc, EnsureAppend(q) PROVE TypeOK'
  <2>0. Current(q) \in Chunk
    BY <1>6, CurrentChunk DEF EnsureAppend
  <2>1. files' \in [SegId -> Seq(Chunk \cup {Torn})]
    BY <1>6, <2>0 DEF EnsureAppend
  <2>2. at' \in [Proc -> Place]
    BY <1>6 DEF EnsureAppend, EndOfFile, SegId
  <2> QED
    BY <1>6, <2>1, <2>2 DEF EnsureAppend
<1>7. ASSUME NEW q \in Proc, EnsureCommit(q) PROVE TypeOK'
  <2>1. segments' \in [SegId -> [state : {"absent", "open", "sealed"}, bytes : Nat]]
    <3>1. ASSUME NEW t \in SegId
          PROVE  SegmentsAfter(at[q].seg)[t] \in [state : {"absent", "open", "sealed"}, bytes : Nat]
      BY DEF SegmentsAfter, SizeNow
    <3> QED
      BY <1>7, <3>1 DEF EnsureCommit, SegmentsAfter
  <2>2. place' \in [Chunk -> Place] /\ refCount' \in [Chunk -> Nat]
    BY <1>7 DEF EnsureCommit
  <2>3. pc' \in [Proc -> {"idle", "ensure", "append", "index", "unlink", "rebuild"}]
    BY <1>7 DEF EnsureCommit
  <2>4. next' \in [Proc -> Nat \ {0}] /\ at' \in [Proc -> Place] /\ lock' \in Proc \cup {Nobody}
    BY <1>7 DEF EnsureCommit
  <2> QED
    BY <1>7, <2>1, <2>2, <2>3, <2>4 DEF EnsureCommit
<1>8. ASSUME NEW q \in Proc, WriteManifest(q) PROVE TypeOK'
  BY <1>8 DEF WriteManifest
<1>9. ASSUME NEW q \in Proc, PutCommit(q) PROVE TypeOK'
  <2> DEFINE p == job[q]
  <2>1. p \in Payload
    BY <1>9 DEF PutCommit, CallShape
  <2>2. \A c \in Chunk : refCount[c] + Occurs(p, c) \in Nat
    BY <2>1, OccursType DEF Job
  <2>3. refCount' \in [Chunk -> Nat]
    BY <1>9, <2>2 DEF PutCommit
  <2> QED
    BY <1>9, <2>1, <2>3 DEF PutCommit, Job
<1>10. ASSUME NEW q \in Proc, RetainReferences(q) PROVE TypeOK'
  <2> DEFINE t == job[q]
  <2>1. ChunksOf(t) \subseteq Chunk /\ t \in Tape
    BY <1>10, ContentAssumption DEF RetainReferences, AllEnsured, CallShape, ChunksOf
  <2>2. chunkRefs' \subseteq Tape \X Chunk
    BY <1>10, <2>1 DEF RetainReferences
  <2>3. refCount' \in [Chunk -> Nat]
    BY <1>10 DEF RetainReferences
  <2> QED
    BY <1>10, <2>1, <2>2, <2>3 DEF RetainReferences, Job
<1>11. ASSUME NEW q \in Proc, CommitRejected(q) PROVE TypeOK'
  BY <1>11 DEF CommitRejected
<1>12. ASSUME NEW q \in Proc, DeleteUnlink(q) PROVE TypeOK'
  BY <1>12 DEF DeleteUnlink, UnlinkManifest
<1>13. ASSUME NEW q \in Proc, RecoverCommit(q) PROVE TypeOK'
  <2>1. segments' \in [SegId -> [state : {"absent", "open", "sealed"}, bytes : Nat]]
    BY <1>13 DEF RecoverCommit, NoSegment
  <2>2. \A c : Recorded(c) => FirstRecord(c) \in Place
    BY FirstRecordIsOne
  <2>3. place' \in [Chunk -> Place]
    BY <1>13, <2>2 DEF RecoverCommit
  <2>4. refCount' \in [Chunk -> Nat]
    BY <1>13, PayloadChunksFinite, FS_CardinalityType DEF RecoverCommit, Relist
  <2> QED
    BY <1>13, <2>1, <2>3, <2>4 DEF RecoverCommit, Relist
<1>14. ASSUME NEW q \in Proc, RecoverFail(q) PROVE TypeOK'
  BY <1>14 DEF RecoverFail
<1>15. ASSUME NEW q \in Proc, EnsureTorn(q) PROVE TypeOK'
  <2>1. files' \in [SegId -> Seq(Chunk \cup {Torn})]
    BY <1>15 DEF EnsureTorn
  <2>2. pc' \in [Proc -> {"idle", "ensure", "append", "index", "unlink", "rebuild"}]
    BY <1>15 DEF EnsureTorn
  <2>3. job' \in [Proc -> Job \cup {NoJob}] /\ lock' \in Proc \cup {Nobody} /\ faults' \in Nat
    BY <1>15 DEF EnsureTorn
  <2> QED
    BY <1>15, <2>1, <2>2, <2>3 DEF EnsureTorn
<1>16. ASSUME NEW q \in Proc, Interrupt(q) PROVE TypeOK'
  <2>1. lock' \in Proc \cup {Nobody}
    BY <1>16 DEF Interrupt, LockDropped
  <2>2. pc' \in [Proc -> {"idle", "ensure", "append", "index", "unlink", "rebuild"}]
    BY <1>16 DEF Interrupt
  <2>3. next' \in [Proc -> Nat \ {0}] /\ at' \in [Proc -> Place] /\ job' \in [Proc -> Job \cup {NoJob}]
    BY <1>16 DEF Interrupt
  <2> QED
    BY <1>16, <2>1, <2>2, <2>3 DEF Interrupt
<1>17. CASE UNCHANGED vars
  BY <1>17 DEF vars
<1> QED
  BY <1>1, <1>2, <1>3, <1>4, <1>5, <1>6, <1>7, <1>8, <1>9, <1>10, <1>11, <1>12, <1>13, <1>14, <1>15, <1>16, <1>17
  DEF Next, Continue

LEMMA ShapeStep == Basic /\ [Next]_vars => CallShape'
<1> SUFFICES ASSUME Basic, [Next]_vars PROVE CallShape'
  OBVIOUS
<1> USE ContentAssumption DEF Basic, TypeOK, CallShape, Return, Goto, disk, index, calls, history, bounds, Job
<1>1. ASSUME NEW q \in Proc, NEW j \in Job, PutStart(q, j) PROVE CallShape'
  BY <1>1 DEF PutStart
<1>2. ASSUME NEW q \in Proc, NEW p \in Payload, DeleteCommit(q, p) PROVE CallShape'
  BY <1>2 DEF DeleteCommit
<1>3. ASSUME NEW q \in Proc, NEW t \in Tape, ReleaseReference(q, t) PROVE CallShape'
  BY <1>3 DEF ReleaseReference
<1>4. ASSUME NEW q \in Proc, RecoverStart(q) PROVE CallShape'
  BY <1>4 DEF RecoverStart
<1>5. ASSUME NEW q \in Proc, EnsureKnown(q) PROVE CallShape'
  BY <1>5 DEF EnsureKnown, MoreChunks
<1>6. ASSUME NEW q \in Proc, EnsureAppend(q) PROVE CallShape'
  BY <1>6 DEF EnsureAppend, MoreChunks
<1>7. ASSUME NEW q \in Proc, EnsureCommit(q) PROVE CallShape'
  BY <1>7 DEF EnsureCommit
<1>8. ASSUME NEW q \in Proc, WriteManifest(q) PROVE CallShape'
  BY <1>8 DEF WriteManifest, AllEnsured
<1>9. ASSUME NEW q \in Proc, PutCommit(q) PROVE CallShape'
  BY <1>9 DEF PutCommit
<1>10. ASSUME NEW q \in Proc, RetainReferences(q) PROVE CallShape'
  BY <1>10 DEF RetainReferences
<1>11. ASSUME NEW q \in Proc, CommitRejected(q) PROVE CallShape'
  BY <1>11 DEF CommitRejected
<1>12. ASSUME NEW q \in Proc, DeleteUnlink(q) PROVE CallShape'
  BY <1>12 DEF DeleteUnlink
<1>13. ASSUME NEW q \in Proc, RecoverCommit(q) PROVE CallShape'
  BY <1>13 DEF RecoverCommit
<1>14. ASSUME NEW q \in Proc, RecoverFail(q) PROVE CallShape'
  BY <1>14 DEF RecoverFail
<1>15. ASSUME NEW q \in Proc, EnsureTorn(q) PROVE CallShape'
  BY <1>15 DEF EnsureTorn
<1>16. ASSUME NEW q \in Proc, Interrupt(q) PROVE CallShape'
  BY <1>16 DEF Interrupt
<1>17. CASE UNCHANGED vars
  BY <1>17 DEF vars
<1> QED
  BY <1>1, <1>2, <1>3, <1>4, <1>5, <1>6, <1>7, <1>8, <1>9, <1>10, <1>11, <1>12, <1>13, <1>14, <1>15, <1>16, <1>17
  DEF Next, Continue

LEMMA LockStep == Basic /\ [Next]_vars => LockDiscipline'
<1> SUFFICES ASSUME Basic, [Next]_vars PROVE LockDiscipline'
  OBVIOUS
<1> USE SetsAssumption DEF Basic, TypeOK, LockDiscipline, Return, Goto, disk, index, calls, history, bounds
<1>1. ASSUME NEW q \in Proc, NEW j \in Job, PutStart(q, j) PROVE LockDiscipline'
  BY <1>1 DEF PutStart
<1>2. ASSUME NEW q \in Proc, NEW p \in Payload, DeleteCommit(q, p) PROVE LockDiscipline'
  BY <1>2 DEF DeleteCommit
<1>3. ASSUME NEW q \in Proc, NEW t \in Tape, ReleaseReference(q, t) PROVE LockDiscipline'
  BY <1>3 DEF ReleaseReference
<1>4. ASSUME NEW q \in Proc, RecoverStart(q) PROVE LockDiscipline'
  BY <1>4 DEF RecoverStart
<1>5. ASSUME NEW q \in Proc, EnsureKnown(q) PROVE LockDiscipline'
  BY <1>5 DEF EnsureKnown, MoreChunks
<1>6. ASSUME NEW q \in Proc, EnsureAppend(q) PROVE LockDiscipline'
  BY <1>6 DEF EnsureAppend, MoreChunks
<1>7. ASSUME NEW q \in Proc, EnsureCommit(q) PROVE LockDiscipline'
  BY <1>7 DEF EnsureCommit
<1>8. ASSUME NEW q \in Proc, WriteManifest(q) PROVE LockDiscipline'
  BY <1>8 DEF WriteManifest, AllEnsured
<1>9. ASSUME NEW q \in Proc, PutCommit(q) PROVE LockDiscipline'
  BY <1>9 DEF PutCommit
<1>10. ASSUME NEW q \in Proc, RetainReferences(q) PROVE LockDiscipline'
  BY <1>10 DEF RetainReferences, AllEnsured
<1>11. ASSUME NEW q \in Proc, CommitRejected(q) PROVE LockDiscipline'
  BY <1>11 DEF CommitRejected, AllEnsured
<1>12. ASSUME NEW q \in Proc, DeleteUnlink(q) PROVE LockDiscipline'
  BY <1>12 DEF DeleteUnlink
<1>13. ASSUME NEW q \in Proc, RecoverCommit(q) PROVE LockDiscipline'
  BY <1>13 DEF RecoverCommit
<1>14. ASSUME NEW q \in Proc, RecoverFail(q) PROVE LockDiscipline'
  BY <1>14 DEF RecoverFail
<1>15. ASSUME NEW q \in Proc, EnsureTorn(q) PROVE LockDiscipline'
  BY <1>15 DEF EnsureTorn, MoreChunks
<1>16. ASSUME NEW q \in Proc, Interrupt(q) PROVE LockDiscipline'
  BY <1>16 DEF Interrupt, LockDropped
<1>17. CASE UNCHANGED vars
  BY <1>17 DEF vars
<1> QED
  BY <1>1, <1>2, <1>3, <1>4, <1>5, <1>6, <1>7, <1>8, <1>9, <1>10, <1>11, <1>12, <1>13, <1>14, <1>15, <1>16, <1>17
  DEF Next, Continue

LEMMA BasicStep == Basic /\ [Next]_vars => Basic'
  BY TypeStep, ShapeStep, LockStep DEF Basic

-----------------------------------------------------------------------------
(* Segment files only grow: a record that is in one stays where it is.      *)
LEMMA FilesGrow ==
  ASSUME Basic, [Next]_vars, NEW s \in SegId, NEW i \in DOMAIN files[s]
  PROVE  i \in DOMAIN files'[s] /\ files'[s][i] = files[s][i]
<1> USE DEF Basic, TypeOK, disk
<1>1. CASE \E c \in Chunk \cup {Torn}, t \in SegId : files' = [files EXCEPT ![t] = Append(@, c)]
  BY <1>1
<1>2. CASE files' = files
  BY <1>2
<1>3. ASSUME NEW q \in Proc, EnsureAppend(q)
      PROVE  \E c \in Chunk \cup {Torn}, t \in SegId : files' = [files EXCEPT ![t] = Append(@, c)]
  BY <1>3, CurrentChunk DEF EnsureAppend
<1>4. ASSUME NEW q \in Proc, EnsureTorn(q)
      PROVE  \E c \in Chunk \cup {Torn}, t \in SegId : files' = [files EXCEPT ![t] = Append(@, c)]
  BY <1>4 DEF EnsureTorn
<1> QED
  BY <1>1, <1>2, <1>3, <1>4
  DEF Next, Continue, vars, PutStart, DeleteCommit, ReleaseReference, RecoverStart, EnsureKnown,
      EnsureCommit, WriteManifest, PutCommit, RetainReferences, CommitRejected, DeleteUnlink,
      RecoverCommit, RecoverFail, Interrupt

LEMMA HoldsStays ==
  ASSUME Basic, [Next]_vars, NEW c, NEW pl, Holds(pl, c)
  PROVE  /\ pl.seg \in SegId
         /\ pl.off \in 1 .. Len(files'[pl.seg])
         /\ files'[pl.seg][pl.off] = c
<1>1. pl.seg \in SegId /\ pl.off \in DOMAIN files[pl.seg] /\ files[pl.seg][pl.off] = c
  BY DEF Holds, Basic, TypeOK
<1>2. pl.off \in DOMAIN files'[pl.seg] /\ files'[pl.seg][pl.off] = c
  BY <1>1, FilesGrow
<1>3. files'[pl.seg] \in Seq(Chunk \cup {Torn})
  BY <1>1, BasicStep DEF Basic, TypeOK
<1> QED
  BY <1>1, <1>2, <1>3

LEMMA RecordedStays ==
  ASSUME Basic, [Next]_vars, NEW c
  PROVE  Recorded(c) => Recorded(c)'
  BY FilesGrow DEF Recorded

LEMMA HoldsRecorded == ASSUME Basic, NEW c, NEW pl, Holds(pl, c) PROVE Recorded(c)
  BY DEF Holds, Recorded, Basic, TypeOK

-----------------------------------------------------------------------------
(* How a step moves a process r, seen from the label it reaches.            *)

(* At "append" a process holds the lock: it got there by EnsureAppend, and  *)
(* no step of another process touches its chunk or its place.               *)
LEMMA ReachAppend ==
  ASSUME Basic, [Next]_vars, NEW r \in Proc,
         pc'[r] = "append"
  PROVE  \/ EnsureAppend(r)
         \/ /\ pc[r] = "append" /\ place' = place /\ at'[r] = at[r]
            /\ next'[r] = next[r] /\ job'[r] = job[r]
<1> DEFINE Goal == \/ EnsureAppend(r)
         \/ /\ pc[r] = "append" /\ place' = place /\ at'[r] = at[r]
            /\ next'[r] = next[r] /\ job'[r] = job[r]
<1> USE SetsAssumption DEF Basic, TypeOK, Return, Goto, disk, index, calls, history, bounds, CallShape, LockDiscipline
<1>1. ASSUME NEW q \in Proc, NEW j \in Job, PutStart(q, j) PROVE Goal
  BY <1>1 DEF PutStart
<1>2. ASSUME NEW q \in Proc, NEW p \in Payload, DeleteCommit(q, p) PROVE Goal
  BY <1>2 DEF DeleteCommit
<1>3. ASSUME NEW q \in Proc, NEW t \in Tape, ReleaseReference(q, t) PROVE Goal
  BY <1>3 DEF ReleaseReference
<1>4. ASSUME NEW q \in Proc, RecoverStart(q) PROVE Goal
  BY <1>4 DEF RecoverStart
<1>5. ASSUME NEW q \in Proc, EnsureKnown(q) PROVE Goal
  BY <1>5 DEF EnsureKnown, MoreChunks
<1>6. ASSUME NEW q \in Proc, EnsureAppend(q) PROVE Goal
  BY <1>6 DEF EnsureAppend, MoreChunks
<1>7. ASSUME NEW q \in Proc, EnsureCommit(q) PROVE Goal
  BY <1>7 DEF EnsureCommit
<1>8. ASSUME NEW q \in Proc, WriteManifest(q) PROVE Goal
  BY <1>8 DEF WriteManifest, AllEnsured
<1>9. ASSUME NEW q \in Proc, PutCommit(q) PROVE Goal
  BY <1>9 DEF PutCommit
<1>10. ASSUME NEW q \in Proc, RetainReferences(q) PROVE Goal
  BY <1>10 DEF RetainReferences, AllEnsured
<1>11. ASSUME NEW q \in Proc, CommitRejected(q) PROVE Goal
  BY <1>11 DEF CommitRejected, AllEnsured
<1>12. ASSUME NEW q \in Proc, DeleteUnlink(q) PROVE Goal
  BY <1>12 DEF DeleteUnlink
<1>13. ASSUME NEW q \in Proc, RecoverCommit(q) PROVE Goal
  BY <1>13 DEF RecoverCommit
<1>14. ASSUME NEW q \in Proc, RecoverFail(q) PROVE Goal
  BY <1>14 DEF RecoverFail
<1>15. ASSUME NEW q \in Proc, EnsureTorn(q) PROVE Goal
  BY <1>15 DEF EnsureTorn, MoreChunks
<1>16. ASSUME NEW q \in Proc, Interrupt(q) PROVE Goal
  BY <1>16 DEF Interrupt
<1>17. CASE UNCHANGED vars
  BY <1>17 DEF vars
<1> QED
  BY <1>1, <1>2, <1>3, <1>4, <1>5, <1>6, <1>7, <1>8, <1>9, <1>10, <1>11, <1>12, <1>13, <1>14, <1>15, <1>16, <1>17
  DEF Next, Continue

(* In the loop of a put, the next chunk moves on only past one that is       *)
(* indexed, or whose record was just appended.                              *)
LEMMA ReachEnsure ==
  ASSUME Basic, [Next]_vars, NEW r \in Proc,
         pc'[r] \in {"ensure", "append"}
  PROVE  \/ next'[r] = 1
         \/ /\ pc[r] \in {"ensure", "append"} /\ job'[r] = job[r]
            /\ \/ next'[r] = next[r]
               \/ /\ next'[r] = next[r] + 1
                  /\ Indexed(Current(r)) \/ pc[r] = "append"
<1> DEFINE Goal == \/ next'[r] = 1
         \/ /\ pc[r] \in {"ensure", "append"} /\ job'[r] = job[r]
            /\ \/ next'[r] = next[r]
               \/ /\ next'[r] = next[r] + 1
                  /\ Indexed(Current(r)) \/ pc[r] = "append"
<1> USE SetsAssumption DEF Basic, TypeOK, Return, Goto, disk, index, calls, history, bounds, CallShape, LockDiscipline
<1>1. ASSUME NEW q \in Proc, NEW j \in Job, PutStart(q, j) PROVE Goal
  BY <1>1 DEF PutStart
<1>2. ASSUME NEW q \in Proc, NEW p \in Payload, DeleteCommit(q, p) PROVE Goal
  BY <1>2 DEF DeleteCommit
<1>3. ASSUME NEW q \in Proc, NEW t \in Tape, ReleaseReference(q, t) PROVE Goal
  BY <1>3 DEF ReleaseReference
<1>4. ASSUME NEW q \in Proc, RecoverStart(q) PROVE Goal
  BY <1>4 DEF RecoverStart
<1>5. ASSUME NEW q \in Proc, EnsureKnown(q) PROVE Goal
  BY <1>5 DEF EnsureKnown, MoreChunks
<1>6. ASSUME NEW q \in Proc, EnsureAppend(q) PROVE Goal
  BY <1>6 DEF EnsureAppend, MoreChunks
<1>7. ASSUME NEW q \in Proc, EnsureCommit(q) PROVE Goal
  BY <1>7 DEF EnsureCommit
<1>8. ASSUME NEW q \in Proc, WriteManifest(q) PROVE Goal
  BY <1>8 DEF WriteManifest, AllEnsured
<1>9. ASSUME NEW q \in Proc, PutCommit(q) PROVE Goal
  BY <1>9 DEF PutCommit
<1>10. ASSUME NEW q \in Proc, RetainReferences(q) PROVE Goal
  BY <1>10 DEF RetainReferences, AllEnsured
<1>11. ASSUME NEW q \in Proc, CommitRejected(q) PROVE Goal
  BY <1>11 DEF CommitRejected, AllEnsured
<1>12. ASSUME NEW q \in Proc, DeleteUnlink(q) PROVE Goal
  BY <1>12 DEF DeleteUnlink
<1>13. ASSUME NEW q \in Proc, RecoverCommit(q) PROVE Goal
  BY <1>13 DEF RecoverCommit
<1>14. ASSUME NEW q \in Proc, RecoverFail(q) PROVE Goal
  BY <1>14 DEF RecoverFail
<1>15. ASSUME NEW q \in Proc, EnsureTorn(q) PROVE Goal
  BY <1>15 DEF EnsureTorn, MoreChunks
<1>16. ASSUME NEW q \in Proc, Interrupt(q) PROVE Goal
  BY <1>16 DEF Interrupt
<1>17. CASE UNCHANGED vars
  BY <1>17 DEF vars
<1> QED
  BY <1>1, <1>2, <1>3, <1>4, <1>5, <1>6, <1>7, <1>8, <1>9, <1>10, <1>11, <1>12, <1>13, <1>14, <1>15, <1>16, <1>17
  DEF Next, Continue

(* A put reaches its last transaction when every chunk is ensured.           *)
LEMMA ReachIndex ==
  ASSUME Basic, [Next]_vars, NEW r \in Proc,
         pc'[r] = "index"
  PROVE  job'[r] = job[r] /\ (pc[r] = "index" \/ AllEnsured(r))
<1> DEFINE Goal == job'[r] = job[r] /\ (pc[r] = "index" \/ AllEnsured(r))
<1> USE SetsAssumption DEF Basic, TypeOK, Return, Goto, disk, index, calls, history, bounds, CallShape, LockDiscipline
<1>1. ASSUME NEW q \in Proc, NEW j \in Job, PutStart(q, j) PROVE Goal
  BY <1>1 DEF PutStart
<1>2. ASSUME NEW q \in Proc, NEW p \in Payload, DeleteCommit(q, p) PROVE Goal
  BY <1>2 DEF DeleteCommit
<1>3. ASSUME NEW q \in Proc, NEW t \in Tape, ReleaseReference(q, t) PROVE Goal
  BY <1>3 DEF ReleaseReference
<1>4. ASSUME NEW q \in Proc, RecoverStart(q) PROVE Goal
  BY <1>4 DEF RecoverStart
<1>5. ASSUME NEW q \in Proc, EnsureKnown(q) PROVE Goal
  BY <1>5 DEF EnsureKnown, MoreChunks
<1>6. ASSUME NEW q \in Proc, EnsureAppend(q) PROVE Goal
  BY <1>6 DEF EnsureAppend, MoreChunks
<1>7. ASSUME NEW q \in Proc, EnsureCommit(q) PROVE Goal
  BY <1>7 DEF EnsureCommit
<1>8. ASSUME NEW q \in Proc, WriteManifest(q) PROVE Goal
  BY <1>8 DEF WriteManifest, AllEnsured
<1>9. ASSUME NEW q \in Proc, PutCommit(q) PROVE Goal
  BY <1>9 DEF PutCommit
<1>10. ASSUME NEW q \in Proc, RetainReferences(q) PROVE Goal
  BY <1>10 DEF RetainReferences, AllEnsured
<1>11. ASSUME NEW q \in Proc, CommitRejected(q) PROVE Goal
  BY <1>11 DEF CommitRejected, AllEnsured
<1>12. ASSUME NEW q \in Proc, DeleteUnlink(q) PROVE Goal
  BY <1>12 DEF DeleteUnlink
<1>13. ASSUME NEW q \in Proc, RecoverCommit(q) PROVE Goal
  BY <1>13 DEF RecoverCommit
<1>14. ASSUME NEW q \in Proc, RecoverFail(q) PROVE Goal
  BY <1>14 DEF RecoverFail
<1>15. ASSUME NEW q \in Proc, EnsureTorn(q) PROVE Goal
  BY <1>15 DEF EnsureTorn, MoreChunks
<1>16. ASSUME NEW q \in Proc, Interrupt(q) PROVE Goal
  BY <1>16 DEF Interrupt
<1>17. CASE UNCHANGED vars
  BY <1>17 DEF vars
<1> QED
  BY <1>1, <1>2, <1>3, <1>4, <1>5, <1>6, <1>7, <1>8, <1>9, <1>10, <1>11, <1>12, <1>13, <1>14, <1>15, <1>16, <1>17
  DEF Next, Continue

(* A rebuild under way is the only call that touches the index.              *)
LEMMA ReachRebuild ==
  ASSUME Basic, [Next]_vars, NEW r \in Proc,
         pc'[r] = "rebuild"
  PROVE  RecoverStart(r) \/ (pc[r] = "rebuild" /\ UNCHANGED <<refCount, place, chunkRefs, payloads>>)
<1> DEFINE Goal == RecoverStart(r) \/ (pc[r] = "rebuild" /\ UNCHANGED <<refCount, place, chunkRefs, payloads>>)
<1> USE SetsAssumption DEF Basic, TypeOK, Return, Goto, disk, index, calls, history, bounds, CallShape, LockDiscipline
<1>1. ASSUME NEW q \in Proc, NEW j \in Job, PutStart(q, j) PROVE Goal
  BY <1>1 DEF PutStart
<1>2. ASSUME NEW q \in Proc, NEW p \in Payload, DeleteCommit(q, p) PROVE Goal
  BY <1>2 DEF DeleteCommit
<1>3. ASSUME NEW q \in Proc, NEW t \in Tape, ReleaseReference(q, t) PROVE Goal
  BY <1>3 DEF ReleaseReference
<1>4. ASSUME NEW q \in Proc, RecoverStart(q) PROVE Goal
  BY <1>4 DEF RecoverStart
<1>5. ASSUME NEW q \in Proc, EnsureKnown(q) PROVE Goal
  BY <1>5 DEF EnsureKnown, MoreChunks
<1>6. ASSUME NEW q \in Proc, EnsureAppend(q) PROVE Goal
  BY <1>6 DEF EnsureAppend, MoreChunks
<1>7. ASSUME NEW q \in Proc, EnsureCommit(q) PROVE Goal
  BY <1>7 DEF EnsureCommit
<1>8. ASSUME NEW q \in Proc, WriteManifest(q) PROVE Goal
  BY <1>8 DEF WriteManifest, AllEnsured
<1>9. ASSUME NEW q \in Proc, PutCommit(q) PROVE Goal
  BY <1>9 DEF PutCommit
<1>10. ASSUME NEW q \in Proc, RetainReferences(q) PROVE Goal
  BY <1>10 DEF RetainReferences, AllEnsured
<1>11. ASSUME NEW q \in Proc, CommitRejected(q) PROVE Goal
  BY <1>11 DEF CommitRejected, AllEnsured
<1>12. ASSUME NEW q \in Proc, DeleteUnlink(q) PROVE Goal
  BY <1>12 DEF DeleteUnlink
<1>13. ASSUME NEW q \in Proc, RecoverCommit(q) PROVE Goal
  BY <1>13 DEF RecoverCommit
<1>14. ASSUME NEW q \in Proc, RecoverFail(q) PROVE Goal
  BY <1>14 DEF RecoverFail
<1>15. ASSUME NEW q \in Proc, EnsureTorn(q) PROVE Goal
  BY <1>15 DEF EnsureTorn, MoreChunks
<1>16. ASSUME NEW q \in Proc, Interrupt(q) PROVE Goal
  BY <1>16 DEF Interrupt
<1>17. CASE UNCHANGED vars
  BY <1>17 DEF vars
<1> QED
  BY <1>1, <1>2, <1>3, <1>4, <1>5, <1>6, <1>7, <1>8, <1>9, <1>10, <1>11, <1>12, <1>13, <1>14, <1>15, <1>16, <1>17
  DEF Next, Continue

-----------------------------------------------------------------------------
(* Which actions write what.                                                *)
LEMMA PlaceWriters ==
  ASSUME [Next]_vars
  PROVE  \/ place' = place
         \/ \E q \in Proc : EnsureCommit(q) \/ RecoverStart(q) \/ RecoverCommit(q)
  BY DEF Next, Continue, vars, disk, index, PutStart, DeleteCommit, ReleaseReference, EnsureKnown,
      EnsureAppend, WriteManifest, PutCommit, RetainReferences, CommitRejected, DeleteUnlink,
      RecoverFail, EnsureTorn, Interrupt

LEMMA RowWriters ==
  ASSUME [Next]_vars
  PROVE  \/ UNCHANGED <<payloads, chunkRefs, refCount>>
         \/ \E q \in Proc : EnsureCommit(q) \/ PutCommit(q) \/ RetainReferences(q)
                            \/ RecoverStart(q) \/ RecoverCommit(q)
         \/ \E q \in Proc, t \in Tape : ReleaseReference(q, t)
         \/ \E q \in Proc, p \in Payload : DeleteCommit(q, p)
  BY DEF Next, Continue, vars, disk, index, PutStart, EnsureKnown,
      EnsureAppend, WriteManifest, CommitRejected, DeleteUnlink, RecoverFail, EnsureTorn, Interrupt

LEMMA ManifestWriters ==
  ASSUME [Next]_vars
  PROVE  manifests' = manifests \/ \E q \in Proc : WriteManifest(q) \/ DeleteUnlink(q)
  BY DEF Next, Continue, vars, disk, PutStart, DeleteCommit, ReleaseReference, RecoverStart,
      EnsureKnown, EnsureAppend, EnsureCommit, PutCommit, RetainReferences, CommitRejected,
      RecoverCommit, RecoverFail, EnsureTorn, Interrupt

-----------------------------------------------------------------------------
(* The index against the segments.                                          *)

LEMMA IndexSoundStep ==
  ASSUME Basic, IndexSound, Appended, [Next]_vars
  PROVE  IndexSound'
<1> SUFFICES ASSUME NEW c \in Chunk, place'[c] # NoPlace
             PROVE  \E pl : pl = place'[c] /\ Holds(pl, c)
  BY HoldsStays DEF IndexSound, Indexed, Holds
<1>1. ASSUME NEW q \in Proc, EnsureCommit(q)
      PROVE  place'[c] = place[c] \/ Holds(place'[c], c)
  BY <1>1, CurrentChunk DEF EnsureCommit, Appended, Basic, TypeOK
<1>2. ASSUME NEW q \in Proc, RecoverStart(q) PROVE FALSE
  BY <1>2 DEF RecoverStart
<1>3. ASSUME NEW q \in Proc, RecoverCommit(q) PROVE Holds(place'[c], c)
  BY <1>3, FirstRecordIsOne DEF RecoverCommit, Basic
<1>4. place'[c] = place[c] => Holds(place'[c], c)
  BY DEF IndexSound, Indexed
<1> QED
  BY <1>1, <1>2, <1>3, <1>4, PlaceWriters

(* Only a rebuild takes a chunk out of the index, and one that commits      *)
(* brings every recorded chunk back.                                        *)
LEMMA IndexedStays ==
  ASSUME Basic, Appended, [Next]_vars, NEW c \in Chunk, Indexed(c),
         \A q \in Proc : ~ RecoverStart(q)
  PROVE  place'[c] # NoPlace \/ \E q \in Proc : RecoverCommit(q)
<1>1. ASSUME NEW q \in Proc, EnsureCommit(q) PROVE place'[c] # NoPlace
  <2>1. Holds(at[q], Current(q))
    BY <1>1 DEF EnsureCommit, Appended
  <2>2. at[q] # NoPlace
    BY <2>1 DEF Holds, SegId, NoPlace
  <2> QED
    BY <1>1, <2>2 DEF EnsureCommit, Indexed, Basic, TypeOK
<1> QED
  BY <1>1, PlaceWriters DEF Indexed

LEMMA AppendedStep ==
  ASSUME Basic, Appended, [Next]_vars
  PROVE  Appended'
<1> SUFFICES ASSUME NEW r \in Proc, pc'[r] = "append"
             PROVE  Holds(at[r], Current(r))' /\ ~ Indexed(Current(r))'
  BY DEF Appended
<1> USE DEF Basic, TypeOK
<1>1. CASE EnsureAppend(r)
  <2>1. Current(r)' = Current(r) /\ place' = place /\ ~ Indexed(Current(r))
    BY <1>1 DEF EnsureAppend, Current, index
  <2>2. SelectSegment \in SegId /\ Current(r) \in Chunk
    BY <1>1, CurrentChunk DEF EnsureAppend
  <2>3. /\ at'[r] = [seg |-> SelectSegment, off |-> Len(files[SelectSegment]) + 1]
        /\ files'[SelectSegment] = Append(files[SelectSegment], Current(r))
    BY <1>1, <2>2 DEF EnsureAppend, EndOfFile
  <2>4. /\ Len(files'[SelectSegment]) = Len(files[SelectSegment]) + 1
        /\ files'[SelectSegment][Len(files[SelectSegment]) + 1] = Current(r)
    BY <2>2, <2>3
  <2> QED
    BY <2>1, <2>2, <2>3, <2>4 DEF Holds, Indexed
<1>2. CASE /\ pc[r] = "append" /\ place' = place /\ at'[r] = at[r]
           /\ next'[r] = next[r] /\ job'[r] = job[r]
  <2>1. Current(r)' = Current(r)
    BY <1>2 DEF Current
  <2>2. Holds(at[r], Current(r)) /\ ~ Indexed(Current(r))
    BY <1>2 DEF Appended
  <2> QED
    BY <1>2, <2>1, <2>2, HoldsStays DEF Holds, Indexed
<1> QED
  BY <1>1, <1>2, ReachAppend

LEMMA IndexedRecorded ==
  ASSUME Basic, IndexSound, NEW c \in Chunk, Indexed(c)
  PROVE  Recorded(c)
  BY HoldsRecorded DEF IndexSound

LEMMA EnsuredStep ==
  ASSUME Basic, IndexSound, Appended, Ensured, [Next]_vars
  PROVE  Ensured'
<1> USE DEF Basic, TypeOK
<1>1. ASSUME NEW r \in Proc, pc'[r] \in {"ensure", "append"}, NEW i \in 1 .. next'[r] - 1,
             NEW c, c = Content[job'[r]][i]
      PROVE  Recorded(c)'
  <2>1. next'[r] # 1
    BY <1>1, BasicStep
  <2>2. /\ pc[r] \in {"ensure", "append"} /\ job'[r] = job[r]
        /\ \/ next'[r] = next[r]
           \/ /\ next'[r] = next[r] + 1
              /\ Indexed(Current(r)) \/ pc[r] = "append"
    BY <1>1, <2>1, ReachEnsure
  <2>3. CASE i \in 1 .. next[r] - 1
    <3>1. Recorded(c)
      BY <1>1, <2>2, <2>3 DEF Ensured
    <3> QED
      BY <3>1, RecordedStays
  <2>4. CASE i \notin 1 .. next[r] - 1
    <3>1. i = next[r] /\ (Indexed(Current(r)) \/ pc[r] = "append") /\ next'[r] = next[r] + 1
      BY <1>1, <2>2, <2>4
    <3>2. next[r] \in 1 .. Len(Content[job[r]]) /\ job[r] \in Job
      BY <1>1, <2>2, <3>1, BasicStep DEF CallShape
    <3>3. Current(r) \in Chunk
      BY <3>2, ContentAssumption DEF Current
    <3>4. Recorded(Current(r))
      <4>1. CASE Indexed(Current(r))
        BY <3>3, <4>1, IndexedRecorded
      <4>2. CASE pc[r] = "append"
        BY <4>2, HoldsRecorded DEF Appended
      <4> QED
        BY <3>1, <4>1, <4>2
    <3> QED
      BY <1>1, <2>2, <3>1, <3>4, RecordedStays DEF Current
  <2> QED
    BY <2>3, <2>4
<1>2. ASSUME NEW r \in Proc, pc'[r] = "index", NEW c \in ChunksOf(job'[r])
      PROVE  Recorded(c)'
  <2>1. job'[r] = job[r] /\ (pc[r] = "index" \/ AllEnsured(r))
    BY <1>2, ReachIndex
  <2>2. CASE pc[r] = "index"
    BY <1>2, <2>1, <2>2, RecordedStays DEF Ensured
  <2>3. CASE AllEnsured(r)
    <3>1. PICK i \in DOMAIN Content[job[r]] : Content[job[r]][i] = c
      BY <1>2, <2>1 DEF ChunksOf
    <3>2. i \in 1 .. next[r] - 1
      BY <2>3, <3>1, ContentAssumption DEF AllEnsured, CallShape
    <3>3. Recorded(Content[job[r]][i])
      BY <2>3, <3>2 DEF Ensured, AllEnsured
    <3> QED
      BY <3>1, <3>3, RecordedStays
  <2> QED
    BY <2>1, <2>2, <2>3
<1>3. \A r \in Proc : pc'[r] \in {"ensure", "append"} =>
        \A i \in 1 .. next'[r] - 1 : Recorded(Content[job[r]][i])'
  BY <1>1
<1>4. \A r \in Proc : pc'[r] = "index" => \A c \in ChunksOf(job'[r]) : Recorded(c)'
  BY <1>2
<1> QED
  BY <1>3, <1>4 DEF Ensured, ChunksOf

(* A put that has ensured all chunks of its payload has them recorded.       *)
LEMMA AllRecorded ==
  ASSUME Basic, Ensured, NEW q \in Proc, AllEnsured(q), NEW c \in ChunksOf(job[q])
  PROVE  Recorded(c)
<1>1. PICK i \in DOMAIN Content[job[q]] : Content[job[q]][i] = c
  BY DEF ChunksOf
<1>2. i \in 1 .. next[q] - 1
  BY <1>1, ContentAssumption DEF AllEnsured, Basic, TypeOK, CallShape
<1> QED
  BY <1>1, <1>2 DEF Ensured, AllEnsured

LEMMA ManifestsStep ==
  ASSUME Basic, Ensured, ManifestsRecorded, [Next]_vars
  PROVE  ManifestsRecorded'
<1> SUFFICES ASSUME NEW p \in manifests', NEW c \in ChunksOf(p)
             PROVE  Recorded(c)
  BY RecordedStays DEF ManifestsRecorded, ChunksOf
<1>1. ASSUME NEW q \in Proc, WriteManifest(q) PROVE Recorded(c)
  BY <1>1, AllRecorded DEF WriteManifest, ManifestsRecorded
<1>2. ASSUME NEW q \in Proc, DeleteUnlink(q) PROVE Recorded(c)
  BY <1>2 DEF DeleteUnlink, UnlinkManifest, ManifestsRecorded
<1>3. CASE manifests' = manifests
  BY <1>3 DEF ManifestsRecorded
<1> QED
  BY <1>1, <1>2, <1>3, ManifestWriters

LEMMA RebuildingStep ==
  ASSUME Basic, Rebuilding, [Next]_vars
  PROVE  Rebuilding'
<1> SUFFICES ASSUME NEW r \in Proc, pc'[r] = "rebuild"
             PROVE  /\ chunkRefs' = {} /\ payloads' = {}
                    /\ \A c \in Chunk : place'[c] = NoPlace /\ refCount'[c] = 0
  BY DEF Rebuilding, Indexed
<1> QED
  BY ReachRebuild DEF RecoverStart, Rebuilding, Indexed

LEMMA NoDanglingStep ==
  ASSUME Basic, Appended, Rebuilding, NoDangling, [Next]_vars
  PROVE  NoDangling'
<1> USE DEF Basic, TypeOK
<1>1. ASSUME NEW q \in Proc, RecoverStart(q) PROVE NoDangling'
  BY <1>1 DEF RecoverStart, NoDangling
<1>2. ASSUME NEW q \in Proc, RecoverCommit(q) PROVE NoDangling'
  <2>1. payloads' = manifests /\ chunkRefs' = {}
    BY <1>2 DEF RecoverCommit, Relist, Rebuilding
  <2>2. \A p \in manifests : \A c \in ChunksOf(p) : c \in Chunk /\ Recorded(c)
    BY <1>2, ContentAssumption DEF RecoverCommit, Scannable, ChunksOf, Job
  <2>3. \A c \in Chunk : Recorded(c) => place'[c] # NoPlace
    BY <1>2, FirstRecordIsOne DEF RecoverCommit
  <2> QED
    BY <2>1, <2>2, <2>3 DEF NoDangling, Indexed, ChunksOf
<1>3. CASE \A q \in Proc : ~ RecoverStart(q) /\ ~ RecoverCommit(q)
  <2>1. \A c \in Chunk : Indexed(c) => place'[c] # NoPlace
    BY <1>3, IndexedStays
  <2>2. ASSUME NEW p \in payloads', NEW c \in ChunksOf(p) PROVE place'[c] # NoPlace
    <3>1. c \in Chunk
      BY <2>2, BasicStep, ContentAssumption DEF ChunksOf, Job
    <3>2. p \in payloads \/ \E q \in Proc : PutCommit(q) /\ p = job[q]
      BY <1>3, <2>2, RowWriters DEF EnsureCommit, PutCommit, RetainReferences,
         ReleaseReference, DeleteCommit
    <3>3. Indexed(c)
      BY <2>2, <3>1, <3>2 DEF NoDangling, PutCommit, AllIndexed
    <3> QED
      BY <2>1, <3>1, <3>3
  <2>3. ASSUME NEW t, NEW c, <<t, c>> \in chunkRefs' PROVE place'[c] # NoPlace
    <3>1. c \in Chunk
      BY <2>3, BasicStep
    <3>2. <<t, c>> \in chunkRefs \/ \E q \in Proc : RetainReferences(q) /\ c \in ChunksOf(job[q])
      <4>1. ASSUME NEW q \in Proc, RetainReferences(q)
            PROVE  <<t, c>> \in chunkRefs \/ c \in ChunksOf(job[q])
        BY <2>3, <4>1 DEF RetainReferences
      <4>2. ASSUME NEW q \in Proc, NEW u \in Tape, ReleaseReference(q, u)
            PROVE  <<t, c>> \in chunkRefs
        BY <2>3, <4>2 DEF ReleaseReference
      <4>3. ASSUME chunkRefs' = chunkRefs PROVE <<t, c>> \in chunkRefs
        BY <2>3, <4>3
      <4> QED
        BY <1>3, <4>1, <4>2, <4>3, RowWriters DEF EnsureCommit, PutCommit, DeleteCommit
    <3>3. Indexed(c)
      BY <3>1, <3>2 DEF NoDangling, RetainReferences, AllIndexed
    <3> QED
      BY <2>1, <3>1, <3>3
  <2>4. \A x \in chunkRefs' : x = <<x[1], x[2]>>
    BY BasicStep
  <2> QED
    BY <2>2, <2>3, <2>4 DEF NoDangling, Indexed, ChunksOf
<1> QED
  BY <1>1, <1>2, <1>3

-----------------------------------------------------------------------------
(* Reference counts.                                                        *)

(* A payload row adds as many payload_chunks rows of c as c occurs in it.    *)
LEMMA AddPayloadChunks ==
  ASSUME NEW P \in SUBSET Payload, NEW p \in Payload, p \notin P, NEW c
  PROVE  Cardinality(PayloadChunks(P \cup {p}, c))
           = Cardinality(PayloadChunks(P, c)) + Occurs(p, c)
<1> DEFINE occ == {i \in DOMAIN Content[p] : Content[p][i] = c}
           old == PayloadChunks(P, c)
           new == {p} \X occ
<1>1. PayloadChunks(P \cup {p}, c) = old \cup new
  BY DEF PayloadChunks
<1>2. old \cap new = {}
  BY DEF PayloadChunks
<1>3. IsFiniteSet(occ) /\ Cardinality(occ) \in Nat
  <2>1. IsFiniteSet(DOMAIN Content[p])
    BY ContentAssumption, FS_Interval DEF Job
  <2> QED
    BY <2>1, FS_Subset, FS_CardinalityType
<1>4. IsFiniteSet(new) /\ Cardinality(new) = Cardinality(occ)
  <2>1. IsFiniteSet({p}) /\ Cardinality({p}) = 1
    BY FS_Singleton
  <2>2. IsFiniteSet(new) /\ Cardinality(new) = Cardinality({p}) * Cardinality(occ)
    BY <1>3, <2>1, FS_Product
  <2> QED
    BY <1>3, <2>1, <2>2
<1>5. IsFiniteSet(old) /\ Cardinality(old) \in Nat
  BY PayloadChunksFinite
<1>6. Cardinality(old \cup new) = Cardinality(old) + Cardinality(new) - Cardinality(old \cap new)
  BY <1>4, <1>5, FS_Union
<1>7. Cardinality(old \cap new) = 0
  BY <1>2, FS_EmptySet
<1>8. Occurs(p, c) = Cardinality(occ)
  BY DEF Occurs
<1>9. Cardinality(PayloadChunks(P \cup {p}, c)) = Cardinality(old \cup new)
  BY <1>1
<1>10. Cardinality(old \cup new) = Cardinality(old) + Cardinality(occ)
  <2> HIDE DEF occ, old, new
  <2> QED
    BY <1>3, <1>4, <1>5, <1>6, <1>7
<1> QED
  BY <1>8, <1>9, <1>10

LEMMA ReferencesFinite ==
  ASSUME NEW c PROVE IsFiniteSet(ReferencesTo(c)) /\ Cardinality(ReferencesTo(c)) \in Nat
  BY SetsAssumption, FS_Subset, FS_CardinalityType DEF ReferencesTo

LEMMA ReferencesFinitePrime ==
  ASSUME NEW c PROVE IsFiniteSet(ReferencesTo(c)') /\ Cardinality(ReferencesTo(c)') \in Nat
  BY SetsAssumption, FS_Subset, FS_CardinalityType DEF ReferencesTo

(* A chunk that is not indexed has no row that names it.                    *)
LEMMA NotIndexedNotNamed ==
  ASSUME Basic, NoDangling, NEW c \in Chunk, ~ Indexed(c)
  PROVE  PayloadChunks(payloads, c) = {} /\ ReferencesTo(c) = {}
<1>1. ASSUME NEW x \in PayloadChunks(payloads, c) PROVE FALSE
  <2>1. PICK p \in payloads : x \in {p} \X DOMAIN Content[p]
    BY <1>1 DEF PayloadChunks
  <2>2. x[1] = p /\ x[2] \in DOMAIN Content[p] /\ Content[p][x[2]] = c
    BY <1>1, <2>1 DEF PayloadChunks
  <2> QED
    BY <2>2 DEF NoDangling, ChunksOf
<1>2. ASSUME NEW t \in ReferencesTo(c) PROVE FALSE
  BY <1>2 DEF ReferencesTo, NoDangling
<1> QED
  BY <1>1, <1>2

(* The count of c after a step, from what the step does to its rows.        *)
Counted(c) == Cardinality(PayloadChunks(payloads, c)) + Cardinality(ReferencesTo(c))

LEMMA CountStep ==
  ASSUME Basic, Appended, Rebuilding, NoDangling, RefCountExact, [Next]_vars, NEW c \in Chunk
  PROVE  refCount'[c] = Counted(c)'
<1> DEFINE rows == Cardinality(PayloadChunks(payloads, c))
           refs == Cardinality(ReferencesTo(c))
<1>0. rows \in Nat /\ refs \in Nat /\ refCount[c] = rows + refs
  BY PayloadChunksFinite, ReferencesFinite DEF RefCountExact, Basic, TypeOK
<1> USE DEF Basic, TypeOK
<1>1. ASSUME NEW q \in Proc, EnsureCommit(q) PROVE refCount'[c] = Counted(c)'
  <2>1. Counted(c)' = Counted(c)
    BY <1>1 DEF EnsureCommit, Counted, PayloadChunks, ReferencesTo
  <2>2. CASE c = Current(q)
    <3>1. ~ Indexed(c)
      BY <1>1, <2>2 DEF EnsureCommit, Appended
    <3>2. PayloadChunks(payloads, c) = {} /\ ReferencesTo(c) = {}
      BY <3>1, NotIndexedNotNamed
    <3>3. Counted(c) = 0
      BY <3>2, FS_EmptySet DEF Counted
    <3> QED
      BY <1>1, <2>1, <2>2, <3>3 DEF EnsureCommit
  <2>3. CASE c # Current(q)
    BY <1>0, <1>1, <2>1, <2>3 DEF EnsureCommit, Counted
  <2> QED
    BY <2>2, <2>3
<1>2. ASSUME NEW q \in Proc, PutCommit(q) PROVE refCount'[c] = Counted(c)'
  <2> DEFINE p == job[q]
  <2>1. /\ p \in Payload /\ payloads' = payloads \cup {p} /\ chunkRefs' = chunkRefs
        /\ refCount'[c] = IF p \in payloads THEN refCount[c] ELSE refCount[c] + Occurs(p, c)
    BY <1>2 DEF PutCommit, CallShape
  <2>2. Cardinality(ReferencesTo(c)') = refs
    BY <2>1 DEF ReferencesTo
  <2>3. Cardinality(PayloadChunks(payloads', c)) = IF p \in payloads THEN rows ELSE rows + Occurs(p, c)
    <3>1. CASE p \in payloads
      <4>1. payloads' = payloads
        BY <2>1, <3>1
      <4> QED
        BY <3>1, <4>1
    <3>2. CASE p \notin payloads
      BY <2>1, <3>2, AddPayloadChunks
    <3> QED
      BY <3>1, <3>2
  <2>4. Occurs(p, c) \in Nat
    BY <2>1, OccursType DEF Job
  <2>5. Counted(c)' = Cardinality(PayloadChunks(payloads', c)) + Cardinality(ReferencesTo(c)')
    BY DEF Counted, PayloadChunks
  <2> HIDE DEF rows, refs, p
  <2> QED
    BY <1>0, <2>1, <2>2, <2>3, <2>4, <2>5
<1>3. ASSUME NEW q \in Proc, NEW p \in Payload, DeleteCommit(q, p) PROVE refCount'[c] = Counted(c)'
  <2>1. /\ payloads' = payloads \ {p} /\ payloads = payloads' \cup {p} /\ chunkRefs' = chunkRefs
        /\ refCount'[c] = Decrement(refCount[c], Occurs(p, c))
    BY <1>3 DEF DeleteCommit
  <2>2. Cardinality(ReferencesTo(c)') = refs
    BY <2>1 DEF ReferencesTo
  <2>3. rows = Cardinality(PayloadChunks(payloads', c)) + Occurs(p, c)
    <3>1. Cardinality(PayloadChunks((payloads \ {p}) \cup {p}, c))
            = Cardinality(PayloadChunks(payloads \ {p}, c)) + Occurs(p, c)
      BY AddPayloadChunks
    <3>2. PayloadChunks(payloads', c) = PayloadChunks(payloads \ {p}, c)
      BY <2>1
    <3>3. (payloads \ {p}) \cup {p} = payloads
      BY <2>1
    <3> QED
      BY <3>1, <3>2, <3>3
  <2>4. Occurs(p, c) \in Nat /\ Cardinality(PayloadChunks(payloads', c)) \in Nat
    BY <2>1, OccursType, PayloadChunksFinite DEF Job
  <2>5. Counted(c)' = Cardinality(PayloadChunks(payloads', c)) + Cardinality(ReferencesTo(c)')
    BY DEF Counted, PayloadChunks
  <2> HIDE DEF rows, refs
  <2> QED
    <3>1. refCount[c] >= Occurs(p, c)
      BY <1>0, <2>3, <2>4
    <3>2. refCount'[c] = refCount[c] - Occurs(p, c)
      BY <2>1, <3>1 DEF Decrement
    <3> QED
      BY <1>0, <2>2, <2>3, <2>4, <2>5, <3>2
<1>4. ASSUME NEW q \in Proc, RetainReferences(q) PROVE refCount'[c] = Counted(c)'
  <2> DEFINE t == job[q]
             add == c \in ChunksOf(t) /\ <<t, c>> \notin chunkRefs
  <2>1. /\ t \in Tape /\ payloads' = payloads
        /\ chunkRefs' = chunkRefs \cup ({t} \X ChunksOf(t))
        /\ refCount'[c] = IF add THEN refCount[c] + 1 ELSE refCount[c]
    BY <1>4 DEF RetainReferences
  <2>2. Cardinality(ReferencesTo(c)') = IF add THEN refs + 1 ELSE refs
    <3>1. CASE add
      <4>1. ReferencesTo(c)' = ReferencesTo(c) \cup {t} /\ t \notin ReferencesTo(c)
        BY <2>1, <3>1 DEF ReferencesTo
      <4> QED
        BY <3>1, <4>1, ReferencesFinite, FS_AddElement
    <3>2. CASE ~ add
      <4>1. ReferencesTo(c)' = ReferencesTo(c)
        BY <2>1, <3>2 DEF ReferencesTo
      <4> QED
        BY <3>2, <4>1
    <3> QED
      BY <3>1, <3>2
  <2>3. Counted(c)' = rows + Cardinality(ReferencesTo(c)')
    BY <2>1 DEF Counted, PayloadChunks
  <2> HIDE DEF rows, refs, t, add
  <2> QED
    BY <1>0, <2>1, <2>2, <2>3
<1>5. ASSUME NEW q \in Proc, NEW t \in Tape, ReleaseReference(q, t) PROVE refCount'[c] = Counted(c)'
  <2>1. /\ payloads' = payloads
        /\ refCount'[c] = IF t \in ReferencesTo(c) THEN Decrement(refCount[c], 1) ELSE refCount[c]
    BY <1>5 DEF ReleaseReference, ReferencesTo
  <2>2. ReferencesTo(c)' = ReferencesTo(c) \ {t}
    BY <1>5 DEF ReleaseReference, ReferencesTo
  <2>3. Cardinality(ReferencesTo(c)') = IF t \in ReferencesTo(c) THEN refs - 1 ELSE refs
    BY <2>2, ReferencesFinite, FS_RemoveElement
  <2>4. Counted(c)' = rows + Cardinality(ReferencesTo(c)')
    BY <2>1 DEF Counted, PayloadChunks
  <2>5. Cardinality(ReferencesTo(c)') \in Nat
    BY ReferencesFinitePrime
  <2> HIDE DEF rows, refs
  <2> QED
    BY <1>0, <2>1, <2>3, <2>4, <2>5 DEF Decrement
<1>6. ASSUME NEW q \in Proc, RecoverStart(q) PROVE refCount'[c] = Counted(c)'
  <2>1. refCount'[c] = 0 /\ PayloadChunks(payloads, c)' = {} /\ ReferencesTo(c)' = {}
    BY <1>6 DEF RecoverStart, PayloadChunks, ReferencesTo
  <2> QED
    BY <2>1, FS_EmptySet DEF Counted
<1>7. ASSUME NEW q \in Proc, RecoverCommit(q) PROVE refCount'[c] = Counted(c)'
  <2>1. /\ payloads' = manifests /\ chunkRefs' = {}
        /\ refCount'[c] = Cardinality(PayloadChunks(manifests, c))
    BY <1>7 DEF RecoverCommit, Relist, Rebuilding
  <2>2. PayloadChunks(payloads, c)' = PayloadChunks(manifests, c) /\ ReferencesTo(c)' = {}
    BY <2>1 DEF PayloadChunks, ReferencesTo
  <2>3. Cardinality(PayloadChunks(manifests, c)) \in Nat
    BY PayloadChunksFinite
  <2> QED
    BY <2>1, <2>2, <2>3, FS_EmptySet DEF Counted
<1>8. CASE UNCHANGED <<payloads, chunkRefs, refCount>>
  <2>1. Counted(c)' = Counted(c) /\ refCount' = refCount
    BY <1>8 DEF Counted, PayloadChunks, ReferencesTo
  <2> QED
    BY <1>0, <2>1 DEF Counted
<1> QED
  BY <1>1, <1>2, <1>3, <1>4, <1>5, <1>6, <1>7, <1>8, RowWriters

LEMMA CountsStep ==
  ASSUME Basic, Appended, Rebuilding, NoDangling, RefCountExact, [Next]_vars
  PROVE  RefCountExact'
  BY CountStep DEF RefCountExact, Counted

-----------------------------------------------------------------------------
(* What is acknowledged.                                                    *)

(* A put that a delete of its payload overlaps knows it; one that no delete *)
(* overlapped still has its manifest when it commits.                       *)
LEMMA OverlapsStep == Basic /\ Overlaps /\ [Next]_vars => Overlaps'
<1> SUFFICES ASSUME Basic /\ Overlaps, [Next]_vars PROVE Overlaps'
  OBVIOUS
<1> USE SetsAssumption DEF Basic, TypeOK, CallShape, LockDiscipline, Overlaps, Putting, Deleting, Return, Goto, disk, index, calls, history, bounds
<1>1. ASSUME NEW q \in Proc, NEW j \in Job, PutStart(q, j) PROVE Overlaps'
  BY <1>1 DEF PutStart
<1>2. ASSUME NEW q \in Proc, NEW p \in Payload, DeleteCommit(q, p) PROVE Overlaps'
  BY <1>2 DEF DeleteCommit
<1>3. ASSUME NEW q \in Proc, NEW t \in Tape, ReleaseReference(q, t) PROVE Overlaps'
  BY <1>3 DEF ReleaseReference
<1>4. ASSUME NEW q \in Proc, RecoverStart(q) PROVE Overlaps'
  BY <1>4 DEF RecoverStart
<1>5. ASSUME NEW q \in Proc, EnsureKnown(q) PROVE Overlaps'
  BY <1>5 DEF EnsureKnown, MoreChunks
<1>6. ASSUME NEW q \in Proc, EnsureAppend(q) PROVE Overlaps'
  BY <1>6 DEF EnsureAppend, MoreChunks
<1>7. ASSUME NEW q \in Proc, EnsureCommit(q) PROVE Overlaps'
  BY <1>7 DEF EnsureCommit
<1>8. ASSUME NEW q \in Proc, WriteManifest(q) PROVE Overlaps'
  BY <1>8 DEF WriteManifest, AllEnsured
<1>9. ASSUME NEW q \in Proc, PutCommit(q) PROVE Overlaps'
  BY <1>9 DEF PutCommit
<1>10. ASSUME NEW q \in Proc, RetainReferences(q) PROVE Overlaps'
  BY <1>10 DEF RetainReferences, AllEnsured
<1>11. ASSUME NEW q \in Proc, CommitRejected(q) PROVE Overlaps'
  BY <1>11 DEF CommitRejected, AllEnsured
<1>12. ASSUME NEW q \in Proc, DeleteUnlink(q) PROVE Overlaps'
  BY <1>12 DEF DeleteUnlink, UnlinkManifest
<1>13. ASSUME NEW q \in Proc, RecoverCommit(q) PROVE Overlaps'
  BY <1>13 DEF RecoverCommit
<1>14. ASSUME NEW q \in Proc, RecoverFail(q) PROVE Overlaps'
  BY <1>14 DEF RecoverFail
<1>15. ASSUME NEW q \in Proc, EnsureTorn(q) PROVE Overlaps'
  BY <1>15 DEF EnsureTorn, MoreChunks
<1>16. ASSUME NEW q \in Proc, Interrupt(q) PROVE Overlaps'
  BY <1>16 DEF Interrupt
<1>17. CASE UNCHANGED vars
  BY <1>17 DEF vars
<1> QED
  BY <1>1, <1>2, <1>3, <1>4, <1>5, <1>6, <1>7, <1>8, <1>9, <1>10, <1>11, <1>12, <1>13, <1>14, <1>15, <1>16, <1>17
  DEF Next, Continue

LEMMA AckedStep ==
  ASSUME Basic, Ensured, Overlaps, AckedDurable, [Next]_vars
  PROVE  AckedDurable'
<1> SUFFICES ASSUME NEW j \in acked'
             PROVE  /\ j \in Payload => j \in manifests'
                    /\ \A c \in ChunksOf(j) : Recorded(c)
  BY RecordedStays DEF AckedDurable, ChunksOf
<1> USE DEF Basic, TypeOK
<1>1. ASSUME NEW q \in Proc, PutCommit(q), j \notin acked
      PROVE  j \in manifests' /\ \A c \in ChunksOf(j) : Recorded(c)
  BY <1>1 DEF PutCommit, Ensured, Overlaps, disk
<1>2. ASSUME NEW q \in Proc, RetainReferences(q), j \notin acked
      PROVE  j \notin Payload /\ \A c \in ChunksOf(j) : Recorded(c)
  BY <1>2, AllRecorded, SetsAssumption DEF RetainReferences
<1>3. ASSUME NEW q \in Proc, DeleteUnlink(q)
      PROVE  j \in acked /\ (j \in manifests => j \in manifests')
  <2>1. j \in acked /\ job[q] \in Payload
    BY <1>3 DEF DeleteUnlink, CallShape
  <2>2. job[q] \notin acked
    BY <1>3, <2>1 DEF DeleteUnlink, Overlaps, Deleting
  <2> QED
    BY <1>3, <2>1, <2>2 DEF DeleteUnlink, UnlinkManifest
<1>4. j \in acked \/ \E q \in Proc : PutCommit(q) \/ RetainReferences(q)
  BY DEF Next, Continue, vars, history, PutStart, DeleteCommit, ReleaseReference, RecoverStart,
     EnsureKnown, EnsureAppend, EnsureCommit, WriteManifest, CommitRejected, DeleteUnlink,
     RecoverCommit, RecoverFail, EnsureTorn, Interrupt
<1>5. manifests \subseteq manifests' \/ \E q \in Proc : DeleteUnlink(q)
  BY ManifestWriters DEF WriteManifest
<1>6. j \in acked => /\ j \in Payload => j \in manifests
                     /\ \A c \in ChunksOf(j) : Recorded(c)
  BY DEF AckedDurable
<1> QED
  BY <1>1, <1>2, <1>3, <1>4, <1>5, <1>6

-----------------------------------------------------------------------------
(* The inductive invariant and the theorems.                                *)

LEMMA InitIInv == Init => IInv
<1> SUFFICES ASSUME Init PROVE IInv
  OBVIOUS
<1>1. Basic
  BY InitBasic
<1>2. IndexSound /\ NoDangling /\ Appended /\ Ensured /\ ManifestsRecorded /\ Rebuilding
  <2>1. \A q \in Proc : pc[q] = "idle"
    BY DEF Init
  <2>2. Appended /\ Ensured /\ Rebuilding
    BY <2>1 DEF Appended, Ensured, Rebuilding
  <2>3. IndexSound /\ NoDangling /\ ManifestsRecorded
    BY DEF Init, IndexSound, NoDangling, ManifestsRecorded, Indexed
  <2> QED
    BY <2>2, <2>3
<1>3. RefCountExact
  <2>1. ASSUME NEW c \in Chunk
        PROVE  refCount[c] = Cardinality(PayloadChunks(payloads, c)) + Cardinality(ReferencesTo(c))
    <3>1. refCount[c] = 0 /\ PayloadChunks(payloads, c) = {} /\ ReferencesTo(c) = {}
      BY DEF Init, PayloadChunks, ReferencesTo
    <3> QED
      BY <3>1, FS_EmptySet
  <2> QED
    BY <2>1 DEF RefCountExact
<1>4. Overlaps /\ AckedDurable
  BY DEF Init, Overlaps, AckedDurable, Putting, Deleting
<1> QED
  BY <1>1, <1>2, <1>3, <1>4 DEF IInv, Basic

LEMMA StepIInv == IInv /\ [Next]_vars => IInv'
  BY BasicStep, IndexSoundStep, AppendedStep, EnsuredStep, ManifestsStep, RebuildingStep,
     NoDanglingStep, CountsStep, OverlapsStep, AckedStep
  DEF IInv, Basic

(* IInv is inductive: it holds initially and every step of every process    *)
(* preserves it, so it holds throughout, for any number of processes,       *)
(* payloads, tapes, faults and rebuilds.                                    *)
THEOREM Invariant == Spec => []IInv
<1>1. Init => IInv
  BY InitIInv
<1>2. IInv /\ [Next]_vars => IInv'
  BY StepIInv
<1> QED
  BY <1>1, <1>2, PTL DEF Spec

(* The state keeps its types: no count goes below zero, and every offset    *)
(* and ordinal is one.                                                      *)
THEOREM TypeCorrect == Spec => []TypeOK
<1>1. IInv => TypeOK
  BY DEF IInv
<1> QED
  BY <1>1, Invariant, PTL

(* Whatever torn, uncommitted or restarted-from-one records the segments    *)
(* hold, the place of an indexed chunk holds that chunk: read_chunk never   *)
(* meets foreign bytes.                                                     *)
THEOREM IndexIsSound == Spec => []IndexSound
<1>1. IInv => IndexSound
  BY DEF IInv
<1> QED
  BY <1>1, Invariant, PTL

(* ref_count equals the rows and references that name the chunk, through    *)
(* duplicates, retries, deletes, interrupted calls and rebuilds.            *)
THEOREM RefCountsAreExact == Spec => []RefCountExact
<1>1. IInv => RefCountExact
  BY DEF IInv
<1> QED
  BY <1>1, Invariant, PTL

(* No payload row or reference of the index names a chunk it lacks, even    *)
(* when a rebuild failed under a running put.                               *)
THEOREM NothingDangles == Spec => []NoDangling
<1>1. IInv => NoDangling
  BY DEF IInv
<1> QED
  BY <1>1, Invariant, PTL

(* An acknowledged put is on disk, manifest and records, until its delete   *)
(* begins.                                                                  *)
THEOREM AcknowledgedIsDurable == Spec => []AckedDurable
<1>1. IInv => AckedDurable
  BY DEF IInv
<1> QED
  BY <1>1, Invariant, PTL
=============================================================================
