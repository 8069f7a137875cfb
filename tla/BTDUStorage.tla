----------------------------- MODULE BTDUStorage -----------------------------
(***************************************************************************)
(* The BTDU payload storage kernel (src/src/40_BTDU/storage_kernel.py).     *)
(*                                                                          *)
(* Payload bytes are cut into content-addressed chunks; each chunk is one   *)
(* record of an append-only segment file.  A payload is a manifest file     *)
(* (the ordered list of its chunks) and a row of the SQLite index; an atom  *)
(* tape is a set of chunk_references rows and nothing else.  Several        *)
(* processes share one root: every index transaction runs under the flock   *)
(* of storage.lock, the manifest sidecar is written outside it.             *)
(*                                                                          *)
(* Abstracted: the bytes of a chunk (a model value), its codec and cipher,  *)
(* hashes (a chunk is its digest, a payload its content digest), and the    *)
(* length of a record (one unit of the segment target).                     *)
(***************************************************************************)
EXTENDS Naturals, Sequences, FiniteSets

CONSTANTS
  Proc,          \* processes that opened a kernel on this root
  Chunk,         \* chunk digests
  Payload,       \* payloads stored with a manifest (put_iterable)
  Tape,          \* atom-tape recipes, each its own ref_id
  Content,       \* the chunks each payload and tape is cut into, in order
  Torn,          \* the bytes a segment append left behind when it was cut short
  Nobody,        \* storage.lock is free
  NoJob,         \* a process outside put, delete and recover
  Target,        \* target_segment_bytes, in records
  MaxSegment,    \* bound: segment ids in use
  MaxFault,      \* bound: interrupted calls
  MaxRebuild     \* bound: calls of recover_index

Job == Payload \cup Tape
SegId == 1 .. MaxSegment

ASSUME SetsAssumption ==
  /\ IsFiniteSet(Payload) /\ IsFiniteSet(Tape)
  /\ Payload \cap Tape = {}
  /\ NoJob \notin Job /\ Nobody \notin Proc /\ Torn \notin Chunk
ASSUME ContentAssumption == Content \in [Job -> Seq(Chunk)]
ASSUME BoundsAssumption ==
  /\ Target \in Nat \ {0} /\ MaxSegment \in Nat
  /\ MaxFault \in Nat /\ MaxRebuild \in Nat

VARIABLES
  files,       \* segment files: what each holds, record by record
  manifests,   \* payloads whose manifest sidecar is on disk
  segments,    \* index: the segments table
  place,       \* index: chunks.segment_id and record_offset
  refCount,    \* index: chunks.ref_count
  chunkRefs,   \* index: chunk_references, as <<ref_id, chunk>>
  payloads,    \* index: payloads rows; their payload_chunks come and go with them
  lock,        \* the process that holds storage.lock
  pc,          \* where each process is in its call
  job,         \* the payload or tape its call is about
  next,        \* the ordinal of the chunk a put stores next
  at,          \* the place of a record appended and not committed
  raced,       \* history: processes whose put a delete of its payload overlapped
  faults, rebuilds,  \* counters of the bounds
  acked,       \* history: payloads put and tapes retained, and not deleted since
  undecided,   \* history: payloads whose last put or delete has no known outcome
  rebuilt      \* history: "lost" after an index rebuild began, until one succeeds

disk    == <<files, manifests>>
index   == <<segments, place, refCount, chunkRefs, payloads>>
calls   == <<pc, job, next, at, raced>>
history == <<acked, undecided, rebuilt>>
bounds  == <<faults, rebuilds>>
vars    == <<disk, index, lock, calls, bounds, history>>

-----------------------------------------------------------------------------
(* Places of records, and the index rows derived from the tables.           *)

NoPlace == [seg |-> 0, off |-> 0]
Place == [seg : Nat, off : Nat]
NoSegment == [state |-> "absent", bytes |-> 0]

Holds(pl, c) == /\ pl.seg \in SegId
                /\ pl.off \in 1 .. Len(files[pl.seg])
                /\ files[pl.seg][pl.off] = c

ChunksOf(j) == {Content[j][i] : i \in DOMAIN Content[j]}
OccursOnce(j, c) == IF c \in ChunksOf(j) THEN 1 ELSE 0  \* mutant: duplicates count once
Occurs(j, c) == Cardinality({i \in DOMAIN Content[j] : Content[j][i] = c})
Indexed(c) == place[c] # NoPlace
IndexUnchecked(j) == TRUE  \* mutant: FOREIGN KEYs are not enforced
AllIndexed(j) == \A c \in ChunksOf(j) : Indexed(c)

(* The payload_chunks rows naming c that the payloads of P own, and the     *)
(* references that name c.                                                  *)
PayloadChunks(P, c) ==
  {r \in UNION {{p} \X DOMAIN Content[p] : p \in P} : Content[r[1]][r[2]] = c}
ReferencesTo(c) == {t \in Tape : <<t, c>> \in chunkRefs}

-----------------------------------------------------------------------------
(* _select_segment: the newest unsealed segment if its row has room for one *)
(* more record, else a new segment after the largest id.                    *)

Existing == {s \in SegId : segments[s].state # "absent"}
Open == {s \in SegId : segments[s].state = "open"}
Newest(S) == CHOOSE s \in S : \A t \in S : t <= s
NewSegment == IF Existing = {} THEN 1 ELSE Newest(Existing) + 1
RoomForOneMore(s) == segments[s].bytes <= Target  \* mutant: the new record is not counted
HasRoom(s) == segments[s].bytes + 1 <= Target
SelectSegment == IF Open # {} /\ HasRoom(Newest(Open)) THEN Newest(Open) ELSE NewSegment

(* The segments table once the transaction that appended to s commits: a    *)
(* full predecessor is sealed, and the row's bytes are the file's.          *)
Filled(s) == {t \in Open \ {s} : t = Newest(Open)}
SizeBefore(s) == Len(files[s]) - 1  \* mutant: the record's offset, not the end of the file
SizeNow(s) == Len(files[s])
SegmentsAfter(s) ==
  [t \in SegId |->
     [state |-> IF t = s THEN "open" ELSE IF t \in Filled(s) THEN "sealed" ELSE segments[t].state,
      bytes |-> IF t = s THEN SizeNow(s) ELSE segments[t].bytes]]

-----------------------------------------------------------------------------
(* Calls.                                                                   *)

Putting(q, p) == pc[q] \in {"ensure", "append", "index"} /\ job[q] = p
Deleting(q, p) == pc[q] = "unlink" /\ job[q] = p

Goto(q, label) == pc' = [pc EXCEPT ![q] = label]
Return(q) ==
  /\ Goto(q, "idle")
  /\ job' = [job EXCEPT ![q] = NoJob]
  /\ next' = [next EXCEPT ![q] = 1]
  /\ at' = [at EXCEPT ![q] = NoPlace]
  /\ raced' = raced \ {q}

(* put_iterable of p, or put_atom_tape_iterable of a tape, begins.  A put   *)
(* that finds a delete of the same payload under way is marked.             *)
PutStart(q, j) ==
  /\ pc[q] = "idle"
  /\ Goto(q, "ensure")
  /\ job' = [job EXCEPT ![q] = j]
  /\ raced' = IF \E d \in Proc : Deleting(d, j) THEN raced \cup {q} ELSE raced
  /\ undecided' = IF j \in Payload \ acked THEN undecided \cup {j} ELSE undecided
  /\ UNCHANGED <<disk, index, lock, next, at, bounds, acked, rebuilt>>

Current(q) == Content[job[q]][next[q]]
MoreChunks(q) == pc[q] = "ensure" /\ next[q] <= Len(Content[job[q]])
AllEnsured(q) == pc[q] = "ensure" /\ next[q] > Len(Content[job[q]])

(* _ensure_chunk finds the chunk in the index.                              *)
EnsureKnown(q) ==
  /\ MoreChunks(q) /\ lock = Nobody
  /\ Indexed(Current(q))
  /\ next' = [next EXCEPT ![q] = @ + 1]
  /\ UNCHANGED <<disk, index, lock, pc, job, at, raced, bounds, history>>

EndByIndex(s) == segments[s].bytes + 1  \* mutant: the offset is read from the row
EndOfFile(s) == Len(files[s]) + 1

(* _ensure_chunk takes the lock and appends the record at the end of the    *)
(* selected segment's file, wherever that end is; nothing is committed yet. *)
EnsureAppend(q) ==
  /\ MoreChunks(q) /\ lock = Nobody
  /\ ~ Indexed(Current(q))
  /\ SelectSegment \in SegId
  /\ files' = [files EXCEPT ![SelectSegment] = Append(@, Current(q))]
  /\ at' = [at EXCEPT ![q] = [seg |-> SelectSegment, off |-> EndOfFile(SelectSegment)]]
  /\ Goto(q, "append")
  /\ lock' = q
  /\ UNCHANGED <<manifests, index, job, next, raced, bounds, history>>

(* The append is cut short (the process dies, the disk is full): part of a  *)
(* record stays in the file, the transaction rolls back.                    *)
EnsureTorn(q) ==
  /\ MoreChunks(q) /\ lock = Nobody
  /\ ~ Indexed(Current(q))
  /\ SelectSegment \in SegId
  /\ faults < MaxFault /\ faults' = faults + 1
  /\ files' = [files EXCEPT ![SelectSegment] = Append(@, Torn)]
  /\ Return(q)
  /\ UNCHANGED <<manifests, index, lock, rebuilds, history>>

(* The transaction of _ensure_chunk commits the chunk and segment rows.     *)
EnsureCommit(q) ==
  /\ pc[q] = "append"
  /\ place' = [place EXCEPT ![Current(q)] = at[q]]
  /\ refCount' = [refCount EXCEPT ![Current(q)] = 0]
  /\ segments' = SegmentsAfter(at[q].seg)
  /\ Goto(q, "ensure")
  /\ next' = [next EXCEPT ![q] = @ + 1]
  /\ at' = [at EXCEPT ![q] = NoPlace]
  /\ lock' = Nobody
  /\ UNCHANGED <<disk, chunkRefs, payloads, job, raced, bounds, history>>

(* mutant: no manifest is written for a payload the index already has.      *)
SkipIndexedManifest(q) ==
  /\ AllEnsured(q) /\ job[q] \in Payload
  /\ manifests' = IF job[q] \in payloads THEN manifests
                  ELSE manifests \cup {job[q]}
  /\ Goto(q, "index")
  /\ UNCHANGED <<files, index, lock, job, next, at, raced, bounds, history>>

(* _write_manifest, outside the lock: keep the manifest that is there or    *)
(* put one in place with os.replace.                                        *)
WriteManifest(q) ==
  /\ AllEnsured(q) /\ job[q] \in Payload
  /\ manifests' = manifests \cup {job[q]}
  /\ Goto(q, "index")
  /\ UNCHANGED <<files, index, lock, job, next, at, raced, bounds, history>>

(* The last transaction of put_iterable: a payload already indexed is left  *)
(* alone, else its rows are inserted and every occurrence of a chunk counts.*)
(* A put that no delete of the payload overlapped is acknowledged as stored.*)
PutCommit(q) ==
  /\ pc[q] = "index" /\ lock = Nobody
  /\ LET p == job[q] IN
       /\ AllIndexed(p)
       /\ payloads' = payloads \cup {p}
       /\ refCount' = IF p \in payloads THEN refCount
                      ELSE [c \in Chunk |-> refCount[c] + Occurs(p, c)]
       /\ acked' = IF q \in raced THEN acked ELSE acked \cup {p}
       /\ undecided' = IF q \in raced THEN undecided ELSE undecided \ {p}
  /\ Return(q)
  /\ UNCHANGED <<disk, segments, place, chunkRefs, lock, bounds, rebuilt>>

(* put_atom_tape_iterable retains the tape's chunks in one transaction;     *)
(* a reference that is already there is not counted again.                  *)
RetainReferences(q) ==
  /\ AllEnsured(q) /\ job[q] \in Tape
  /\ lock = Nobody
  /\ LET t == job[q] IN
       /\ AllIndexed(t)
       /\ chunkRefs' = chunkRefs \cup ({t} \X ChunksOf(t))
       /\ refCount' = [c \in Chunk |->
            IF c \in ChunksOf(t) /\ <<t, c>> \notin chunkRefs THEN refCount[c] + 1
            ELSE refCount[c]]
       /\ acked' = acked \cup {t}
  /\ Return(q)
  /\ UNCHANGED <<disk, segments, place, payloads, lock, bounds, undecided, rebuilt>>

(* The last transaction of a put names a chunk the index no longer has (an  *)
(* index rebuild failed meanwhile): FOREIGN KEY or KeyError, rolled back.   *)
CommitRejected(q) ==
  /\ \/ pc[q] = "index"
     \/ AllEnsured(q) /\ job[q] \in Tape
  /\ lock = Nobody
  /\ ~ AllIndexed(job[q])
  /\ Return(q)
  /\ UNCHANGED <<disk, index, lock, bounds, history>>

(* ref_count = MAX(0, ref_count - 1), k times.                              *)
DecrementTwice(n, k) == n - 2 * k  \* mutant: a release repeated, and no floor
Decrement(n, k) == IF n >= k THEN n - k ELSE 0

ReleaseReference(q, t) ==
  /\ pc[q] = "idle" /\ lock = Nobody
  /\ refCount' = [c \in Chunk |-> IF <<t, c>> \in chunkRefs THEN Decrement(refCount[c], 1)
                                  ELSE refCount[c]]
  /\ chunkRefs' = {r \in chunkRefs : r[1] # t}
  /\ acked' = acked \ {t}
  /\ UNCHANGED <<disk, segments, place, payloads, lock, calls, bounds, undecided, rebuilt>>

(* delete_payload commits the index change, then, still under the lock,     *)
(* unlinks the manifest.  Segment records stay.                             *)
DeleteCommit(q, p) ==
  /\ pc[q] = "idle" /\ lock = Nobody
  /\ p \in payloads
  /\ payloads' = payloads \ {p}
  /\ refCount' = [c \in Chunk |-> Decrement(refCount[c], Occurs(p, c))]
  /\ lock' = q
  /\ Goto(q, "unlink")
  /\ job' = [job EXCEPT ![q] = p]
  /\ raced' = raced \cup {r \in Proc : Putting(r, p)}
  /\ acked' = acked \ {p}
  /\ undecided' = undecided \cup {p}
  /\ UNCHANGED <<disk, segments, place, chunkRefs, next, at, bounds, rebuilt>>

LeaveManifest(p) == manifests  \* mutant: the sidecar is forgotten
UnlinkManifest(p) == manifests \ {p}

DeleteUnlink(q) ==
  /\ pc[q] = "unlink"
  /\ LET p == job[q] IN
       /\ manifests' = UnlinkManifest(p)
       /\ undecided' = IF \E r \in Proc : Putting(r, p) THEN undecided ELSE undecided \ {p}
  /\ lock' = Nobody
  /\ Return(q)
  /\ UNCHANGED <<files, index, bounds, acked, rebuilt>>

-----------------------------------------------------------------------------
(* recover_index.                                                           *)

Records == UNION {{[seg |-> s, off |-> i] : i \in DOMAIN files[s]} : s \in SegId}
RecordsOf(c) == {pl \in Records : files[pl.seg][pl.off] = c}
Recorded(c) == \E s \in SegId : \E i \in DOMAIN files[s] : files[s][i] = c

(* The scan accepts the disk: every record is whole and every manifest's    *)
(* chunks are recorded.                                                     *)
Scannable ==
  /\ ~ Recorded(Torn)
  /\ \A p \in manifests : \A c \in ChunksOf(p) : Recorded(c)

(* INSERT OR IGNORE in scan order: the first record of a chunk is its place.*)
NotAfter(pl, other) == \/ pl.seg < other.seg
                       \/ pl.seg = other.seg /\ pl.off <= other.off
FirstRecord(c) == CHOOSE pl \in RecordsOf(c) : \A other \in RecordsOf(c) : NotAfter(pl, other)

RelistOne == {p \in manifests : \A r \in manifests : r = p}  \* mutant: the scan stops at one
Relist == manifests

(* The old index is copied aside and removed, and an empty one created.     *)
RecoverStart(q) ==
  /\ pc[q] = "idle" /\ lock = Nobody
  /\ rebuilds < MaxRebuild /\ rebuilds' = rebuilds + 1
  /\ segments' = [s \in SegId |-> NoSegment]
  /\ place' = [c \in Chunk |-> NoPlace]
  /\ refCount' = [c \in Chunk |-> 0]
  /\ chunkRefs' = {} /\ payloads' = {}
  /\ lock' = q /\ Goto(q, "rebuild")
  /\ rebuilt' = "lost"
  /\ UNCHANGED <<disk, job, next, at, raced, faults, acked, undecided>>

(* One transaction rebuilds the rows from segment files and manifests; the  *)
(* chunk references have no sidecar to come back from.                      *)
RecoverCommit(q) ==
  /\ pc[q] = "rebuild"
  /\ Scannable
  /\ segments' = [s \in SegId |-> IF files[s] = <<>> THEN NoSegment
                                  ELSE [state |-> "sealed", bytes |-> Len(files[s])]]
  /\ place' = [c \in Chunk |-> IF Recorded(c) THEN FirstRecord(c) ELSE NoPlace]
  /\ payloads' = Relist
  /\ refCount' = [c \in Chunk |-> Cardinality(PayloadChunks(Relist, c))]
  /\ lock' = Nobody /\ Return(q)
  /\ rebuilt' = "whole"
  /\ UNCHANGED <<disk, chunkRefs, bounds, acked, undecided>>

(* A record or manifest the scan does not accept: BTDUStorageIntegrityError.*)
(* The rebuilding transaction rolls back to the empty index.                *)
RecoverFail(q) ==
  /\ pc[q] = "rebuild"
  /\ ~ Scannable
  /\ lock' = Nobody /\ Return(q)
  /\ UNCHANGED <<disk, index, bounds, history>>

LockLeft(q) == lock  \* mutant: a lock file, not an flock
LockDropped(q) == IF lock = q THEN Nobody ELSE lock

(* A call dies or raises between two of its steps: what it committed or     *)
(* wrote stays, its open transaction rolls back, its lock is released.      *)
Interrupt(q) ==
  /\ pc[q] # "idle"
  /\ faults < MaxFault /\ faults' = faults + 1
  /\ lock' = LockDropped(q)
  /\ Return(q)
  /\ UNCHANGED <<disk, index, rebuilds, history>>

-----------------------------------------------------------------------------
Init ==
  /\ files = [s \in SegId |-> <<>>]
  /\ manifests = {}
  /\ segments = [s \in SegId |-> NoSegment]
  /\ place = [c \in Chunk |-> NoPlace]
  /\ refCount = [c \in Chunk |-> 0]
  /\ chunkRefs = {}
  /\ payloads = {}
  /\ lock = Nobody
  /\ pc = [q \in Proc |-> "idle"]
  /\ job = [q \in Proc |-> NoJob]
  /\ next = [q \in Proc |-> 1]
  /\ at = [q \in Proc |-> NoPlace]
  /\ raced = {}
  /\ faults = 0 /\ rebuilds = 0
  /\ acked = {} /\ undecided = {} /\ rebuilt = "whole"

(* The steps that carry a call on once it has begun.                        *)
Continue(q) ==
  \/ EnsureKnown(q) \/ EnsureAppend(q) \/ EnsureCommit(q)
  \/ WriteManifest(q) \/ PutCommit(q) \/ RetainReferences(q) \/ CommitRejected(q)
  \/ DeleteUnlink(q)
  \/ RecoverCommit(q) \/ RecoverFail(q)

Next ==
  \E q \in Proc :
    \/ \E j \in Job : PutStart(q, j)
    \/ \E p \in Payload : DeleteCommit(q, p)
    \/ \E t \in Tape : ReleaseReference(q, t)
    \/ RecoverStart(q)
    \/ Continue(q)
    \/ EnsureTorn(q)
    \/ Interrupt(q)

Spec == Init /\ [][Next]_vars

(* A process that runs finishes its call: flock queues its waiters, so none *)
(* waits forever for a lock that is freed again and again.                  *)
FairSpec == Spec /\ \A q \in Proc : SF_vars(Continue(q))

-----------------------------------------------------------------------------
(* Properties.                                                              *)

(* Types of the state.                                                      *)
TypeOK ==
  /\ files \in [SegId -> Seq(Chunk \cup {Torn})]
  /\ manifests \subseteq Payload
  /\ segments \in [SegId -> [state : {"absent", "open", "sealed"}, bytes : Nat]]
  /\ place \in [Chunk -> Place]
  /\ refCount \in [Chunk -> Nat]
  /\ chunkRefs \subseteq Tape \X Chunk
  /\ payloads \subseteq Payload
  /\ lock \in Proc \cup {Nobody}
  /\ pc \in [Proc -> {"idle", "ensure", "append", "index", "unlink", "rebuild"}]
  /\ job \in [Proc -> Job \cup {NoJob}]
  /\ next \in [Proc -> Nat \ {0}]
  /\ at \in [Proc -> Place]
  /\ raced \subseteq Proc
  /\ faults \in Nat /\ rebuilds \in Nat
  /\ acked \subseteq Job /\ undecided \subseteq Payload /\ rebuilt \in {"whole", "lost"}

(* The index never runs ahead of the segments: an indexed chunk is found,   *)
(* whole and with its own digest, where its row says, whatever torn or      *)
(* uncommitted records other calls left in the file (read_chunk).           *)
IndexSound == \A c \in Chunk : Indexed(c) => Holds(place[c], c)

(* ref_count is exactly the number of payload_chunks rows and references    *)
(* that name the chunk: retries, duplicates in a payload, deletes, rebuilds *)
(* and interrupted calls neither inflate nor lose a count.                  *)
RefCountExact ==
  \A c \in Chunk : refCount[c] = Cardinality(PayloadChunks(payloads, c))
                                 + Cardinality(ReferencesTo(c))

(* No payload row and no reference names a chunk that is not indexed, even  *)
(* when the index is rebuilt between the steps of a put (verify: dangling). *)
NoDangling ==
  /\ \A p \in payloads : \A c \in ChunksOf(p) : Indexed(c)
  /\ \A r \in chunkRefs : Indexed(r[2])

(* What a put acknowledged survives on disk until its delete begins: the    *)
(* manifest, and a whole record of every chunk.  Neither another put, nor a *)
(* crash at any point, nor a failed rebuild takes it away.                  *)
AckedDurable ==
  \A j \in acked : /\ j \in Payload => j \in manifests
                   /\ \A c \in ChunksOf(j) : Recorded(c)

(* The facts each step relies on, which make the invariants above inductive.*)
CallShape ==
  \A q \in Proc :
    /\ pc[q] = "idle" => next[q] = 1
    /\ pc[q] \in {"ensure", "append", "index"} =>
         job[q] \in Job /\ next[q] <= Len(Content[job[q]]) + 1
    /\ pc[q] \in {"index", "unlink"} => job[q] \in Payload
    /\ pc[q] = "append" => next[q] <= Len(Content[job[q]])
LockDiscipline == \A q \in Proc : lock = q <=> pc[q] \in {"append", "unlink", "rebuild"}
Appended ==
  \A q \in Proc : pc[q] = "append" =>
    Holds(at[q], Current(q)) /\ ~ Indexed(Current(q))
Ensured ==
  \A q \in Proc :
    /\ pc[q] \in {"ensure", "append"} =>
         \A i \in 1 .. next[q] - 1 : Recorded(Content[job[q]][i])
    /\ pc[q] = "index" => \A c \in ChunksOf(job[q]) : Recorded(c)
ManifestsRecorded == \A p \in manifests : \A c \in ChunksOf(p) : Recorded(c)
Rebuilding ==
  \A q \in Proc : pc[q] = "rebuild" =>
    /\ chunkRefs = {} /\ payloads = {}
    /\ \A c \in Chunk : ~ Indexed(c) /\ refCount[c] = 0
Overlaps ==
  /\ \A q, d \in Proc : \A p \in Payload : Putting(q, p) /\ Deleting(d, p) => q \in raced
  /\ \A q \in Proc : pc[q] = "index" /\ ~ q \in raced => job[q] \in manifests
  /\ \A d \in Proc : \A p \in Payload : Deleting(d, p) => p \notin acked

IInv ==
  /\ TypeOK /\ CallShape /\ LockDiscipline
  /\ IndexSound /\ NoDangling /\ Appended /\ Ensured /\ ManifestsRecorded /\ Rebuilding
  /\ RefCountExact
  /\ Overlaps /\ AckedDurable

(* While no rebuild is under way or has failed, an acknowledged payload can *)
(* be read: its row, its manifest and every chunk row are there.            *)
AckedReadable ==
  rebuilt = "whole" => \A p \in acked \cap Payload :
                    /\ p \in payloads /\ p \in manifests
                    /\ \A c \in ChunksOf(p) : Indexed(c)

(* Nothing is stored that no put asked for since its last completed delete: *)
(* a rebuild brings back no payload whose delete returned.                  *)
NothingResurrected == payloads \cup manifests \subseteq acked \cup undecided

(* A segment outgrows its target by at most one record for each interrupted *)
(* append and each lost index, although room is judged from the row.        *)
SegmentOverflow == \A s \in SegId : Len(files[s]) <= Target + faults + rebuilds

(* verify() blames a segment only for an append in flight or interrupted:   *)
(* its row is behind the file by no more than those records.                *)
InFlight(s) == {q \in Proc : pc[q] = "append" /\ at[q].seg = s}
SegmentRowTrails ==
  \A s \in Existing :
    /\ segments[s].bytes <= Len(files[s])
    /\ Len(files[s]) <= segments[s].bytes + faults + Cardinality(InFlight(s))

(* Every call returns or raises: no interrupted call leaves the lock held,  *)
(* and no queue of the calls behind it stops.                               *)
CallsReturn == \A q \in Proc : pc[q] # "idle" ~> pc[q] = "idle"

(* The store keeps the promise PayloadStore makes to its callers; what it   *)
(* stores is what a rebuild would find, the manifests.                      *)
Promise == INSTANCE PayloadStore WITH acked <- acked \cap Payload,
                                      undecided <- undecided, stored <- manifests
KeepsPromise == Promise!Spec

(* What the module docstring says (storage_kernel.py:8-9): "SQLite is a    *)
(* rebuildable index".  Refuted: a torn append stays in the segment, and    *)
(* recover_index raises at it forever after.                                *)
Rebuildable == \A q \in Proc : pc[q] = "rebuild" => Scannable

(* The same docstring: SQLite is "never the sole source of payload truth".  *)
(* Refuted: a delete between a put's manifest and its last transaction      *)
(* leaves a payload row whose manifest is gone.                             *)
NeverSoleTruth == payloads \subseteq manifests
=============================================================================
