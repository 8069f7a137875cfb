-------------------------- MODULE AdamUniverseProofs --------------------------
(***************************************************************************)
(* Theorems of AdamUniverse, for every set of threads, entities, events and *)
(* predicates and every bound.                                              *)
(***************************************************************************)
EXTENDS AdamUniverse, FiniteSetTheorems, WellFoundedInduction, TLAPS

-----------------------------------------------------------------------------
(* Replay: what the fold of recover computes.                               *)

LEMMA NatMinimum ==
  ASSUME NEW T, T \subseteq Nat, T # {}
  PROVE  \E m \in T : \A n \in T : m <= n
<1>1. PICK m \in T : \A n \in T : ~ (<<n, m>> \in OpToRel(<, Nat))
  BY NatLessThanWellFounded, WFMin
<1>2. ASSUME NEW n \in T, n < m PROVE <<n, m>> \in OpToRel(<, Nat)
  BY <1>2 DEF OpToRel
<1>3. \A n \in T : ~ (n < m)
  BY <1>1, <1>2, Zenon
<1> QED
  BY <1>3

(* The largest element of a set of indices, and the least.                  *)
LEMMA MaxIsLargest ==
  ASSUME NEW n \in Nat, NEW S, S \subseteq 1 .. n, S # {}
  PROVE  Max(S) \in S /\ \A i \in S : i <= Max(S)
<1> DEFINE Above == {n - i : i \in S}
<1>1. \A i \in S : n - i \in Nat
  OBVIOUS
<1>2. PICK m \in Above : \A k \in Above : m <= k
  <2>1. Above \subseteq Nat /\ Above # {}
    BY <1>1
  <2> QED
    BY <2>1, NatMinimum
<1>3. PICK i \in S : m = n - i
  BY <1>2
<1>4. ASSUME NEW j \in S PROVE i >= j
  <2>1. n - j \in Above
    OBVIOUS
  <2>2. n - i <= n - j
    BY <1>2, <1>3, <2>1
  <2> QED
    BY <2>2
<1>5. Max(S) \in S /\ \A j \in S : Max(S) >= j
  BY <1>4 DEF Max
<1> QED
  BY <1>5

LEMMA MinIsLeast ==
  ASSUME NEW n \in Nat, NEW S, S \subseteq 1 .. n, S # {}
  PROVE  Min(S) \in S /\ \A i \in S : Min(S) <= i
<1>1. S \subseteq Nat
  OBVIOUS
<1>2. \E m \in S : \A i \in S : m =< i
  BY <1>1, NatMinimum
<1> QED
  BY <1>2 DEF Min

(* recover folds replayFrame over the frames, one after the other: what the *)
(* recursion under FoldLeft computes.                                       *)
Replay(b, s) == FoldLeft(replayFrame, b, s)

Unrolls(g, b, s, D) ==
  g = [S \in SUBSET D |-> IF S = {} THEN b ELSE replayFrame(g[S \ {Max(S)}], s[Max(S)])]

LEMMA ReplayIsUnrolled ==
  ASSUME NEW b, NEW s
  PROVE  Replay(b, s) = (CHOOSE u : Unrolls(u, b, s, DOMAIN s))[DOMAIN s]
BY DEF Replay, Unrolls, FoldLeft, MapThenFoldSet

LEMMA UnrolledExists ==
  ASSUME NEW b, NEW s, NEW n \in Nat
  PROVE  \E g : Unrolls(g, b, s, 1 .. n)
<1> DEFINE Wrong == {k \in Nat : ~ \E g : Unrolls(g, b, s, 1 .. k)}
<1>1. SUFFICES ASSUME Wrong # {} PROVE FALSE
  OBVIOUS
<1>2. PICK m \in Wrong : \A k \in Wrong : m <= k
  <2> HIDE DEF Wrong
  <2>1. Wrong \subseteq Nat
    BY DEF Wrong
  <2> QED
    BY <1>1, <2>1, NatMinimum
<1>3. CASE m = 0
  <2> DEFINE g == [S \in SUBSET (1 .. 0) |-> b]
  <2>1. \A S \in SUBSET (1 .. 0) : S = {}
    OBVIOUS
  <2>2. Unrolls(g, b, s, 1 .. 0)
    BY <2>1 DEF Unrolls
  <2> QED
    BY <1>3, <2>2
<1>4. CASE m # 0
  <2>1. m - 1 \in Nat /\ m - 1 \notin Wrong
    BY <1>2, <1>4
  <2>2. PICK g : Unrolls(g, b, s, 1 .. (m - 1))
    BY <2>1
  <2> DEFINE h == [S \in SUBSET (1 .. m) |-> IF m \in S THEN replayFrame(g[S \ {m}], s[m]) ELSE g[S]]
             next(S) == IF S = {} THEN b ELSE replayFrame(h[S \ {Max(S)}], s[Max(S)])
  <2>3. ASSUME NEW S \in SUBSET (1 .. m) PROVE h[S] = next(S)
    <3>1. CASE m \in S
      <4>1. Max(S) = m
        <5>1. Max(S) \in 1 .. m /\ m <= Max(S) /\ m \in Nat
          BY <1>2, <3>1, MaxIsLargest
        <5> QED
          BY <5>1
      <4>2. S \ {m} \in SUBSET (1 .. m) /\ m \notin S \ {m}
        OBVIOUS
      <4>3. h[S \ {m}] = g[S \ {m}]
        BY <4>2
      <4> QED
        BY <3>1, <4>1, <4>3
    <3>2. CASE m \notin S
      <4>1. S \in SUBSET (1 .. (m - 1))
        BY <3>2
      <4>2. h[S] = g[S]
        BY <3>2
      <4>3. CASE S = {}
        BY <2>2, <4>1, <4>2, <4>3 DEF Unrolls
      <4>4. CASE S # {}
        <5>1. g[S] = replayFrame(g[S \ {Max(S)}], s[Max(S)])
          BY <2>2, <4>1, <4>4 DEF Unrolls
        <5>2. S \ {Max(S)} \in SUBSET (1 .. m) /\ m \notin S \ {Max(S)}
          BY <3>2
        <5>3. h[S \ {Max(S)}] = g[S \ {Max(S)}]
          BY <5>2
        <5> QED
          BY <4>2, <4>4, <5>1, <5>3
      <4> QED
        BY <4>3, <4>4
    <3> QED
      BY <3>1, <3>2
  <2>4. h = [S \in SUBSET (1 .. m) |-> h[S]]
    OBVIOUS
  <2>5. Unrolls(h, b, s, 1 .. m)
    <3> HIDE DEF h
    <3> QED
      BY <2>3, <2>4 DEF Unrolls
  <2> QED
    BY <2>5
<1> QED
  BY <1>3, <1>4

(* The first k frames of two logs that agree on them leave the same.        *)
LEMMA UnrolledAgree ==
  ASSUME NEW b, NEW s, NEW t, NEW g, NEW h, NEW n \in Nat, NEW p \in Nat, n <= p,
         Unrolls(g, b, s, 1 .. n), Unrolls(h, b, t, 1 .. p),
         \A i \in 1 .. n : s[i] = t[i]
  PROVE  g[1 .. n] = h[1 .. n]
<1> DEFINE Wrong == {k \in 0 .. n : g[1 .. k] # h[1 .. k]}
<1>1. SUFFICES ASSUME Wrong # {} PROVE FALSE
  BY n \in 0 .. n
<1>2. PICK m \in Wrong : \A k \in Wrong : m <= k
  <2>1. Wrong \subseteq Nat
    OBVIOUS
  <2> HIDE DEF Wrong
  <2> QED
    BY <1>1, <2>1, NatMinimum
<1>3. m \in 0 .. n /\ g[1 .. m] # h[1 .. m]
  BY <1>2
<1>4. 1 .. m \in SUBSET (1 .. n) /\ 1 .. m \in SUBSET (1 .. p)
  BY <1>3
<1>5. CASE m = 0
  <2>1. 1 .. m = {}
    BY <1>5
  <2> QED
    BY <1>3, <1>4, <2>1 DEF Unrolls
<1>6. CASE m # 0
  <2>1. 1 .. m # {} /\ m \in 1 .. m
    BY <1>3, <1>6
  <2>2. Max(1 .. m) = m
    <3>1. m \in Nat
      BY <1>3
    <3>2. Max(1 .. m) \in 1 .. m /\ m <= Max(1 .. m)
      BY <2>1, <3>1, MaxIsLargest
    <3> QED
      BY <3>1, <3>2
  <2>3. (1 .. m) \ {m} = 1 .. (m - 1)
    BY <1>3
  <2>4. g[1 .. m] = replayFrame(g[1 .. (m - 1)], s[m])
    <3> DEFINE S == 1 .. m
    <3>1. g[S] = replayFrame(g[S \ {Max(S)}], s[Max(S)])
      BY <1>4, <2>1 DEF Unrolls
    <3> QED
      BY <2>2, <2>3, <3>1
  <2>5. h[1 .. m] = replayFrame(h[1 .. (m - 1)], t[m])
    <3> DEFINE S == 1 .. m
    <3>1. h[S] = replayFrame(h[S \ {Max(S)}], t[Max(S)])
      BY <1>4, <2>1 DEF Unrolls
    <3> QED
      BY <2>2, <2>3, <3>1
  <2>6. g[1 .. (m - 1)] = h[1 .. (m - 1)]
    <3>1. m - 1 \in 0 .. n /\ m - 1 \notin Wrong
      BY <1>2, <1>3, <1>6
    <3> QED
      BY <3>1
  <2>7. s[m] = t[m]
    BY <1>3, <1>6
  <2> QED
    BY <1>3, <2>4, <2>5, <2>6, <2>7
<1> QED
  BY <1>5, <1>6

LEMMA ReplayNothing == ASSUME NEW b PROVE Replay(b, << >>) = b
<1>1. DOMAIN << >> = 1 .. 0
  OBVIOUS
<1> DEFINE g == CHOOSE u : Unrolls(u, b, << >>, 1 .. 0)
<1>2. Unrolls(g, b, << >>, 1 .. 0)
  BY UnrolledExists
<1>3. g[1 .. 0] = b
  <2> HIDE DEF g
  <2> QED
    BY <1>2 DEF Unrolls
<1> QED
  BY <1>1, <1>3, ReplayIsUnrolled

LEMMA ReplayOneMore ==
  ASSUME NEW b, NEW T, NEW s \in Seq(T), NEW f \in T
  PROVE  Replay(b, Append(s, f)) = replayFrame(Replay(b, s), f)
<1> DEFINE n == Len(s)
           t == Append(s, f)
           g == CHOOSE u : Unrolls(u, b, s, 1 .. n)
           h == CHOOSE u : Unrolls(u, b, t, 1 .. (n + 1))
<1>1. n \in Nat /\ DOMAIN s = 1 .. n /\ DOMAIN t = 1 .. (n + 1)
      /\ t[n + 1] = f /\ \A i \in 1 .. n : s[i] = t[i]
  OBVIOUS
<1>2. Replay(b, s) = g[1 .. n] /\ Replay(b, t) = h[1 .. (n + 1)]
  BY <1>1, ReplayIsUnrolled
<1>3. Unrolls(g, b, s, 1 .. n)
  BY <1>1, UnrolledExists
<1>4. Unrolls(h, b, t, 1 .. (n + 1))
  <2>1. n + 1 \in Nat
    BY <1>1
  <2> QED
    BY <2>1, UnrolledExists
<1> HIDE DEF g, h, t, n
<1>5. g[1 .. n] = h[1 .. n]
  BY <1>1, <1>3, <1>4, UnrolledAgree
<1>6. Max(1 .. (n + 1)) = n + 1
  <2>1. n + 1 \in Nat /\ n + 1 \in 1 .. (n + 1)
    BY <1>1
  <2>2. Max(1 .. (n + 1)) \in 1 .. (n + 1) /\ n + 1 <= Max(1 .. (n + 1))
    BY <2>1, MaxIsLargest
  <2> QED
    BY <2>1, <2>2
<1>7. (1 .. (n + 1)) \ {n + 1} = 1 .. n /\ 1 .. (n + 1) # {}
  <2>1. ASSUME NEW i PROVE i \in (1 .. (n + 1)) \ {n + 1} <=> i \in 1 .. n
    BY <1>1
  <2>2. n + 1 \in 1 .. (n + 1)
    BY <1>1
  <2> QED
    BY <2>1, <2>2
<1>8. h[1 .. (n + 1)] = replayFrame(h[1 .. n], f)
  BY <1>1, <1>4, <1>6, <1>7 DEF Unrolls
<1> QED
  BY <1>2, <1>5, <1>8 DEF t

-----------------------------------------------------------------------------
(* Types.                                                                   *)

Acc == {a \in [ok : BOOLEAN, state : State, root : Seq(Commit)] : a.state.seq = Len(a.root)}

LEMMA CommitFacts ==
  ASSUME NEW c \in Commit
  PROVE  /\ c.op \in Op /\ c.event \in Event /\ c.revoked \subseteq Fact
         /\ c.previous \in Nat /\ c.expected \in Nat /\ About(c) \in Entity
BY EventAssumption DEF Commit, About

LEMMA EmptyStateType == EmptyState \in State /\ EmptyState.seq = 0
BY DEF EmptyState, State, NoBond

LEMMA ApplyType ==
  ASSUME NEW s \in State, NEW c \in Commit
  PROVE  applyCore(s, c) \in State /\ applyCore(s, c).seq = s.seq + 1
<1> DEFINE Atom == ({"entity"} \X Entity) \cup ({"exact_object", "semantic_claim"} \X Event)
           new == CASE c.op = "genesis" -> {entityAtom(About(c))}
                    [] c.op = "ingest"  -> {exactObject(c.event)}
                    [] c.op = "claim"   -> {claimAtom(c.event)}
                    [] c.op = "react"   -> {}
<1>1. /\ s.seq \in Nat /\ s.atoms \subseteq Atom
      /\ s.bonds \in [Fact -> [created : Nat, revoked : Nat]]
      /\ s.version \in [Entity -> Nat]
  BY DEF State
<1>2. new \subseteq Atom
  BY CommitFacts DEF Op, entityAtom, exactObject, claimAtom
<1>3. appliedBonds(s, c, s.seq + 1) \in [Fact -> [created : Nat, revoked : Nat]]
  BY <1>1 DEF appliedBonds
<1>4. [s.version EXCEPT ![About(c)] = @ + 1] \in [Entity -> Nat]
  BY <1>1, CommitFacts
<1> HIDE DEF new
<1>5. applyCore(s, c) = [seq |-> s.seq + 1, atoms |-> s.atoms \cup new,
                         bonds |-> IF c.op = "react" THEN appliedBonds(s, c, s.seq + 1) ELSE s.bonds,
                         version |-> IF bumpsVersion(c) /\ ~applyRaises(s, c)
                                     THEN [s.version EXCEPT ![About(c)] = @ + 1] ELSE s.version]
  BY DEF applyCore, new
<1>6. s.atoms \cup new \subseteq Atom
  BY <1>1, <1>2
<1> QED
  BY <1>1, <1>3, <1>4, <1>5, <1>6 DEF State

LEMMA ReplayFrameType ==
  ASSUME NEW a \in Acc, NEW f \in FrameOf
  PROVE  /\ replayFrame(a, f) \in Acc
         /\ replayFrame(a, f).ok =>
              /\ a.ok /\ f.prev = a.root /\ ~applyRaises(a.state, f.commit)
              /\ replayFrame(a, f).state = applyCore(a.state, f.commit)
              /\ replayFrame(a, f).root = Append(a.root, f.commit)
<1>1. f.commit \in Commit /\ a.state \in State /\ a.root \in Seq(Commit) /\ a.ok \in BOOLEAN
      /\ a.state.seq = Len(a.root)
  BY DEF FrameOf, Acc
<1>2. applyCore(a.state, f.commit) \in State
      /\ applyCore(a.state, f.commit).seq = Len(Append(a.root, f.commit))
  BY <1>1, ApplyType
<1>3. CASE a.ok /\ f.prev = a.root /\ ~applyRaises(a.state, f.commit)
  <2>1. replayFrame(a, f) = [ok |-> TRUE, state |-> applyCore(a.state, f.commit),
                             root |-> Append(a.root, f.commit)]
    BY <1>3 DEF replayFrame
  <2> QED
    BY <1>1, <1>2, <1>3, <2>1 DEF Acc
<1>4. CASE ~ (a.ok /\ f.prev = a.root /\ ~applyRaises(a.state, f.commit))
  <2>1. replayFrame(a, f) = [a EXCEPT !.ok = FALSE]
    BY <1>4 DEF replayFrame
  <2> QED
    BY <1>1, <2>1 DEF Acc
<1> QED
  BY <1>3, <1>4

(* Induction over a replay: what a set of results keeps when a frame is     *)
(* replayed, the whole replay keeps.                                        *)
LEMMA ReplayStays ==
  ASSUME NEW P, NEW b \in P, NEW T, NEW s \in Seq(T),
         \A a \in P : \A i \in 1 .. Len(s) : replayFrame(a, s[i]) \in P
  PROVE  Replay(b, s) \in P
<1> DEFINE Wrong == {k \in 0 .. Len(s) : Replay(b, SubSeq(s, 1, k)) \notin P}
<1>0. s = SubSeq(s, 1, Len(s)) /\ Len(s) \in Nat
  OBVIOUS
<1>1. SUFFICES ASSUME Wrong # {} PROVE FALSE
  <2>1. Len(s) \in 0 .. Len(s) /\ Len(s) \notin Wrong => Replay(b, SubSeq(s, 1, Len(s))) \in P
    OBVIOUS
  <2>2. Replay(b, SubSeq(s, 1, Len(s))) = Replay(b, s)
    BY <1>0, Zenon
  <2> QED
    BY <1>0, <1>1, <2>1, <2>2
<1>2. PICK m \in Wrong : \A k \in Wrong : m <= k
  <2>1. Wrong \subseteq Nat
    OBVIOUS
  <2> HIDE DEF Wrong
  <2> QED
    BY <1>1, <2>1, NatMinimum
<1>3. m \in 0 .. Len(s) /\ Replay(b, SubSeq(s, 1, m)) \notin P
  BY <1>2
<1>4. CASE m = 0
  <2>1. SubSeq(s, 1, m) = << >>
    BY <1>4
  <2> QED
    BY <1>3, <2>1, ReplayNothing
<1>5. CASE m # 0
  <2>1. SubSeq(s, 1, m) = Append(SubSeq(s, 1, m - 1), s[m])
        /\ SubSeq(s, 1, m - 1) \in Seq(T) /\ s[m] \in T
    BY <1>3, <1>5
  <2>2. Replay(b, SubSeq(s, 1, m - 1)) \in P
    <3>1. m - 1 \in 0 .. Len(s) /\ m - 1 \notin Wrong
      BY <1>2, <1>3, <1>5
    <3> QED
      BY <3>1
  <2>3. replayFrame(Replay(b, SubSeq(s, 1, m - 1)), s[m]) \in P
    BY <1>3, <1>5, <2>2
  <2>4. Replay(b, Append(SubSeq(s, 1, m - 1), s[m])) = replayFrame(Replay(b, SubSeq(s, 1, m - 1)), s[m])
    <3>1. \A z \in Seq(T), f \in T : Replay(b, Append(z, f)) = replayFrame(Replay(b, z), f)
      BY ReplayOneMore
    <3> QED
      BY <2>1, <3>1
  <2> QED
    BY <1>3, <2>1, <2>3, <2>4
<1> QED
  BY <1>4, <1>5

-----------------------------------------------------------------------------
(* What the disk holds.                                                     *)

DiskType ==
  /\ log \in Seq(FrameOf \cup {Junk})
  /\ checkpoint \in Snapshot \cup {None}
  /\ checkpoint # None => checkpoint.state.seq = Len(checkpoint.root)
  /\ receipt \in Seq(Commit) \cup {None}

Begun == [ok |-> receiptFits, state |-> base.state, root |-> base.root]

LEMMA RecoverIsReplay == recover = Replay(Begun, frames)
BY DEF recover, Replay, Begun

LEMMA BegunType == ASSUME DiskType PROVE Begun \in Acc
<1>1. base.state \in State /\ base.root \in Seq(Commit) /\ base.state.seq = Len(base.root)
  BY EmptyStateType DEF base, DiskType, Snapshot
<1>2. receiptFits \in BOOLEAN
  BY DEF receiptFits
<1> QED
  BY <1>1, <1>2 DEF Begun, Acc

LEMMA FramesType ==
  ASSUME DiskType
  PROVE  /\ frames \in Seq(FrameOf)
         /\ junkAt \subseteq 1 .. Len(log) /\ Len(log) \in Nat
         /\ junkAt = {} => frames = log
         /\ junkAt # {} => frames = SubSeq(log, 1, Min(junkAt) - 1) /\ Min(junkAt) \in junkAt
         /\ \A i \in 1 .. Len(frames) : i \in 1 .. Len(log) /\ frames[i] = log[i]
<1>1. junkAt \subseteq 1 .. Len(log) /\ Len(log) \in Nat /\ log \in Seq(FrameOf \cup {Junk})
  BY DEF junkAt, DiskType
<1>2. CASE junkAt = {}
  <2>1. \A i \in 1 .. Len(log) : log[i] \in FrameOf
    BY <1>1, <1>2 DEF junkAt
  <2>2. frames = log
    BY <1>2 DEF frames
  <2> QED
    BY <1>1, <1>2, <2>1, <2>2
<1>3. CASE junkAt # {}
  <2> DEFINE m == Min(junkAt)
  <2>1. m \in junkAt /\ \A i \in junkAt : m <= i
    BY <1>1, <1>3, MinIsLeast
  <2>2. m \in 1 .. Len(log)
    BY <1>1, <2>1
  <2>3. frames = SubSeq(log, 1, m - 1)
    BY <1>3 DEF frames
  <2> HIDE DEF m
  <2>4. \A i \in 1 .. (m - 1) : log[i] \in FrameOf
    BY <1>1, <2>1, <2>2 DEF junkAt
  <2>5. Len(SubSeq(log, 1, m - 1)) = m - 1 /\ \A i \in 1 .. (m - 1) : SubSeq(log, 1, m - 1)[i] = log[i]
    BY <1>1, <2>2
  <2>6. SubSeq(log, 1, m - 1) \in Seq(FrameOf)
    BY <1>1, <2>2, <2>4
  <2> QED
    BY <1>1, <1>3, <2>1, <2>2, <2>3, <2>5, <2>6 DEF m
<1> QED
  BY <1>2, <1>3

(* Opening builds a typed state, which extends what the checkpoint covers.  *)
Extends(r, r0) == Len(r0) <= Len(r) /\ \A i \in 1 .. Len(r0) : r[i] = r0[i]

LEMMA RecoverType ==
  ASSUME DiskType
  PROVE  recover \in Acc /\ Extends(recover.root, base.root) /\ (recover.ok => receiptFits)
<1> DEFINE P == {a \in Acc : Extends(a.root, base.root) /\ (a.ok => receiptFits)}
<1>1. Begun \in P
  BY BegunType DEF Begun, Extends, Acc
<1>2. ASSUME NEW a \in P, NEW f \in FrameOf PROVE replayFrame(a, f) \in P
  <2>1. replayFrame(a, f) \in Acc
    BY ReplayFrameType
  <2>2. CASE replayFrame(a, f).ok
    <3>1. replayFrame(a, f).root = Append(a.root, f.commit) /\ a.ok
      BY <2>2, ReplayFrameType
    <3>2. base.root \in Seq(Commit) /\ a.root \in Seq(Commit) /\ f.commit \in Commit
      BY BegunType DEF Begun, Acc, FrameOf
    <3>3. Extends(Append(a.root, f.commit), base.root)
      BY <3>2 DEF Extends
    <3> QED
      BY <2>1, <3>1, <3>3
  <2>3. CASE ~ replayFrame(a, f).ok
    <3>1. replayFrame(a, f) = [a EXCEPT !.ok = FALSE]
      BY <2>3 DEF replayFrame
    <3>2. replayFrame(a, f).root = a.root
      BY <3>1 DEF Acc
    <3> QED
      BY <2>1, <2>3, <3>2
  <2> QED
    BY <2>2, <2>3
<1>3. frames \in Seq(FrameOf)
  BY FramesType
<1> HIDE DEF P
<1>4. Replay(Begun, frames) \in P
  <2>1. \A a \in P : \A i \in 1 .. Len(frames) : replayFrame(a, frames[i]) \in P
    BY <1>2, <1>3
  <2> QED
    BY <1>1, <1>3, <2>1, ReplayStays
<1> QED
  BY <1>4, RecoverIsReplay DEF P

(* Records reach the disk one at a time: what is behind a leftover is not   *)
(* seen, and a frame behind frames is replayed once more.                   *)
LEMMA AppendToLog ==
  ASSUME DiskType, NEW f \in FrameOf \cup {Junk}, log' = Append(log, f),
         UNCHANGED <<checkpoint, receipt>>
  PROVE  /\ DiskType'
         /\ junkAt # {} => junkAt' # {} /\ recover' = recover /\ frames' = frames
         /\ junkAt = {} /\ f = Junk => junkAt' # {} /\ recover' = recover /\ frames' = frames
         /\ junkAt = {} /\ f # Junk => junkAt' = {} /\ recover' = replayFrame(recover, f)
<1> DEFINE n == Len(log)
<1>1. /\ log \in Seq(FrameOf \cup {Junk}) /\ n \in Nat /\ DOMAIN log = 1 .. n
      /\ log' \in Seq(FrameOf \cup {Junk}) /\ DOMAIN log' = 1 .. (n + 1) /\ Len(log') = n + 1
      /\ log'[n + 1] = f /\ \A i \in 1 .. n : log'[i] = log[i]
  BY DEF DiskType
<1>2. DiskType'
  BY <1>1 DEF DiskType
<1>3. junkAt' = junkAt \cup (IF f = Junk THEN {n + 1} ELSE {})
  BY <1>1 DEF junkAt
<1>4. junkAt \subseteq 1 .. n /\ junkAt' \subseteq 1 .. (n + 1)
  BY <1>1 DEF junkAt
<1>5. Begun' = Begun
  BY DEF Begun, receiptFits, base
<1>6. recover' = Replay(Begun, frames')
  BY <1>5 DEF recover, Replay, Begun
<1>7. CASE junkAt # {}
  <2>1. Min(junkAt) \in junkAt /\ \A i \in junkAt : Min(junkAt) <= i
    BY <1>1, <1>4, <1>7, MinIsLeast
  <2>2. junkAt' # {}
    BY <1>3, <1>7
  <2>3. Min(junkAt') \in junkAt' /\ \A i \in junkAt' : Min(junkAt') <= i
    <3>1. n + 1 \in Nat
      BY <1>1
    <3> DEFINE later == junkAt'
    <3>2. later \subseteq 1 .. (n + 1) /\ later # {}
      BY <1>4, <2>2
    <3> HIDE DEF later
    <3>3. Min(later) \in later /\ \A i \in later : Min(later) <= i
      BY <3>1, <3>2, MinIsLeast
    <3> QED
      BY <3>3 DEF later, Min
  <2>4. (Min(junkAt))' = Min(junkAt)
    <3>1. Min(junkAt) \in 1 .. n /\ Min(junkAt') \in 1 .. (n + 1)
      BY <1>4, <2>1, <2>3
    <3>2. Min(junkAt') <= Min(junkAt)
      BY <1>3, <2>1, <2>3
    <3>3. Min(junkAt') \in junkAt \/ Min(junkAt') = n + 1
      BY <1>3, <2>3
    <3>4. Min(junkAt) <= Min(junkAt')
      BY <1>1, <2>1, <3>1, <3>3
    <3> QED
      BY <3>1, <3>2, <3>4
  <2>5. frames' = SubSeq(log', 1, Min(junkAt) - 1)
    BY <2>2, <2>4 DEF frames
  <2>6. frames = SubSeq(log, 1, Min(junkAt) - 1)
    BY <1>7 DEF frames
  <2>7. Min(junkAt) \in 1 .. n
    BY <1>4, <2>1
  <2>8. frames' = frames
    BY <1>1, <2>5, <2>6, <2>7
  <2> QED
    BY <1>2, <1>6, <1>7, <2>2, <2>8, RecoverIsReplay
<1>8. CASE junkAt = {} /\ f = Junk
  <2>1. junkAt' = {n + 1}
    BY <1>3, <1>8
  <2>2. (Min(junkAt))' = n + 1
    <3>1. Min({n + 1}) = n + 1
      BY <1>1 DEF Min
    <3> QED
      BY <2>1, <3>1
  <2>3. frames' = SubSeq(log', 1, n)
    <3>1. junkAt' # {} /\ n + 1 - 1 = n
      BY <1>1, <2>1
    <3>2. frames' = SubSeq(log', 1, (Min(junkAt))' - 1)
      BY <3>1 DEF frames
    <3> QED
      BY <2>2, <3>1, <3>2
  <2>4. frames = log
    BY <1>8 DEF frames
  <2>5. frames' = frames
    BY <1>1, <2>3, <2>4
  <2> QED
    BY <1>2, <1>6, <1>8, <2>1, <2>5, RecoverIsReplay
<1>9. CASE junkAt = {} /\ f # Junk
  <2>1. junkAt' = {}
    BY <1>3, <1>9
  <2>2. frames = log /\ frames' = log'
    BY <1>9, <2>1 DEF frames
  <2>3. frames \in Seq(FrameOf) /\ f \in FrameOf
    BY <1>9, FramesType
  <2>4. frames' = Append(frames, f)
    BY <2>2
  <2>5. \A z \in Seq(FrameOf), g \in FrameOf : Replay(Begun, Append(z, g)) = replayFrame(Replay(Begun, z), g)
    BY ReplayOneMore
  <2>6. Replay(Begun, Append(frames, f)) = replayFrame(Replay(Begun, frames), f)
    BY <2>3, <2>5
  <2> QED
    BY <1>2, <1>6, <1>9, <2>1, <2>4, <2>6, RecoverIsReplay
<1> QED
  BY <1>7, <1>8, <1>9

(* Opening keeps the frames it replayed.                                    *)
LEMMA KeepFrames ==
  ASSUME DiskType, log' = frames, UNCHANGED <<checkpoint, receipt>>
  PROVE  DiskType' /\ junkAt' = {} /\ recover' = recover
<1>1. frames \in Seq(FrameOf)
  BY FramesType
<1>2. junkAt' = {}
  BY <1>1, NoneAssumption DEF junkAt
<1>3. frames' = frames
  BY <1>2 DEF frames
<1>4. Begun' = Begun
  BY DEF Begun, receiptFits, base
<1> QED
  BY <1>1, <1>2, <1>3, <1>4, RecoverIsReplay DEF DiskType, recover, Replay, Begun

LEMMA SameDisk ==
  ASSUME UNCHANGED <<log, checkpoint, receipt>>
  PROVE  recover' = recover /\ junkAt' = junkAt /\ frames' = frames
BY DEF recover, junkAt, frames, receiptFits, base

-----------------------------------------------------------------------------
(* Types of the whole state.                                                *)

Shape ==
  /\ phase # "open" => compacting = "no" /\ \A t \in Thread : pc[t] = "idle"
  /\ \A t \in Thread :
       /\ pc[t] # "idle" => event[t] \in Event
       /\ pc[t] \in {"previous", "expected", "commit"} =>
            plan[t] \in Commit /\ plan[t].event = event[t]
       /\ pc[t] \in {"previous", "expected"} => plan[t].op = "react"

Halfway ==
  /\ halfCompacted => checkpoint = [state |-> state, root |-> root]
  /\ compacting = "receipt" => receipt = root

Typed == TypeOK /\ DiskType /\ Shape /\ Halfway

LEMMA NoPlan == NoCommit \in {[NoCommit EXCEPT !.op = o] : o \in Op}
<1> DEFINE c == [op |-> "ingest", event |-> None, revoked |-> {}, previous |-> 0, expected |-> 0]
<1>1. [c EXCEPT !.op = "ingest"] = c
  OBVIOUS
<1>2. NoCommit = c /\ "ingest" \in Op
  BY DEF NoCommit, Op
<1> HIDE DEF c
<1> QED
  BY <1>1, <1>2

LEMMA InitTyped == Init => Typed
<1> SUFFICES ASSUME Init PROVE Typed
  OBVIOUS
<1> USE DEF Init
<1>1. EmptyState \in State /\ EmptyState.seq = Len(<< >>)
  BY EmptyStateType
<1>2. NoCommit \in {[NoCommit EXCEPT !.op = o] : o \in Op}
  BY NoPlan
<1>3. TypeOK
  <2>1. state \in State /\ root \in Seq(Commit) /\ state.seq = Len(root)
    BY <1>1
  <2>2. /\ log \in Seq(FrameOf \cup {Junk}) /\ checkpoint \in Snapshot \cup {None}
        /\ receipt \in Seq(Commit) \cup {None}
    OBVIOUS
  <2>3. /\ pc \in [Thread -> Stage] /\ event \in [Thread -> Event \cup {None}]
        /\ plan \in [Thread -> Commit \cup {[NoCommit EXCEPT !.op = o] : o \in Op}]
    BY <1>2 DEF Stage
  <2>4. /\ calls \in 0 .. MaxCall /\ compactions \in 0 .. MaxCompact /\ faults \in 0 .. MaxFault
        /\ phase \in {"open", "closed", "blocked"}
        /\ compacting \in {"no", "written", "checkpoint", "receipt"}
    BY BoundsAssumption
  <2>5. /\ acked \in SUBSET (Nat \X Commit) /\ behind \in SUBSET (Nat \X Commit)
        /\ leftover \in BOOLEAN /\ harm \subseteq {"append", "compact"}
        /\ overtaken \subseteq Thread /\ mixed \subseteq Entity
    OBVIOUS
  <2> QED
    BY <2>1, <2>2, <2>3, <2>4, <2>5 DEF TypeOK
<1> QED
  BY <1>3 DEF Typed, DiskType, Shape, Halfway, halfCompacted

(* A thread plans: only its own place, event and plan change.               *)
Reads(t) ==
  /\ UNCHANGED <<memory, disk, compacting, compactions, faults, history>>
  /\ phase = "open"

LEMMA PlanTyped ==
  ASSUME Typed, NEW t \in Thread,
         \/ \E e \in Event : Record(t, e)
         \/ PlanRegister(t) \/ PlanIngest(t) \/ PlanClaim(t)
         \/ ReadBonds(t) \/ ReadPrevious(t) \/ ReadExpected(t)
  PROVE  Typed' /\ Reads(t)
<1>0. TypeOK /\ Shape
  BY DEF Typed
<1>1. /\ UNCHANGED <<phase, state, root, disk, compacting, compactions, faults, history>>
      /\ phase = "open"
  BY <1>0 DEF Record, PlanRegister, PlanIngest, PlanClaim, ReadBonds, ReadPrevious, ReadExpected,
              memory, bounds, Shape
<1>2. DiskType' /\ Halfway'
  <2>1. DiskType'
    BY <1>1 DEF Typed, DiskType, disk
  <2>2. Halfway'
    BY <1>1 DEF Typed, Halfway, halfCompacted, disk
  <2> QED
    BY <2>1, <2>2
<1>a. \A o \in Op : [NoCommit EXCEPT !.op = o] \in {[NoCommit EXCEPT !.op = x] : x \in Op}
  OBVIOUS
<1> USE DEF TypeOK, Shape, Stage
<1>3. ASSUME NEW e \in Event, Record(t, e) PROVE TypeOK' /\ Shape' /\ Reads(t)
  <2>1. calls' \in 0 .. MaxCall
    BY <1>0, <1>3, BoundsAssumption DEF Record
  <2> QED
    BY <1>0, <1>1, <1>3, <2>1 DEF Record, goOn, Reads, memory, disk, history
<1>4. ASSUME NEW op \in Op, NEW q \in Stage, planCommit(t, op) \/ goOn(t, q), pc[t] \in {"register", "ingest", "claim"},
             q \in {"ingest", "claim", "react"},
             UNCHANGED <<memory, disk, compacting, event, bounds, history>>
      PROVE  TypeOK' /\ Shape' /\ Reads(t)
  <2>1. event[t] \in Event
    BY <1>0, <1>4
  <2>2. [NoCommit EXCEPT !.op = op, !.event = event[t]] \in Commit
    BY <2>1 DEF NoCommit, Commit
  <2>3. CASE planCommit(t, op)
    BY <1>0, <1>1, <1>4, <2>1, <2>2, <2>3 DEF planCommit, Reads, memory, disk, bounds, history, NoCommit
  <2>4. CASE goOn(t, q)
    BY <1>0, <1>1, <1>4, <2>1, <2>4 DEF goOn, Reads, memory, disk, bounds, history
  <2> QED
    BY <1>4, <2>3, <2>4
<1>5. CASE PlanRegister(t) \/ PlanIngest(t) \/ PlanClaim(t)
  <2>1. "genesis" \in Op /\ "ingest" \in Op /\ "claim" \in Op
    BY DEF Op
  <2>2. "ingest" \in Stage /\ "claim" \in Stage /\ "react" \in Stage
    OBVIOUS
  <2> HIDE DEF TypeOK, Shape, Stage
  <2>3. ASSUME PlanRegister(t) PROVE TypeOK' /\ Shape' /\ Reads(t)
    <3>1. planCommit(t, "genesis") \/ goOn(t, "ingest")
      BY <2>3 DEF PlanRegister
    <3> QED
      BY <1>4, <2>1, <2>2, <2>3, <3>1 DEF PlanRegister
  <2>4. ASSUME PlanIngest(t) PROVE TypeOK' /\ Shape' /\ Reads(t)
    <3>1. planCommit(t, "ingest") \/ goOn(t, "claim")
      BY <2>4 DEF PlanIngest
    <3> QED
      BY <1>4, <2>1, <2>2, <2>4, <3>1 DEF PlanIngest
  <2>5. ASSUME PlanClaim(t) PROVE TypeOK' /\ Shape' /\ Reads(t)
    <3>1. planCommit(t, "claim") \/ goOn(t, "react")
      BY <2>5 DEF PlanClaim
    <3> QED
      BY <1>4, <2>1, <2>2, <2>5, <3>1 DEF PlanClaim
  <2> QED
    BY <1>2, <1>5, <2>3, <2>4, <2>5 DEF Typed
<1>6. CASE ReadBonds(t)
  <2>1. event[t] \in Event
    BY <1>0, <1>6 DEF ReadBonds
  <2> DEFINE p == [NoCommit EXCEPT !.op = "react", !.event = event[t],
                     !.revoked = active_bonds(state, Subject[event[t]], state.seq)]
  <2>2. p \in Commit /\ p.event = event[t] /\ p.op = "react"
    BY <2>1 DEF NoCommit, Commit, active_bonds, Op
  <2>3. plan' = [plan EXCEPT ![t] = p] /\ pc' = [pc EXCEPT ![t] = "previous"] /\ event' = event
        /\ UNCHANGED bounds
    BY <1>6 DEF ReadBonds
  <2> HIDE DEF p
  <2> QED
    BY <1>0, <1>1, <1>2, <1>6, <2>1, <2>2, <2>3 DEF ReadBonds, Reads, memory, disk, bounds, history, Typed
<1>7. CASE ReadPrevious(t) \/ ReadExpected(t)
  <2>1. event[t] \in Event /\ plan[t] \in Commit /\ plan[t].event = event[t] /\ plan[t].op = "react"
    BY <1>0, <1>7 DEF ReadPrevious, ReadExpected
  <2>2. state.version[Subject[event[t]]] \in Nat
    BY <1>0, <2>1, EventAssumption DEF State
  <2>3. \E p, label : /\ p \in Commit /\ p.event = event[t] /\ p.op = "react"
                      /\ plan' = [plan EXCEPT ![t] = p]
                      /\ label \in {"expected", "commit"} /\ pc' = [pc EXCEPT ![t] = label]
    <3>1. CASE ReadPrevious(t)
      <4> DEFINE p == [plan[t] EXCEPT !.previous = state.version[Subject[event[t]]]]
      <4>1. p \in Commit /\ p.event = event[t] /\ p.op = "react"
        BY <2>1, <2>2 DEF Commit
      <4>2. plan' = [plan EXCEPT ![t] = p] /\ pc' = [pc EXCEPT ![t] = "expected"]
        BY <3>1, <1>0 DEF ReadPrevious
      <4> QED
        BY <4>1, <4>2
    <3>2. CASE ReadExpected(t)
      <4> DEFINE p == [plan[t] EXCEPT !.expected = state.version[Subject[event[t]]]]
      <4>1. p \in Commit /\ p.event = event[t] /\ p.op = "react"
        BY <2>1, <2>2 DEF Commit
      <4>2. plan' = [plan EXCEPT ![t] = p] /\ pc' = [pc EXCEPT ![t] = "commit"]
        BY <3>2, <1>0 DEF ReadExpected
      <4> QED
        BY <4>1, <4>2
    <3> QED
      BY <1>7, <3>1, <3>2
  <2>4. event' = event /\ UNCHANGED bounds
    BY <1>7 DEF ReadPrevious, ReadExpected
  <2>5. TypeOK'
    BY <1>0, <1>1, <2>3, <2>4 DEF disk, bounds, history
  <2>6. Shape'
    BY <1>0, <1>1, <1>7, <2>1, <2>3, <2>4 DEF ReadPrevious, ReadExpected
  <2>7. Reads(t)
    BY <1>0, <1>1, <1>7 DEF ReadPrevious, ReadExpected, Reads, memory
  <2> QED
    BY <1>2, <2>5, <2>6, <2>7 DEF Typed
<1> HIDE DEF TypeOK, Shape, Stage
<1> QED
  BY <1>2, <1>3, <1>5, <1>6, <1>7 DEF Typed

LEMMA FrameType ==
  ASSUME root \in Seq(Commit), NEW c \in Commit
  PROVE  /\ Frame(c) \in FrameOf /\ Frame(c) # Junk
         /\ Frame(c).prev = root /\ Frame(c).commit = c
BY NoneAssumption DEF Frame, FrameOf

(* What an append that did not return may have done to the disk.            *)
Left(c, part) ==
  \/ part = << >> /\ log' = log /\ UNCHANGED <<recover, junkAt, frames>>
  \/ part # << >> /\ junkAt' # {} /\ UNCHANGED <<recover, frames>>
  \/ /\ part # << >> /\ junkAt = {} /\ junkAt' = {}
     /\ recover' = replayFrame(recover, Frame(c))

LEMMA LeaveTyped ==
  ASSUME DiskType, root \in Seq(Commit), NEW c \in Commit,
         NEW part \in {<< >>, <<Junk>>, <<Frame(c)>>},
         log' = log \o part, UNCHANGED <<checkpoint, receipt>>
  PROVE  DiskType' /\ Left(c, part) /\ (junkAt # {} => junkAt' # {})
<1>1. log \in Seq(FrameOf \cup {Junk})
  BY DEF DiskType
<1>2. CASE part = << >>
  <2>1. log' = log
    BY <1>1, <1>2
  <2> QED
    BY <1>2, <2>1, SameDisk DEF Left, DiskType
<1>3. CASE part = <<Junk>>
  <2>1. log' = Append(log, Junk)
    BY <1>1, <1>3
  <2>2. \A f \in FrameOf \cup {Junk} : log' = Append(log, f) =>
          /\ DiskType'
          /\ junkAt # {} => junkAt' # {} /\ recover' = recover /\ frames' = frames
          /\ junkAt = {} /\ f = Junk => junkAt' # {} /\ recover' = recover /\ frames' = frames
    BY AppendToLog
  <2>3. part # << >>
    BY <1>3
  <2> QED
    BY <2>1, <2>2, <2>3 DEF Left
<1>4. CASE part = <<Frame(c)>>
  <2> DEFINE f == Frame(c)
  <2>0. f \in FrameOf /\ f # Junk
    BY FrameType
  <2>1. log' = Append(log, f)
    BY <1>1, <1>4, <2>0
  <2>2. \A g \in FrameOf \cup {Junk} : log' = Append(log, g) =>
          /\ DiskType'
          /\ junkAt # {} => junkAt' # {} /\ recover' = recover /\ frames' = frames
          /\ junkAt = {} /\ g # Junk => junkAt' = {} /\ recover' = replayFrame(recover, g)
    BY AppendToLog
  <2>3. part # << >>
    BY <1>4
  <2> HIDE DEF f
  <2>4. /\ DiskType'
        /\ junkAt # {} => junkAt' # {} /\ recover' = recover /\ frames' = frames
        /\ junkAt = {} => junkAt' = {} /\ recover' = replayFrame(recover, f)
    BY <2>0, <2>1, <2>2
  <2> QED
    BY <2>3, <2>4 DEF Left, f
<1> QED
  BY <1>2, <1>3, <1>4

LEMMA CleanAppend ==
  ASSUME DiskType, root \in Seq(Commit), NEW c \in Commit, junkAt = {},
         log' = Append(log, Frame(c)), UNCHANGED <<checkpoint, receipt>>
  PROVE  junkAt' = {} /\ recover' = replayFrame(recover, Frame(c))
<1> DEFINE f == Frame(c)
<1>1. f \in FrameOf /\ f # Junk /\ log' = Append(log, f)
  BY FrameType
<1>2. \A g \in FrameOf \cup {Junk} : log' = Append(log, g) =>
        (junkAt = {} /\ g # Junk => junkAt' = {} /\ recover' = replayFrame(recover, g))
  BY AppendToLog
<1> HIDE DEF f
<1>3. junkAt' = {} /\ recover' = replayFrame(recover, f)
  BY <1>1, <1>2
<1> QED
  BY <1>3 DEF f

(* The plan a thread commits, appends or leaves half-written is a commit.   *)
LEMMA AtCommit ==
  ASSUME Typed, NEW t \in Thread, atCommit(t)
  PROVE  /\ plan[t] \in Commit /\ plan[t].event = event[t] /\ event[t] \in Event
         /\ root \in Seq(Commit) /\ state \in State /\ state.seq = Len(root)
         /\ phase = "open" /\ compacting = "no" /\ DiskType
BY DEF Typed, TypeOK, Shape, atCommit

LEMMA EndedCall ==
  ASSUME Typed, NEW t \in Thread, endCall(t), phase = "open", UNCHANGED <<phase, compacting>>
  PROVE  /\ pc' \in [Thread -> Stage] /\ event' \in [Thread -> Event \cup {None}]
         /\ plan' \in [Thread -> Commit \cup {[NoCommit EXCEPT !.op = o] : o \in Op}]
         /\ overtaken' \subseteq Thread /\ Shape'
<1> DEFINE Plans == Commit \cup {[NoCommit EXCEPT !.op = o] : o \in Op}
<1>1. NoCommit \in Plans
  BY NoPlan
<1> HIDE DEF Plans
<1>2. /\ pc \in [Thread -> Stage] /\ event \in [Thread -> Event \cup {None}]
      /\ plan \in [Thread -> Plans] /\ overtaken \subseteq Thread /\ Shape
  BY DEF Typed, TypeOK, Plans
<1>3. /\ pc' = [pc EXCEPT ![t] = "idle"] /\ event' = [event EXCEPT ![t] = None]
      /\ plan' = [plan EXCEPT ![t] = NoCommit] /\ overtaken' = overtaken \ {t}
  BY DEF endCall
<1>4. /\ pc' \in [Thread -> Stage] /\ event' \in [Thread -> Event \cup {None}]
      /\ plan' \in [Thread -> Plans] /\ overtaken' \subseteq Thread
  BY <1>1, <1>2, <1>3 DEF Stage
<1>5. Shape'
  <2>1. \A u \in Thread \ {t} : pc'[u] = pc[u] /\ event'[u] = event[u] /\ plan'[u] = plan[u]
    BY <1>2, <1>3
  <2>2. pc'[t] = "idle"
    BY <1>2, <1>3
  <2> QED
    BY <1>2, <2>1, <2>2 DEF Shape
<1> QED
  BY <1>4, <1>5 DEF Plans

LEMMA ConflictTyped ==
  ASSUME Typed, NEW t \in Thread, Conflict(t)
  PROVE  Typed'
<1>1. /\ UNCHANGED <<phase, state, root, log, checkpoint, receipt, compacting,
                     calls, compactions, faults, acked, leftover, behind, harm, mixed>>
      /\ phase = "open" /\ endCall(t)
  BY DEF Conflict, memory, disk, bounds, atCommit
<1>2. /\ pc' \in [Thread -> Stage] /\ event' \in [Thread -> Event \cup {None}]
      /\ plan' \in [Thread -> Commit \cup {[NoCommit EXCEPT !.op = o] : o \in Op}]
      /\ overtaken' \subseteq Thread /\ Shape'
  BY <1>1, EndedCall
<1>3. TypeOK'
  BY <1>1, <1>2 DEF Typed, TypeOK
<1>4. DiskType' /\ Halfway'
  BY <1>1 DEF Typed, DiskType, Halfway, halfCompacted
<1> QED
  BY <1>2, <1>3, <1>4 DEF Typed

LEMMA FailAppendTyped ==
  ASSUME Typed, NEW t \in Thread, FailAppend(t)
  PROVE  Typed' /\ \E part \in partOf(t) : leave(part) /\ Left(plan[t], part)
<1>1. /\ UNCHANGED <<phase, state, root, checkpoint, receipt, compacting,
                     calls, compactions, acked, behind>>
      /\ atCommit(t) /\ endCall(t) /\ faults < MaxFault /\ faults' = faults + 1
      /\ mixed' = mixed \cup mixedBy(t)
  BY DEF FailAppend, memory
<1>2. PICK part \in partOf(t) : leave(part)
  BY DEF FailAppend
<1>3. /\ plan[t] \in Commit /\ root \in Seq(Commit) /\ phase = "open" /\ DiskType
      /\ compacting = "no"
  BY <1>1, AtCommit
<1>4. /\ log' = log \o part
      /\ harm' = IF part # <<>> /\ leftover THEN harm \cup {"append"} ELSE harm
      /\ leftover' = (leftover \/ part # <<>>)
  BY <1>2 DEF leave
<1>5. DiskType' /\ Left(plan[t], part)
  BY <1>1, <1>2, <1>3, <1>4, LeaveTyped DEF partOf
<1>6. /\ pc' \in [Thread -> Stage] /\ event' \in [Thread -> Event \cup {None}]
      /\ plan' \in [Thread -> Commit \cup {[NoCommit EXCEPT !.op = o] : o \in Op}]
      /\ overtaken' \subseteq Thread /\ Shape'
  BY <1>1, <1>3, EndedCall
<1>7. mixedBy(t) \subseteq Entity
  BY <1>3, CommitFacts DEF mixedBy
<1>8. /\ faults' \in 0 .. MaxFault /\ leftover' \in BOOLEAN /\ harm' \subseteq {"append", "compact"}
      /\ mixed' \subseteq Entity
  BY <1>1, <1>4, <1>7, BoundsAssumption DEF Typed, TypeOK
<1>9. TypeOK'
  <2>1. log' \in Seq(FrameOf \cup {Junk})
    BY <1>5 DEF DiskType
  <2> QED
    BY <1>1, <1>6, <1>8, <2>1 DEF Typed, TypeOK
<1>10. Halfway'
  BY <1>1, <1>3 DEF Halfway, halfCompacted
<1> QED
  BY <1>2, <1>5, <1>6, <1>9, <1>10 DEF Typed

LEMMA CommitTyped ==
  ASSUME Typed, NEW t \in Thread, CommitPlan(t)
  PROVE  Typed' /\ Left(plan[t], <<Frame(plan[t])>>) /\ (junkAt # {} => junkAt' # {})
<1> DEFINE c == plan[t]
           entry == <<Len(root) + 1, c>>
           Plans == Commit \cup {[NoCommit EXCEPT !.op = o] : o \in Op}
<1>1. /\ atCommit(t) /\ versionsMatch(t)
      /\ log' = Append(log, Frame(c)) /\ root' = Append(root, c) /\ state' = applyCore(state, c)
      /\ acked' = IF applyRaises(state, c) THEN acked ELSE acked \cup {entry}
      /\ behind' = IF leftover THEN behind \cup {entry} ELSE behind
      /\ harm' = IF leftover THEN harm \cup {"append"} ELSE harm
      /\ mixed' = mixed \cup mixedBy(t)
      /\ plan' = [plan EXCEPT ![t] = NoCommit]
      /\ overtaken' = (overtaken \cup readersOf(c)) \ {t}
      /\ UNCHANGED <<phase, checkpoint, receipt, compacting, calls, compactions, faults, leftover>>
  BY DEF CommitPlan, bounds
<1>2. IF applyRaises(state, c) \/ nextStage(c.op) = "idle"
      THEN pc' = [pc EXCEPT ![t] = "idle"] /\ event' = [event EXCEPT ![t] = None]
      ELSE pc' = [pc EXCEPT ![t] = nextStage(c.op)] /\ UNCHANGED event
  BY DEF CommitPlan
<1>3. /\ c \in Commit /\ c.event = event[t] /\ event[t] \in Event
      /\ root \in Seq(Commit) /\ state \in State /\ state.seq = Len(root)
      /\ phase = "open" /\ compacting = "no" /\ DiskType
  BY <1>1, AtCommit
<1>4. nextStage(c.op) \in {"ingest", "claim", "react", "idle"}
  BY <1>3, CommitFacts DEF nextStage, Op
<1>5. mixedBy(t) \subseteq Entity
  BY <1>3, CommitFacts DEF mixedBy
<1>6. DiskType' /\ Left(c, <<Frame(c)>>) /\ (junkAt # {} => junkAt' # {})
  <2>1. Append(log, Frame(c)) = log \o <<Frame(c)>>
    BY <1>3, FrameType DEF DiskType
  <2> QED
    BY <1>1, <1>3, <2>1, LeaveTyped
<1>7. state' \in State /\ root' \in Seq(Commit) /\ state'.seq = Len(root')
  BY <1>1, <1>3, ApplyType
<1>8. NoCommit \in Plans
  BY NoPlan
<1>9. entry \in Nat \X Commit
  BY <1>3
<1> HIDE DEF c, Plans, entry
<1>10. /\ pc' \in [Thread -> Stage] /\ event' \in [Thread -> Event \cup {None}]
       /\ plan' \in [Thread -> Plans] /\ overtaken' \subseteq Thread
  BY <1>1, <1>2, <1>4, <1>8 DEF Typed, TypeOK, Plans, Stage, readersOf
<1>11. /\ acked' \in SUBSET (Nat \X Commit) /\ behind' \in SUBSET (Nat \X Commit)
       /\ harm' \subseteq {"append", "compact"} /\ mixed' \subseteq Entity
  BY <1>1, <1>5, <1>9 DEF Typed, TypeOK
<1>12. TypeOK'
  <2>1. log' \in Seq(FrameOf \cup {Junk})
    BY <1>6 DEF DiskType
  <2> QED
    BY <1>1, <1>7, <1>10, <1>11, <2>1 DEF Typed, TypeOK, Plans
<1>13. Shape'
  <2>1. pc \in [Thread -> Stage] /\ event \in [Thread -> Event \cup {None}] /\ plan \in [Thread -> Plans] /\ Shape
    BY DEF Typed, TypeOK, Plans
  <2>2. \A u \in Thread \ {t} : pc'[u] = pc[u] /\ event'[u] = event[u] /\ plan'[u] = plan[u]
    BY <1>1, <1>2, <2>1
  <2>3. pc'[t] \in {"ingest", "claim", "react", "idle"} /\ (pc'[t] # "idle" => event'[t] = event[t])
    BY <1>2, <1>4, <2>1
  <2> QED
    BY <1>1, <1>3, <2>1, <2>2, <2>3 DEF Shape
<1>14. Halfway'
  BY <1>1, <1>3 DEF Halfway, halfCompacted
<1> QED
  BY <1>6, <1>12, <1>13, <1>14 DEF Typed, c

LEMMA CompactTyped ==
  ASSUME Typed, BeginCompact \/ Compact \/ FailCompact
  PROVE  Typed'
<1>0. TypeOK /\ Shape /\ Halfway /\ DiskType
  BY DEF Typed
<1>1. CASE BeginCompact
  <2>1. compactions' \in 0 .. MaxCompact
    BY <1>0, <1>1, BoundsAssumption DEF BeginCompact, TypeOK
  <2>2. TypeOK'
    BY <1>0, <1>1, <2>1 DEF BeginCompact, memory, disk, threads, history, TypeOK
  <2>3. Shape' /\ Halfway' /\ DiskType'
    BY <1>0, <1>1 DEF BeginCompact, memory, disk, threads, Shape, Halfway, halfCompacted, DiskType
  <2> QED
    BY <2>2, <2>3 DEF Typed
<1>2. CASE ReplaceCheckpoint
  <2>1. [state |-> state, root |-> root] \in Snapshot
    BY <1>0 DEF TypeOK, Snapshot
  <2>2. TypeOK'
    BY <1>0, <1>2, <2>1 DEF ReplaceCheckpoint, memory, threads, bounds, history, TypeOK
  <2>3. DiskType'
    <3>1. checkpoint' = [state |-> state, root |-> root] /\ log' = log /\ receipt' = receipt
      BY <1>2 DEF ReplaceCheckpoint
    <3>2. checkpoint'.state.seq = Len(checkpoint'.root)
      BY <1>0, <3>1 DEF TypeOK
    <3> QED
      BY <1>0, <2>1, <3>1, <3>2 DEF DiskType
  <2>4. Shape' /\ Halfway'
    BY <1>0, <1>2 DEF ReplaceCheckpoint, memory, threads, Shape, Halfway, halfCompacted
  <2> QED
    BY <2>2, <2>3, <2>4 DEF Typed
<1>3. CASE ReplaceReceipt
  <2>1. TypeOK'
    BY <1>0, <1>3 DEF ReplaceReceipt, memory, threads, bounds, history, TypeOK
  <2>2. Shape' /\ Halfway' /\ DiskType'
    BY <1>0, <1>3 DEF ReplaceReceipt, memory, threads, Shape, Halfway, halfCompacted, DiskType, TypeOK
  <2> QED
    BY <2>1, <2>2 DEF Typed
<1>4. CASE TruncateLog
  <2>1. /\ compacting = "receipt" /\ log' = << >> /\ compacting' = "no"
        /\ behind' = behind \ held /\ harm' = {} /\ leftover' = FALSE
        /\ UNCHANGED <<phase, state, root, checkpoint, receipt, pc, event, plan,
                       calls, compactions, faults, acked, overtaken, mixed>>
    BY <1>4 DEF TruncateLog, memory, threads, bounds
  <2>2. behind \ held \in SUBSET (Nat \X Commit) /\ << >> \in Seq(FrameOf \cup {Junk})
    BY <1>0 DEF TypeOK
  <2>3. TypeOK'
    BY <1>0, <2>1, <2>2 DEF TypeOK
  <2>4. Shape' /\ Halfway' /\ DiskType'
    BY <1>0, <2>1, <2>2 DEF Shape, Halfway, halfCompacted, DiskType
  <2> QED
    BY <2>3, <2>4 DEF Typed
<1>5. CASE FailCompact
  <2>1. /\ compacting' = "no" /\ faults < MaxFault /\ faults' = faults + 1
        /\ harm' = IF halfCompacted THEN harm \cup {"compact"} ELSE harm
        /\ UNCHANGED <<phase, state, root, log, checkpoint, receipt, pc, event, plan,
                       calls, compactions, acked, leftover, behind, overtaken, mixed>>
    BY <1>5 DEF FailCompact, memory, disk, threads
  <2>2. faults' \in 0 .. MaxFault /\ harm' \subseteq {"append", "compact"}
    BY <1>0, <2>1, BoundsAssumption DEF TypeOK
  <2>3. TypeOK'
    BY <1>0, <2>1, <2>2 DEF TypeOK
  <2>4. Shape' /\ Halfway' /\ DiskType'
    BY <1>0, <2>1 DEF Shape, Halfway, halfCompacted, DiskType
  <2> QED
    BY <2>3, <2>4 DEF Typed
<1> QED
  BY <1>1, <1>2, <1>3, <1>4, <1>5 DEF Compact

(* How a crash finds the disk: idle, in an append, or in a compaction.      *)
CrashIdle == leave(<< >>) /\ ~halfCompacted /\ UNCHANGED mixed
CrashInAppend(t) ==
  /\ atCommit(t) /\ versionsMatch(t)
  /\ \E part \in partOf(t) : leave(part) /\ Left(plan[t], part)
  /\ mixed' = mixed \cup mixedBy(t)
CrashInCompact ==
  /\ halfCompacted /\ harm' = harm \cup {"compact"}
  /\ UNCHANGED <<log, leftover, mixed>>

LEMMA CrashTyped ==
  ASSUME Typed, Crash
  PROVE  /\ Typed'
         /\ CrashIdle \/ (\E t \in Thread : CrashInAppend(t)) \/ CrashInCompact
<1>0. TypeOK /\ Shape /\ DiskType
  BY DEF Typed
<1>1. /\ phase = "open" /\ faults < MaxFault /\ faults' = faults + 1 /\ phase' = "closed"
      /\ compacting' = "no" /\ state' = EmptyState /\ root' = << >>
      /\ pc' = [t \in Thread |-> "idle"] /\ event' = [t \in Thread |-> None]
      /\ plan' = [t \in Thread |-> NoCommit] /\ overtaken' = {}
      /\ UNCHANGED <<checkpoint, receipt, calls, compactions, acked, behind>>
  BY DEF Crash
<1>2. \/ CrashIdle
      \/ \E t \in Thread : /\ atCommit(t) /\ versionsMatch(t)
                           /\ \E part \in partOf(t) : leave(part)
                           /\ mixed' = mixed \cup mixedBy(t)
      \/ CrashInCompact
  BY DEF Crash, CrashIdle, CrashInCompact
<1> DEFINE Fine == /\ DiskType' /\ leftover' \in BOOLEAN
                   /\ harm' \subseteq {"append", "compact"} /\ mixed' \subseteq Entity
<1>3. ASSUME CrashIdle PROVE Fine
  <2>1. log' = log
    BY <1>0, <1>3 DEF CrashIdle, leave, DiskType
  <2> QED
    BY <1>0, <1>1, <1>3, <2>1 DEF CrashIdle, leave, DiskType, TypeOK
<1>4. ASSUME NEW t \in Thread, atCommit(t), versionsMatch(t), NEW part \in partOf(t), leave(part),
             mixed' = mixed \cup mixedBy(t)
      PROVE  Fine /\ CrashInAppend(t)
  <2>1. plan[t] \in Commit /\ root \in Seq(Commit)
    BY <1>4, AtCommit
  <2>2. log' = log \o part /\ part \in {<< >>, <<Junk>>, <<Frame(plan[t])>>}
    BY <1>4 DEF leave, partOf
  <2>3. DiskType' /\ Left(plan[t], part)
    BY <1>0, <1>1, <2>1, <2>2, LeaveTyped
  <2>4. mixedBy(t) \subseteq Entity
    BY <2>1, CommitFacts DEF mixedBy
  <2>5. leftover' \in BOOLEAN /\ harm' \subseteq {"append", "compact"}
    BY <1>0, <1>4 DEF leave, TypeOK
  <2> QED
    BY <1>0, <1>4, <2>3, <2>4, <2>5 DEF CrashInAppend, TypeOK
<1>5. ASSUME CrashInCompact PROVE Fine
  BY <1>0, <1>1, <1>5 DEF CrashInCompact, DiskType, TypeOK
<1>6. Fine /\ (CrashIdle \/ (\E t \in Thread : CrashInAppend(t)) \/ CrashInCompact)
  <2> HIDE DEF Fine
  <2> QED
    BY <1>2, <1>3, <1>4, <1>5
<1>7. TypeOK'
  <2>1. faults' \in 0 .. MaxFault
    BY <1>0, <1>1, BoundsAssumption DEF TypeOK
  <2>2. state' \in State /\ root' \in Seq(Commit) /\ state'.seq = Len(root')
    BY <1>1, EmptyStateType
  <2>3. /\ pc' \in [Thread -> Stage] /\ event' \in [Thread -> Event \cup {None}]
        /\ plan' \in [Thread -> Commit \cup {[NoCommit EXCEPT !.op = o] : o \in Op}]
    BY <1>1, NoPlan DEF Stage
  <2>4. log' \in Seq(FrameOf \cup {Junk})
    BY <1>6 DEF DiskType
  <2> QED
    BY <1>0, <1>1, <1>6, <2>1, <2>2, <2>3, <2>4 DEF TypeOK
<1>8. Shape' /\ Halfway'
  BY <1>1 DEF Shape, Halfway, halfCompacted
<1> QED
  BY <1>6, <1>7, <1>8 DEF Typed

LEMMA OpenTyped ==
  ASSUME Typed, Open
  PROVE  Typed' /\ junkAt' = {} /\ recover' = recover
<1>0. TypeOK /\ Shape /\ DiskType
  BY DEF Typed
<1>1. /\ phase = "closed" /\ recover.ok /\ phase' = "open"
      /\ state' = recover.state /\ root' = recover.root /\ log' = frames /\ leftover' = FALSE
      /\ UNCHANGED <<checkpoint, receipt, compacting, pc, event, plan, calls, compactions, faults,
                     acked, behind, harm, overtaken, mixed>>
  BY DEF Open, threads, bounds
<1>2. DiskType' /\ junkAt' = {} /\ recover' = recover
  BY <1>0, <1>1, KeepFrames
<1>3. state' \in State /\ root' \in Seq(Commit) /\ state'.seq = Len(root')
  BY <1>0, <1>1, RecoverType DEF Acc
<1>4. TypeOK'
  <2>1. log' \in Seq(FrameOf \cup {Junk})
    BY <1>2 DEF DiskType
  <2> QED
    BY <1>0, <1>1, <1>3, <2>1 DEF TypeOK
<1>5. Shape' /\ Halfway'
  BY <1>0, <1>1 DEF Shape, Halfway, halfCompacted
<1> QED
  BY <1>2, <1>4, <1>5 DEF Typed

LEMMA RestTyped ==
  ASSUME Typed, Refuse \/ UNCHANGED vars
  PROVE  Typed'
<1>1. UNCHANGED <<state, root, log, checkpoint, receipt, compacting, pc, event, plan,
                  calls, compactions, faults, acked, leftover, behind, harm, overtaken, mixed>>
  BY DEF Refuse, vars, memory, disk, threads, bounds, history
<1>2. phase' \in {"open", "closed", "blocked"} /\ (phase' # "open" => phase # "open")
  BY DEF Refuse, vars, memory, Typed, TypeOK
<1> QED
  BY <1>1, <1>2 DEF Typed, TypeOK, DiskType, Shape, Halfway, halfCompacted

LEMMA StepTyped ==
  ASSUME Typed, [Next]_vars
  PROVE  Typed'
<1>1. CASE Next
  <2>1. ASSUME NEW t \in Thread, Step(t) \/ FailAppend(t) \/ \E e \in Event : Record(t, e)
        PROVE  Typed'
    BY <2>1, PlanTyped, ConflictTyped, CommitTyped, FailAppendTyped DEF Step
  <2> QED
    BY <1>1, <2>1, CompactTyped, CrashTyped, OpenTyped, RestTyped DEF Next
<1> QED
  BY <1>1, RestTyped

LEMMA TypedAlways == Spec => []Typed
<1>1. Init => Typed
  BY InitTyped
<1>2. Typed /\ [Next]_vars => Typed'
  BY StepTyped
<1> QED
  BY <1>1, <1>2, PTL DEF Spec

(* Every variable of the universe keeps its type, and the sequence number   *)
(* in memory always counts the commits of the root it is at: replay,        *)
(* checkpoints and torn appends included.                                   *)
THEOREM TypeCorrect == Spec => []TypeOK
<1>1. Typed => TypeOK
  BY DEF Typed
<1> QED
  BY <1>1, TypedAlways, PTL

-----------------------------------------------------------------------------
(* A commit that returned survives.                                         *)

covered(r) == {<<i, r[i]>> : i \in DOMAIN r}

(* The disk, should it open, gives back what was acknowledged, whatever the *)
(* process is doing; and without leftovers the log has no junk, so that the *)
(* next append is replayed.                                                 *)
Survives ==
  /\ phase = "open" => acked \ behind \subseteq held
  /\ recover.ok => acked \ behind \subseteq covered(recover.root)
  /\ phase = "open" /\ ~leftover => junkAt = {}

LEMMA CoversMore ==
  ASSUME NEW r \in Seq(Commit), NEW s \in Seq(Commit), Extends(r, s)
  PROVE  covered(s) \subseteq covered(r)
<1>1. \A i \in DOMAIN s : i \in DOMAIN r /\ r[i] = s[i]
  BY DEF Extends
<1> QED
  BY <1>1 DEF covered

LEMMA CoversAppend ==
  ASSUME NEW r \in Seq(Commit), NEW c \in Commit
  PROVE  covered(Append(r, c)) = covered(r) \cup {<<Len(r) + 1, c>>}
<1> DEFINE s == Append(r, c)
<1>1. /\ DOMAIN s = 1 .. (Len(r) + 1) /\ DOMAIN r = 1 .. Len(r) /\ Len(r) \in Nat
      /\ s[Len(r) + 1] = c /\ \A i \in 1 .. Len(r) : s[i] = r[i]
  OBVIOUS
<1> HIDE DEF s
<1>2. 1 .. (Len(r) + 1) = (1 .. Len(r)) \cup {Len(r) + 1}
  BY <1>1
<1>3. covered(s) = covered(r) \cup {<<Len(r) + 1, c>>}
  BY <1>1, <1>2 DEF covered
<1> QED
  BY <1>3 DEF s

(* What an append leaves never takes a recovered commit back.               *)
LEMMA LeftCovers ==
  ASSUME DiskType, NEW c \in Commit, NEW part, root \in Seq(Commit), Left(c, part), recover'.ok
  PROVE  recover.ok /\ covered(recover.root) \subseteq covered(recover'.root)
<1>1. CASE UNCHANGED recover
  BY <1>1
<1>2. CASE recover' = replayFrame(recover, Frame(c))
  <2>1. recover \in Acc /\ Frame(c) \in FrameOf /\ Frame(c).commit = c
    BY RecoverType, FrameType
  <2>2. recover.ok /\ recover'.root = Append(recover.root, c)
    BY <1>2, <2>1, ReplayFrameType
  <2>3. recover.root \in Seq(Commit)
    BY <2>1 DEF Acc
  <2> QED
    BY <2>2, <2>3, CoversAppend
<1> QED
  BY <1>1, <1>2 DEF Left

LEMMA InitSurvives == Init => Survives
<1> SUFFICES ASSUME Init PROVE Survives
  OBVIOUS
<1>1. acked = {} /\ junkAt = {}
  BY DEF Init, junkAt
<1> QED
  BY <1>1 DEF Survives

LEMMA CommitSurvives ==
  ASSUME Typed, Survives, NEW t \in Thread, CommitPlan(t)
  PROVE  Survives'
<1> DEFINE c == plan[t]
           entry == <<Len(root) + 1, c>>
<1>1. /\ root' = Append(root, c) /\ UNCHANGED <<phase, leftover>> /\ atCommit(t)
      /\ acked' \subseteq acked \cup {entry}
      /\ behind' = IF leftover THEN behind \cup {entry} ELSE behind
  BY DEF CommitPlan
<1>2. c \in Commit /\ root \in Seq(Commit) /\ phase = "open" /\ DiskType
  BY <1>1, AtCommit
<1>3. Left(c, <<Frame(c)>>) /\ Frame(c) \in FrameOf /\ Frame(c).prev = root /\ Frame(c).commit = c
  BY <1>2, CommitTyped, FrameType
<1>4. recover \in Acc
  BY <1>2, RecoverType
<1> HIDE DEF c
<1>5. held' = held \cup {entry}
  BY <1>1, <1>2, CoversAppend DEF held, covered
<1>6. held \cup {entry} = covered(Append(root, c))
  BY <1>2, CoversAppend DEF held, covered
<1>7. CASE leftover
  <2>1. acked' \ behind' \subseteq acked \ behind
    BY <1>1, <1>7
  <2>2. recover'.ok => recover.ok /\ covered(recover.root) \subseteq covered(recover'.root)
    BY <1>2, <1>3, LeftCovers
  <2> QED
    BY <1>1, <1>2, <1>5, <1>7, <2>1, <2>2 DEF Survives
<1>8. CASE ~leftover
  <2>1. junkAt = {}
    BY <1>2, <1>8 DEF Survives
  <2>2. junkAt' = {} /\ recover' = replayFrame(recover, Frame(c))
    <3>1. log' = Append(log, Frame(c)) /\ UNCHANGED <<checkpoint, receipt>>
      BY DEF CommitPlan, c
    <3> QED
      BY <1>2, <2>1, <3>1, CleanAppend
  <2>3. recover'.ok => recover'.root = Append(root, c)
    BY <1>3, <1>4, <2>2, ReplayFrameType
  <2>4. acked' \ behind' \subseteq held \cup {entry}
    BY <1>1, <1>2, <1>8 DEF Survives
  <2> QED
    BY <1>1, <1>5, <1>6, <2>2, <2>3, <2>4 DEF Survives
<1> QED
  BY <1>7, <1>8

LEMMA FailAppendSurvives ==
  ASSUME Typed, Survives, NEW t \in Thread, FailAppend(t)
  PROVE  Survives'
<1>1. PICK part \in partOf(t) : leave(part) /\ Left(plan[t], part)
  BY FailAppendTyped
<1>2. UNCHANGED <<phase, state, root, acked, behind>> /\ atCommit(t)
  BY DEF FailAppend, memory
<1>3. plan[t] \in Commit /\ root \in Seq(Commit) /\ phase = "open" /\ DiskType
  BY <1>2, AtCommit
<1>4. recover'.ok => recover.ok /\ covered(recover.root) \subseteq covered(recover'.root)
  BY <1>1, <1>3, LeftCovers
<1>5. ~leftover' => ~leftover /\ junkAt' = junkAt
  BY <1>1 DEF leave, Left
<1>6. held' = held
  BY <1>2 DEF held
<1> QED
  BY <1>2, <1>4, <1>5, <1>6 DEF Survives

(* The same of the disk after a step.                                       *)
LEMMA RecoverTypeNext ==
  DiskType' => (recover \in Acc)' /\ (Extends(recover.root, base.root))'
<1>1. DiskType => recover \in Acc /\ Extends(recover.root, base.root)
  BY RecoverType
<1> QED
  BY <1>1, PTL

LEMMA CompactSurvives ==
  ASSUME Typed, Survives, BeginCompact \/ Compact \/ FailCompact
  PROVE  Survives'
<1>0. TypeOK /\ Shape /\ Halfway /\ DiskType /\ DiskType'
  BY CompactTyped DEF Typed
<1>1. CASE BeginCompact \/ FailCompact
  <2>1. UNCHANGED <<phase, root, log, checkpoint, receipt, acked, behind, leftover>>
    BY <1>1 DEF BeginCompact, FailCompact, memory, disk, history
  <2> QED
    BY <2>1, SameDisk DEF Survives, held
<1>2. CASE ReplaceCheckpoint \/ ReplaceReceipt
  <2>1. /\ UNCHANGED <<phase, root, log, acked, behind, leftover>> /\ phase = "open"
        /\ checkpoint' = [state |-> state, root |-> root]
    BY <1>0, <1>2 DEF ReplaceCheckpoint, ReplaceReceipt, memory, history, Shape, Halfway, halfCompacted
  <2>2. root \in Seq(Commit) /\ None \notin Snapshot /\ checkpoint' \in Snapshot
    BY <1>0, <2>1, NoneAssumption DEF TypeOK, Snapshot
  <2>3. base'.root = root
    BY <2>1, <2>2 DEF base
  <2>4. recover' \in Acc /\ Extends(recover'.root, base'.root)
    BY <1>0, RecoverTypeNext DEF Acc, Extends
  <2>5. held \subseteq covered(recover'.root)
    BY <1>0, <2>2, <2>3, <2>4, CoversMore DEF Acc, held, covered
  <2>6. junkAt' = junkAt /\ held' = held
    BY <2>1 DEF junkAt, held
  <2> QED
    BY <2>1, <2>5, <2>6 DEF Survives
<1>3. CASE TruncateLog
  <2>1. /\ compacting = "receipt" /\ log' = << >> /\ behind' = behind \ held
        /\ UNCHANGED <<phase, root, checkpoint, receipt, acked>>
    BY <1>3 DEF TruncateLog, memory
  <2>2. phase = "open" /\ checkpoint = [state |-> state, root |-> root]
    BY <1>0, <2>1 DEF Shape, Halfway, halfCompacted
  <2>3. junkAt' = {} /\ frames' = << >>
    BY <2>1 DEF junkAt, frames
  <2>4. recover' = Begun'
    BY <2>3, ReplayNothing DEF recover, Replay, Begun
  <2>5. recover'.root = root
    <3>1. root \in Seq(Commit) /\ None \notin Snapshot /\ checkpoint' \in Snapshot
      BY <1>0, <2>1, <2>2, NoneAssumption DEF TypeOK, Snapshot
    <3> QED
      BY <2>1, <2>2, <2>4, <3>1 DEF Begun, base
  <2>6. acked' \ behind' \subseteq held /\ held' = held
    BY <2>1, <2>2 DEF Survives, held
  <2> QED
    BY <2>1, <2>3, <2>5, <2>6 DEF Survives, held, covered
<1> QED
  BY <1>1, <1>2, <1>3 DEF Compact

LEMMA CrashSurvives ==
  ASSUME Typed, Survives, Crash
  PROVE  Survives'
<1>0. DiskType /\ phase' = "closed" /\ UNCHANGED <<checkpoint, receipt, acked, behind>>
  BY DEF Typed, Crash
<1>1. recover'.ok => recover.ok /\ covered(recover.root) \subseteq covered(recover'.root)
  <2>1. CASE CrashIdle \/ CrashInCompact
    <3>1. log' = log
      BY <1>0, <2>1 DEF CrashIdle, CrashInCompact, leave, DiskType
    <3> QED
      BY <1>0, <3>1, SameDisk
  <2>2. ASSUME NEW t \in Thread, CrashInAppend(t)
        PROVE  recover'.ok => recover.ok /\ covered(recover.root) \subseteq covered(recover'.root)
    <3>1. PICK part \in partOf(t) : Left(plan[t], part)
      BY <2>2 DEF CrashInAppend
    <3>2. plan[t] \in Commit /\ root \in Seq(Commit)
      BY <2>2, AtCommit DEF CrashInAppend
    <3> QED
      BY <1>0, <3>1, <3>2, LeftCovers
  <2> QED
    BY <2>1, <2>2, CrashTyped
<1> QED
  BY <1>0, <1>1 DEF Survives

LEMMA StepSurvives ==
  ASSUME Typed, Survives, [Next]_vars
  PROVE  Survives'
<1>1. ASSUME UNCHANGED <<phase, root, log, checkpoint, receipt, acked, behind, leftover>>
      PROVE  Survives'
  BY <1>1, SameDisk DEF Survives, held
<1>2. ASSUME NEW t \in Thread, Step(t) \/ FailAppend(t) \/ \E e \in Event : Record(t, e)
      PROVE  Survives'
  <2>1. CASE \/ \E e \in Event : Record(t, e)
             \/ PlanRegister(t) \/ PlanIngest(t) \/ PlanClaim(t)
             \/ ReadBonds(t) \/ ReadPrevious(t) \/ ReadExpected(t)
    <3>1. Reads(t)
      BY <2>1, PlanTyped
    <3> QED
      BY <1>1, <3>1 DEF Reads, memory, disk, history
  <2>2. CASE Conflict(t)
    BY <1>1, <2>2 DEF Conflict, memory, disk
  <2> QED
    BY <1>2, <2>1, <2>2, CommitSurvives, FailAppendSurvives DEF Step
<1>3. CASE Open
  <2>1. /\ recover.ok /\ phase' = "open" /\ root' = recover.root /\ UNCHANGED <<acked, behind>>
        /\ junkAt' = {} /\ recover' = recover
    BY <1>3, OpenTyped DEF Open
  <2> QED
    BY <2>1 DEF Survives, held, covered
<1>4. CASE Refuse
  <2>1. phase' = "blocked" /\ UNCHANGED <<log, checkpoint, receipt, acked, behind>>
    BY <1>4 DEF Refuse, disk, history
  <2> QED
    BY <2>1, SameDisk DEF Survives
<1>5. CASE UNCHANGED vars
  BY <1>1, <1>5 DEF vars, memory, disk, history
<1> QED
  BY <1>2, <1>3, <1>4, <1>5, CompactSurvives, CrashSurvives DEF Next

LEMMA SurvivesAlways == Spec => []Survives
<1>1. Typed /\ Survives /\ [Next]_vars => Survives'
  BY StepSurvives
<1> QED
  BY <1>1, InitSurvives, TypedAlways, PTL DEF Spec

(* A commit that returned stays in the universe, at its position, through   *)
(* every crash, torn append, checkpoint, abandoned compaction and replay,   *)
(* unless it was appended behind the leftovers of a failed append.          *)
THEOREM AcknowledgedSurvive == Spec => []AckedSurvive
<1>1. Survives => AckedSurvive
  BY DEF Survives, AckedSurvive
<1> QED
  BY <1>1, SurvivesAlways, PTL

-----------------------------------------------------------------------------
(* What a state says of the commits it was built from.                      *)

atomsOf(c) == CASE c.op = "genesis" -> {entityAtom(About(c))}
                [] c.op = "ingest"  -> {exactObject(c.event)}
                [] c.op = "claim"   -> {claimAtom(c.event)}
                [] c.op = "react"   -> {}
AtomsIn(r) == UNION {atomsOf(r[i]) : i \in DOMAIN r}

reactsIn(r, x) == {i \in DOMAIN r : r[i].op = "react" /\ About(r[i]) = x}
shownIn(r, x, n) ==
  LET earlier == {i \in reactsIn(r, x) : i < n}
  IN IF earlier = {} THEN {} ELSE factsOf(r[Max(earlier)].event)
bumpsIn(r, x) == {i \in DOMAIN r : bumpsVersion(r[i]) /\ About(r[i]) = x}

Claimed(f, atoms) == \E e \in Event : f \in factsOf(e) /\ claimAtom(e) \in atoms

(* What a plan that could be committed on r says of r.                      *)
CommitSound(c, r, M) ==
  /\ c.op = "claim" => {exactObject(c.event), entityAtom(About(c))} \subseteq AtomsIn(r)
  /\ c.op = "react" =>
       /\ claimAtom(c.event) \in AtomsIn(r)
       /\ \A f \in c.revoked : f[1] = About(c) /\ Claimed(f, AtomsIn(r))
  /\ About(c) \notin M =>
       /\ bumpsVersion(c) => c.previous = Cardinality(bumpsIn(r, About(c)))
       /\ c.op = "react" => c.revoked = shownIn(r, About(c), Len(r) + 1)

Bounded(s) == \A f \in Fact : s.bonds[f].created <= s.seq /\ s.bonds[f].revoked <= s.seq
GroundedIn(s) ==
  /\ \A f \in Fact : s.bonds[f] # NoBond => Claimed(f, s.atoms)
  /\ \A e \in Event : claimAtom(e) \in s.atoms =>
       {exactObject(e), entityAtom(Subject[e])} \subseteq s.atoms
Tells(s, r, x) ==
  /\ \A i \in reactsIn(r, x) : r[i].revoked = shownIn(r, x, i)
  /\ active_bonds(s, x, s.seq) = shownIn(r, x, Len(r) + 1)
  /\ s.version[x] = Cardinality(bumpsIn(r, x))

Sound(s, r, M) ==
  /\ s.atoms = AtomsIn(r) /\ Bounded(s) /\ GroundedIn(s)
  /\ \A x \in Entity \ M : Tells(s, r, x)

(* What a thread knows when it goes on to a stage, or to commit an op.      *)
knows(stage, e) ==
  CASE stage \in {"idle", "register", "genesis"} -> {}
    [] stage = "ingest" -> {entityAtom(Subject[e])}
    [] stage = "claim"  -> {entityAtom(Subject[e]), exactObject(e)}
    [] stage \in {"react", "previous", "expected"} ->
         {entityAtom(Subject[e]), exactObject(e), claimAtom(e)}
PlanSound(t) ==
  LET c == plan[t]
      x == Subject[event[t]]
      fresh == active_bonds(state, x, state.seq)
  IN /\ pc[t] \notin {"idle", "register", "commit"} => knows(pc[t], event[t]) \subseteq state.atoms
     /\ pc[t] = "commit" => knows(c.op, event[t]) \subseteq state.atoms
     /\ pc[t] \in {"previous", "expected", "commit"} /\ c.op = "react" =>
          \A f \in c.revoked : f[1] = x /\ Claimed(f, state.atoms)
     /\ t \notin overtaken =>
          /\ pc[t] \in {"previous", "expected"} => c.revoked = fresh
          /\ pc[t] = "expected" => c.previous = state.version[x]
          /\ pc[t] = "commit" /\ c.op = "react" =>
               /\ c.previous = c.expected /\ c.expected <= state.version[x]
               /\ x \notin mixed /\ state.version[x] = c.expected => c.revoked = fresh
     /\ pc[t] = "commit" /\ c.op = "genesis" => c.previous = 0 /\ c.expected = 0

PlansSound == \A t \in Thread : PlanSound(t)

(* Replaying sound frames on a sound checkpoint builds a sound state.       *)
DiskSound ==
  /\ checkpoint # None => Sound(checkpoint.state, checkpoint.root, mixed)
  /\ \A i \in DOMAIN log : log[i] # Junk => CommitSound(log[i].commit, log[i].prev, mixed)

Sane == Sound(state, root, mixed) /\ DiskSound /\ PlansSound

LEMMA MoreSound ==
  ASSUME NEW M, NEW N, M \subseteq N
  PROVE  /\ \A s, r : Sound(s, r, M) => Sound(s, r, N)
         /\ \A c, r : CommitSound(c, r, M) => CommitSound(c, r, N)
<1>1. ASSUME NEW s, NEW r, Sound(s, r, M) PROVE Sound(s, r, N)
  BY <1>1 DEF Sound
<1>2. ASSUME NEW c, NEW r, CommitSound(c, r, M) PROVE CommitSound(c, r, N)
  BY <1>2 DEF CommitSound
<1> QED
  BY <1>1, <1>2

LEMMA AppendAtoms ==
  ASSUME NEW r \in Seq(Commit), NEW c \in Commit
  PROVE  AtomsIn(Append(r, c)) = AtomsIn(r) \cup atomsOf(c)
<1> DEFINE n == Len(r)
           s == Append(r, c)
<1>1. /\ DOMAIN s = 1 .. (n + 1) /\ DOMAIN r = 1 .. n /\ n \in Nat
      /\ s[n + 1] = c /\ \A i \in 1 .. n : s[i] = r[i]
  OBVIOUS
<1> HIDE DEF s, n
<1>2. 1 .. (n + 1) = (1 .. n) \cup {n + 1}
  BY <1>1
<1>3. AtomsIn(s) = AtomsIn(r) \cup atomsOf(c)
  <2>1. ASSUME NEW a \in AtomsIn(s) PROVE a \in AtomsIn(r) \cup atomsOf(c)
    <3>1. PICK i \in DOMAIN s : a \in atomsOf(s[i])
      BY <2>1 DEF AtomsIn
    <3>2. CASE i = n + 1
      BY <1>1, <3>1, <3>2
    <3>3. CASE i \in 1 .. n
      <4>1. s[i] = r[i]
        BY <1>1, <3>3
      <4>2. a \in atomsOf(r[i])
        BY <3>1, <4>1
      <4> QED
        BY <1>1, <3>3, <4>2 DEF AtomsIn
    <3> QED
      BY <1>1, <1>2, <3>2, <3>3
  <2>2. ASSUME NEW a \in AtomsIn(r) PROVE a \in AtomsIn(s)
    <3>1. PICK i \in DOMAIN r : a \in atomsOf(r[i])
      BY <2>2 DEF AtomsIn
    <3>2. s[i] = r[i] /\ i \in DOMAIN s
      BY <1>1, <1>2, <3>1
    <3>3. a \in atomsOf(s[i])
      BY <3>1, <3>2
    <3> QED
      BY <3>2, <3>3 DEF AtomsIn
  <2>3. atomsOf(c) \subseteq AtomsIn(s)
    <3>1. n + 1 \in DOMAIN s /\ atomsOf(s[n + 1]) = atomsOf(c)
      BY <1>1, <1>2, Zenon
    <3> QED
      BY <3>1 DEF AtomsIn
  <2> QED
    BY <2>1, <2>2, <2>3
<1> QED
  BY <1>3 DEF s

(* The reactions and the version bumps on an entity, one commit later.      *)
LEMMA AppendReacts ==
  ASSUME NEW r \in Seq(Commit), NEW c \in Commit, NEW x
  PROVE  /\ reactsIn(Append(r, c), x) =
              reactsIn(r, x) \cup IF c.op = "react" /\ About(c) = x THEN {Len(r) + 1} ELSE {}
         /\ bumpsIn(Append(r, c), x) =
              bumpsIn(r, x) \cup IF bumpsVersion(c) /\ About(c) = x THEN {Len(r) + 1} ELSE {}
         /\ reactsIn(r, x) \subseteq 1 .. Len(r) /\ bumpsIn(r, x) \subseteq 1 .. Len(r)
<1> DEFINE n == Len(r)
           s == Append(r, c)
<1>1. /\ DOMAIN s = 1 .. (n + 1) /\ DOMAIN r = 1 .. n /\ n \in Nat
      /\ s[n + 1] = c /\ \A i \in 1 .. n : s[i] = r[i]
  OBVIOUS
<1> HIDE DEF s, n
<1>2. 1 .. (n + 1) = (1 .. n) \cup {n + 1} /\ n + 1 \notin 1 .. n
  BY <1>1
<1>3. reactsIn(s, x) = reactsIn(r, x) \cup IF c.op = "react" /\ About(c) = x THEN {n + 1} ELSE {}
  BY <1>1, <1>2 DEF reactsIn
<1>4. bumpsIn(s, x) = bumpsIn(r, x) \cup IF bumpsVersion(c) /\ About(c) = x THEN {n + 1} ELSE {}
  <2>1. \A i \in 1 .. n : bumpsVersion(s[i]) = bumpsVersion(r[i])
    BY <1>1, Zenon
  <2>2. bumpsVersion(s[n + 1]) = bumpsVersion(c)
    BY <1>1, Zenon
  <2> QED
    BY <1>1, <1>2, <2>1, <2>2 DEF bumpsIn
<1>5. reactsIn(r, x) \subseteq 1 .. n /\ bumpsIn(r, x) \subseteq 1 .. n
  BY <1>1 DEF reactsIn, bumpsIn
<1> QED
  BY <1>3, <1>4, <1>5 DEF s, n

LEMMA AppendBumps ==
  ASSUME NEW r \in Seq(Commit), NEW c \in Commit, NEW x
  PROVE  /\ Cardinality(bumpsIn(r, x)) \in Nat
         /\ Cardinality(bumpsIn(Append(r, c), x)) =
              IF bumpsVersion(c) /\ About(c) = x
              THEN Cardinality(bumpsIn(r, x)) + 1 ELSE Cardinality(bumpsIn(r, x))
<1> DEFINE n == Len(r)
<1>1. n \in Nat /\ bumpsIn(r, x) \subseteq 1 .. n
  BY AppendReacts
<1>2. IsFiniteSet(bumpsIn(r, x))
  <2>1. IsFiniteSet(1 .. n)
    BY <1>1, FS_Interval
  <2> QED
    BY <1>1, <2>1, FS_Subset
<1>3. Cardinality(bumpsIn(r, x)) \in Nat
  BY <1>2, FS_CardinalityType
<1>4. Cardinality(bumpsIn(r, x) \cup {n + 1}) = Cardinality(bumpsIn(r, x)) + 1
  <2>1. n + 1 \notin bumpsIn(r, x)
    BY <1>1
  <2> QED
    BY <1>2, <2>1, FS_AddElement
<1>5. bumpsIn(Append(r, c), x) =
        bumpsIn(r, x) \cup IF bumpsVersion(c) /\ About(c) = x THEN {n + 1} ELSE {}
  BY AppendReacts
<1>6. CASE bumpsVersion(c) /\ About(c) = x
  <2>1. bumpsIn(Append(r, c), x) = bumpsIn(r, x) \cup {n + 1}
    BY <1>5, <1>6
  <2> QED
    BY <1>3, <1>4, <1>6, <2>1
<1>7. CASE ~ (bumpsVersion(c) /\ About(c) = x)
  <2>1. bumpsIn(Append(r, c), x) = bumpsIn(r, x)
    BY <1>5, <1>7
  <2> QED
    BY <1>3, <1>7, <2>1
<1> QED
  BY <1>6, <1>7

LEMMA AppendShown ==
  ASSUME NEW r \in Seq(Commit), NEW c \in Commit, NEW x
  PROVE  /\ \A k \in 1 .. (Len(r) + 1) : shownIn(Append(r, c), x, k) = shownIn(r, x, k)
         /\ shownIn(Append(r, c), x, Len(r) + 2) =
              IF c.op = "react" /\ About(c) = x THEN factsOf(c.event)
              ELSE shownIn(r, x, Len(r) + 1)
<1> DEFINE n == Len(r)
           s == Append(r, c)
           before(q, k) == {i \in reactsIn(q, x) : i < k}
<1>1. n \in Nat /\ s[n + 1] = c /\ \A i \in 1 .. n : s[i] = r[i]
  OBVIOUS
<1>2. /\ reactsIn(s, x) = reactsIn(r, x) \cup IF c.op = "react" /\ About(c) = x THEN {n + 1} ELSE {}
      /\ reactsIn(r, x) \subseteq 1 .. n
  BY AppendReacts
<1> HIDE DEF s, n
<1>3. ASSUME NEW k \in Nat, NEW k2 \in Nat, before(s, k2) = before(r, k)
      PROVE  shownIn(s, x, k2) = shownIn(r, x, k)
  <2> DEFINE B == before(r, k)
  <2>1. shownIn(s, x, k2) = IF B = {} THEN {} ELSE factsOf(s[Max(B)].event)
    BY <1>3 DEF shownIn
  <2>2. shownIn(r, x, k) = IF B = {} THEN {} ELSE factsOf(r[Max(B)].event)
    BY DEF shownIn
  <2>3. B \subseteq 1 .. n
    BY <1>2
  <2> HIDE DEF B
  <2>4. CASE B # {}
    <3>1. Max(B) \in 1 .. n
      BY <1>1, <2>3, <2>4, MaxIsLargest
    <3>2. s[Max(B)] = r[Max(B)]
      BY <1>1, <3>1
    <3> QED
      BY <2>1, <2>2, <3>2
  <2> QED
    BY <2>1, <2>2, <2>4
<1>4. ASSUME NEW k \in 1 .. (n + 1) PROVE shownIn(s, x, k) = shownIn(r, x, k)
  <2>1. before(s, k) = before(r, k) /\ k \in Nat
    BY <1>1, <1>2
  <2> QED
    BY <1>3, <2>1
<1>5. CASE ~ (c.op = "react" /\ About(c) = x)
  <2>1. before(s, n + 2) = before(r, n + 1) /\ n + 1 \in Nat /\ n + 2 \in Nat
    BY <1>1, <1>2, <1>5
  <2>2. shownIn(s, x, n + 2) = shownIn(r, x, n + 1)
    BY <1>3, <2>1
  <2> QED
    BY <1>4, <1>5, <2>2 DEF s, n
<1>6. CASE c.op = "react" /\ About(c) = x
  <2> DEFINE B == before(s, n + 2)
  <2>1. B \subseteq 1 .. (n + 1) /\ n + 1 \in B /\ n + 1 \in Nat
    BY <1>1, <1>2, <1>6
  <2>2. shownIn(s, x, n + 2) = IF B = {} THEN {} ELSE factsOf(s[Max(B)].event)
    BY DEF shownIn
  <2> HIDE DEF B
  <2>3. Max(B) = n + 1
    <3>1. Max(B) \in B /\ \A i \in B : i <= Max(B)
      BY <2>1, MaxIsLargest
    <3>2. Max(B) \in 1 .. (n + 1) /\ n + 1 <= Max(B)
      BY <2>1, <3>1
    <3> QED
      BY <1>1, <3>2
  <2>4. s[Max(B)].event = c.event
    BY <1>1, <2>3
  <2>5. shownIn(s, x, n + 2) = factsOf(c.event)
    BY <2>1, <2>2, <2>4
  <2> QED
    BY <1>4, <1>6, <2>5 DEF s, n
<1> QED
  BY <1>5, <1>6

(* What an entity shows once a reaction is applied.                         *)
LEMMA FactsAbout ==
  ASSUME NEW e \in Event
  PROVE  factsOf(e) \subseteq Fact /\ \A f \in factsOf(e) : f[1] = Subject[e]
BY DEF factsOf, Fact

LEMMA ActiveNow ==
  ASSUME NEW s \in State, Bounded(s), NEW f \in Fact
  PROVE  active(s.bonds[f], s.seq) <=> s.bonds[f].created # 0 /\ s.bonds[f].revoked = 0
<1>1. /\ s.seq \in Nat /\ s.bonds[f].created \in Nat /\ s.bonds[f].revoked \in Nat
      /\ s.bonds[f].created <= s.seq /\ s.bonds[f].revoked <= s.seq
  BY DEF State, Bounded
<1> QED
  BY <1>1 DEF active

LEMMA AppliedBond ==
  ASSUME NEW s \in State, NEW c \in Commit, Bounded(s), NEW f \in Fact
  PROVE  LET b == applyCore(s, c).bonds[f]
             n == s.seq + 1
         IN  /\ b.created <= n /\ b.revoked <= n /\ b.created \in Nat /\ b.revoked \in Nat
             /\ c.op # "react" => b = s.bonds[f]
             /\ c.op = "react" =>
                  /\ f \in factsOf(c.event) => b.created = n /\ b.revoked = 0
                  /\ f \notin factsOf(c.event) =>
                       /\ b.created = s.bonds[f].created
                       /\ f \notin c.revoked => b = s.bonds[f]
                       /\ f \in c.revoked =>
                            b.revoked = IF s.bonds[f].revoked = 0 THEN n ELSE s.bonds[f].revoked
<1> DEFINE n == s.seq + 1
<1>1. /\ s.seq \in Nat /\ s.bonds[f] \in [created : Nat, revoked : Nat]
      /\ s.bonds[f].created <= s.seq /\ s.bonds[f].revoked <= s.seq
  BY DEF State, Bounded
<1>2. applyCore(s, c).bonds = IF c.op = "react" THEN appliedBonds(s, c, n) ELSE s.bonds
  BY DEF applyCore
<1>3. CASE c.op # "react"
  BY <1>1, <1>2, <1>3
<1>4. CASE c.op = "react"
  <2>1. applyCore(s, c).bonds[f] =
          IF f \in factsOf(c.event) THEN [created |-> n, revoked |-> 0]
          ELSE IF f \in c.revoked /\ s.bonds[f].revoked = 0
               THEN [s.bonds[f] EXCEPT !.revoked = n] ELSE s.bonds[f]
    BY <1>2, <1>4 DEF appliedBonds
  <2> QED
    BY <1>1, <1>4, <2>1
<1> QED
  BY <1>3, <1>4

(* A commit leaves what other entities show.                                *)
LEMMA ActiveOthers ==
  ASSUME NEW s \in State, Bounded(s), NEW c \in Commit,
         c.op = "react" => \A f \in c.revoked : f[1] = About(c),
         NEW x, ~ (c.op = "react" /\ About(c) = x)
  PROVE  active_bonds(applyCore(s, c), x, applyCore(s, c).seq) = active_bonds(s, x, s.seq)
<1> DEFINE q == applyCore(s, c)
<1>1. q \in State /\ Bounded(q)
  BY ApplyType, AppliedBond DEF Bounded
<1>2. \A f \in Fact : f[1] = x => q.bonds[f] = s.bonds[f]
  <2>1. CASE c.op # "react"
    BY <2>1, AppliedBond
  <2>2. CASE c.op = "react" /\ About(c) # x
    <3>1. \A f \in factsOf(c.event) : f[1] = About(c)
      BY CommitFacts, FactsAbout DEF About
    <3>2. \A f \in Fact : f[1] = x => f \notin factsOf(c.event) /\ f \notin c.revoked
      BY <2>2, <3>1
    <3> QED
      BY <2>2, <3>2, AppliedBond
  <2> QED
    BY <2>1, <2>2
<1> HIDE DEF q
<1>3. \A f \in Fact : f[1] = x => (active(q.bonds[f], q.seq) <=> active(s.bonds[f], s.seq))
  BY <1>1, <1>2, ActiveNow
<1>4. active_bonds(q, x, q.seq) = active_bonds(s, x, s.seq)
  BY <1>3 DEF active_bonds
<1> QED
  BY <1>4 DEF q

(* A sound commit keeps what the state tells of an entity.                  *)
LEMMA ApplyTells ==
  ASSUME NEW s \in State, NEW r \in Seq(Commit), s.seq = Len(r), NEW c \in Commit,
         NEW M, Sound(s, r, M), CommitSound(c, r, M), NEW x \in Entity \ M
  PROVE  Tells(applyCore(s, c), Append(r, c), x)
<1> DEFINE n == Len(r)
           q == applyCore(s, c)
           z == Append(r, c)
<1>1. Tells(s, r, x) /\ Bounded(s)
  BY DEF Sound
<1>2. /\ n \in Nat /\ z[n + 1] = c /\ \A i \in 1 .. n : z[i] = r[i]
      /\ Len(z) = n + 1 /\ z \in Seq(Commit)
  OBVIOUS
<1>3. q \in State /\ q.seq = n + 1
  BY ApplyType
<1>4. About(c) = x => /\ bumpsVersion(c) => c.previous = Cardinality(bumpsIn(r, x))
                      /\ c.op = "react" => c.revoked = shownIn(r, x, n + 1)
  BY DEF CommitSound
<1>5. /\ reactsIn(z, x) = reactsIn(r, x) \cup IF c.op = "react" /\ About(c) = x THEN {n + 1} ELSE {}
      /\ reactsIn(r, x) \subseteq 1 .. n
  BY AppendReacts
<1>6. /\ \A k \in 1 .. (n + 1) : shownIn(z, x, k) = shownIn(r, x, k)
      /\ shownIn(z, x, n + 2) = IF c.op = "react" /\ About(c) = x THEN factsOf(c.event)
                                ELSE shownIn(r, x, n + 1)
  BY AppendShown
<1>7. \A f \in Fact :
        /\ active(q.bonds[f], q.seq) <=> q.bonds[f].created # 0 /\ q.bonds[f].revoked = 0
        /\ active(s.bonds[f], s.seq) <=> s.bonds[f].created # 0 /\ s.bonds[f].revoked = 0
  <2>1. Bounded(q)
    BY <1>1, <1>3, AppliedBond DEF Bounded
  <2> QED
    BY <1>1, <1>3, <2>1, ActiveNow
<1>8. \A f \in Fact :
        /\ c.op # "react" => q.bonds[f] = s.bonds[f]
        /\ c.op = "react" =>
             /\ f \in factsOf(c.event) => q.bonds[f].created = n + 1 /\ q.bonds[f].revoked = 0
             /\ f \notin factsOf(c.event) =>
                  /\ q.bonds[f].created = s.bonds[f].created
                  /\ f \notin c.revoked => q.bonds[f] = s.bonds[f]
                  /\ f \in c.revoked =>
                       q.bonds[f].revoked = IF s.bonds[f].revoked = 0 THEN n + 1 ELSE s.bonds[f].revoked
  BY <1>1, AppliedBond
<1>9. q.version = IF bumpsVersion(c) /\ ~applyRaises(s, c)
                  THEN [s.version EXCEPT ![About(c)] = @ + 1] ELSE s.version
  BY DEF applyCore
<1> HIDE DEF q, z, n
<1>10. \A i \in reactsIn(z, x) : z[i].revoked = shownIn(z, x, i)
  <2> SUFFICES ASSUME NEW i \in reactsIn(z, x) PROVE z[i].revoked = shownIn(z, x, i)
    OBVIOUS
  <2>1. CASE i \in reactsIn(r, x)
    <3>1. r[i].revoked = shownIn(r, x, i) /\ i \in 1 .. n
      BY <1>1, <1>5, <2>1 DEF Tells
    <3> QED
      BY <1>2, <1>6, <3>1
  <2>2. CASE i \notin reactsIn(r, x)
    <3>1. i = n + 1 /\ c.op = "react" /\ About(c) = x
      BY <1>5, <2>2
    <3>2. n + 1 \in 1 .. (n + 1)
      BY <1>2
    <3> QED
      BY <1>2, <1>4, <1>6, <3>1, <3>2
  <2> QED
    BY <2>1, <2>2
<1>11. active_bonds(q, x, q.seq) = shownIn(z, x, n + 2)
  <2>1. active_bonds(q, x, q.seq) = {f \in Fact : f[1] = x /\ q.bonds[f].created # 0 /\ q.bonds[f].revoked = 0}
    BY <1>7 DEF active_bonds
  <2>2. shownIn(r, x, n + 1) = {f \in Fact : f[1] = x /\ s.bonds[f].created # 0 /\ s.bonds[f].revoked = 0}
    BY <1>1, <1>7 DEF active_bonds, Tells, n
  <2>3. CASE ~ (c.op = "react" /\ About(c) = x)
    <3>1. active_bonds(q, x, q.seq) = active_bonds(s, x, s.seq)
      BY <1>1, <2>3, ActiveOthers DEF CommitSound, q
    <3>2. active_bonds(s, x, s.seq) = shownIn(r, x, n + 1)
      BY <1>1 DEF Tells, n
    <3> QED
      BY <1>6, <2>3, <3>1, <3>2
  <2>5. CASE c.op = "react" /\ About(c) = x
    <3>1. \A f \in Fact : f \in factsOf(c.event) => f[1] = x /\ q.bonds[f].created # 0 /\ q.bonds[f].revoked = 0
      <4>1. \A f \in factsOf(c.event) : f[1] = About(c)
        BY CommitFacts, FactsAbout DEF About
      <4> QED
        BY <1>2, <1>8, <2>5, <4>1
    <3>2. \A f \in Fact : f \notin factsOf(c.event) /\ f[1] = x =>
            q.bonds[f].created = 0 \/ q.bonds[f].revoked # 0
      <4> SUFFICES ASSUME NEW f \in Fact, f \notin factsOf(c.event), f[1] = x
                   PROVE  q.bonds[f].created = 0 \/ q.bonds[f].revoked # 0
        OBVIOUS
      <4>1. CASE f \in c.revoked
        <5>1. q.bonds[f].revoked = IF s.bonds[f].revoked = 0 THEN n + 1 ELSE s.bonds[f].revoked
          BY <1>8, <2>5, <4>1
        <5> QED
          BY <1>2, <5>1
      <4>2. CASE f \notin c.revoked
        <5>1. q.bonds[f] = s.bonds[f]
          BY <1>8, <2>5, <4>2
        <5>2. f \notin shownIn(r, x, n + 1)
          BY <1>4, <2>5, <4>2
        <5> QED
          BY <2>2, <5>1, <5>2
      <4> QED
        BY <4>1, <4>2
    <3>3. factsOf(c.event) \subseteq Fact
      BY CommitFacts, FactsAbout
    <3>4. active_bonds(q, x, q.seq) = factsOf(c.event)
      BY <2>1, <3>1, <3>2, <3>3
    <3> QED
      BY <1>6, <2>5, <3>4
  <2> QED
    BY <2>3, <2>5
<1>12. q.version[x] = Cardinality(bumpsIn(z, x))
  <2>1. /\ Cardinality(bumpsIn(r, x)) \in Nat
        /\ Cardinality(bumpsIn(z, x)) = IF bumpsVersion(c) /\ About(c) = x
                                        THEN Cardinality(bumpsIn(r, x)) + 1
                                        ELSE Cardinality(bumpsIn(r, x))
    BY AppendBumps DEF z
  <2>2. s.version[x] = Cardinality(bumpsIn(r, x)) /\ s.version \in [Entity -> Nat]
    BY <1>1 DEF Tells, State
  <2>3. About(c) = x /\ bumpsVersion(c) => ~applyRaises(s, c)
    BY <1>4, <2>2 DEF applyRaises
  <2>4. x \in Entity /\ About(c) \in Entity
    BY CommitFacts
  <2>5. q.version[x] = IF bumpsVersion(c) /\ About(c) = x THEN s.version[x] + 1 ELSE s.version[x]
    BY <1>9, <2>2, <2>3, <2>4
  <2> QED
    BY <2>1, <2>2, <2>5
<1> QED
  <2>1. Len(z) + 1 = n + 2
    BY <1>2
  <2> QED
    BY <1>10, <1>11, <1>12, <2>1 DEF Tells, q, z

LEMMA ApplyGrounded ==
  ASSUME NEW s \in State, NEW r \in Seq(Commit), NEW c \in Commit,
         NEW M, Sound(s, r, M), CommitSound(c, r, M)
  PROVE  /\ applyCore(s, c).atoms = AtomsIn(Append(r, c))
         /\ s.atoms \subseteq applyCore(s, c).atoms
         /\ GroundedIn(applyCore(s, c))
<1> DEFINE q == applyCore(s, c)
<1>0. s.atoms = AtomsIn(r) /\ Bounded(s) /\ GroundedIn(s) /\ c.event \in Event /\ c.op \in Op
  BY CommitFacts DEF Sound
<1>1. q.atoms = s.atoms \cup atomsOf(c)
  BY DEF applyCore, atomsOf
<1>2. q.atoms = AtomsIn(Append(r, c))
  BY <1>0, <1>1, AppendAtoms
<1>3. \A f \in Fact :
        /\ c.op # "react" => q.bonds[f] = s.bonds[f]
        /\ c.op = "react" /\ f \notin factsOf(c.event) /\ f \notin c.revoked => q.bonds[f] = s.bonds[f]
  BY <1>0, AppliedBond
<1> HIDE DEF q
<1>4. ASSUME NEW f \in Fact, q.bonds[f] # NoBond PROVE Claimed(f, q.atoms)
  <2>1. Claimed(f, s.atoms)
    <3>1. CASE q.bonds[f] = s.bonds[f]
      BY <1>0, <1>4, <3>1 DEF GroundedIn
    <3>2. CASE c.op = "react" /\ f \in factsOf(c.event)
      <4>1. claimAtom(c.event) \in s.atoms
        BY <1>0, <3>2 DEF CommitSound
      <4> QED
        BY <1>0, <3>2, <4>1 DEF Claimed
    <3>3. CASE c.op = "react" /\ f \in c.revoked
      BY <1>0, <3>3 DEF CommitSound
    <3> QED
      BY <1>3, <3>1, <3>2, <3>3
  <2> QED
    BY <1>1, <2>1 DEF Claimed
<1>5. ASSUME NEW e \in Event, claimAtom(e) \in q.atoms
      PROVE  {exactObject(e), entityAtom(Subject[e])} \subseteq q.atoms
  <2>1. CASE claimAtom(e) \in s.atoms
    BY <1>0, <1>1, <2>1 DEF GroundedIn
  <2>2. CASE claimAtom(e) \notin s.atoms
    <3>1. claimAtom(e) \in atomsOf(c)
      BY <1>1, <1>5, <2>2
    <3>2. c.op = "claim" /\ e = c.event
      BY <1>0, <3>1 DEF atomsOf, claimAtom, entityAtom, exactObject, Op
    <3> QED
      BY <1>0, <1>1, <3>2 DEF CommitSound, About
  <2> QED
    BY <2>1, <2>2
<1> QED
  BY <1>1, <1>2, <1>4, <1>5 DEF GroundedIn, q

LEMMA ApplySound ==
  ASSUME NEW s \in State, NEW r \in Seq(Commit), s.seq = Len(r), NEW c \in Commit,
         NEW M, Sound(s, r, M), CommitSound(c, r, M)
  PROVE  Sound(applyCore(s, c), Append(r, c), M)
<1>1. Bounded(applyCore(s, c))
  BY ApplyType, AppliedBond DEF Bounded, Sound
<1>2. \A x \in Entity \ M : Tells(applyCore(s, c), Append(r, c), x)
  BY ApplyTells
<1> QED
  BY <1>1, <1>2, ApplyGrounded DEF Sound

LEMMA NothingSound ==
  ASSUME NEW M
  PROVE  Sound(EmptyState, << >>, M)
<1>1. AtomsIn(<< >>) = {} /\ \A x : reactsIn(<< >>, x) = {} /\ bumpsIn(<< >>, x) = {}
  BY DEF AtomsIn, reactsIn, bumpsIn
<1>2. Cardinality({}) = 0
  BY FS_EmptySet
<1>3. EmptyState.atoms = {} /\ \A f \in Fact : EmptyState.bonds[f] = NoBond
  BY DEF EmptyState
<1>4. Bounded(EmptyState) /\ GroundedIn(EmptyState)
  BY <1>3, EmptyStateType DEF Bounded, GroundedIn, NoBond
<1>5. ASSUME NEW x \in Entity PROVE Tells(EmptyState, << >>, x)
  <2>1. active_bonds(EmptyState, x, EmptyState.seq) = {}
    BY <1>3 DEF active_bonds, active, NoBond
  <2>2. shownIn(<< >>, x, Len(<< >>) + 1) = {}
    BY <1>1 DEF shownIn
  <2>3. EmptyState.version[x] = 0
    BY DEF EmptyState
  <2> QED
    BY <1>1, <1>2, <2>1, <2>2, <2>3 DEF Tells
<1> QED
  BY <1>1, <1>3, <1>4, <1>5 DEF Sound

LEMMA RecoverSound ==
  ASSUME DiskType, DiskSound
  PROVE  Sound(recover.state, recover.root, mixed)
<1> DEFINE P == {a \in Acc : Sound(a.state, a.root, mixed)}
<1>1. Begun \in P
  <2>1. Begun.state = base.state /\ Begun.root = base.root
    BY DEF Begun
  <2>2. CASE checkpoint = None
    <3>1. base.state = EmptyState /\ base.root = << >>
      BY <2>2 DEF base
    <3> QED
      BY <2>1, <3>1, BegunType, NothingSound
  <2>3. CASE checkpoint # None
    BY <2>1, <2>3, BegunType DEF base, DiskSound
  <2> QED
    BY <2>2, <2>3
<1>2. ASSUME NEW a \in P, NEW f \in FrameOf, CommitSound(f.commit, f.prev, mixed)
      PROVE  replayFrame(a, f) \in P
  <2>1. /\ replayFrame(a, f) \in Acc /\ a \in Acc /\ f.commit \in Commit
        /\ a.state \in State /\ a.root \in Seq(Commit) /\ a.state.seq = Len(a.root)
    BY ReplayFrameType DEF Acc, FrameOf
  <2>2. CASE replayFrame(a, f).ok
    <3>1. /\ f.prev = a.root /\ replayFrame(a, f).state = applyCore(a.state, f.commit)
          /\ replayFrame(a, f).root = Append(a.root, f.commit)
      BY <2>1, <2>2, ReplayFrameType
    <3>2. Sound(applyCore(a.state, f.commit), Append(a.root, f.commit), mixed)
      <4>1. CommitSound(f.commit, a.root, mixed) /\ Sound(a.state, a.root, mixed)
        BY <1>2, <3>1
      <4> QED
        BY <2>1, <4>1, ApplySound
    <3> QED
      BY <2>1, <3>1, <3>2
  <2>3. CASE ~replayFrame(a, f).ok
    <3>1. replayFrame(a, f) = [a EXCEPT !.ok = FALSE]
      BY <2>3 DEF replayFrame
    <3>2. replayFrame(a, f).state = a.state /\ replayFrame(a, f).root = a.root
      BY <2>1, <3>1 DEF Acc
    <3> QED
      BY <2>1, <3>2
  <2> QED
    BY <2>2, <2>3
<1>3. \A i \in 1 .. Len(frames) : frames[i] \in FrameOf /\ CommitSound(frames[i].commit, frames[i].prev, mixed)
  <2> SUFFICES ASSUME NEW i \in 1 .. Len(frames)
               PROVE  frames[i] \in FrameOf /\ CommitSound(frames[i].commit, frames[i].prev, mixed)
    OBVIOUS
  <2>1. frames \in Seq(FrameOf) /\ i \in 1 .. Len(log) /\ frames[i] = log[i]
    BY FramesType
  <2>2. frames[i] \in FrameOf /\ frames[i] # Junk /\ i \in DOMAIN log
    BY <2>1, NoneAssumption DEF DiskType
  <2>3. CommitSound(log[i].commit, log[i].prev, mixed)
    BY <2>1, <2>2 DEF DiskSound
  <2> QED
    BY <2>1, <2>2, <2>3
<1> HIDE DEF P
<1>4. Replay(Begun, frames) \in P
  <2>1. frames \in Seq(FrameOf)
    BY FramesType
  <2>2. \A a \in P : \A i \in 1 .. Len(frames) : replayFrame(a, frames[i]) \in P
    BY <1>2, <1>3
  <2> QED
    BY <1>1, <2>1, <2>2, ReplayStays
<1> QED
  BY <1>4, RecoverIsReplay DEF P

(* Plans: what a thread knows stays true, or it is overtaken.               *)
LEMMA PlanIdle ==
  ASSUME NEW t \in Thread, pc'[t] = "idle"
  PROVE  PlanSound(t)'
BY DEF PlanSound

LEMMA PlanKept ==
  ASSUME NEW t \in Thread, PlanSound(t), pc'[t] = pc[t], event'[t] = event[t],
         plan'[t] = plan[t], state' = state, mixed \subseteq mixed',
         t \notin overtaken' => t \notin overtaken
  PROVE  PlanSound(t)'
BY DEF PlanSound

LEMMA PlanStepSound ==
  ASSUME Typed, Sane, NEW t \in Thread,
         \/ \E e \in Event : Record(t, e)
         \/ PlanRegister(t) \/ PlanIngest(t) \/ PlanClaim(t)
         \/ ReadBonds(t) \/ ReadPrevious(t) \/ ReadExpected(t)
  PROVE  Sane'
<1>0. PlanSound(t) /\ PlansSound /\ GroundedIn(state)
  BY DEF Sane, PlansSound, Sound
<1>1. /\ UNCHANGED <<state, root, log, checkpoint, overtaken, mixed>>
  BY PlanTyped DEF Reads, memory, disk, history
<1>2. Sound(state, root, mixed)' /\ DiskSound'
  BY <1>1 DEF Sane, DiskSound
<1>3. /\ pc \in [Thread -> Stage] /\ plan \in [Thread -> Commit \cup {[NoCommit EXCEPT !.op = o] : o \in Op}]
      /\ event \in [Thread -> Event \cup {None}]
  BY DEF Typed, TypeOK
<1>4. ASSUME NEW u \in Thread, u # t PROVE PlanSound(u)'
  <2>1. pc'[u] = pc[u] /\ event'[u] = event[u] /\ plan'[u] = plan[u]
    BY <1>3, <1>4 DEF Record, PlanRegister, PlanIngest, PlanClaim, ReadBonds, ReadPrevious,
                      ReadExpected, goOn, planCommit
  <2> QED
    BY <1>0, <1>1, <2>1, PlanKept DEF PlansSound
<1>5. PlanSound(t)'
  <2>1. ASSUME NEW e \in Event, Record(t, e) PROVE PlanSound(t)'
    <3>1. pc'[t] = "register"
      BY <1>3, <2>1 DEF Record, goOn
    <3> QED
      BY <3>1 DEF PlanSound
  <2>2. ASSUME NEW stage, goOn(t, stage), stage \in {"ingest", "claim", "react"}, event' = event,
               knows(stage, event[t]) \subseteq state.atoms
        PROVE  PlanSound(t)'
    <3>1. pc'[t] = stage /\ state' = state /\ event'[t] = event[t]
      BY <1>1, <1>3, <2>2 DEF goOn
    <3>2. knows(pc'[t], event'[t]) \subseteq state'.atoms
      BY <2>2, <3>1
    <3> QED
      BY <2>2, <3>1, <3>2 DEF PlanSound
  <2>3. ASSUME NEW op \in {"genesis", "ingest", "claim"}, planCommit(t, op), event' = event,
               knows(op, event[t]) \subseteq state.atoms
        PROVE  PlanSound(t)'
    <3>1. pc'[t] = "commit" /\ state' = state /\ event'[t] = event[t]
          /\ plan'[t].op = op /\ plan'[t].previous = 0 /\ plan'[t].expected = 0
      BY <1>1, <1>3, <2>3 DEF planCommit, NoCommit
    <3>2. knows(plan'[t].op, event'[t]) \subseteq state'.atoms
      BY <2>3, <3>1
    <3> QED
      BY <2>3, <3>1, <3>2 DEF PlanSound
  <2>4. CASE PlanRegister(t)
    <3>1. event' = event
      BY <2>4 DEF PlanRegister
    <3>2. knows("genesis", event[t]) \subseteq state.atoms
      BY DEF knows
    <3>3. CASE goOn(t, "ingest") /\ entityAtom(Subject[event[t]]) \in state.atoms
      <4>1. knows("ingest", event[t]) \subseteq state.atoms
        BY <3>3 DEF knows
      <4> QED
        BY <2>2, <3>1, <3>3, <4>1
    <3> QED
      BY <2>3, <2>4, <3>1, <3>2, <3>3 DEF PlanRegister
  <2>5. CASE PlanIngest(t)
    <3>1. event' = event /\ pc[t] = "ingest"
      BY <2>5 DEF PlanIngest
    <3>2. knows("ingest", event[t]) \subseteq state.atoms
      BY <1>0, <3>1 DEF PlanSound
    <3>3. CASE goOn(t, "claim") /\ exactObject(event[t]) \in state.atoms
      <4>1. knows("claim", event[t]) \subseteq state.atoms
        BY <3>2, <3>3 DEF knows
      <4> QED
        BY <2>2, <3>1, <3>3, <4>1
    <3> QED
      BY <2>3, <2>5, <3>1, <3>2, <3>3 DEF PlanIngest
  <2>6. CASE PlanClaim(t)
    <3>1. event' = event /\ pc[t] = "claim"
      BY <2>6 DEF PlanClaim
    <3>2. knows("claim", event[t]) \subseteq state.atoms
      BY <1>0, <3>1 DEF PlanSound
    <3>3. CASE goOn(t, "react") /\ claimAtom(event[t]) \in state.atoms
      <4>1. knows("react", event[t]) \subseteq state.atoms
        BY <3>2, <3>3 DEF knows
      <4> QED
        BY <2>2, <3>1, <3>3, <4>1
    <3> QED
      BY <2>3, <2>6, <3>1, <3>2, <3>3 DEF PlanClaim
  <2>7. CASE ReadBonds(t)
    <3> DEFINE x == Subject[event[t]]
               fresh == active_bonds(state, x, state.seq)
    <3>1. /\ pc[t] = "react" /\ pc'[t] = "previous" /\ event' = event /\ state' = state
          /\ plan'[t].revoked = fresh /\ plan'[t].op = "react"
      BY <1>1, <1>3, <2>7 DEF ReadBonds, NoCommit
    <3>2. knows("react", event[t]) \subseteq state.atoms
      BY <1>0, <3>1 DEF PlanSound
    <3>3. knows("previous", event[t]) = knows("react", event[t])
      BY DEF knows
    <3>4. \A f \in fresh : f[1] = x /\ Claimed(f, state.atoms)
      <4> SUFFICES ASSUME NEW f \in fresh PROVE f[1] = x /\ Claimed(f, state.atoms)
        OBVIOUS
      <4>1. f \in Fact /\ f[1] = x /\ state.bonds[f].created # 0
        BY DEF active_bonds, active
      <4>2. state.bonds[f] # NoBond
        BY <4>1 DEF NoBond
      <4> QED
        BY <1>0, <4>1, <4>2 DEF GroundedIn
    <3> QED
      BY <3>1, <3>2, <3>3, <3>4 DEF PlanSound
  <2>8. CASE ReadPrevious(t)
    <3>1. /\ pc[t] = "previous" /\ pc'[t] = "expected" /\ event' = event /\ state' = state
          /\ plan[t] \in Commit /\ plan[t].op = "react"
      BY <1>1, <1>3, <2>8 DEF ReadPrevious, Typed, Shape
    <3>2. /\ plan'[t].revoked = plan[t].revoked /\ plan'[t].op = "react"
          /\ plan'[t].previous = state.version[Subject[event[t]]]
      BY <1>3, <2>8, <3>1 DEF ReadPrevious, Commit
    <3>3. knows("previous", event[t]) = knows("expected", event[t])
      BY DEF knows
    <3> QED
      BY <1>0, <1>1, <3>1, <3>2, <3>3 DEF PlanSound
  <2>9. CASE ReadExpected(t)
    <3>1. /\ pc[t] = "expected" /\ pc'[t] = "commit" /\ event' = event /\ state' = state
          /\ plan[t] \in Commit /\ plan[t].op = "react" /\ event[t] \in Event
      BY <1>1, <1>3, <2>9 DEF ReadExpected, Typed, Shape
    <3>2. /\ plan'[t].revoked = plan[t].revoked /\ plan'[t].op = "react"
          /\ plan'[t].previous = plan[t].previous
          /\ plan'[t].expected = state.version[Subject[event[t]]]
      BY <1>3, <2>9, <3>1 DEF ReadExpected, Commit
    <3>3. knows("expected", event[t]) = knows("react", event[t])
      BY DEF knows
    <3>4. state.version[Subject[event[t]]] \in Nat
      BY <3>1, EventAssumption DEF Typed, TypeOK, State
    <3> QED
      BY <1>0, <1>1, <3>1, <3>2, <3>3, <3>4 DEF PlanSound
  <2> QED
    BY <2>1, <2>4, <2>5, <2>6, <2>7, <2>8, <2>9
<1> QED
  BY <1>2, <1>4, <1>5 DEF Sane, PlansSound

(* A plan that passes the version check is sound for the log it is appended *)
(* to, unless its reading was overtaken: then its entity is mixed.          *)
LEMMA PlanIsSound ==
  ASSUME Typed, Sane, NEW t \in Thread, atCommit(t), versionsMatch(t)
  PROVE  /\ CommitSound(plan[t], root, mixed \cup mixedBy(t))
         /\ t \notin overtaken => ~applyRaises(state, plan[t])
<1> DEFINE c == plan[t]
           x == About(c)
           M == mixed \cup mixedBy(t)
<1>1. /\ c \in Commit /\ c.event = event[t] /\ pc[t] = "commit" /\ PlanSound(t)
      /\ x = Subject[event[t]] /\ x \in Entity /\ c.op \in Op
  BY AtCommit, CommitFacts DEF atCommit, Sane, PlansSound, About
<1>2. /\ knows(c.op, event[t]) \subseteq state.atoms
      /\ c.op = "react" => \A f \in c.revoked : f[1] = x /\ Claimed(f, state.atoms)
      /\ c.op = "genesis" => c.previous = 0 /\ c.expected = 0
      /\ t \notin overtaken /\ c.op = "react" =>
           /\ c.previous = c.expected
           /\ x \notin mixed /\ state.version[x] = c.expected =>
                c.revoked = active_bonds(state, x, state.seq)
  BY <1>1 DEF PlanSound
<1>3. bumpsVersion(c) => state.version[x] = c.expected
  BY DEF versionsMatch
<1>4. state.atoms = AtomsIn(root) /\ (x \notin mixed => Tells(state, root, x))
  BY <1>1 DEF Sane, Sound
<1>5. t \in overtaken => x \in M
  BY DEF mixedBy
<1>6. t \notin overtaken /\ bumpsVersion(c) => c.previous = state.version[x]
  BY <1>2, <1>3 DEF bumpsVersion
<1>7. t \notin overtaken => ~applyRaises(state, c)
  BY <1>6 DEF applyRaises
<1> HIDE DEF c, x
<1>8. c.op = "claim" => {exactObject(c.event), entityAtom(x)} \subseteq AtomsIn(root)
  BY <1>1, <1>2, <1>4 DEF knows
<1>9. c.op = "react" =>
        /\ claimAtom(c.event) \in AtomsIn(root)
        /\ \A f \in c.revoked : f[1] = x /\ Claimed(f, AtomsIn(root))
  BY <1>1, <1>2, <1>4 DEF knows
<1>10. x \notin M => /\ bumpsVersion(c) => c.previous = Cardinality(bumpsIn(root, x))
                     /\ c.op = "react" => c.revoked = shownIn(root, x, Len(root) + 1)
  <2> SUFFICES ASSUME x \notin M
               PROVE  /\ bumpsVersion(c) => c.previous = Cardinality(bumpsIn(root, x))
                      /\ c.op = "react" => c.revoked = shownIn(root, x, Len(root) + 1)
    OBVIOUS
  <2>1. t \notin overtaken /\ Tells(state, root, x) /\ x \notin mixed
    BY <1>4, <1>5
  <2>2. bumpsVersion(c) => c.previous = Cardinality(bumpsIn(root, x))
    BY <1>6, <2>1 DEF Tells
  <2>3. c.op = "react" => bumpsVersion(c)
    BY DEF bumpsVersion
  <2>4. c.op = "react" => c.revoked = shownIn(root, x, Len(root) + 1)
    BY <1>2, <1>3, <2>1, <2>3 DEF Tells
  <2> QED
    BY <2>2, <2>4
<1> QED
  BY <1>7, <1>8, <1>9, <1>10 DEF CommitSound, c, x

(* The version of an entity after a commit.                                 *)
LEMMA VersionAfter ==
  ASSUME NEW s \in State, NEW c \in Commit, NEW x \in Entity
  PROVE  /\ s.version[x] \in Nat /\ applyCore(s, c).version[x] \in Nat
         /\ s.version[x] <= applyCore(s, c).version[x]
         /\ bumpsVersion(c) /\ About(c) = x /\ ~applyRaises(s, c) =>
              applyCore(s, c).version[x] = s.version[x] + 1
<1>1. applyCore(s, c).version = IF bumpsVersion(c) /\ ~applyRaises(s, c)
                                THEN [s.version EXCEPT ![About(c)] = @ + 1] ELSE s.version
  BY DEF applyCore
<1>2. s.version \in [Entity -> Nat] /\ About(c) \in Entity
  BY CommitFacts DEF State
<1> QED
  BY <1>1, <1>2

(* The plans of the other threads after a commit.                           *)
LEMMA OthersSound ==
  ASSUME Typed, Sane, NEW t \in Thread, CommitPlan(t), NEW u \in Thread, u # t
  PROVE  PlanSound(u)'
<1> DEFINE c == plan[t]
           x == Subject[event[u]]
           fresh == active_bonds(state, x, state.seq)
           later == active_bonds(applyCore(state, c), x, applyCore(state, c).seq)
<1>1. /\ atCommit(t) /\ versionsMatch(t) /\ state' = applyCore(state, c)
      /\ mixed' = mixed \cup mixedBy(t) /\ overtaken' = (overtaken \cup readersOf(c)) \ {t}
  BY DEF CommitPlan
<1>2. /\ c \in Commit /\ state \in State /\ root \in Seq(Commit) /\ PlanSound(u)
      /\ Sound(state, root, mixed)
  BY <1>1, AtCommit DEF Sane, PlansSound
<1>3. pc'[u] = pc[u] /\ event'[u] = event[u] /\ plan'[u] = plan[u]
  <2>1. /\ plan' = [plan EXCEPT ![t] = NoCommit]
        /\ IF applyRaises(state, c) \/ nextStage(c.op) = "idle"
           THEN pc' = [pc EXCEPT ![t] = "idle"] /\ event' = [event EXCEPT ![t] = None]
           ELSE pc' = [pc EXCEPT ![t] = nextStage(c.op)] /\ UNCHANGED event
    BY DEF CommitPlan
  <2>2. /\ pc \in [Thread -> Stage] /\ event \in [Thread -> Event \cup {None}]
        /\ plan \in [Thread -> Commit \cup {[NoCommit EXCEPT !.op = o] : o \in Op}]
    BY DEF Typed, TypeOK
  <2> QED
    BY <2>1, <2>2
<1>4. CommitSound(c, root, mixed') /\ (t \notin overtaken => ~applyRaises(state, c))
  BY <1>1, PlanIsSound
<1>5. state.atoms \subseteq applyCore(state, c).atoms
  <2>1. Sound(state, root, mixed')
    BY <1>1, <1>2, MoreSound
  <2> QED
    BY <1>2, <1>4, <2>1, ApplyGrounded
<1>6. \A stage \in {"previous", "expected"} : pc[u] = stage /\ u \notin overtaken' =>
        u \notin overtaken /\ ~ (bumpsVersion(c) /\ About(c) = x)
  BY <1>1 DEF readersOf
<1>7. ~ (c.op = "react" /\ About(c) = x) => later = fresh
  <2>1. Bounded(state) /\ (c.op = "react" => \A f \in c.revoked : f[1] = About(c))
    BY <1>2, <1>4 DEF Sound, CommitSound
  <2> QED
    BY <1>2, <2>1, ActiveOthers
<1>8. ~ (bumpsVersion(c) /\ About(c) = x) =>
        later = fresh /\ applyCore(state, c).version[x] = state.version[x]
  <2>1. c.op = "react" => bumpsVersion(c)
    BY DEF bumpsVersion
  <2>2. ASSUME ~ (bumpsVersion(c) /\ About(c) = x)
        PROVE  applyCore(state, c).version[x] = state.version[x]
    <3>1. applyCore(state, c).version = IF bumpsVersion(c) /\ ~applyRaises(state, c)
             THEN [state.version EXCEPT ![About(c)] = @ + 1] ELSE state.version
      BY DEF applyCore
    <3>2. state.version \in [Entity -> Nat]
      BY <1>2 DEF State
    <3> HIDE DEF c, x
    <3> QED
      BY <2>2, <3>1, <3>2
  <2> QED
    BY <1>7, <2>1, <2>2
<1>9. /\ pc[u] \notin {"idle", "register", "commit"} => knows(pc[u], event[u]) \subseteq state'.atoms
      /\ pc[u] = "commit" => knows(plan[u].op, event[u]) \subseteq state'.atoms
      /\ pc[u] \in {"previous", "expected", "commit"} /\ plan[u].op = "react" =>
           \A f \in plan[u].revoked : f[1] = x /\ Claimed(f, state'.atoms)
      /\ pc[u] = "commit" /\ plan[u].op = "genesis" => plan[u].previous = 0 /\ plan[u].expected = 0
  <2>1. /\ pc[u] \notin {"idle", "register", "commit"} => knows(pc[u], event[u]) \subseteq state.atoms
        /\ pc[u] = "commit" => knows(plan[u].op, event[u]) \subseteq state.atoms
        /\ pc[u] \in {"previous", "expected", "commit"} /\ plan[u].op = "react" =>
             \A f \in plan[u].revoked : f[1] = x /\ Claimed(f, state.atoms)
        /\ pc[u] = "commit" /\ plan[u].op = "genesis" => plan[u].previous = 0 /\ plan[u].expected = 0
    BY <1>2 DEF PlanSound
  <2>2. \A f : Claimed(f, state.atoms) => Claimed(f, state'.atoms)
    BY <1>1, <1>5 DEF Claimed
  <2> QED
    BY <1>1, <1>5, <2>1, <2>2
<1>10. ASSUME u \notin overtaken'
       PROVE  /\ pc[u] \in {"previous", "expected"} => plan[u].revoked = later
              /\ pc[u] = "expected" => plan[u].previous = state'.version[x]
              /\ pc[u] = "commit" /\ plan[u].op = "react" =>
                   /\ plan[u].previous = plan[u].expected /\ plan[u].expected <= state'.version[x]
                   /\ x \notin mixed' /\ state'.version[x] = plan[u].expected => plan[u].revoked = later
  <2>1. /\ u \notin overtaken /\ pc[u] \in {"previous", "expected"} => plan[u].revoked = fresh
        /\ u \notin overtaken /\ pc[u] = "expected" => plan[u].previous = state.version[x]
        /\ u \notin overtaken /\ pc[u] = "commit" /\ plan[u].op = "react" =>
             /\ plan[u].previous = plan[u].expected /\ plan[u].expected <= state.version[x]
             /\ x \notin mixed /\ state.version[x] = plan[u].expected => plan[u].revoked = fresh
    BY <1>2 DEF PlanSound
  <2>2. pc[u] \in {"previous", "expected"} => plan[u].revoked = later
    BY <1>6, <1>8, <1>10, <2>1
  <2>3. pc[u] = "expected" => plan[u].previous = state'.version[x]
    BY <1>1, <1>6, <1>8, <1>10, <2>1
  <2>4. ASSUME pc[u] = "commit", plan[u].op = "react"
        PROVE  /\ plan[u].previous = plan[u].expected /\ plan[u].expected <= state'.version[x]
               /\ x \notin mixed' /\ state'.version[x] = plan[u].expected => plan[u].revoked = later
    <3>1. u \notin overtaken
      BY <1>1, <1>10, <2>4
    <3>2. x \in Entity /\ plan[u].expected \in Nat
      BY <2>4, EventAssumption DEF Typed, Shape, Commit
    <3>3. /\ state.version[x] \in Nat /\ state'.version[x] \in Nat
          /\ state.version[x] <= state'.version[x]
          /\ bumpsVersion(c) /\ About(c) = x /\ ~applyRaises(state, c) =>
               state'.version[x] = state.version[x] + 1
      BY <1>1, <1>2, <3>2, VersionAfter
    <3>4. plan[u].expected <= state'.version[x]
      BY <2>1, <2>4, <3>1, <3>2, <3>3
    <3>5. ASSUME x \notin mixed', state'.version[x] = plan[u].expected
          PROVE  plan[u].revoked = later
      <4>1. CASE bumpsVersion(c) /\ About(c) = x
        <5>1. t \notin overtaken
          BY <1>1, <3>5, <4>1 DEF mixedBy
        <5>2. state'.version[x] = state.version[x] + 1 /\ plan[u].expected <= state.version[x]
          BY <1>4, <2>1, <2>4, <3>1, <3>3, <4>1, <5>1
        <5> QED
          BY <3>2, <3>3, <3>5, <5>2
      <4>2. CASE ~ (bumpsVersion(c) /\ About(c) = x)
        <5>1. later = fresh /\ state'.version[x] = state.version[x] /\ x \notin mixed
          BY <1>1, <1>8, <3>5, <4>2
        <5> QED
          BY <2>1, <2>4, <3>1, <3>5, <5>1
      <4> QED
        BY <4>1, <4>2
    <3> QED
      BY <2>1, <2>4, <3>1, <3>4, <3>5
  <2> QED
    BY <2>2, <2>3, <2>4
<1> HIDE DEF c
<1>11. Subject[event'[u]] = x /\ later = (active_bonds(state, Subject[event[u]], state.seq))'
  BY <1>1, <1>3
<1> QED
  BY <1>3, <1>9, <1>10, <1>11 DEF PlanSound

(* The log after an append, whole or in part.                               *)
LEMMA AppendSound ==
  ASSUME Typed, Sane, NEW t \in Thread, atCommit(t), versionsMatch(t),
         NEW part \in partOf(t), log' = log \o part,
         mixed' = mixed \cup mixedBy(t), UNCHANGED checkpoint
  PROVE  DiskSound'
<1>1. /\ plan[t] \in Commit /\ root \in Seq(Commit) /\ log \in Seq(FrameOf \cup {Junk})
      /\ CommitSound(plan[t], root, mixed')
  BY AtCommit, PlanIsSound DEF DiskType
<1>2. DiskSound /\ mixed \subseteq mixed'
  BY DEF Sane
<1>3. checkpoint' # None => Sound(checkpoint'.state, checkpoint'.root, mixed')
  BY <1>2, MoreSound DEF DiskSound
<1>4. ASSUME NEW i \in DOMAIN log', log'[i] # Junk
      PROVE  CommitSound(log'[i].commit, log'[i].prev, mixed')
  <2>1. CASE i \in DOMAIN log
    <3>1. log'[i] = log[i]
      <4>1. part \in {<< >>, <<Junk>>, <<Frame(plan[t])>>}
        BY DEF partOf
      <4>2. CASE part = << >>
        BY <1>1, <2>1, <4>2
      <4>3. CASE part = <<Junk>>
        <5>1. part \in Seq({Junk})
          BY <4>3
        <5> QED
          BY <1>1, <2>1, <4>3
      <4>4. CASE part = <<Frame(plan[t])>>
        BY <1>1, <2>1, <4>4
      <4> QED
        BY <4>1, <4>2, <4>3, <4>4
    <3>2. CommitSound(log[i].commit, log[i].prev, mixed)
      BY <1>2, <1>4, <2>1, <3>1 DEF DiskSound
    <3>3. CommitSound(log[i].commit, log[i].prev, mixed')
      BY <1>2, <3>2, MoreSound
    <3> QED
      BY <3>1, <3>3
  <2>2. CASE i \notin DOMAIN log
    <3>1. part \in {<< >>, <<Junk>>, <<Frame(plan[t])>>}
      BY DEF partOf
    <3>2. CASE part = << >>
      BY <1>1, <1>4, <2>2, <3>2
    <3>3. CASE part = <<Junk>>
      BY <1>1, <1>4, <2>2, <3>3
    <3>4. CASE part = <<Frame(plan[t])>>
      <4>1. log'[i] = Frame(plan[t])
        BY <1>1, <1>4, <2>2, <3>4
      <4> QED
        BY <1>1, <4>1, FrameType
    <3> QED
      BY <3>1, <3>2, <3>3, <3>4
  <2> QED
    BY <2>1, <2>2
<1> QED
  BY <1>3, <1>4 DEF DiskSound

LEMMA CommitSane ==
  ASSUME Typed, Sane, NEW t \in Thread, CommitPlan(t)
  PROVE  Sane'
<1> DEFINE c == plan[t]
<1>1. /\ atCommit(t) /\ versionsMatch(t) /\ state' = applyCore(state, c) /\ root' = Append(root, c)
      /\ log' = Append(log, Frame(c)) /\ mixed' = mixed \cup mixedBy(t) /\ UNCHANGED checkpoint
      /\ IF applyRaises(state, c) \/ nextStage(c.op) = "idle"
         THEN pc' = [pc EXCEPT ![t] = "idle"] /\ event' = [event EXCEPT ![t] = None]
         ELSE pc' = [pc EXCEPT ![t] = nextStage(c.op)] /\ UNCHANGED event
  BY DEF CommitPlan
<1>2. /\ c \in Commit /\ c.event = event[t] /\ state \in State /\ root \in Seq(Commit)
      /\ state.seq = Len(root) /\ PlanSound(t) /\ pc[t] = "commit" /\ DiskType
      /\ Sound(state, root, mixed) /\ c.op \in Op
  BY <1>1, AtCommit, CommitFacts DEF Sane, PlansSound, atCommit
<1>3. CommitSound(c, root, mixed') /\ Sound(state, root, mixed')
  BY <1>1, <1>2, PlanIsSound, MoreSound
<1>4. Sound(state', root', mixed')
  BY <1>1, <1>2, <1>3, ApplySound
<1>5. DiskSound'
  <2>1. Append(log, Frame(c)) = log \o <<Frame(c)>> /\ <<Frame(c)>> \in partOf(t)
    BY <1>2, FrameType DEF DiskType, partOf
  <2> QED
    BY <1>1, <2>1, AppendSound
<1>6. PlanSound(t)'
  <2>1. pc \in [Thread -> Stage]
    BY DEF Typed, TypeOK
  <2>2. CASE applyRaises(state, c) \/ nextStage(c.op) = "idle"
    <3>1. pc'[t] = "idle"
      BY <1>1, <2>1, <2>2
    <3> QED
      BY <3>1, PlanIdle
  <2>3. CASE ~ (applyRaises(state, c) \/ nextStage(c.op) = "idle")
    <3>1. pc'[t] = nextStage(c.op) /\ event'[t] = event[t]
      BY <1>1, <2>1, <2>3
    <3>2. knows(c.op, event[t]) \subseteq state.atoms
      BY <1>2 DEF PlanSound
    <3>3. state'.atoms = state.atoms \cup atomsOf(c)
      BY <1>1 DEF applyCore, atomsOf
    <3>4. /\ nextStage(c.op) \in {"ingest", "claim", "react"}
          /\ knows(nextStage(c.op), event[t]) \subseteq state'.atoms
      <4> HIDE DEF c
      <4>1. CASE c.op = "genesis"
        BY <1>2, <3>3, <4>1 DEF nextStage, knows, atomsOf, About
      <4>2. CASE c.op = "ingest"
        BY <1>2, <3>2, <3>3, <4>2 DEF nextStage, knows, atomsOf
      <4>3. CASE c.op = "claim"
        BY <1>2, <3>2, <3>3, <4>3 DEF nextStage, knows, atomsOf
      <4>4. CASE c.op = "react"
        BY <2>3, <4>4 DEF nextStage
      <4> QED
        BY <1>2, <4>1, <4>2, <4>3, <4>4 DEF Op
    <3>5. knows(pc'[t], event'[t]) \subseteq state'.atoms
      BY <3>1, <3>4
    <3> QED
      BY <3>1, <3>4, <3>5 DEF PlanSound
  <2> QED
    BY <2>2, <2>3
<1> QED
  BY <1>4, <1>5, <1>6, OthersSound DEF Sane, PlansSound

LEMMA EndedSound ==
  ASSUME Typed, PlansSound, NEW t \in Thread, endCall(t), state' = state, mixed \subseteq mixed'
  PROVE  PlansSound'
<1>1. /\ pc \in [Thread -> Stage] /\ event \in [Thread -> Event \cup {None}]
      /\ plan \in [Thread -> Commit \cup {[NoCommit EXCEPT !.op = o] : o \in Op}]
  BY DEF Typed, TypeOK
<1>2. PlanSound(t)'
  BY <1>1, PlanIdle DEF endCall
<1>3. ASSUME NEW u \in Thread, u # t PROVE PlanSound(u)'
  BY <1>1, <1>3, PlanKept DEF endCall, PlansSound
<1> QED
  BY <1>2, <1>3 DEF PlansSound

LEMMA QuietSound ==
  ASSUME PlansSound, UNCHANGED <<pc, event, plan, state, overtaken, mixed>>
  PROVE  PlansSound'
BY PlanKept DEF PlansSound

LEMMA CallSane ==
  ASSUME Typed, Sane, NEW t \in Thread, Conflict(t) \/ FailAppend(t)
  PROVE  Sane'
<1>1. CASE Conflict(t)
  <2>1. endCall(t) /\ UNCHANGED <<state, root, log, checkpoint, mixed>>
    BY <1>1 DEF Conflict, memory, disk
  <2>2. PlansSound'
    BY <2>1, EndedSound DEF Sane
  <2> QED
    BY <2>1, <2>2 DEF Sane, DiskSound
<1>2. CASE FailAppend(t)
  <2>1. /\ endCall(t) /\ UNCHANGED <<state, root, checkpoint>> /\ mixed' = mixed \cup mixedBy(t)
        /\ atCommit(t) /\ versionsMatch(t)
    BY <1>2 DEF FailAppend, memory
  <2>2. PICK part \in partOf(t) : log' = log \o part
    BY <1>2 DEF FailAppend, leave
  <2>3. DiskSound'
    BY <2>1, <2>2, AppendSound
  <2>4. PlansSound'
    BY <2>1, EndedSound DEF Sane
  <2>5. Sound(state, root, mixed')
    BY <2>1, MoreSound DEF Sane
  <2> QED
    BY <2>1, <2>3, <2>4, <2>5 DEF Sane
<1> QED
  BY <1>1, <1>2

LEMMA CompactSane ==
  ASSUME Typed, Sane, BeginCompact \/ Compact \/ FailCompact
  PROVE  Sane'
<1>1. UNCHANGED <<pc, event, plan, state, root, overtaken, mixed>>
  BY DEF BeginCompact, Compact, FailCompact, ReplaceCheckpoint, ReplaceReceipt, TruncateLog,
         memory, threads, history
<1>2. PlansSound'
  BY <1>1, QuietSound DEF Sane
<1>3. DiskSound'
  <2>1. CASE BeginCompact \/ FailCompact \/ ReplaceReceipt
    <3>1. UNCHANGED <<log, checkpoint>>
      BY <2>1 DEF BeginCompact, FailCompact, ReplaceReceipt, disk
    <3> QED
      BY <1>1, <3>1 DEF Sane, DiskSound
  <2>2. CASE ReplaceCheckpoint
    <3>1. log' = log /\ checkpoint' = [state |-> state, root |-> root]
      BY <2>2 DEF ReplaceCheckpoint
    <3>2. checkpoint'.state = state /\ checkpoint'.root = root
      BY <3>1
    <3> QED
      BY <1>1, <3>1, <3>2 DEF Sane, DiskSound
  <2>3. CASE TruncateLog
    BY <1>1, <2>3 DEF TruncateLog, Sane, DiskSound
  <2> QED
    BY <2>1, <2>2, <2>3 DEF Compact
<1> QED
  BY <1>1, <1>2, <1>3 DEF Sane

LEMMA CrashSane ==
  ASSUME Typed, Sane, Crash
  PROVE  Sane'
<1>1. /\ state' = EmptyState /\ root' = << >> /\ pc' = [t \in Thread |-> "idle"]
      /\ checkpoint' = checkpoint
  BY DEF Crash
<1>2. PlansSound'
  BY <1>1, PlanIdle DEF PlansSound
<1>3. DiskSound'
  <2>1. CASE CrashIdle \/ CrashInCompact
    <3>1. log' = log /\ mixed' = mixed
      BY <2>1 DEF CrashIdle, CrashInCompact, leave, Typed, DiskType
    <3> QED
      BY <1>1, <3>1 DEF Sane, DiskSound
  <2>2. ASSUME NEW t \in Thread, CrashInAppend(t) PROVE DiskSound'
    <3>1. PICK part \in partOf(t) : log' = log \o part
      BY <2>2 DEF CrashInAppend, leave
    <3> QED
      BY <1>1, <2>2, <3>1, AppendSound DEF CrashInAppend
  <2> QED
    BY <2>1, <2>2, CrashTyped
<1> QED
  BY <1>1, <1>2, <1>3, NothingSound DEF Sane

LEMMA OpenSane ==
  ASSUME Typed, Sane, Open
  PROVE  Sane'
<1>1. /\ state' = recover.state /\ root' = recover.root /\ log' = frames
      /\ phase = "closed" /\ UNCHANGED <<checkpoint, pc, mixed>>
  BY DEF Open, threads
<1>2. DiskType /\ DiskSound /\ \A t \in Thread : pc[t] = "idle"
  BY <1>1 DEF Typed, Shape, Sane
<1>3. PlansSound'
  BY <1>1, <1>2, PlanIdle DEF PlansSound
<1>4. DiskSound'
  <2>1. \A i \in 1 .. Len(frames) : i \in 1 .. Len(log) /\ frames[i] = log[i]
    BY <1>2, FramesType
  <2>2. frames \in Seq(FrameOf) /\ DOMAIN log = 1 .. Len(log)
    BY <1>2, FramesType DEF DiskType
  <2>3. \A i \in DOMAIN frames : i \in DOMAIN log /\ frames[i] = log[i]
    BY <2>1, <2>2
  <2> HIDE DEF frames
  <2> QED
    BY <1>1, <1>2, <2>3 DEF DiskSound
<1> QED
  BY <1>1, <1>2, <1>3, <1>4, RecoverSound DEF Sane

LEMMA StepSane ==
  ASSUME Typed, Sane, [Next]_vars
  PROVE  Sane'
<1>1. CASE Refuse \/ UNCHANGED vars
  <2>1. UNCHANGED <<state, root, log, checkpoint, pc, event, plan, overtaken, mixed>>
    BY <1>1 DEF Refuse, vars, memory, disk, threads, history
  <2> QED
    BY <2>1, QuietSound DEF Sane, DiskSound
<1>2. ASSUME NEW t \in Thread, Step(t) \/ FailAppend(t) \/ \E e \in Event : Record(t, e)
      PROVE  Sane'
  BY <1>2, PlanStepSound, CommitSane, CallSane DEF Step
<1> QED
  BY <1>1, <1>2, CompactSane, CrashSane, OpenSane DEF Next

LEMMA SaneAlways == Spec => []Sane
<1>1. Init => Sane
  <2> SUFFICES ASSUME Init PROVE Sane
    OBVIOUS
  <2>1. PlansSound
    BY DEF Init, PlansSound, PlanSound
  <2> QED
    BY <2>1, NothingSound DEF Init, Sane, DiskSound
<1>2. Typed /\ Sane /\ [Next]_vars => Sane'
  BY StepSane
<1> QED
  BY <1>1, <1>2, TypedAlways, PTL DEF Spec

(* No lost update: unless a plan was overtaken between its own reads, every *)
(* reaction replaces exactly what its predecessor on the entity left, the   *)
(* entity shows its last reaction, and its version counts every commit on   *)
(* it, whatever crashed, was replayed or compacted in between.              *)
THEOREM UpdatesAreKept == Spec => []NoLostUpdate
<1>1. Sane => NoLostUpdate
  <2> SUFFICES ASSUME Sane, NEW x \in Entity \ mixed
               PROVE  /\ \A i \in reactionsOn(x) : root[i].revoked = latestBefore(x, i)
                      /\ active_bonds(state, x, state.seq) = latestBefore(x, Len(root) + 1)
                      /\ state.version[x] = Cardinality(
                           {i \in DOMAIN root : bumpsVersion(root[i]) /\ About(root[i]) = x})
    BY DEF NoLostUpdate
  <2>1. Tells(state, root, x)
    BY DEF Sane, Sound
  <2>2. reactionsOn(x) = reactsIn(root, x)
    BY DEF reactionsOn, reactsIn
  <2>3. \A n : latestBefore(x, n) = shownIn(root, x, n)
    BY <2>2, Zenon DEF latestBefore, shownIn
  <2> QED
    BY <2>1, <2>2, <2>3 DEF Tells, bumpsIn
<1> QED
  BY <1>1, SaneAlways, PTL

(* Every fact an entity shows or has shown was claimed by an event, and     *)
(* every claim has its exact evidence and its entity, after every replay.   *)
THEOREM EverythingGrounded == Spec => []Grounded
<1>1. Sane => Grounded
  BY DEF Sane, Sound, GroundedIn, Claimed, Grounded
<1> QED
  BY <1>1, SaneAlways, PTL

LEMMA CommitKeepsPast ==
  ASSUME NEW s \in State, NEW c \in Commit, Bounded(s),
         NEW q, q = applyCore(s, c), NEW x \in Entity, NEW n \in 1 .. s.seq
  PROVE  active_bonds(q, x, n)
         = active_bonds(s, x, n) \ (IF c.op = "react" THEN factsOf(c.event) ELSE {})
<1>1. ASSUME NEW f \in Fact
      PROVE  active(q.bonds[f], n)
             <=> active(s.bonds[f], n) /\ ~ (c.op = "react" /\ f \in factsOf(c.event))
  <2>1. /\ s.seq \in Nat /\ n \in Nat /\ n <= s.seq
        /\ s.bonds[f].created \in Nat /\ s.bonds[f].revoked \in Nat
        /\ s.bonds[f].created <= s.seq /\ s.bonds[f].revoked <= s.seq
    BY DEF State, Bounded
  <2>2. /\ q.bonds[f].created \in Nat /\ q.bonds[f].revoked \in Nat
        /\ c.op # "react" => q.bonds[f] = s.bonds[f]
        /\ c.op = "react" =>
             /\ f \in factsOf(c.event) => q.bonds[f].created = s.seq + 1 /\ q.bonds[f].revoked = 0
             /\ f \notin factsOf(c.event) =>
                  /\ q.bonds[f].created = s.bonds[f].created
                  /\ f \notin c.revoked => q.bonds[f] = s.bonds[f]
                  /\ f \in c.revoked =>
                       q.bonds[f].revoked = IF s.bonds[f].revoked = 0 THEN s.seq + 1 ELSE s.bonds[f].revoked
    BY AppliedBond
  <2>3. CASE q.bonds[f] = s.bonds[f]
    BY <2>1, <2>2, <2>3 DEF active
  <2>4. CASE c.op = "react" /\ f \in factsOf(c.event)
    BY <2>1, <2>2, <2>4 DEF active
  <2>5. CASE c.op = "react" /\ f \notin factsOf(c.event) /\ f \in c.revoked
    BY <2>1, <2>2, <2>5 DEF active
  <2> QED
    BY <2>2, <2>3, <2>4, <2>5
<1> QED
  BY <1>1 DEF active_bonds

(* A commit changes an earlier view in one way: the facts its own reaction   *)
(* puts disappear from it, with the interval put_bond drops; nothing else    *)
(* disappears and nothing appears.                                           *)
THEOREM PastIsOnlyErased == Spec => PastOnlyErased
<1> DEFINE Past == phase = "open" /\ phase' = "open" =>
              \A x \in Entity : \A n \in 1 .. state.seq :
                active_bonds(state', x, n) = active_bonds(state, x, n) \ newFacts
<1>1. ASSUME Typed, Sane, [Next]_vars PROVE Past
  <2> SUFFICES ASSUME phase = "open", phase' = "open", NEW x \in Entity, NEW n \in 1 .. state.seq
               PROVE  active_bonds(state', x, n) = active_bonds(state, x, n) \ newFacts
    OBVIOUS
  <2>1. state \in State /\ Bounded(state) /\ root \in Seq(Commit)
    BY <1>1 DEF Typed, TypeOK, Sane, Sound
  <2>2. CASE state' = state /\ root' = root
    BY <2>2 DEF newFacts
  <2>3. ASSUME NEW t \in Thread, CommitPlan(t)
        PROVE  active_bonds(state', x, n) = active_bonds(state, x, n) \ newFacts
    <3>1. PICK c \in Commit : c = plan[t]
      BY <1>1, <2>3, AtCommit DEF CommitPlan
    <3>2. state' = applyCore(state, c) /\ root' = Append(root, c)
      BY <2>3, <3>1 DEF CommitPlan
    <3>3. Len(root') = Len(root) + 1 /\ root'[Len(root')] = c /\ Len(root) \in Nat
      BY <2>1, <3>2
    <3>4. newFacts = IF c.op = "react" THEN factsOf(c.event) ELSE {}
      BY <3>3 DEF newFacts
    <3>5. active_bonds(state', x, n)
          = active_bonds(state, x, n) \ (IF c.op = "react" THEN factsOf(c.event) ELSE {})
      BY <2>1, <3>2, CommitKeepsPast
    <3> QED
      BY <3>4, <3>5
  <2>4. (state' = state /\ root' = root) \/ \E t \in Thread : CommitPlan(t)
    <3>1. ASSUME NEW t \in Thread, Step(t) \/ FailAppend(t) \/ \E e \in Event : Record(t, e)
          PROVE  (state' = state /\ root' = root) \/ CommitPlan(t)
      BY <3>1 DEF Step, FailAppend, Record, PlanRegister, PlanIngest, PlanClaim, ReadBonds,
                  ReadPrevious, ReadExpected, Conflict, memory
    <3>2. BeginCompact \/ Compact \/ FailCompact => state' = state /\ root' = root
      BY DEF BeginCompact, Compact, FailCompact, ReplaceCheckpoint, ReplaceReceipt, TruncateLog, memory
    <3>3. Refuse \/ UNCHANGED vars => state' = state /\ root' = root
      BY DEF Refuse, vars, memory
    <3>4. ~Crash /\ ~Open
      BY DEF Crash, Open
    <3> QED
      BY <1>1, <3>1, <3>2, <3>3, <3>4 DEF Next
  <2> QED
    BY <2>2, <2>3, <2>4
<1>2. Typed /\ Sane /\ [Next]_vars => Past
  BY <1>1
<1> QED
  <2>1. [][Past]_vars => PastOnlyErased
    BY PTL DEF PastOnlyErased
  <2> QED
    BY <1>2, <2>1, TypedAlways, SaneAlways, PTL DEF Spec

-----------------------------------------------------------------------------
(* The disk can be opened.                                                  *)

Alive ==
  /\ recover.ok /\ ~junkInside
  /\ \/ recover.root = root /\ recover.state = state
     \/ leftover /\ \E c \in Commit : recover.root = Append(root, c)

Live ==
  harm = {} /\ mixed = {} =>
    /\ phase # "blocked"
    /\ phase = "closed" => recover.ok /\ ~junkInside
    /\ phase = "open" /\ ~halfCompacted => Alive

LEMMA CleanLog ==
  ASSUME DiskType, junkAt = {}
  PROVE  ~junkInside
BY DEF DiskType, junkInside, frames

(* The same of the disk after a step.                                       *)
LEMMA CleanLogNext == DiskType' /\ junkAt' = {} => ~junkInside'
<1>1. DiskType /\ junkAt = {} => ~junkInside
  BY CleanLog
<1>2. (DiskType /\ junkAt = {})' => (~junkInside)'
  BY <1>1, PTL
<1> QED
  BY <1>2

(* A replayed frame gives what memory gets when it applies the commit.      *)
LEMMA ReplayAlive ==
  ASSUME DiskType, root \in Seq(Commit), NEW c \in Commit,
         recover.ok, recover.root = root, recover.state = state, ~applyRaises(state, c),
         recover' = replayFrame(recover, Frame(c))
  PROVE  /\ recover'.ok /\ recover'.root = Append(root, c)
         /\ recover'.state = applyCore(state, c)
<1>1. Frame(c).prev = root /\ Frame(c).commit = c
  BY FrameType
<1>2. replayFrame(recover, Frame(c)) =
        [ok |-> TRUE, state |-> applyCore(recover.state, c), root |-> Append(recover.root, c)]
  BY <1>1 DEF replayFrame
<1> QED
  BY <1>2

(* What one append cut short leaves on a clean log can be opened.           *)
LEMMA LeftAlive ==
  ASSUME DiskType, root \in Seq(Commit), NEW c \in Commit, junkAt = {},
         NEW part \in {<< >>, <<Junk>>, <<Frame(c)>>}, log' = log \o part,
         UNCHANGED <<checkpoint, receipt>>,
         recover.ok, recover.root = root, recover.state = state, ~applyRaises(state, c)
  PROVE  /\ recover'.ok /\ ~junkInside'
         /\ \/ recover'.root = root /\ recover'.state = state
            \/ part # << >> /\ recover'.root = Append(root, c)
<1>1. DiskType' /\ Left(c, part)
  BY LeaveTyped
<1>2. CASE part = << >>
  <2>1. log' = log
    BY <1>2 DEF DiskType
  <2>2. recover' = recover /\ junkAt' = junkAt
    BY <2>1, SameDisk
  <2> QED
    BY <1>1, <2>2, CleanLogNext
<1>3. CASE part # << >> /\ junkAt' # {}
  <2>1. recover' = recover /\ frames' = frames
    BY <1>1, <1>3 DEF Left
  <2>2. frames = log
    BY DEF frames
  <2>3. Len(log') <= Len(log) + 1
    <3>1. CASE part = <<Junk>>
      BY <3>1 DEF DiskType
    <3>2. CASE part = <<Frame(c)>>
      BY <3>2 DEF DiskType
    <3> QED
      BY <1>3, <3>1, <3>2
  <2>4. Len(log') \in Nat /\ Len(log) \in Nat
    BY <1>1 DEF DiskType
  <2>5. ~junkInside'
    BY <2>1, <2>2, <2>3, <2>4 DEF junkInside
  <2> QED
    BY <2>1, <2>5
<1>4. CASE part # << >> /\ junkAt' = {}
  <2>1. recover' = replayFrame(recover, Frame(c))
    BY <1>1, <1>4 DEF Left
  <2>2. recover'.ok /\ recover'.root = Append(root, c)
    BY <2>1, ReplayAlive
  <2> QED
    BY <1>1, <1>4, <2>2, CleanLogNext
<1> QED
  BY <1>2, <1>3, <1>4

(* An append that may be cut short, from a disk that can be opened: with    *)
(* leftovers before it, it must have written nothing.                       *)
LEMMA TornAlive ==
  ASSUME Typed, Survives, Sane, Alive, NEW t \in Thread, atCommit(t), versionsMatch(t),
         NEW part \in partOf(t), leave(part), mixed' = mixed \cup mixedBy(t),
         UNCHANGED <<checkpoint, receipt>>, harm' = {}, mixed' = {}
  PROVE  /\ recover'.ok /\ ~junkInside'
         /\ \/ recover'.root = root /\ recover'.state = state
            \/ leftover' /\ \E c \in Commit : recover'.root = Append(root, c)
<1> DEFINE c == plan[t]
<1>1. /\ c \in Commit /\ root \in Seq(Commit) /\ DiskType /\ phase = "open"
      /\ part \in {<< >>, <<Junk>>, <<Frame(c)>>} /\ log' = log \o part
      /\ leftover' = (leftover \/ part # <<>>)
      /\ harm' = IF part # <<>> /\ leftover THEN harm \cup {"append"} ELSE harm
  BY AtCommit DEF leave, partOf
<1>2. ~applyRaises(state, c)
  BY PlanIsSound DEF mixedBy
<1> HIDE DEF c
<1>3. CASE leftover
  <2>1. part = << >>
    BY <1>1, <1>3
  <2>2. log' = log
    BY <1>1, <2>1 DEF DiskType
  <2>3. recover' = recover /\ frames' = frames
    BY <2>2, SameDisk
  <2>4. junkInside' = junkInside
    BY <2>2, <2>3 DEF junkInside
  <2> QED
    BY <1>1, <2>3, <2>4 DEF Alive
<1>4. CASE ~leftover
  <2>1. junkAt = {}
    BY <1>1, <1>4 DEF Survives
  <2>2. recover.ok /\ recover.root = root /\ recover.state = state
    BY <1>4 DEF Alive
  <2>3. /\ recover'.ok /\ ~junkInside'
        /\ \/ recover'.root = root /\ recover'.state = state
           \/ part # << >> /\ recover'.root = Append(root, c)
    BY <1>1, <1>2, <2>1, <2>2, LeftAlive
  <2> QED
    BY <1>1, <2>3
<1> QED
  BY <1>3, <1>4

LEMMA CommitLive ==
  ASSUME Typed, Survives, Sane, Live, NEW t \in Thread, CommitPlan(t)
  PROVE  Live'
<1> DEFINE c == plan[t]
<1>1. /\ atCommit(t) /\ versionsMatch(t) /\ log' = Append(log, Frame(c)) /\ root' = Append(root, c)
      /\ state' = applyCore(state, c) /\ harm' = (IF leftover THEN harm \cup {"append"} ELSE harm)
      /\ mixed' = mixed \cup mixedBy(t) /\ UNCHANGED <<phase, checkpoint, receipt, compacting, leftover>>
  BY DEF CommitPlan
<1>2. /\ c \in Commit /\ root \in Seq(Commit) /\ DiskType /\ phase = "open" /\ compacting = "no"
  BY <1>1, AtCommit
<1>3. SUFFICES ASSUME harm' = {}, mixed' = {} PROVE Alive'
  BY <1>1, <1>2 DEF Live
<1>4. harm = {} /\ mixed = {} /\ ~leftover /\ mixedBy(t) = {}
  BY <1>1, <1>3
<1>5. Alive /\ junkAt = {}
  BY <1>2, <1>4 DEF Live, halfCompacted, Survives
<1>6. recover.ok /\ recover.root = root /\ recover.state = state
  BY <1>4, <1>5 DEF Alive
<1>7. ~applyRaises(state, c)
  BY <1>1, <1>4, PlanIsSound DEF mixedBy
<1>8. DiskType'
  BY CommitTyped DEF Typed
<1> HIDE DEF c
<1>9. junkAt' = {} /\ recover' = replayFrame(recover, Frame(c))
  BY <1>1, <1>2, <1>5, CleanAppend
<1>10. recover'.ok /\ recover'.root = Append(root, c) /\ recover'.state = applyCore(state, c)
  BY <1>2, <1>6, <1>7, <1>9, ReplayAlive
<1>11. ~junkInside'
  BY <1>8, <1>9, CleanLogNext
<1> QED
  BY <1>1, <1>10, <1>11 DEF Alive

LEMMA FailAppendLive ==
  ASSUME Typed, Survives, Sane, Live, NEW t \in Thread, FailAppend(t)
  PROVE  Live'
<1>1. /\ atCommit(t) /\ versionsMatch(t) /\ mixed' = mixed \cup mixedBy(t)
      /\ UNCHANGED <<phase, state, root, checkpoint, receipt, compacting>>
  BY DEF FailAppend, memory
<1>2. PICK part \in partOf(t) : leave(part)
  BY DEF FailAppend
<1>3. phase = "open" /\ compacting = "no"
  BY <1>1, AtCommit
<1>4. SUFFICES ASSUME harm' = {}, mixed' = {} PROVE Alive'
  BY <1>1, <1>3 DEF Live
<1>5. harm = {} /\ mixed = {}
  BY <1>1, <1>2, <1>4 DEF leave
<1>6. Alive
  BY <1>3, <1>5 DEF Live, halfCompacted
<1>7. /\ recover'.ok /\ ~junkInside'
      /\ \/ recover'.root = root /\ recover'.state = state
         \/ leftover' /\ \E c \in Commit : recover'.root = Append(root, c)
  BY <1>1, <1>2, <1>4, <1>6, TornAlive
<1> QED
  BY <1>1, <1>7 DEF Alive

LEMMA SameLive ==
  ASSUME Live, UNCHANGED <<phase, state, root, log, checkpoint, receipt, leftover>>,
         harm \subseteq harm', mixed' = mixed,
         halfCompacted => halfCompacted' \/ harm' # {}
  PROVE  Live'
<1>1. recover' = recover /\ junkInside' = junkInside
  BY SameDisk DEF junkInside
<1> QED
  BY <1>1 DEF Live, Alive

LEMMA CompactLive ==
  ASSUME Typed, Live, BeginCompact \/ Compact \/ FailCompact
  PROVE  Live'
<1>0. Shape /\ Halfway /\ TypeOK
  BY DEF Typed
<1>1. CASE BeginCompact
  <2>1. /\ UNCHANGED <<phase, state, root, log, checkpoint, receipt, leftover, harm, mixed>>
        /\ ~halfCompacted
    BY <1>1 DEF BeginCompact, memory, disk, history, halfCompacted
  <2> QED
    BY <2>1, SameLive
<1>2. CASE FailCompact
  <2>1. /\ UNCHANGED <<phase, state, root, log, checkpoint, receipt, leftover, mixed>>
        /\ harm' = IF halfCompacted THEN harm \cup {"compact"} ELSE harm
    BY <1>2 DEF FailCompact, memory, disk
  <2> QED
    BY <2>1, SameLive
<1>3. CASE ReplaceCheckpoint \/ ReplaceReceipt
  <2>1. /\ UNCHANGED <<phase, harm, mixed>> /\ phase = "open" /\ halfCompacted'
    BY <1>0, <1>3 DEF ReplaceCheckpoint, ReplaceReceipt, memory, history, Shape, halfCompacted
  <2> QED
    BY <2>1 DEF Live
<1>4. CASE TruncateLog
  <2>1. /\ compacting = "receipt" /\ log' = << >>
        /\ UNCHANGED <<phase, state, root, checkpoint, receipt>>
    BY <1>4 DEF TruncateLog, memory
  <2>2. phase = "open" /\ checkpoint = [state |-> state, root |-> root] /\ receipt = root
    BY <1>0, <2>1 DEF Shape, Halfway, halfCompacted
  <2>3. junkAt' = {} /\ frames' = << >>
    BY <2>1 DEF junkAt, frames
  <2>4. recover' = Begun'
    BY <2>3, ReplayNothing DEF recover, Replay, Begun
  <2>5. recover'.ok /\ recover'.root = root /\ recover'.state = state
    <3>1. None \notin Snapshot /\ checkpoint' \in Snapshot
      BY <1>0, <2>1, <2>2, NoneAssumption DEF TypeOK, Snapshot
    <3>2. checkpoint' # None /\ checkpoint'.root = root /\ checkpoint'.state = state /\ receipt' = root
      BY <2>1, <2>2, <3>1
    <3> QED
      BY <2>4, <3>2 DEF Begun, base, receiptFits
  <2>6. ~junkInside'
    BY <2>1, <2>3 DEF junkInside
  <2> QED
    BY <2>1, <2>2, <2>5, <2>6 DEF Live, Alive
<1> QED
  BY <1>1, <1>2, <1>3, <1>4 DEF Compact

LEMMA CrashLive ==
  ASSUME Typed, Survives, Sane, Live, Crash
  PROVE  Live'
<1>0. phase = "open" /\ phase' = "closed" /\ UNCHANGED <<checkpoint, receipt>> /\ DiskType
  BY DEF Crash, Typed
<1>1. SUFFICES ASSUME harm' = {}, mixed' = {} PROVE recover'.ok /\ ~junkInside'
  BY <1>0 DEF Live
<1>2. CASE CrashIdle
  <2>1. log' = log /\ harm' = harm /\ mixed' = mixed /\ ~halfCompacted
    BY <1>0, <1>2 DEF CrashIdle, leave, DiskType
  <2>2. recover' = recover /\ junkInside' = junkInside
    BY <1>0, <2>1, SameDisk DEF junkInside
  <2> QED
    BY <1>0, <1>1, <2>1, <2>2 DEF Live, Alive
<1>3. ASSUME NEW t \in Thread, CrashInAppend(t) PROVE recover'.ok /\ ~junkInside'
  <2>1. PICK part \in partOf(t) : leave(part)
    BY <1>3 DEF CrashInAppend
  <2>2. /\ atCommit(t) /\ versionsMatch(t) /\ mixed' = mixed \cup mixedBy(t)
        /\ compacting = "no" /\ harm = {} /\ mixed = {}
    BY <1>1, <1>3, <2>1 DEF CrashInAppend, leave, atCommit
  <2>3. Alive
    BY <1>0, <2>2 DEF Live, halfCompacted
  <2> QED
    BY <1>0, <1>1, <2>1, <2>2, <2>3, TornAlive
<1>4. ~CrashInCompact
  BY <1>1 DEF CrashInCompact
<1> QED
  BY <1>2, <1>3, <1>4, CrashTyped

LEMMA StepLive ==
  ASSUME Typed, Survives, Sane, Live, [Next]_vars
  PROVE  Live'
<1>1. ASSUME NEW t \in Thread, Step(t) \/ FailAppend(t) \/ \E e \in Event : Record(t, e)
      PROVE  Live'
  <2>1. CASE \/ \E e \in Event : Record(t, e)
             \/ PlanRegister(t) \/ PlanIngest(t) \/ PlanClaim(t)
             \/ ReadBonds(t) \/ ReadPrevious(t) \/ ReadExpected(t)
    <3>1. /\ UNCHANGED <<state, root, log, checkpoint, receipt, leftover, harm, mixed, compacting>>
          /\ phase' = phase
      BY <2>1, PlanTyped DEF Reads, memory, disk, history
    <3> QED
      BY <3>1, SameLive DEF halfCompacted
  <2>2. CASE Conflict(t)
    <3>1. UNCHANGED <<phase, state, root, log, checkpoint, receipt, leftover, harm, mixed, compacting>>
      BY <2>2 DEF Conflict, memory, disk
    <3> QED
      BY <3>1, SameLive DEF halfCompacted
  <2> QED
    BY <1>1, <2>1, <2>2, CommitLive, FailAppendLive DEF Step
<1>2. CASE Open
  <2>1. /\ recover.ok /\ phase' = "open" /\ state' = recover.state /\ root' = recover.root
        /\ junkAt' = {} /\ recover' = recover /\ DiskType'
    BY <1>2, OpenTyped DEF Open, Typed
  <2>2. ~junkInside'
    BY <2>1, CleanLogNext
  <2> QED
    BY <2>1, <2>2 DEF Live, Alive
<1>3. CASE Refuse
  <2>1. harm' = harm /\ mixed' = mixed /\ phase = "closed" /\ (~recover.ok \/ junkInside)
    BY <1>3 DEF Refuse, history
  <2> QED
    BY <2>1 DEF Live
<1>4. CASE UNCHANGED vars
  <2>1. UNCHANGED <<phase, state, root, log, checkpoint, receipt, leftover, harm, mixed, compacting>>
    BY <1>4 DEF vars, memory, disk, history
  <2> QED
    BY <2>1, SameLive DEF halfCompacted
<1> QED
  BY <1>1, <1>2, <1>3, <1>4, CompactLive, CrashLive DEF Next

LEMMA LiveAlways == Spec => []Live
<1>1. Init => Live
  <2> SUFFICES ASSUME Init PROVE Live
    OBVIOUS
  <2>1. junkAt = {} /\ frames = << >>
    BY DEF Init, junkAt, frames
  <2>2. recover = Begun
    BY <2>1, ReplayNothing DEF recover, Replay, Begun
  <2>3. recover.ok /\ recover.root = root /\ recover.state = state
    BY <2>2 DEF Init, Begun, base, receiptFits
  <2>4. ~junkInside
    <3>1. Len(log) = 0 /\ Len(frames) = 0
      BY <2>1 DEF Init
    <3> QED
      BY <3>1 DEF junkInside
  <2> QED
    BY <2>3, <2>4 DEF Init, Live, Alive
<1>2. Typed /\ Survives /\ Sane /\ Live /\ [Next]_vars => Live'
  BY StepLive
<1> QED
  BY <1>1, <1>2, TypedAlways, SurvivesAlways, SaneAlways, PTL DEF Spec

(* Opening never fails on a disk that no append followed a failed one on,   *)
(* no compaction was abandoned on and no overtaken plan was committed to;   *)
(* it gives what memory held and at most the one commit that was under way. *)
THEOREM DiskStaysLive == Spec => []RecoversLive
<1>1. Typed /\ Live => RecoversLive
  <2> SUFFICES ASSUME Typed, Live, harm = {}, mixed = {}, phase = "open", ~halfCompacted
               PROVE  /\ recover.ok /\ ~junkInside
                      /\ IsPrefix(root, recover.root) /\ Len(recover.root) <= Len(root) + 1
                      /\ recover.root = root => recover.state = state
    BY DEF RecoversLive, Live
  <2>1. Alive /\ root \in Seq(Commit)
    BY DEF Live, Typed, TypeOK
  <2>2. CASE recover.root = root /\ recover.state = state
    BY <2>1, <2>2 DEF Alive, IsPrefix
  <2>3. ASSUME NEW c \in Commit, recover.root = Append(root, c)
        PROVE  IsPrefix(root, recover.root) /\ Len(recover.root) = Len(root) + 1 /\ recover.root # root
    <3>1. /\ Len(Append(root, c)) = Len(root) + 1 /\ Len(root) \in Nat
          /\ SubSeq(Append(root, c), 1, Len(root)) = root /\ SubSeq(root, 1, Len(root)) = root
      BY <2>1
    <3>2. Append(root, c) # root
      <4>1. SUFFICES ASSUME Append(root, c) = root PROVE FALSE
        OBVIOUS
      <4>2. Len(Append(root, c)) = Len(root)
        BY <4>1, Zenon
      <4> HIDE <4>1
      <4> QED
        BY <3>1, <4>2
    <3>3. IsPrefix(root, Append(root, c))
      <4> DEFINE z == Append(root, c)
      <4>1. Len(root) <= Len(z) /\ SubSeq(root, 1, Len(root)) = SubSeq(z, 1, Len(root))
        BY <3>1
      <4> HIDE DEF z
      <4>2. IsPrefix(root, z)
        BY <4>1, Zenon DEF IsPrefix
      <4> QED
        BY <4>2 DEF z
    <3> QED
      BY <2>3, <3>1, <3>2, <3>3
  <2> QED
    BY <2>1, <2>2, <2>3 DEF Alive
<1> QED
  BY <1>1, TypedAlways, LiveAlways, PTL

=============================================================================
