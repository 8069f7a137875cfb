------------------------ MODULE ExchangeAuctionProofs ------------------------
(***************************************************************************)
(* Theorems of ExchangeAuction, for every set of callers, parties and       *)
(* orders and every bound.  The price, the volume, the fairness of the      *)
(* trades and the end of instruments and venues do not depend on what else  *)
(* runs; the rest is proved for one call at a time, since it is false       *)
(* otherwise.                                                               *)
(***************************************************************************)
EXTENDS ExchangeAuction, ExchangeProofs, WellFoundedInduction

-----------------------------------------------------------------------------
(* Finite sets of orders, sorted.                                           *)

LEMMA LeastNat ==
  ASSUME NEW T, T \subseteq Nat, T # {}
  PROVE  \E m \in T : \A n \in T : m <= n
<1>1. PICK m \in T : \A n \in T : ~ (<<n, m>> \in OpToRel(<, Nat))
  BY NatLessThanWellFounded, WFMin
<1>2. ASSUME NEW n \in T, n < m PROVE <<n, m>> \in OpToRel(<, Nat)
  BY <1>2 DEF OpToRel
<1>3. \A n \in T : ~ (n < m)
  BY <1>1, <1>2, Zenon
<1> QED
  BY <1>3

(* The order received first, of several received together the one of lowest *)
(* rank.                                                                    *)
LEMMA FirstReceived ==
  ASSUME TablesOK, NEW S, S \subseteq Order, S # {}
  PROVE  \E x \in S : \A y \in S \ {x} : Earlier(x, y)
<1> DEFINE T == {received[o] : o \in S}
<1>1. T \subseteq Nat /\ T # {}
  BY DEF TablesOK
<1>2. PICK t \in T : \A n \in T : t <= n
  <2> HIDE DEF T
  <2> QED BY <1>1, LeastNat
<1> DEFINE U == {Rank[o] : o \in {x \in S : received[x] = t}}
<1>3. U \subseteq Nat /\ U # {}
  BY BodiesAssumption
<1>4. PICK u \in U : \A n \in U : u <= n
  <2> HIDE DEF U
  <2> QED BY <1>3, LeastNat
<1>5. PICK x \in S : received[x] = t /\ Rank[x] = u
  BY <1>4
<1>6. ASSUME NEW y \in S \ {x} PROVE Earlier(x, y)
  <2>1. received[x] <= received[y] /\ received[x] \in Nat /\ received[y] \in Nat
    BY <1>2, <1>5 DEF TablesOK
  <2>2. received[x] = received[y] => Rank[x] <= Rank[y]
    BY <1>4, <1>5
  <2>3. Rank[x] \in Nat /\ Rank[y] \in Nat /\ Rank[x] # Rank[y]
    BY BodiesAssumption
  <2> QED BY <2>1, <2>2, <2>3 DEF Earlier
<1> QED BY <1>6

InTurn(f) == \A m, n \in DOMAIN f : m < n => Earlier(f[m], f[n])

(* Every finite set of orders can be sorted: by least counterexample.       *)
LEMMA SortExists ==
  ASSUME TablesOK, NEW S, S \subseteq Order
  PROVE  \E f \in [1 .. Cardinality(S) -> S] : InTurn(f)
<1> DEFINE Sorts(R) == \E f \in [1 .. Cardinality(R) -> R] : InTurn(f)
           Bad == {n \in Nat : \E R \in SUBSET Order : Cardinality(R) = n /\ ~Sorts(R)}
<1>0. \A R \in SUBSET Order : IsFiniteSet(R) /\ Cardinality(R) \in Nat
  BY FiniteAssumption, FS_Subset, FS_CardinalityType
<1>1. SUFFICES ASSUME ~Sorts(S) PROVE FALSE
  OBVIOUS
<1>2. Bad \subseteq Nat /\ Bad # {}
  <2>1. S \in SUBSET Order
    OBVIOUS
  <2> HIDE DEF Sorts
  <2> QED BY <1>0, <1>1, <2>1
<1>3. PICK m \in Bad : \A n \in Bad : m <= n
  <2> HIDE DEF Bad
  <2> QED BY <1>2, LeastNat
<1>4. PICK R \in SUBSET Order : Cardinality(R) = m /\ ~Sorts(R)
  BY <1>3
<1>5. CASE R = {}
  <2>1. Cardinality(R) = 0
    BY <1>5, FS_EmptySet
  <2> DEFINE f == [k \in 1 .. Cardinality(R) |-> 0]
  <2>2. 1 .. Cardinality(R) = {}
    BY <2>1
  <2>3. f \in [1 .. Cardinality(R) -> R] /\ DOMAIN f = {}
    BY <2>2
  <2>4. InTurn(f)
    BY <2>3 DEF InTurn
  <2> HIDE DEF f
  <2> QED BY <1>4, <2>3, <2>4
<1>6. CASE R # {}
  <2>1. PICK x \in R : \A y \in R \ {x} : Earlier(x, y)
    BY <1>6, FirstReceived
  <2> DEFINE Q == R \ {x}
  <2>2. Q \in SUBSET Order /\ Cardinality(Q) = m - 1 /\ m \in Nat
    BY <1>0, <1>4, FS_RemoveElement
  <2>3. Cardinality(Q) \in Nat /\ Cardinality(Q) < m
    BY <1>0, <2>2
  <2>4. Sorts(Q)
    <3>1. Cardinality(Q) \notin Bad
      <4> HIDE DEF Bad, Q
      <4> QED BY <1>2, <1>3, <2>2, <2>3
    <3> HIDE DEF Sorts, Q
    <3> QED BY <2>2, <2>3, <3>1
  <2>5. PICK g \in [1 .. m - 1 -> Q] : InTurn(g)
    BY <2>2, <2>4
  <2> DEFINE f == [k \in 1 .. m |-> IF k = 1 THEN x ELSE g[k - 1]]
  <2>6. f \in [1 .. m -> R]
    <3>1. ASSUME NEW k \in 1 .. m PROVE f[k] \in R
      <4>1. CASE k = 1
        BY <4>1
      <4>2. CASE k # 1
        <5>1. k - 1 \in 1 .. m - 1
          BY <2>2, <4>2
        <5> QED BY <2>5, <4>2, <5>1
      <4> QED BY <4>1, <4>2
    <3> QED BY <3>1
  <2>7. InTurn(f)
    <3> SUFFICES ASSUME NEW j \in 1 .. m, NEW k \in 1 .. m, j < k PROVE Earlier(f[j], f[k])
      BY DEF InTurn
    <3>1. k # 1 /\ k - 1 \in 1 .. m - 1 /\ f[k] = g[k - 1]
      BY <2>2
    <3>2. CASE j = 1
      <4>1. f[k] \in R \ {x} /\ f[j] = x
        BY <2>5, <3>1, <3>2
      <4> QED BY <2>1, <4>1
    <3>3. CASE j # 1
      <4>1. j - 1 \in 1 .. m - 1 /\ f[j] = g[j - 1] /\ j - 1 < k - 1
        BY <2>2, <3>3
      <4> HIDE DEF f
      <4> QED BY <2>5, <3>1, <4>1 DEF InTurn
    <3> QED BY <3>2, <3>3
  <2> HIDE DEF f
  <2> QED BY <1>4, <2>6, <2>7
<1> QED BY <1>5, <1>6

Queued(s) == {s[k] : k \in 1 .. Len(s)}
Distinct(s) == \A m, n \in 1 .. Len(s) : s[m] = s[n] => m = n

(* The sequence has every order of the set once.                            *)
LEMMA SortedFacts ==
  ASSUME TablesOK, NEW S, S \subseteq Order
  PROVE  Sorted(S) \in Seq(Order) /\ Distinct(Sorted(S)) /\ Queued(Sorted(S)) = S
<1> DEFINE f == Sorted(S)
           c == Cardinality(S)
<1>1. f \in [1 .. c -> S] /\ InTurn(f)
  BY SortExists DEF Sorted, InTurn
<1>2. IsFiniteSet(S) /\ c \in Nat
  BY FiniteAssumption, FS_Subset, FS_CardinalityType
<1> HIDE DEF f, c
<1>3. f \in Seq(Order) /\ Len(f) = c
  BY <1>1, <1>2
<1>4. \A m, n \in 1 .. c : m < n => f[m] # f[n]
  <2> SUFFICES ASSUME NEW m \in 1 .. c, NEW n \in 1 .. c, m < n PROVE f[m] # f[n]
    OBVIOUS
  <2>1. Earlier(f[m], f[n]) /\ f[m] \in Order
    BY <1>1 DEF InTurn
  <2>2. ~Earlier(f[m], f[m])
    BY <2>1, BodiesAssumption DEF Earlier, TablesOK
  <2> QED BY <2>1, <2>2
<1>5. \A m, n \in 1 .. c : f[m] = f[n] => m = n
  BY <1>2, <1>4
<1>6. Queued(f) = S
  <2>1. f \in Injection(1 .. c, S)
    BY <1>1, <1>5 DEF Injection, IsInjective
  <2>2. Cardinality(1 .. c) = c /\ c = Cardinality(S)
    BY <1>2, FS_Interval DEF c
  <2>3. f \in Surjection(1 .. c, S)
    BY <1>2, <2>1, <2>2, FS_Injection
  <2> QED BY <1>3, <2>3 DEF Surjection, Queued
<1> QED BY <1>3, <1>5, <1>6 DEF f, Distinct

LEMMA HeadFacts ==
  ASSUME NEW s \in Seq(Order), s # << >>, Distinct(s)
  PROVE  /\ Head(s) \in Queued(s) /\ Queued(s) \subseteq Order
         /\ Tail(s) \in Seq(Order) /\ Distinct(Tail(s))
         /\ Queued(Tail(s)) = Queued(s) \ {Head(s)}
<1>1. Len(s) \in Nat /\ Len(s) >= 1 /\ Head(s) = s[1]
  OBVIOUS
<1>2. Tail(s) \in Seq(Order) /\ Len(Tail(s)) = Len(s) - 1
      /\ \A k \in 1 .. Len(s) - 1 : Tail(s)[k] = s[k + 1]
  OBVIOUS
<1>3. Head(s) \in Queued(s) /\ Queued(s) \subseteq Order
  BY <1>1 DEF Queued
<1>4. Distinct(Tail(s))
  <2> SUFFICES ASSUME NEW m \in 1 .. Len(s) - 1, NEW n \in 1 .. Len(s) - 1,
                      Tail(s)[m] = Tail(s)[n]
               PROVE  m = n
    BY <1>2 DEF Distinct
  <2>1. s[m + 1] = s[n + 1] /\ m + 1 \in 1 .. Len(s) /\ n + 1 \in 1 .. Len(s)
    BY <1>1, <1>2
  <2> QED BY <2>1 DEF Distinct
<1>5. Queued(Tail(s)) = Queued(s) \ {Head(s)}
  <2>1. ASSUME NEW o \in Queued(Tail(s)) PROVE o \in Queued(s) \ {Head(s)}
    <3>1. PICK k \in 1 .. Len(s) - 1 : o = s[k + 1]
      BY <1>2 DEF Queued
    <3>2. k + 1 \in 1 .. Len(s) /\ 1 \in 1 .. Len(s) /\ k + 1 # 1
      BY <1>1
    <3> QED BY <1>1, <3>1, <3>2 DEF Queued, Distinct
  <2>2. ASSUME NEW o \in Queued(s) \ {Head(s)} PROVE o \in Queued(Tail(s))
    <3>1. PICK k \in 1 .. Len(s) : o = s[k] /\ k # 1
      BY <1>1 DEF Queued
    <3>2. k - 1 \in 1 .. Len(s) - 1 /\ (k - 1) + 1 = k
      BY <1>1, <3>1
    <3>3. Tail(s)[k - 1] = s[k]
      BY <1>2, <3>2
    <3> QED BY <1>2, <3>1, <3>2, <3>3 DEF Queued
  <2> QED BY <2>1, <2>2
<1> QED BY <1>2, <1>3, <1>4, <1>5

-----------------------------------------------------------------------------
(* The clearing price.                                                      *)

(* More rows, more units.                                                   *)
LEMMA TotalGrows ==
  ASSUME NEW S, IsFiniteSet(S), NEW T, T \subseteq S,
         NEW f \in [T -> Nat], NEW g \in [S -> Nat], \A x \in T : g[x] = f[x]
  PROVE  Total(f) \in Nat /\ Total(g) \in Nat /\ Total(f) <= Total(g)
<1>1. IsFiniteSet(T)
  BY FS_Subset
<1>2. IsFiniteSet(UnitsOf(g)) /\ Total(f) \in Nat /\ Total(g) \in Nat
  BY <1>1, TotalType
<1>3. UnitsOf(f) \subseteq UnitsOf(g)
  <2> SUFFICES ASSUME NEW u \in UnitsOf(f) PROVE u \in UnitsOf(g)
    OBVIOUS
  <2>1. PICK y \in T : u \in {y} \X (1 .. f[y])
    BY DEF UnitsOf
  <2> QED BY <2>1 DEF UnitsOf
<1>4. Cardinality(UnitsOf(f)) <= Cardinality(UnitsOf(g))
  BY <1>2, <1>3, FS_Subset
<1> QED BY <1>2, <1>4 DEF Total

Ceiling == Total(remaining)
Buying(B, p) == {b \in B : Signed[b].limit >= p}
Selling(S, p) == {s \in S : Signed[s].limit <= p}

LEMMA LimitType == \A o \in Order : Signed[o].limit \in Nat
BY BodiesAssumption DEF OrderBody

LEMMA RowsOf ==
  ASSUME TablesOK, NEW R, R \subseteq Order, NEW T, T \subseteq R
  PROVE  /\ Total([o \in T |-> remaining[o]]) \in Nat /\ Total([o \in R |-> remaining[o]]) \in Nat
         /\ Total([o \in T |-> remaining[o]]) <= Total([o \in R |-> remaining[o]])
<1>1. IsFiniteSet(R)
  BY FiniteAssumption, FS_Subset
<1>2. /\ [o \in T |-> remaining[o]] \in [T -> Nat] /\ [o \in R |-> remaining[o]] \in [R -> Nat]
      /\ \A x \in T : [o \in R |-> remaining[o]][x] = [o \in T |-> remaining[o]][x]
  BY DEF TablesOK
<1> QED BY <1>1, <1>2, TotalGrows

(* The volume at a price, and the limits of what it can be.                 *)
LEMMA VolumeType ==
  ASSUME TablesOK, NEW B, B \subseteq Order, NEW S, S \subseteq Order, NEW p
  PROVE  /\ Demand(B, p) \in Nat /\ Supply(S, p) \in Nat
         /\ Volume(B, S, p) \in Nat /\ Imbalance(B, S, p) \in Nat
         /\ Volume(B, S, p) <= Demand(B, p) /\ Volume(B, S, p) <= Supply(S, p)
         /\ Ceiling \in Nat /\ Volume(B, S, p) <= Ceiling
<1>1. Buying(B, p) \subseteq Order /\ Selling(S, p) \subseteq Order
  BY DEF Buying, Selling
<1>2. /\ Demand(B, p) = Total([o \in Buying(B, p) |-> remaining[o]])
      /\ Supply(S, p) = Total([o \in Selling(S, p) |-> remaining[o]])
  BY DEF Demand, Supply, Buying, Selling
<1>3. Ceiling = Total([o \in Order |-> remaining[o]])
  <2>1. remaining = [o \in Order |-> remaining[o]]
    BY DEF TablesOK
  <2> QED BY <2>1 DEF Ceiling
<1>4. Demand(B, p) \in Nat /\ Demand(B, p) <= Ceiling /\ Ceiling \in Nat
  BY <1>1, <1>2, <1>3, RowsOf
<1>5. Supply(S, p) \in Nat
  BY <1>1, <1>2, RowsOf
<1> QED BY <1>4, <1>5 DEF Volume, Lesser, Imbalance

LEMMA DemandFalls ==
  ASSUME TablesOK, NEW B, B \subseteq Order, NEW p, NEW x,
         \A b \in B : Signed[b].limit >= p => Signed[b].limit >= x
  PROVE  Demand(B, p) <= Demand(B, x)
<1>1. Buying(B, p) \subseteq Buying(B, x) /\ Buying(B, x) \subseteq Order
  BY DEF Buying
<1>2. Total([o \in Buying(B, p) |-> remaining[o]]) <= Total([o \in Buying(B, x) |-> remaining[o]])
  BY <1>1, RowsOf
<1> QED BY <1>2 DEF Demand, Buying

LEMMA SupplyRises ==
  ASSUME TablesOK, NEW S, S \subseteq Order, NEW p, NEW x,
         \A s \in S : Signed[s].limit <= p => Signed[s].limit <= x
  PROVE  Supply(S, p) <= Supply(S, x)
<1>1. Selling(S, p) \subseteq Selling(S, x) /\ Selling(S, x) \subseteq Order
  BY DEF Selling
<1>2. Total([o \in Selling(S, p) |-> remaining[o]]) <= Total([o \in Selling(S, x) |-> remaining[o]])
  BY <1>1, RowsOf
<1> QED BY <1>2 DEF Supply, Selling

Limits(B, S) == {Signed[o].limit : o \in B \cup S}
Better(B, S, p, x) ==
  \/ Volume(B, S, x) < Volume(B, S, p)
  \/ /\ Volume(B, S, x) = Volume(B, S, p)
     /\ \/ Imbalance(B, S, x) > Imbalance(B, S, p)
        \/ Imbalance(B, S, x) = Imbalance(B, S, p) /\ x > p

(* The price exists: of the limits with the largest volume, those with the  *)
(* least imbalance, and of these the lowest.                                *)
LEMMA PriceExists ==
  ASSUME TablesOK, NEW B, B \subseteq Order, NEW S, S \subseteq Order, B \cup S # {}
  PROVE  \E p \in Limits(B, S) : \A x \in Limits(B, S) \ {p} : Better(B, S, p, x)
<1> DEFINE L == Limits(B, S)
           V(p) == Volume(B, S, p)
           D(p) == Imbalance(B, S, p)
<1>1. L \subseteq Nat /\ L # {}
  BY LimitType DEF Limits
<1>2. \A p \in L : V(p) \in Nat /\ D(p) \in Nat /\ V(p) <= Ceiling /\ Ceiling \in Nat
  BY VolumeType
<1> HIDE DEF L, V, D
<1> DEFINE T == {Ceiling - V(p) : p \in L}
<1>3. T \subseteq Nat /\ T # {}
  <2>1. \A p \in L : Ceiling - V(p) \in Nat
    BY <1>2
  <2>2. \A n \in T : n \in Nat
    BY <2>1
  <2> QED BY <1>1, <2>2
<1>4. PICK t \in T : \A n \in T : t <= n
  <2> HIDE DEF T
  <2> QED BY <1>3, LeastNat
<1> DEFINE U == {D(p) : p \in {x \in L : Ceiling - V(x) = t}}
<1>5. U \subseteq Nat /\ U # {}
  BY <1>2
<1>6. PICK u \in U : \A n \in U : u <= n
  <2> HIDE DEF U
  <2> QED BY <1>5, LeastNat
<1> DEFINE W == {p \in L : Ceiling - V(p) = t /\ D(p) = u}
<1>7. W \subseteq Nat /\ W # {}
  BY <1>1, <1>6
<1>8. PICK p \in W : \A n \in W : p <= n
  <2> HIDE DEF W
  <2> QED BY <1>7, LeastNat
<1>9. ASSUME NEW x \in L, x # p
      PROVE  V(x) < V(p) \/ (V(x) = V(p) /\ (D(x) > D(p) \/ (D(x) = D(p) /\ x > p)))
  <2>1. /\ V(x) \in Nat /\ V(p) \in Nat /\ D(x) \in Nat /\ D(p) \in Nat
        /\ x \in Nat /\ p \in Nat /\ Ceiling \in Nat
    BY <1>1, <1>2
  <2>2. t = Ceiling - V(p) /\ t <= Ceiling - V(x)
    BY <1>4, <1>8
  <2>3. V(x) = V(p) => u = D(p) /\ u <= D(x)
    BY <1>6, <1>8, <2>2
  <2>4. V(x) = V(p) /\ D(x) = D(p) => p <= x
    BY <1>8, <2>2
  <2> HIDE DEF T, U, W
  <2> QED BY <1>9, <2>1, <2>2, <2>3, <2>4
<1>10. p \in L
  OBVIOUS
<1> QED BY <1>9, <1>10 DEF Better, L, V, D

LEMMA PriceFacts ==
  ASSUME TablesOK, NEW B, B \subseteq Order, NEW S, S \subseteq Order, B \cup S # {}
  PROVE  /\ ClearingPrice(B, S) \in Limits(B, S) /\ ClearingPrice(B, S) \in Nat
         /\ \A x \in Limits(B, S) : Volume(B, S, x) <= Volume(B, S, ClearingPrice(B, S))
<1> DEFINE c == ClearingPrice(B, S)
<1>1. c = CHOOSE p \in Limits(B, S) : \A x \in Limits(B, S) \ {p} : Better(B, S, p, x)
  BY DEF ClearingPrice, Limits, Better
<1>2. c \in Limits(B, S) /\ \A x \in Limits(B, S) \ {c} : Better(B, S, c, x)
  <2> HIDE DEF c
  <2> QED BY <1>1, PriceExists
<1>3. c \in Nat
  <2> HIDE DEF c
  <2> QED BY <1>2, LimitType DEF Limits
<1>4. ASSUME NEW x \in Limits(B, S) PROVE Volume(B, S, x) <= Volume(B, S, c)
  <2> HIDE DEF c
  <2>1. Volume(B, S, x) \in Nat /\ Volume(B, S, c) \in Nat
    BY VolumeType
  <2>2. CASE x = c
    BY <2>1, <2>2
  <2>3. CASE x # c
    BY <1>2, <2>1, <2>3 DEF Better
  <2> QED BY <2>2, <2>3
<1> QED BY <1>2, <1>3, <1>4

(* A price that is nobody's limit crosses no more than the next higher bid  *)
(* does: the same bids, and at least its asks.                              *)
LEMMA PriceIsBest ==
  ASSUME TablesOK, NEW B, B \subseteq Order, NEW S, S \subseteq Order, B \cup S # {}, NEW p \in Int
  PROVE  Volume(B, S, p) <= Volume(B, S, ClearingPrice(B, S))
<1> DEFINE c == ClearingPrice(B, S)
<1>1. \A x \in Limits(B, S) : Volume(B, S, x) <= Volume(B, S, c)
  BY PriceFacts
<1>2. Volume(B, S, c) \in Nat /\ Volume(B, S, p) \in Nat
  BY VolumeType
<1> HIDE DEF c
<1>3. CASE Buying(B, p) = {}
  <2> DEFINE f == [o \in Buying(B, p) |-> remaining[o]]
  <2>1. f \in [Buying(B, p) -> Nat] /\ \A x \in Buying(B, p) : f[x] = 0
    BY <1>3
  <2>2. Total(f) = 0
    <3> HIDE DEF f
    <3> QED BY <2>1, TotalZero
  <2>3. Demand(B, p) = 0
    BY <2>2 DEF Demand, Buying
  <2>4. Volume(B, S, p) <= 0
    BY <2>3, VolumeType
  <2> QED BY <1>2, <2>4 DEF c
<1>4. CASE Buying(B, p) # {}
  <2> DEFINE T == {Signed[o].limit : o \in Buying(B, p)}
  <2>1. T \subseteq Nat /\ T # {}
    BY <1>4, LimitType DEF Buying
  <2>2. PICK x \in T : \A n \in T : x <= n
    <3> HIDE DEF T
    <3> QED BY <2>1, LeastNat
  <2>3. x \in Limits(B, S) /\ x >= p /\ x \in Nat
    BY <2>1 DEF Buying, Limits
  <2>4. \A b \in B : Signed[b].limit >= p => Signed[b].limit >= x
    BY <2>2, LimitType DEF Buying
  <2> HIDE DEF T
  <2>5. Demand(B, p) <= Demand(B, x)
    BY <2>4, DemandFalls
  <2>6. \A s \in S : Signed[s].limit <= p => Signed[s].limit <= x
    BY <2>3, LimitType
  <2>7. Supply(S, p) <= Supply(S, x)
    BY <2>6, SupplyRises
  <2>8. /\ Demand(B, p) \in Nat /\ Demand(B, x) \in Nat
        /\ Supply(S, p) \in Nat /\ Supply(S, x) \in Nat
    BY VolumeType
  <2>9. Volume(B, S, p) <= Volume(B, S, x)
    BY <2>5, <2>7, <2>8 DEF Volume, Lesser
  <2>10. Volume(B, S, x) <= Volume(B, S, c) /\ Volume(B, S, x) \in Nat
    BY <1>1, <2>3, VolumeType
  <2> QED BY <1>2, <2>9, <2>10 DEF c
<1> QED BY <1>3, <1>4

LEMMA VolumeMaximal == TablesOK => VolumeIsMaximal
<1> SUFFICES ASSUME TablesOK, NEW v \in Venue, NEW i \in Instrument,
                    LiveOrders(v, i, "BUY") \cup LiveOrders(v, i, "SELL") # {},
                    NEW p \in 0 .. Max({Signed[o].limit : o \in Order})
             PROVE  LET B == LiveOrders(v, i, "BUY")
                        S == LiveOrders(v, i, "SELL")
                    IN  Volume(B, S, p) <= Volume(B, S, ClearingPrice(B, S))
  BY DEF VolumeIsMaximal
<1>1. LiveOrders(v, i, "BUY") \subseteq Order /\ LiveOrders(v, i, "SELL") \subseteq Order
  BY DEF LiveOrders
<1>2. p \in Int
  OBVIOUS
<1> QED BY <1>1, <1>2, PriceIsBest

-----------------------------------------------------------------------------
(* What an auction holds, whoever else is at work.                          *)

AuctionRecord == [buys : Seq(Order), sells : Seq(Order), rem : [Order -> Nat],
                  left : Nat, price : Nat, skipped : BOOLEAN]
UnitsIn(Q, r) == Total([o \in Q |-> r[o]])
QueuedUnits(s, r) == UnitsIn(Queued(s), r)

(* Its orders can meet at its price, each still had units when it was read,  *)
(* and they cover the volume that is left, the asks if none was passed over. *)
CanMeet(a) ==
  /\ \A o \in Queued(a.buys) : Signed[o].side = "BUY" /\ a.price <= Signed[o].limit
  /\ \A o \in Queued(a.sells) : Signed[o].side = "SELL" /\ Signed[o].limit <= a.price
  /\ \A o, x \in Queued(a.buys) \cup Queued(a.sells) :
       Signed[o].venue = Signed[x].venue /\ Signed[o].inst = Signed[x].inst
Stocked(a) == \A o \in Queued(a.buys) \cup Queued(a.sells) : a.rem[o] > 0
Capped(a) ==
  /\ a.left <= QueuedUnits(a.buys, a.rem)
  /\ a.skipped \/ a.left <= QueuedUnits(a.sells, a.rem)
WellMade(a) ==
  /\ a \in AuctionRecord /\ Distinct(a.buys) /\ Distinct(a.sells)
  /\ CanMeet(a) /\ Stocked(a) /\ Capped(a)

LiveHaveUnits == \A o \in Order : orderStatus[o] \in Live => remaining[o] > 0
Auctions == DOMAIN auction = Proc /\ \A q \in Proc : WellMade(auction[q])
AInv == TypeOK /\ LiveHaveUnits /\ FairTrades /\ Auctions

LEMMA QueuedUnitsType ==
  ASSUME NEW s \in Seq(Order), NEW r \in [Order -> Nat]
  PROVE  /\ Queued(s) \subseteq Order /\ IsFiniteSet(Queued(s))
         /\ [o \in Queued(s) |-> r[o]] \in [Queued(s) -> Nat]
         /\ QueuedUnits(s, r) \in Nat
<1>1. Queued(s) \subseteq Order
  BY DEF Queued
<1>2. IsFiniteSet(Queued(s))
  BY <1>1, FiniteAssumption, FS_Subset
<1>3. [o \in Queued(s) |-> r[o]] \in [Queued(s) -> Nat]
  BY <1>1
<1> QED BY <1>1, <1>2, <1>3, TotalType DEF QueuedUnits, UnitsIn

(* No orders, no units.                                                     *)
LEMMA NoUnits == ASSUME NEW r PROVE UnitsIn({}, r) = 0
<1> DEFINE f == [o \in {} |-> r[o]]
<1>1. f \in [{} -> Nat] /\ \A x \in {} : f[x] = 0
  OBVIOUS
<1> HIDE DEF f
<1>2. Total(f) = 0
  BY <1>1, TotalZero
<1> QED BY <1>2 DEF f, UnitsIn

LEMMA NothingQueued == Queued(<< >>) = {} /\ Distinct(<< >>)
BY DEF Queued, Distinct

LEMMA NoAuctionMade == WellMade(NoAuction)
<1> DEFINE r == [o \in Order |-> 0]
<1>1. NoAuction \in AuctionRecord
  BY DEF NoAuction, AuctionRecord
<1>2. NoAuction.buys = << >> /\ NoAuction.sells = << >> /\ NoAuction.left = 0 /\ NoAuction.rem = r
  BY DEF NoAuction
<1>3. QueuedUnits(<< >>, r) \in Nat
  <2>1. << >> \in Seq(Order) /\ r \in [Order -> Nat]
    OBVIOUS
  <2> QED BY <2>1, QueuedUnitsType
<1>4. CanMeet(NoAuction) /\ Stocked(NoAuction) /\ Capped(NoAuction)
  BY <1>2, <1>3, NothingQueued DEF CanMeet, Stocked, Capped
<1> QED BY <1>1, <1>2, <1>4, NothingQueued DEF WellMade

(* The auction reads the live orders.                                       *)
LEMMA StartMade ==
  ASSUME TablesOK, LiveHaveUnits, NEW q \in Proc, NEW v \in Venue, NEW i \in Instrument,
         DOMAIN auction = Proc, AuctionStart(q, v, i)
  PROVE  /\ DOMAIN auction' = Proc /\ WellMade(auction'[q])
         /\ \A r \in Proc \ {q} : auction'[r] = auction[r]
         /\ auction'[q].rem = remaining
         /\ \A o \in Queued(auction'[q].buys) \cup Queued(auction'[q].sells) :
              /\ o \in Order /\ orderStatus[o] \in Live
              /\ Signed[o].venue = v /\ Signed[o].inst = i
<1> DEFINE B == LiveOrders(v, i, "BUY")
           S == LiveOrders(v, i, "SELL")
           p == ClearingPrice(B, S)
           bs == Sorted({b \in B : Signed[b].limit >= p})
           ss == Sorted({s \in S : Signed[s].limit <= p})
           a == [buys |-> bs, sells |-> ss, rem |-> remaining, left |-> Volume(B, S, p),
                 price |-> p, skipped |-> FALSE]
<1>1. B \subseteq Order /\ S \subseteq Order /\ B \cup S # {}
  BY DEF AuctionStart, LiveOrders
<1>2. auction' = [auction EXCEPT ![q] = a]
  BY DEF AuctionStart
<1>3. /\ \A o \in B : Signed[o].side = "BUY" /\ Signed[o].venue = v /\ Signed[o].inst = i
      /\ \A o \in S : Signed[o].side = "SELL" /\ Signed[o].venue = v /\ Signed[o].inst = i
      /\ \A o \in B \cup S : orderStatus[o] \in Live
  BY DEF LiveOrders
<1> HIDE DEF B, S
<1>4. p \in Nat
  BY <1>1, PriceFacts
<1> HIDE DEF p
<1>5. /\ bs \in Seq(Order) /\ Distinct(bs) /\ Queued(bs) = Buying(B, p)
      /\ ss \in Seq(Order) /\ Distinct(ss) /\ Queued(ss) = Selling(S, p)
  <2>1. Buying(B, p) \subseteq Order /\ Selling(S, p) \subseteq Order
    BY <1>1 DEF Buying, Selling
  <2>2. bs = Sorted(Buying(B, p)) /\ ss = Sorted(Selling(S, p))
    BY DEF Buying, Selling
  <2> HIDE DEF bs, ss
  <2> QED BY <2>1, <2>2, SortedFacts
<1> HIDE DEF bs, ss
<1>6. /\ Volume(B, S, p) \in Nat
      /\ Volume(B, S, p) <= Demand(B, p) /\ Volume(B, S, p) <= Supply(S, p)
  BY <1>1, VolumeType
<1>7. /\ Demand(B, p) = QueuedUnits(bs, remaining)
      /\ Supply(S, p) = QueuedUnits(ss, remaining)
  BY <1>5 DEF QueuedUnits, UnitsIn, Demand, Supply, Buying, Selling
<1>8. a \in AuctionRecord
  BY <1>4, <1>5, <1>6 DEF AuctionRecord, TablesOK
<1>9. CanMeet(a)
  <2>1. \A o \in Queued(bs) : o \in B /\ p <= Signed[o].limit
    BY <1>1, <1>4, <1>5, LimitType DEF Buying
  <2>2. \A o \in Queued(ss) : o \in S /\ Signed[o].limit <= p
    BY <1>5 DEF Selling
  <2> QED BY <1>3, <2>1, <2>2 DEF CanMeet
<1>10. Queued(bs) \cup Queued(ss) \subseteq B \cup S
  BY <1>5 DEF Buying, Selling
<1>11. Stocked(a)
  BY <1>1, <1>3, <1>10 DEF Stocked, LiveHaveUnits
<1>12. Capped(a)
  BY <1>6, <1>7 DEF Capped
<1>13. auction'[q] = a
  BY <1>2
<1> HIDE DEF a
<1>14. WellMade(a)
  <2>1. a.buys = bs /\ a.sells = ss
    BY DEF a
  <2> QED BY <1>5, <1>8, <1>9, <1>11, <1>12, <2>1 DEF WellMade
<1>15. a.rem = remaining /\ a.buys = bs /\ a.sells = ss
  BY DEF a
<1> QED BY <1>1, <1>2, <1>3, <1>10, <1>13, <1>14, <1>15

(* An ask is passed over.                                                   *)
LEMMA SkipMade ==
  ASSUME Auctions, NEW q \in Proc, AuctionSkip(q)
  PROVE  /\ DOMAIN auction' = Proc /\ WellMade(auction'[q])
         /\ \A r \in Proc \ {q} : auction'[r] = auction[r]
         /\ auction'[q].rem = auction[q].rem /\ auction'[q].buys = auction[q].buys
         /\ Queued(auction'[q].sells) \subseteq Queued(auction[q].sells)
<1> DEFINE a == auction[q]
           c == [a EXCEPT !.sells = Tail(@), !.skipped = TRUE]
<1>1. WellMade(a) /\ a \in AuctionRecord /\ a.sells # << >> /\ a.sells \in Seq(Order)
  BY DEF Auctions, AuctionSkip, Running, WellMade, AuctionRecord
<1>2. auction' = [auction EXCEPT ![q] = c]
  BY DEF AuctionSkip
<1>3. /\ Tail(a.sells) \in Seq(Order) /\ Distinct(Tail(a.sells))
      /\ Queued(Tail(a.sells)) \subseteq Queued(a.sells)
  BY <1>1, HeadFacts DEF WellMade
<1> HIDE DEF a
<1>4. /\ c \in AuctionRecord /\ c.buys = a.buys /\ c.sells = Tail(a.sells) /\ c.rem = a.rem
      /\ c.left = a.left /\ c.price = a.price /\ c.skipped = TRUE
  BY <1>1, <1>3 DEF AuctionRecord
<1>5. DOMAIN auction' = Proc /\ auction'[q] = c /\ \A r \in Proc \ {q} : auction'[r] = auction[r]
  BY <1>2 DEF Auctions
<1> HIDE DEF c
<1>6. CanMeet(c) /\ Stocked(c) /\ Capped(c)
  BY <1>1, <1>3, <1>4 DEF WellMade, CanMeet, Stocked, Capped
<1>7. WellMade(c)
  BY <1>1, <1>3, <1>4, <1>6 DEF WellMade
<1> QED BY <1>3, <1>4, <1>5, <1>7 DEF a

(* One order of a queue has n units less, perhaps none.                     *)
Takes(Q, h, r, r2, n) ==
  /\ Q \subseteq Order /\ IsFiniteSet(Q) /\ h \in Q
  /\ r \in [Order -> Nat] /\ r2 \in [Order -> Nat] /\ n \in Nat
  /\ r2[h] + n = r[h]
  /\ \A o \in Q \ {h} : r2[o] = r[o]

LEMMA OneLess ==
  ASSUME NEW Q, NEW h, NEW r, NEW r2, NEW n, Takes(Q, h, r, r2, n)
  PROVE  /\ UnitsIn(Q, r2) + n = UnitsIn(Q, r)
         /\ r2[h] = 0 => UnitsIn(Q \ {h}, r2) = UnitsIn(Q, r2)
<1> DEFINE f == [o \in Q |-> r[o]]
           g == [o \in Q |-> r2[o]]
           R == Q \ {h}
           k == [o \in R |-> r2[o]]
<1>1. /\ f \in [Q -> Nat] /\ g \in [Q -> Nat] /\ k \in [R -> Nat]
      /\ \A y \in Q \ {h} : g[y] = f[y]
      /\ \A y \in R : g[y] = k[y]
      /\ g[h] = r2[h] /\ f[h] = r[h] /\ r2[h] \in Nat
  BY DEF Takes
<1>2. /\ h \in Q /\ IsFiniteSet(Q) /\ IsFiniteSet(R) /\ h \notin R /\ R \cup {h} = Q
      /\ n \in Nat /\ r2[h] + n = r[h]
  BY FS_Subset DEF Takes
<1> HIDE DEF f, g, k, R
<1>3. Total(f) \in Nat /\ Total(g) \in Nat /\ Total(k) \in Nat
  BY <1>1, <1>2, TotalType
<1>4. Total(g) + f[h] = Total(f) + g[h]
  BY <1>1, <1>2, TotalUpdate
<1>5. g \in [R \cup {h} -> Nat]
  BY <1>1, <1>2
<1>6. Total(g) = Total(k) + g[h]
  BY <1>1, <1>2, <1>5, TotalExtend
<1>7. Total(g) + n = Total(f)
  BY <1>1, <1>2, <1>3, <1>4
<1>8. r2[h] = 0 => Total(k) = Total(g)
  BY <1>1, <1>3, <1>6
<1> QED BY <1>7, <1>8 DEF f, g, k, R, UnitsIn

(* A queue after n units of its head were traded.                           *)
HeadTrades(s, h, r, r2, n) ==
  /\ s \in Seq(Order) /\ s # << >> /\ Distinct(s) /\ h = Head(s)
  /\ Takes(Queued(s), h, r, r2, n)
  /\ \A o \in Queued(s) : r[o] > 0

LEMMA QueueAfter ==
  ASSUME NEW s, NEW h, NEW r, NEW r2, NEW n, HeadTrades(s, h, r, r2, n),
         NEW t, t = DropFilled(s, r2[h])
  PROVE  /\ t \in Seq(Order) /\ Distinct(t) /\ Queued(t) \subseteq Queued(s)
         /\ QueuedUnits(t, r2) + n = QueuedUnits(s, r)
         /\ \A o \in Queued(t) : r2[o] > 0
<1>1. /\ s \in Seq(Order) /\ s # << >> /\ Distinct(s) /\ h = Head(s)
      /\ Takes(Queued(s), h, r, r2, n) /\ \A o \in Queued(s) : r[o] > 0
  BY DEF HeadTrades
<1>2. /\ Queued(s) \subseteq Order /\ h \in Queued(s)
      /\ Tail(s) \in Seq(Order) /\ Distinct(Tail(s)) /\ Queued(Tail(s)) = Queued(s) \ {h}
  BY <1>1, HeadFacts
<1>3. r2[h] \in Nat /\ \A o \in Queued(s) \ {h} : r2[o] = r[o]
  BY <1>1, <1>2 DEF Takes
<1>4. /\ UnitsIn(Queued(s), r2) + n = UnitsIn(Queued(s), r)
      /\ r2[h] = 0 => UnitsIn(Queued(s) \ {h}, r2) = UnitsIn(Queued(s), r2)
  <2>1. Takes(Queued(s), h, r, r2, n)
    BY <1>1
  <2> DEFINE Q == Queued(s)
  <2>2. Takes(Q, h, r, r2, n)
    BY <2>1
  <2> HIDE DEF Q
  <2>3. /\ UnitsIn(Q, r2) + n = UnitsIn(Q, r)
        /\ r2[h] = 0 => UnitsIn(Q \ {h}, r2) = UnitsIn(Q, r2)
    BY <2>2, OneLess
  <2> QED BY <2>3 DEF Q
<1>5. CASE r2[h] = 0
  <2>1. t = Tail(s)
    BY <1>5 DEF DropFilled
  <2>2. UnitsIn(Queued(t), r2) + n = UnitsIn(Queued(s), r)
    BY <1>2, <1>4, <1>5, <2>1
  <2>3. \A o \in Queued(t) : o \in Queued(s) \ {h}
    BY <1>2, <2>1
  <2>4. \A o \in Queued(t) : r2[o] > 0
    BY <1>1, <1>3, <2>3
  <2> QED BY <1>2, <2>1, <2>2, <2>3, <2>4 DEF QueuedUnits
<1>6. CASE r2[h] # 0
  <2>1. t = s
    BY <1>6 DEF DropFilled
  <2>2. r2[h] > 0
    BY <1>3, <1>6
  <2>3. \A o \in Queued(s) : r2[o] > 0
    BY <1>1, <1>3, <2>2
  <2> QED BY <1>1, <1>4, <2>1, <2>3 DEF QueuedUnits
<1> QED BY <1>5, <1>6

(* What a trade of an auction is made of.                                   *)
TradeParts(q, a, b, s, n, r2, c) ==
  /\ a = auction[q] /\ b = Head(a.buys) /\ s = Head(a.sells) /\ n = TradeQty(a)
  /\ r2 = RowsLeft(a, b, s, n)
  /\ c = [a EXCEPT !.rem = r2, !.left = @ - n,
                   !.buys = DropFilled(@, r2[b]), !.sells = DropFilled(@, r2[s])]

LEMMA TradeMade ==
  ASSUME Auctions, NEW q \in Proc, AuctionTrade(q),
         NEW a, NEW b, NEW s, NEW n, NEW r2, NEW c, TradeParts(q, a, b, s, n, r2, c)
  PROVE  /\ WellMade(a) /\ WellMade(c) /\ c.rem = r2
         /\ b \in Queued(a.buys) /\ s \in Queued(a.sells) /\ b \in Order /\ s \in Order /\ b # s
         /\ n \in Nat /\ n > 0 /\ n <= a.rem[b] /\ n <= a.rem[s]
         /\ r2 \in [Order -> Nat]
         /\ \A o \in Order : r2[o] = IF o \in {b, s} THEN a.rem[o] - n ELSE a.rem[o]
         /\ Queued(c.buys) \subseteq Queued(a.buys) /\ Queued(c.sells) \subseteq Queued(a.sells)
         /\ DOMAIN auction' = Proc /\ auction'[q] = c
         /\ \A r \in Proc \ {q} : auction'[r] = auction[r]
<1>1. /\ a = auction[q] /\ b = Head(a.buys) /\ s = Head(a.sells) /\ n = TradeQty(a)
      /\ r2 = RowsLeft(a, b, s, n)
      /\ c = [a EXCEPT !.rem = r2, !.left = @ - n,
                       !.buys = DropFilled(@, r2[b]), !.sells = DropFilled(@, r2[s])]
  BY DEF TradeParts
<1>2. /\ WellMade(a) /\ a.left > 0 /\ a.buys # << >> /\ a.sells # << >>
      /\ auction' = [auction EXCEPT ![q] = c]
  BY <1>1 DEF AuctionTrade, Running, Auctions
<1>3. /\ a \in AuctionRecord /\ a.buys \in Seq(Order) /\ a.sells \in Seq(Order)
      /\ a.rem \in [Order -> Nat] /\ a.left \in Nat /\ a.skipped \in BOOLEAN
      /\ Distinct(a.buys) /\ Distinct(a.sells)
  BY <1>2 DEF WellMade, AuctionRecord
<1>4. /\ b \in Queued(a.buys) /\ s \in Queued(a.sells)
      /\ Queued(a.buys) \subseteq Order /\ Queued(a.sells) \subseteq Order
  BY <1>1, <1>2, <1>3, HeadFacts
<1>5. Queued(a.buys) \cap Queued(a.sells) = {} /\ b # s
  BY <1>2, <1>4 DEF WellMade, CanMeet
<1>6. a.rem[b] \in Nat /\ a.rem[s] \in Nat /\ a.rem[b] > 0 /\ a.rem[s] > 0
  BY <1>2, <1>3, <1>4 DEF WellMade, Stocked
<1>7. n \in Nat /\ n > 0 /\ n <= a.rem[b] /\ n <= a.rem[s] /\ n <= a.left
  <2>1. n = Lesser(Lesser(a.rem[b], a.rem[s]), a.left)
    BY <1>1 DEF TradeQty
  <2>2. a.left \in Nat /\ a.left > 0
    BY <1>2, <1>3
  <2> QED BY <1>6, <2>1, <2>2 DEF Lesser
<1>8. /\ r2 \in [Order -> Nat]
      /\ \A o \in Order : r2[o] = IF o \in {b, s} THEN a.rem[o] - n ELSE a.rem[o]
  <2>1. r2 = [a.rem EXCEPT ![b] = @ - n, ![s] = @ - n]
    BY <1>1 DEF RowsLeft
  <2>2. b \in Order /\ s \in Order /\ a.rem[b] - n \in Nat /\ a.rem[s] - n \in Nat
    BY <1>4, <1>6, <1>7
  <2>3. PICK f \in [Order -> Nat] : f = a.rem
    BY <1>3
  <2>4. r2 = [o \in Order |-> IF o = b THEN f[b] - n ELSE IF o = s THEN f[s] - n ELSE f[o]]
    BY <1>5, <2>1, <2>2, <2>3
  <2> QED BY <2>2, <2>3, <2>4
<1>9. LET bs == DropFilled(a.buys, r2[b]) IN
      /\ bs \in Seq(Order) /\ Distinct(bs) /\ Queued(bs) \subseteq Queued(a.buys)
      /\ QueuedUnits(bs, r2) + n = QueuedUnits(a.buys, a.rem)
      /\ \A o \in Queued(bs) : r2[o] > 0
  <2>1. r2[b] + n = a.rem[b]
    BY <1>4, <1>6, <1>7, <1>8
  <2>2. \A o \in Queued(a.buys) \ {b} : r2[o] = a.rem[o]
    BY <1>4, <1>5, <1>8
  <2>3. \A o \in Queued(a.buys) : a.rem[o] > 0
    BY <1>2 DEF WellMade, Stocked
  <2>4. IsFiniteSet(Queued(a.buys))
    BY <1>3, <1>8, QueuedUnitsType
  <2>5. Takes(Queued(a.buys), b, a.rem, r2, n)
    BY <1>3, <1>4, <1>7, <1>8, <2>1, <2>2, <2>4 DEF Takes
  <2>6. HeadTrades(a.buys, b, a.rem, r2, n)
    BY <1>1, <1>2, <1>3, <2>3, <2>5 DEF HeadTrades
  <2> QED BY <2>6, QueueAfter
<1>10. LET ss == DropFilled(a.sells, r2[s]) IN
      /\ ss \in Seq(Order) /\ Distinct(ss) /\ Queued(ss) \subseteq Queued(a.sells)
      /\ QueuedUnits(ss, r2) + n = QueuedUnits(a.sells, a.rem)
      /\ \A o \in Queued(ss) : r2[o] > 0
  <2>1. r2[s] + n = a.rem[s]
    BY <1>4, <1>6, <1>7, <1>8
  <2>2. \A o \in Queued(a.sells) \ {s} : r2[o] = a.rem[o]
    BY <1>4, <1>5, <1>8
  <2>3. \A o \in Queued(a.sells) : a.rem[o] > 0
    BY <1>2 DEF WellMade, Stocked
  <2>4. IsFiniteSet(Queued(a.sells))
    BY <1>3, <1>8, QueuedUnitsType
  <2>5. Takes(Queued(a.sells), s, a.rem, r2, n)
    BY <1>3, <1>4, <1>7, <1>8, <2>1, <2>2, <2>4 DEF Takes
  <2>6. HeadTrades(a.sells, s, a.rem, r2, n)
    BY <1>1, <1>2, <1>3, <2>3, <2>5 DEF HeadTrades
  <2> QED BY <2>6, QueueAfter
<1> DEFINE bs == DropFilled(a.buys, r2[b])
           ss == DropFilled(a.sells, r2[s])
<1>11. /\ bs \in Seq(Order) /\ Distinct(bs) /\ Queued(bs) \subseteq Queued(a.buys)
       /\ QueuedUnits(bs, r2) + n = QueuedUnits(a.buys, a.rem)
       /\ \A o \in Queued(bs) : r2[o] > 0
  BY <1>9
<1>12. /\ ss \in Seq(Order) /\ Distinct(ss) /\ Queued(ss) \subseteq Queued(a.sells)
       /\ QueuedUnits(ss, r2) + n = QueuedUnits(a.sells, a.rem)
       /\ \A o \in Queued(ss) : r2[o] > 0
  BY <1>10
<1>13. c = [a EXCEPT !.rem = r2, !.left = @ - n, !.buys = bs, !.sells = ss]
  BY <1>1
<1> HIDE DEF bs, ss
<1>14. /\ c \in AuctionRecord /\ c.buys = bs /\ c.sells = ss /\ c.rem = r2
       /\ c.left = a.left - n /\ c.price = a.price /\ c.skipped = a.skipped
  <2>1. a.left - n \in Nat
    BY <1>3, <1>7
  <2> QED BY <1>3, <1>8, <1>11, <1>12, <1>13, <2>1 DEF AuctionRecord
<1>15. CanMeet(c) /\ Stocked(c)
  BY <1>2, <1>11, <1>12, <1>14 DEF WellMade, CanMeet, Stocked
<1>16. Capped(c)
  <2>1. /\ QueuedUnits(bs, r2) \in Nat /\ QueuedUnits(ss, r2) \in Nat
    BY <1>8, <1>11, <1>12, QueuedUnitsType
  <2>2. a.left <= QueuedUnits(a.buys, a.rem)
        /\ (a.skipped \/ a.left <= QueuedUnits(a.sells, a.rem))
    BY <1>2 DEF WellMade, Capped
  <2>3. a.left - n <= QueuedUnits(bs, r2)
    BY <1>3, <1>7, <1>11, <2>1, <2>2
  <2>4. a.skipped \/ a.left - n <= QueuedUnits(ss, r2)
    BY <1>3, <1>7, <1>12, <2>1, <2>2
  <2> QED BY <1>14, <2>3, <2>4 DEF Capped
<1>17. WellMade(c)
  BY <1>11, <1>12, <1>14, <1>15, <1>16 DEF WellMade
<1>18. DOMAIN auction' = Proc /\ auction'[q] = c /\ \A r \in Proc \ {q} : auction'[r] = auction[r]
  BY <1>2 DEF Auctions
<1> QED BY <1>2, <1>4, <1>5, <1>7, <1>8, <1>11, <1>12, <1>14, <1>17, <1>18


-----------------------------------------------------------------------------
(* What holds of an exchange with auctions, whatever interleaves.           *)

LEMMA FairAppend ==
  ASSUME TablesOK, FairTrades, NEW t \in Deals, FairTrade(t),
         trades' = Append(trades, t), settled' = settled
  PROVE  FairTrades'
<1>1. PICK m : NewRow(m, t)
  BY AppendFacts
<1> QED BY <1>1 DEF FairTrades, FairTrade, NewRow

LEMMA ExecuteKeeps ==
  ASSUME TablesOK, LiveHaveUnits, FairTrades,
         NEW v \in Venue, NEW i \in Instrument, NEW b \in Order, NEW s \in Order,
         NEW n \in Nat, NEW t \in Deals, Executes(v, i, b, s, n, t), n > 0,
         Signed[b].by # Signed[s].by
  PROVE  LiveHaveUnits' /\ FairTrades'
<1>1. /\ Signed[b].venue = v /\ Signed[s].venue = v
      /\ Signed[b].inst = i /\ Signed[s].inst = i
      /\ Signed[b].side = "BUY" /\ Signed[s].side = "SELL"
      /\ remaining[b] - n \in Nat /\ remaining[s] - n \in Nat
  BY ExecuteFacts
<1>2. FairTrade(t)
  <2>1. /\ t.venue = v /\ t.inst = i /\ t.buyer = Signed[b].by /\ t.seller = Signed[s].by
        /\ t.buy = b /\ t.sell = s /\ t.qty = n
    BY DEF Executes, Deal
  <2>2. Signed[s].limit <= t.price /\ t.price <= Signed[b].limit
    BY DEF Executes
  <2> QED BY <1>1, <2>1, <2>2 DEF FairTrade
<1>3. FairTrades'
  BY <1>2, FairAppend DEF Executes
<1>4. LiveHaveUnits'
  <2> SUFFICES ASSUME NEW o \in Order, orderStatus'[o] \in Live PROVE remaining'[o] > 0
    BY DEF LiveHaveUnits
  <2>1. CASE o \in {b, s}
    <3>1. remaining'[o] = remaining[o] - n /\ remaining[o] - n \in Nat /\ remaining[o] - n # 0
      BY <1>1, <2>1 DEF Executes, Live
    <3> QED BY <3>1
  <2>2. CASE o \notin {b, s}
    BY <2>2 DEF Executes, LiveHaveUnits
  <2> QED BY <2>1, <2>2
<1> QED BY <1>3, <1>4

(* The calls other than the auction.                                        *)
LEMMA NextKeeps ==
  ASSUME TypeOK, LiveHaveUnits, FairTrades, [Next]_vars
  PROVE  LiveHaveUnits' /\ FairTrades'
<1>0. TablesOK
  BY DEF TypeOK
<1>1. ASSUME UNCHANGED trades, \A o \in Order : orderStatus'[o] \in Live =>
               remaining'[o] > 0 \/ (orderStatus[o] \in Live /\ remaining'[o] = remaining[o])
      PROVE  LiveHaveUnits' /\ FairTrades'
  BY <1>1 DEF LiveHaveUnits, FairTrades, FairTrade
<1>2. ASSUME NEW q \in Proc, Check(q) PROVE LiveHaveUnits' /\ FairTrades'
  <2>1. UNCHANGED <<book, deals>>
    BY <1>2 DEF Check, DiscloseCheck, ListCheck, PlaceCheck, CancelCheck, RfqCheck, QuoteCheck
  <2> QED BY <1>1, <2>1 DEF book, deals
<1>3. ASSUME NEW q \in Proc, Commit(q) PROVE LiveHaveUnits' /\ FairTrades'
  <2>1. CASE PlaceCommit(q)
    <3>1. PICK o \in Order : o = arg[q]
      BY <1>0, <2>1 DEF TablesOK, ArgFits, PlaceCommit
    <3>2. Signed[o].qty \in Nat \ {0}
      BY BodiesAssumption DEF OrderBody
    <3>3. /\ UNCHANGED trades /\ remaining'[o] = Signed[o].qty
          /\ \A x \in Order \ {o} : orderStatus'[x] = orderStatus[x] /\ remaining'[x] = remaining[x]
      BY <1>0, <2>1, <3>1 DEF PlaceCommit, TablesOK, deals
    <3> QED BY <1>1, <3>2, <3>3
  <2>2. CASE CancelCommit(q)
    <3>1. PICK o \in Order : o = arg[q]
      BY <1>0, <2>2 DEF TablesOK, ArgFits, CancelCommit
    <3>2. /\ UNCHANGED trades /\ orderStatus'[o] = "CANCELLED"
          /\ \A x \in Order \ {o} : orderStatus'[x] = orderStatus[x] /\ remaining'[x] = remaining[x]
      BY <1>0, <2>2, <3>1 DEF CancelCommit, TablesOK, deals
    <3> QED BY <1>1, <3>2 DEF Live
  <2>3. CASE DiscloseCommit(q) \/ ListCommit(q) \/ RfqCommit(q) \/ QuoteCommit(q) \/ Abandon(q)
    <3>1. UNCHANGED <<book, deals>>
      BY <2>3 DEF DiscloseCommit, ListCommit, RfqCommit, QuoteCommit, Abandon
    <3> QED BY <1>1, <3>1 DEF book, deals
  <2> QED BY <1>3, <2>1, <2>2, <2>3 DEF Commit
<1>4. ASSUME NEW v \in Venue, NEW i \in Instrument, MatchTrade(v, i)
      PROVE  LiveHaveUnits' /\ FairTrades'
  <2>1. PICK b \in Order, s \in Order, n \in Nat, t \in Deals :
          Trades(v, i, b, s, n, t) /\ Signed[b].by # Signed[s].by
    BY <1>0, <1>4, TradeFacts
  <2>2. Executes(v, i, b, s, n, t) /\ (remaining[b] > 0 /\ remaining[s] > 0 => n > 0)
    BY <1>0, <2>1, TradesExecute
  <2>3. orderStatus[b] \in Live /\ orderStatus[s] \in Live
    BY <1>0, <2>2, ExecuteFacts
  <2>4. n > 0
    BY <2>2, <2>3 DEF LiveHaveUnits
  <2> QED BY <1>0, <2>1, <2>2, <2>4, ExecuteKeeps
<1>5. ASSUME NEW v \in Venue, NEW i \in Instrument, MatchSelf(v, i)
      PROVE  LiveHaveUnits' /\ FairTrades'
  <2>1. /\ UNCHANGED <<trades, remaining>>
        /\ \A o \in Order : orderStatus'[o] \in Live => orderStatus[o] \in Live
    BY <1>0, <1>5 DEF MatchSelf, TablesOK, Live, deals
  <2> QED BY <1>1, <2>1
<1>6. ASSUME NEW x \in Quote, AcceptQuote(x) PROVE LiveHaveUnits' /\ FairTrades'
  <2> DEFINE r == Offered[x].rfq
             t == Deal(Asked[r].venue, Asked[r].inst, BuyerOf(x), SellerOf(x),
                       NoOrder, NoOrder, Asked[r].qty, Offered[x].price)
  <2>1. t \in Deals /\ t.buy = NoOrder /\ t.qty = Asked[r].qty /\ Asked[r].qty \in Nat \ {0}
    BY BodiesAssumption DEF Deal, Deals, BuyerOf, SellerOf, RfqBody, QuoteBody
  <2>2. trades' = Append(trades, t) /\ settled' = settled /\ UNCHANGED <<orderStatus, remaining>>
    BY <1>6 DEF AcceptQuote, book
  <2> HIDE DEF t, r
  <2>3. FairTrade(t)
    BY <2>1 DEF FairTrade
  <2>4. FairTrades'
    BY <1>0, <2>1, <2>2, <2>3, FairAppend
  <2>5. LiveHaveUnits'
    BY <2>2 DEF LiveHaveUnits
  <2> QED BY <2>4, <2>5
<1>7. ASSUME \/ \E v \in Venue : CreateVenue(v) \/ RetireVenue(v)
             \/ \E i \in Instrument : DefineInstrument(i) \/ WithdrawInstrument(i)
             \/ \E k \in DOMAIN trades : Settle(k)
             \/ Tick \/ UNCHANGED vars
      PROVE  LiveHaveUnits' /\ FairTrades'
  <2>1. UNCHANGED <<book, trades>>
    BY <1>7 DEF CreateVenue, RetireVenue, DefineInstrument, WithdrawInstrument, Settle, Tick,
                vars, deals
  <2> QED BY <1>1, <2>1 DEF book
<1> QED
  BY <1>2, <1>3, <1>4, <1>5, <1>6, <1>7 DEF Next, AtOnce

LEMMA OthersAreNext == Others => Next /\ UNCHANGED auction
BY DEF Others, Next

(* The rows a trade of an auction writes.                                   *)
LEMMA AuctionWrites ==
  ASSUME TypeOK, Auctions, NEW q \in Proc, AuctionTrade(q),
         NEW a, NEW b, NEW s, NEW n, NEW r2, NEW c, TradeParts(q, a, b, s, n, r2, c)
  PROVE  LET t == Deal(Signed[b].venue, Signed[b].inst, Signed[b].by, Signed[s].by, b, s, n, a.price)
         IN
         /\ t \in Deals /\ FairTrade(t) /\ t.price = a.price
         /\ Signed[b].by # Signed[s].by
         /\ trades' = Append(trades, t) /\ settled' = settled
         /\ remaining' = [x \in Order |-> IF x \in {b, s} THEN r2[x] ELSE remaining[x]]
         /\ orderStatus' = [x \in Order |-> IF x \notin {b, s} THEN orderStatus[x]
                                            ELSE IF r2[x] = 0 THEN "FILLED" ELSE "PARTIAL"]
         /\ UNCHANGED <<market, balance, received, talks, now, calls>>
<1> DEFINE t == Deal(Signed[b].venue, Signed[b].inst, Signed[b].by, Signed[s].by, b, s, n, a.price)
<1>1. /\ a = auction[q] /\ b = Head(a.buys) /\ s = Head(a.sells) /\ n = TradeQty(a)
      /\ r2 = RowsLeft(a, b, s, n)
  BY DEF TradeParts
<1>2. /\ WellMade(a) /\ b \in Queued(a.buys) /\ s \in Queued(a.sells) /\ b \in Order /\ s \in Order
      /\ n \in Nat /\ n > 0
  BY TradeMade
<1>3. Signed[b].by # Signed[s].by /\ ExecuteOrders(b, s, n, a.price, r2)
      /\ UNCHANGED <<market, balance, talks, now, calls>>
  BY <1>1 DEF AuctionTrade
<1>4. /\ Signed[b].side = "BUY" /\ a.price <= Signed[b].limit /\ a.price \in Nat
      /\ Signed[s].side = "SELL" /\ Signed[s].limit <= a.price
      /\ Signed[b].venue = Signed[s].venue /\ Signed[b].inst = Signed[s].inst
  BY <1>2 DEF WellMade, CanMeet, AuctionRecord
<1>5. t \in Deals
  BY <1>2, <1>4, BodiesAssumption DEF Deal, Deals, OrderBody
<1>6. FairTrade(t)
  <2>1. /\ t.venue = Signed[b].venue /\ t.inst = Signed[b].inst /\ t.buyer = Signed[b].by
        /\ t.seller = Signed[s].by /\ t.buy = b /\ t.sell = s /\ t.qty = n /\ t.price = a.price
    BY DEF Deal
  <2> QED BY <1>2, <1>3, <1>4, <2>1 DEF FairTrade
<1>7. t.price = a.price
  BY DEF Deal
<1>8. trades' = Append(trades, t)
  BY <1>3 DEF ExecuteOrders
<1> HIDE DEF t
<1>9. /\ settled' = settled
      /\ remaining' = [x \in Order |-> IF x \in {b, s} THEN r2[x] ELSE remaining[x]]
      /\ orderStatus' = [x \in Order |-> IF x \notin {b, s} THEN orderStatus[x]
                                         ELSE IF r2[x] = 0 THEN "FILLED" ELSE "PARTIAL"]
      /\ UNCHANGED <<market, balance, received, talks, now, calls>>
  BY <1>3 DEF ExecuteOrders
<1> QED BY <1>3, <1>5, <1>6, <1>7, <1>8, <1>9 DEF t

LEMMA AuctionsNext ==
  ASSUME DOMAIN auction' = Proc, \A q \in Proc : WellMade(auction'[q])
  PROVE  Auctions'
BY DEF Auctions, WellMade, AuctionRecord, Distinct, Queued, CanMeet, Stocked, Capped,
       QueuedUnits, UnitsIn

LEMMA TradeKeeps ==
  ASSUME AInv, NEW q \in Proc, AuctionTrade(q)
  PROVE  AInv'
<1>1. TypeOK /\ TablesOK /\ LiveHaveUnits /\ FairTrades /\ Auctions
  BY DEF AInv, TypeOK
<1>2. PICK a, b, s, n, r2, c : TradeParts(q, a, b, s, n, r2, c)
  BY DEF TradeParts
<1>3. /\ WellMade(c) /\ b \in Order /\ s \in Order /\ r2 \in [Order -> Nat]
      /\ DOMAIN auction' = Proc /\ auction'[q] = c
      /\ \A r \in Proc \ {q} : auction'[r] = auction[r]
  BY <1>1, <1>2, TradeMade
<1>4. PICK t \in Deals :
        /\ FairTrade(t) /\ trades' = Append(trades, t) /\ settled' = settled
        /\ remaining' = [x \in Order |-> IF x \in {b, s} THEN r2[x] ELSE remaining[x]]
        /\ orderStatus' = [x \in Order |-> IF x \notin {b, s} THEN orderStatus[x]
                                           ELSE IF r2[x] = 0 THEN "FILLED" ELSE "PARTIAL"]
        /\ UNCHANGED <<market, balance, received, talks, now, calls>>
  BY <1>1, <1>2, AuctionWrites
<1>5. TypeOK'
  <2>1. remaining' \in [Order -> Nat]
        /\ orderStatus' \in [Order -> {"absent", "OPEN", "PARTIAL", "FILLED", "CANCELLED"}]
    BY <1>1, <1>3, <1>4 DEF TablesOK
  <2>2. trades' \in Seq(Deals) /\ settled' \subseteq DOMAIN trades'
    BY <1>1, <1>4 DEF TablesOK
  <2> QED
    BY <1>1, <1>4, <2>1, <2>2 DEF TypeOK, TablesOK, ArgFits, market, talks, calls
<1>6. LiveHaveUnits'
  <2> SUFFICES ASSUME NEW o \in Order, orderStatus'[o] \in Live PROVE remaining'[o] > 0
    BY DEF LiveHaveUnits
  <2>1. CASE o \in {b, s}
    <3>1. remaining'[o] = r2[o] /\ r2[o] \in Nat /\ r2[o] # 0
      BY <1>3, <1>4, <2>1 DEF Live
    <3> QED BY <3>1
  <2>2. CASE o \notin {b, s}
    BY <1>1, <1>4, <2>2 DEF LiveHaveUnits
  <2> QED BY <2>1, <2>2
<1>7. FairTrades'
  BY <1>1, <1>4, FairAppend
<1>8. Auctions'
  <2> SUFFICES ASSUME NEW r \in Proc PROVE WellMade(auction'[r])
    BY <1>3, AuctionsNext
  <2> QED BY <1>1, <1>3 DEF Auctions
<1> QED BY <1>5, <1>6, <1>7, <1>8 DEF AInv

(* A step of an auction that writes none of the tables.                     *)
LEMMA CallerKeeps ==
  ASSUME AInv, NEW q \in Proc, UNCHANGED <<market, balance, book, deals, talks, now>>,
         TablesOK', DOMAIN auction' = Proc, WellMade(auction'[q]),
         \A r \in Proc \ {q} : auction'[r] = auction[r]
  PROVE  AInv'
<1>1. LiveHaveUnits' /\ FairTrades' /\ TypeOK'
  BY DEF AInv, LiveHaveUnits, FairTrades, FairTrade, TypeOK, book, deals
<1>2. ASSUME NEW r \in Proc PROVE WellMade(auction'[r])
  BY DEF AInv, Auctions
<1>3. Auctions'
  BY <1>2, AuctionsNext
<1> QED BY <1>1, <1>3 DEF AInv

LEMMA AuctionKeeps == AInv /\ [AuctionNext]_avars => AInv'
<1> SUFFICES ASSUME AInv, [AuctionNext]_avars PROVE AInv'
  OBVIOUS
<1>0. TypeOK /\ TablesOK /\ LiveHaveUnits /\ FairTrades /\ Auctions
  BY DEF AInv, TypeOK
<1>1. CASE Others \/ UNCHANGED avars
  <2>1. [Next]_vars /\ UNCHANGED auction
    BY <1>1, OthersAreNext DEF avars
  <2>2. TypeOK' /\ LiveHaveUnits' /\ FairTrades'
    BY <1>0, <2>1, NextType, NextKeeps
  <2>3. Auctions'
    <3>1. DOMAIN auction' = Proc /\ \A q \in Proc : WellMade(auction'[q])
      BY <1>0, <2>1 DEF Auctions
    <3> QED BY <3>1, AuctionsNext
  <2> QED BY <2>2, <2>3 DEF AInv
<1>2. ASSUME NEW q \in Proc, NEW v \in Venue, NEW i \in Instrument, AuctionStart(q, v, i)
      PROVE  AInv'
  <2>1. /\ DOMAIN auction' = Proc /\ WellMade(auction'[q])
        /\ \A r \in Proc \ {q} : auction'[r] = auction[r]
    BY <1>0, <1>2, StartMade DEF Auctions
  <2>2. UNCHANGED <<market, balance, book, deals, talks, now>> /\ Begin(q, "auction", <<v, i>>, 0)
    BY <1>2 DEF AuctionStart
  <2>3. TablesOK'
    BY <1>0, <2>2 DEF TablesOK, ArgFits, Begin, market, book, deals, talks
  <2> QED BY <2>1, <2>2, <2>3, CallerKeeps
<1>3. ASSUME NEW q \in Proc, AuctionSkip(q) PROVE AInv'
  <2>1. /\ DOMAIN auction' = Proc /\ WellMade(auction'[q])
        /\ \A r \in Proc \ {q} : auction'[r] = auction[r]
    BY <1>0, <1>3, SkipMade
  <2>2. UNCHANGED vars
    BY <1>3 DEF AuctionSkip
  <2>3. UNCHANGED <<market, balance, book, deals, talks, now>> /\ TablesOK'
    BY <1>0, <2>2, StutterType DEF vars
  <2> QED BY <2>1, <2>3, CallerKeeps
<1>4. ASSUME NEW q \in Proc, AuctionEnd(q) \/ AuctionDies(q) PROVE AInv'
  <2>1. /\ auction' = [auction EXCEPT ![q] = NoAuction] /\ Return(q)
        /\ UNCHANGED <<market, balance, book, deals, talks, now>>
    BY <1>4 DEF AuctionEnd, AuctionDies
  <2>2. DOMAIN auction' = Proc /\ auction'[q] = NoAuction
        /\ \A r \in Proc \ {q} : auction'[r] = auction[r]
    BY <1>0, <2>1 DEF Auctions
  <2>3. WellMade(auction'[q])
    BY <2>2, NoAuctionMade
  <2>4. TablesOK'
    BY <1>0, <2>1 DEF TablesOK, ArgFits, Return, market, book, deals, talks
  <2> QED BY <2>1, <2>2, <2>3, <2>4, CallerKeeps
<1> QED BY <1>1, <1>2, <1>3, <1>4, TradeKeeps DEF AuctionNext

LEMMA AuctionInitKeeps == AuctionInit => AInv
<1> SUFFICES ASSUME AuctionInit PROVE AInv
  OBVIOUS
<1>1. Init /\ auction = [q \in Proc |-> NoAuction]
  BY DEF AuctionInit
<1>2. TypeOK /\ FairTrades
  BY <1>1, InitInv DEF IInv
<1>3. LiveHaveUnits
  BY <1>1 DEF Init, LiveHaveUnits, Live
<1>4. Auctions
  BY <1>1, NoAuctionMade DEF Auctions
<1> QED BY <1>2, <1>3, <1>4 DEF AInv

LEMMA AuctionsAlways == AuctionSpec => []AInv
BY AuctionInitKeeps, AuctionKeeps, PTL DEF AuctionSpec

(* The tables keep their types with auctions too: an auction that writes    *)
(* back the rows it read never writes a negative quantity, whatever was     *)
(* done to them meanwhile.                                                  *)
THEOREM AuctionTypeCorrect == AuctionSpec => []TypeOK
BY AuctionsAlways, PTL DEF AInv

(* Every trade of an auction is one both signed orders allow, even of rows  *)
(* that changed since the auction read them.                                *)
THEOREM AuctionTradesAreFair == AuctionSpec => []FairTrades
BY AuctionsAlways, PTL DEF AInv

(* The price run_call_auction picks among the limits of the orders crosses  *)
(* as many units as any price would.                                        *)
THEOREM PriceIsTheBest == AuctionSpec => []VolumeIsMaximal
BY AuctionsAlways, VolumeMaximal, PTL DEF AInv, TypeOK

LEMMA AuctionsExhaust == AInv => AuctionExhausts
<1> SUFFICES ASSUME AInv, NEW q \in Proc, ~Running(q), pc[q] = "auction", ~auction[q].skipped
             PROVE  auction[q].left = 0
  BY DEF AuctionExhausts
<1> DEFINE a == auction[q]
<1>1. WellMade(a)
  BY DEF AInv, Auctions
<1>2. /\ a.left \in Nat /\ a.buys \in Seq(Order) /\ a.sells \in Seq(Order)
      /\ a.rem \in [Order -> Nat]
      /\ a.left <= QueuedUnits(a.buys, a.rem) /\ a.left <= QueuedUnits(a.sells, a.rem)
  BY <1>1 DEF WellMade, AuctionRecord, Capped
<1>3. ~(a.left > 0) \/ a.buys = << >> \/ a.sells = << >>
  BY DEF Running
<1> HIDE DEF a
<1>4. ASSUME NEW s \in Seq(Order), s = << >>, NEW r \in [Order -> Nat] PROVE QueuedUnits(s, r) = 0
  BY <1>4, NothingQueued, NoUnits DEF QueuedUnits
<1>5. QueuedUnits(a.buys, a.rem) = 0 \/ QueuedUnits(a.sells, a.rem) = 0 \/ ~(a.left > 0)
  BY <1>2, <1>3, <1>4
<1> QED BY <1>2, <1>5 DEF a

(* An auction that passed no ask over trades its whole volume: it never     *)
(* runs out of orders on one side first.                                    *)
THEOREM AuctionTradesItsVolume == AuctionSpec => []AuctionExhausts
BY AuctionsAlways, AuctionsExhaust, PTL

-----------------------------------------------------------------------------
(* Withdrawn instruments and retired venues, however calls interleave: an   *)
(* auction trades orders of the pair it is about, which had live orders     *)
(* when it read them.                                                       *)

OfPair == \A q \in Proc : pc[q] = "auction" =>
            \A o \in Queued(auction[q].buys) \cup Queued(auction[q].sells) :
              arg[q] = <<Signed[o].venue, Signed[o].inst>>

(* No other step starts an auction or changes what one is about.            *)
LEMMA AuctionsStand ==
  ASSUME TablesOK, [Next]_vars, NEW q \in Proc, pc'[q] = "auction"
  PROVE  pc[q] = "auction" /\ arg'[q] = arg[q]
<1>1. ASSUME NEW r \in Proc, NEW label, NEW x, NEW time, Begin(r, label, x, time), label # "auction"
      PROVE  pc[q] = "auction" /\ arg'[q] = arg[q]
  BY <1>1 DEF Begin, TablesOK
<1>2. ASSUME NEW r \in Proc, Return(r) PROVE pc[q] = "auction" /\ arg'[q] = arg[q]
  BY <1>2 DEF Return, TablesOK
<1>3. ASSUME NEW r \in Proc, Check(r) PROVE pc[q] = "auction" /\ arg'[q] = arg[q]
  BY <1>1, <1>3 DEF Check, DiscloseCheck, ListCheck, PlaceCheck, CancelCheck, RfqCheck, QuoteCheck
<1>4. ASSUME NEW r \in Proc, Commit(r) PROVE Return(r)
  BY <1>4 DEF Commit, DiscloseCommit, ListCommit, PlaceCommit, CancelCommit, RfqCommit, QuoteCommit,
              Abandon
<1>5. CASE AtOnce \/ Tick \/ UNCHANGED vars
  BY <1>5 DEF AtOnce, CreateVenue, RetireVenue, DefineInstrument, WithdrawInstrument, MatchTrade,
              MatchSelf, AcceptQuote, Settle, Tick, vars, calls
<1> QED BY <1>2, <1>3, <1>4, <1>5 DEF Next

LEMMA OfPairKept ==
  ASSUME AInv, OfPair, [AuctionNext]_avars
  PROVE  OfPair'
<1>0. TablesOK /\ Auctions /\ LiveHaveUnits /\ DOMAIN auction = Proc
  BY DEF AInv, TypeOK, Auctions
(* A caller whose queues have lost some orders, or kept theirs.             *)
<1>a. ASSUME NEW q \in Proc, pc[q] = "auction", arg'[q] = arg[q],
             Queued(auction'[q].buys) \cup Queued(auction'[q].sells)
               \subseteq Queued(auction[q].buys) \cup Queued(auction[q].sells)
      PROVE  \A o \in Queued(auction'[q].buys) \cup Queued(auction'[q].sells) :
               arg'[q] = <<Signed[o].venue, Signed[o].inst>>
  BY <1>a DEF OfPair
<1> SUFFICES ASSUME NEW q \in Proc, pc'[q] = "auction"
             PROVE  \A o \in Queued(auction'[q].buys) \cup Queued(auction'[q].sells) :
                      arg'[q] = <<Signed[o].venue, Signed[o].inst>>
  BY DEF OfPair, Queued
<1>b. ASSUME NEW r \in Proc, r # q, auction'[q] = auction[q],
             (\E x, time : Begin(r, "auction", x, time)) \/ Return(r) \/ UNCHANGED calls
      PROVE  \A o \in Queued(auction'[q].buys) \cup Queued(auction'[q].sells) :
               arg'[q] = <<Signed[o].venue, Signed[o].inst>>
  <2>1. pc[q] = "auction" /\ arg'[q] = arg[q]
    BY <1>0, <1>b DEF Begin, Return, TablesOK, calls
  <2> QED BY <1>a, <1>b, <2>1
<1>1. CASE Others \/ UNCHANGED avars
  <2>1. [Next]_vars /\ UNCHANGED auction
    BY <1>1, OthersAreNext DEF avars
  <2>2. pc[q] = "auction" /\ arg'[q] = arg[q]
    BY <1>0, <2>1, AuctionsStand
  <2> QED BY <1>a, <2>1, <2>2
<1>2. ASSUME NEW r \in Proc, NEW v \in Venue, NEW i \in Instrument, AuctionStart(r, v, i)
      PROVE  \A o \in Queued(auction'[q].buys) \cup Queued(auction'[q].sells) :
               arg'[q] = <<Signed[o].venue, Signed[o].inst>>
  <2>0. Begin(r, "auction", <<v, i>>, 0)
    BY <1>2 DEF AuctionStart
  <2>1. /\ \A p \in Proc \ {r} : auction'[p] = auction[p]
        /\ \A o \in Queued(auction'[r].buys) \cup Queued(auction'[r].sells) :
             Signed[o].venue = v /\ Signed[o].inst = i
    BY <1>0, <1>2, StartMade
  <2>2. CASE r = q
    BY <1>0, <2>0, <2>1, <2>2 DEF Begin, TablesOK
  <2>3. CASE r # q
    BY <1>b, <2>0, <2>1, <2>3
  <2> QED BY <2>2, <2>3
<1>3. ASSUME NEW r \in Proc, AuctionSkip(r)
      PROVE  \A o \in Queued(auction'[q].buys) \cup Queued(auction'[q].sells) :
               arg'[q] = <<Signed[o].venue, Signed[o].inst>>
  <2>1. UNCHANGED <<pc, arg>>
    BY <1>3 DEF AuctionSkip, vars, calls
  <2>2. /\ \A p \in Proc \ {r} : auction'[p] = auction[p]
        /\ auction'[r].buys = auction[r].buys
        /\ Queued(auction'[r].sells) \subseteq Queued(auction[r].sells)
    BY <1>0, <1>3, SkipMade
  <2>3. Queued(auction'[q].buys) \cup Queued(auction'[q].sells)
          \subseteq Queued(auction[q].buys) \cup Queued(auction[q].sells)
    BY <2>2
  <2> QED BY <1>a, <2>1, <2>3
<1>4. ASSUME NEW r \in Proc, AuctionTrade(r)
      PROVE  \A o \in Queued(auction'[q].buys) \cup Queued(auction'[q].sells) :
               arg'[q] = <<Signed[o].venue, Signed[o].inst>>
  <2>1. UNCHANGED <<pc, arg>>
    BY <1>4 DEF AuctionTrade, calls
  <2>2. PICK a, b, s, n, r2, c : TradeParts(r, a, b, s, n, r2, c)
    BY DEF TradeParts
  <2>3. /\ Queued(c.buys) \subseteq Queued(a.buys) /\ Queued(c.sells) \subseteq Queued(a.sells)
        /\ auction'[r] = c
        /\ \A p \in Proc \ {r} : auction'[p] = auction[p]
    BY <1>0, <1>4, <2>2, TradeMade
  <2>4. a = auction[r]
    BY <2>2 DEF TradeParts
  <2>5. Queued(auction'[q].buys) \cup Queued(auction'[q].sells)
          \subseteq Queued(auction[q].buys) \cup Queued(auction[q].sells)
    BY <2>3, <2>4
  <2> QED BY <1>a, <2>1, <2>5
<1>5. ASSUME NEW r \in Proc, AuctionEnd(r) \/ AuctionDies(r)
      PROVE  \A o \in Queued(auction'[q].buys) \cup Queued(auction'[q].sells) :
               arg'[q] = <<Signed[o].venue, Signed[o].inst>>
  <2>1. Return(r) /\ auction' = [auction EXCEPT ![r] = NoAuction]
    BY <1>5 DEF AuctionEnd, AuctionDies
  <2>2. r # q
    BY <1>0, <2>1 DEF Return, TablesOK
  <2> QED BY <1>0, <1>b, <2>1, <2>2
<1> QED BY <1>1, <1>2, <1>3, <1>4, <1>5 DEF AuctionNext

(* A step of an auction changes no status and brings a pair it is not about *)
(* nothing; and it is about no pair that has ended and is without business. *)
LEMMA AuctionStaysOut ==
  ASSUME AInv, OfPair, NEW v \in Venue, NEW i \in Instrument, NEW q \in Proc,
         \/ \E w \in Venue, j \in Instrument : AuctionStart(q, w, j)
         \/ AuctionTrade(q) \/ AuctionEnd(q) \/ AuctionDies(q)
  PROVE  /\ UNCHANGED <<venueStatus, instStatus>>
         /\ ~Exposed(v, i) => ~Exposed(v, i)'
<1>0. TypeOK /\ TablesOK /\ Auctions
  BY DEF AInv, TypeOK
<1>1. ASSUME NEW w \in Venue, NEW j \in Instrument, AuctionStart(q, w, j), ~Exposed(v, i)
      PROVE  ~Exposed(v, i)'
  <2>1. /\ UNCHANGED <<listed, orderStatus, trades, settled, rfqStatus>>
        /\ Begin(q, "auction", <<w, j>>, 0)
    BY <1>1 DEF AuctionStart, market, book, deals, talks
  <2>2. ~Business(v, i)'
    BY <1>1, <2>1 DEF Exposed, Business, Pending
  <2>3. <<w, j>> # <<v, i>>
    BY <1>1 DEF AuctionStart, LiveOrders, Exposed, Business
  <2>4. \A r \in Proc : ~Concerns(pc'[r], arg'[r], v, i)
    BY <1>0, <1>1, <2>1, <2>3 DEF Begin, TablesOK, Concerns, Exposed
  <2> QED BY <2>2, <2>4 DEF Exposed, Concerns
<1>2. ASSUME AuctionTrade(q), ~Exposed(v, i) PROVE ~Exposed(v, i)'
  <2>1. PICK a, b, s, n, r2, c : TradeParts(q, a, b, s, n, r2, c)
    BY DEF TradeParts
  <2>2. /\ WellMade(a) /\ b \in Queued(a.buys) /\ s \in Queued(a.sells) /\ b \in Order /\ s \in Order
    BY <1>0, <1>2, <2>1, TradeMade
  <2> DEFINE t == Deal(Signed[b].venue, Signed[b].inst, Signed[b].by, Signed[s].by, b, s, n, a.price)
  <2>3. /\ t \in Deals /\ trades' = Append(trades, t) /\ settled' = settled
        /\ orderStatus' = [x \in Order |-> IF x \notin {b, s} THEN orderStatus[x]
                                           ELSE IF r2[x] = 0 THEN "FILLED" ELSE "PARTIAL"]
        /\ UNCHANGED <<market, talks, calls>>
    BY <1>0, <1>2, <2>1, AuctionWrites
  <2>4. t.venue = Signed[b].venue /\ t.inst = Signed[b].inst
    BY DEF Deal
  <2>5. pc[q] = "auction" /\ arg[q] = <<Signed[b].venue, Signed[b].inst>>
    <3>1. pc[q] = "auction" /\ a = auction[q]
      BY <1>2, <2>1 DEF AuctionTrade, Running, TradeParts
    <3> QED BY <2>2, <3>1 DEF OfPair
  <2>6. ~(Signed[b].venue = v /\ Signed[b].inst = i)
    BY <1>2, <2>5 DEF Exposed, Concerns
  <2>7. Signed[s].venue = Signed[b].venue /\ Signed[s].inst = Signed[b].inst
    BY <2>2 DEF WellMade, CanMeet
  <2> HIDE DEF t
  <2>8. ~Business(v, i)'
    BY <1>0, <1>2, <2>3, <2>4, <2>6, <2>7, TradeElsewhere DEF Exposed, market, talks
  <2> QED BY <1>2, <2>3, <2>8 DEF Exposed, Concerns, calls
<1>3. ASSUME AuctionEnd(q) \/ AuctionDies(q), ~Exposed(v, i) PROVE ~Exposed(v, i)'
  <2>1. Return(q) /\ UNCHANGED <<listed, orderStatus, trades, settled, rfqStatus>>
    BY <1>3 DEF AuctionEnd, AuctionDies, market, book, deals, talks
  <2>2. ~Business(v, i)'
    BY <1>3, <2>1 DEF Exposed, Business, Pending
  <2> QED BY <1>0, <1>3, <2>1, <2>2, ReturnStaysOut
<1>4. UNCHANGED <<venueStatus, instStatus>>
  BY DEF AuctionStart, AuctionTrade, AuctionEnd, AuctionDies, market
<1> QED BY <1>1, <1>2, <1>3, <1>4

LEMMA AuctionEnds ==
  ASSUME AInv, OfPair, [AuctionNext]_avars, NEW v \in Venue, NEW i \in Instrument
  PROVE  /\ instStatus[i] = "WITHDRAWN" => instStatus'[i] = "WITHDRAWN"
         /\ instStatus[i] # "WITHDRAWN" /\ instStatus'[i] = "WITHDRAWN" => ~Business(v, i)'
         /\ venueStatus[v] = "RETIRED" => venueStatus'[v] = "RETIRED"
         /\ venueStatus[v] # "RETIRED" /\ venueStatus'[v] = "RETIRED" => ~Business(v, i)'
         /\ NotOpen(v, i) /\ ~Exposed(v, i) => ~Exposed(v, i)'
<1>0. TablesOK
  BY DEF AInv, TypeOK
<1>1. CASE [Next]_vars
  BY <1>0, <1>1, EndsEmpty, StaysOut
<1>2. CASE \E q \in Proc : \/ \E w \in Venue, j \in Instrument : AuctionStart(q, w, j)
                           \/ AuctionTrade(q) \/ AuctionEnd(q) \/ AuctionDies(q)
  BY <1>2, AuctionStaysOut
<1>3. [Next]_vars \/ \E q \in Proc : \/ \E w \in Venue, j \in Instrument : AuctionStart(q, w, j)
                                     \/ AuctionTrade(q) \/ AuctionEnd(q) \/ AuctionDies(q)
  BY OthersAreNext DEF AuctionNext, AuctionSkip, avars
<1> QED BY <1>1, <1>2, <1>3

LEMMA OfPairAlways == AuctionSpec => []OfPair
<1>1. AuctionInit => OfPair
  BY DEF AuctionInit, Init, OfPair
<1> QED BY <1>1, OfPairKept, AuctionsAlways, PTL DEF AuctionSpec

(* With call auctions too, however calls interleave, a withdrawal is final: *)
(* what an auction read before it is the last that may still trade.         *)
THEOREM AuctionWithdrawnForGood == AuctionSpec => WithdrawalIsFinal
<1> DEFINE Final == \A v \in Venue, i \in Instrument :
             /\ instStatus[i] # "WITHDRAWN" /\ instStatus'[i] = "WITHDRAWN" => ~Business(v, i)'
             /\ instStatus[i] = "WITHDRAWN" /\ ~Exposed(v, i) =>
                  instStatus'[i] = "WITHDRAWN" /\ ~Exposed(v, i)'
<1>1. AInv /\ OfPair /\ [AuctionNext]_avars => Final
  BY AuctionEnds DEF NotOpen
<1> QED
  <2>1. [][Final]_vars => WithdrawalIsFinal
    BY PTL DEF WithdrawalIsFinal
  <2> QED
    BY <1>1, <2>1, AuctionsAlways, OfPairAlways, PTL DEF AuctionSpec

(* And so is a retirement.                                                  *)
THEOREM AuctionRetiredForGood == AuctionSpec => RetirementIsFinal
<1> DEFINE Final == \A v \in Venue, i \in Instrument :
             /\ venueStatus[v] # "RETIRED" /\ venueStatus'[v] = "RETIRED" => ~Business(v, i)'
             /\ venueStatus[v] = "RETIRED" /\ ~Exposed(v, i) =>
                  venueStatus'[v] = "RETIRED" /\ ~Exposed(v, i)'
<1>1. AInv /\ OfPair /\ [AuctionNext]_avars => Final
  BY AuctionEnds DEF NotOpen
<1> QED
  <2>1. [][Final]_vars => RetirementIsFinal
    BY PTL DEF RetirementIsFinal
  <2> QED
    BY <1>1, <2>1, AuctionsAlways, OfPairAlways, PTL DEF AuctionSpec

-----------------------------------------------------------------------------
(* One call at a time: between two trades of an auction nothing else runs,  *)
(* so the rows it read are still the rows in the table.                     *)

OneCall == \A q, r \in Proc : pc[q] # "idle" /\ pc[r] # "idle" => q = r
StillThere(a) == \A o \in Queued(a.buys) \cup Queued(a.sells) :
                   orderStatus[o] \in Live /\ a.rem[o] = remaining[o]
InStep == \A q \in Proc : pc[q] = "auction" => StillThere(auction[q])
SInv == AInv /\ IInv /\ OneCall /\ InStep

LEMMA BeginAlone ==
  ASSUME Serial, TablesOK, NEW q \in Proc, NEW label, NEW x, NEW time, Begin(q, label, x, time)
  PROVE  OneCall' /\ \A r \in Proc : pc[r] = "idle"
BY DEF Begin, Alone, OneCall, TablesOK

LEMMA ReturnAlone ==
  ASSUME TablesOK, OneCall, NEW q \in Proc, pc[q] # "idle", Return(q)
  PROVE  OneCall' /\ \A r \in Proc : pc'[r] = "idle"
BY DEF Return, OneCall, TablesOK

(* While an auction runs nothing but the clock moves.                       *)
LEMMA OthersWait ==
  ASSUME Serial, TablesOK, OneCall, [Next]_vars,
         ~(\E q \in Proc : pc[q] = "auction" /\ Abandon(q))
  PROVE  /\ OneCall'
         /\ UNCHANGED <<book, pc>> \/ \A q \in Proc : pc'[q] # "auction"
<1>1. ASSUME NEW q \in Proc, Check(q) PROVE OneCall' /\ \A r \in Proc : pc'[r] # "auction"
  <2>1. ASSUME NEW label, NEW x, NEW time, Begin(q, label, x, time), label # "auction"
        PROVE  OneCall' /\ \A r \in Proc : pc'[r] # "auction"
    BY <2>1, BeginAlone DEF Begin, TablesOK
  <2> QED
    BY <1>1, <2>1 DEF Check, DiscloseCheck, ListCheck, PlaceCheck, CancelCheck, RfqCheck, QuoteCheck
<1>2. ASSUME NEW q \in Proc, Commit(q) PROVE OneCall' /\ \A r \in Proc : pc'[r] # "auction"
  <2>1. pc[q] # "idle" /\ Return(q)
    BY <1>2 DEF Commit, DiscloseCommit, ListCommit, PlaceCommit, CancelCommit, RfqCommit,
                QuoteCommit, Abandon
  <2> QED BY <2>1, ReturnAlone
<1>3. CASE AtOnce
  <2>1. UNCHANGED pc /\ \A q \in Proc : pc[q] = "idle"
    BY <1>3 DEF AtOnce, CreateVenue, RetireVenue, DefineInstrument, WithdrawInstrument, MatchTrade,
                MatchSelf, AcceptQuote, Settle, Alone, calls
  <2> QED BY <2>1 DEF OneCall
<1>4. CASE Tick \/ UNCHANGED vars
  BY <1>4 DEF Tick, vars, calls, OneCall
<1> QED BY <1>1, <1>2, <1>3, <1>4 DEF Next

(* A trade of an auction is then one of live orders, of units they have.    *)
LEMMA AuctionExecutes ==
  ASSUME AInv, OneCall, InStep, NEW q \in Proc, AuctionTrade(q)
  PROVE  /\ \E v \in Venue, i \in Instrument, b, s \in Order, n \in Nat, t \in Deals :
              /\ Executes(v, i, b, s, n, t) /\ n > 0 /\ Signed[b].by # Signed[s].by
         /\ UNCHANGED <<market, balance, talks, calls>>
         /\ InStep'
<1>1. TypeOK /\ TablesOK /\ Auctions
  BY DEF AInv, TypeOK
<1>2. PICK a, b, s, n, r2, c : TradeParts(q, a, b, s, n, r2, c)
  BY DEF TradeParts
<1>3. /\ WellMade(a) /\ WellMade(c) /\ c.rem = r2
      /\ b \in Queued(a.buys) /\ s \in Queued(a.sells) /\ b \in Order /\ s \in Order /\ b # s
      /\ n \in Nat /\ n > 0 /\ n <= a.rem[b] /\ n <= a.rem[s]
      /\ r2 \in [Order -> Nat]
      /\ \A o \in Order : r2[o] = IF o \in {b, s} THEN a.rem[o] - n ELSE a.rem[o]
      /\ Queued(c.buys) \subseteq Queued(a.buys) /\ Queued(c.sells) \subseteq Queued(a.sells)
      /\ DOMAIN auction' = Proc /\ auction'[q] = c
      /\ \A r \in Proc \ {q} : auction'[r] = auction[r]
  BY <1>1, <1>2, TradeMade
<1> DEFINE t == Deal(Signed[b].venue, Signed[b].inst, Signed[b].by, Signed[s].by, b, s, n, a.price)
<1>4. /\ t \in Deals /\ t.price = a.price /\ Signed[b].by # Signed[s].by
      /\ trades' = Append(trades, t) /\ settled' = settled
      /\ remaining' = [x \in Order |-> IF x \in {b, s} THEN r2[x] ELSE remaining[x]]
      /\ orderStatus' = [x \in Order |-> IF x \notin {b, s} THEN orderStatus[x]
                                         ELSE IF r2[x] = 0 THEN "FILLED" ELSE "PARTIAL"]
      /\ UNCHANGED <<market, balance, received, talks, now, calls>>
  BY <1>1, <1>2, AuctionWrites
<1>5. /\ pc[q] = "auction" /\ StillThere(a)
  <2>1. pc[q] = "auction" /\ a = auction[q]
    BY <1>2 DEF AuctionTrade, Running, TradeParts
  <2> QED BY <2>1 DEF InStep
<1>6. /\ a.price <= Signed[b].limit /\ Signed[s].limit <= a.price
      /\ Signed[b].side = "BUY" /\ Signed[s].side = "SELL"
      /\ Signed[b].venue = Signed[s].venue /\ Signed[b].inst = Signed[s].inst
  BY <1>3 DEF WellMade, CanMeet
<1>7. /\ orderStatus[b] \in Live /\ orderStatus[s] \in Live
      /\ a.rem[b] = remaining[b] /\ a.rem[s] = remaining[s]
  BY <1>3, <1>5 DEF StillThere
<1>8. r2[b] = remaining[b] - n /\ r2[s] = remaining[s] - n
  BY <1>3, <1>7
<1>9. PICK v \in Venue, i \in Instrument : v = Signed[b].venue /\ i = Signed[b].inst
  BY <1>3, BodiesAssumption DEF OrderBody
<1>10. t = Deal(v, i, Signed[b].by, Signed[s].by, b, s, n, t.price)
  BY <1>4, <1>9
<1> HIDE DEF t
<1>11. /\ remaining' = [x \in Order |-> IF x \in {b, s} THEN remaining[x] - n ELSE remaining[x]]
       /\ orderStatus' = [x \in Order |-> IF x \notin {b, s} THEN orderStatus[x]
                                          ELSE IF remaining[x] - n = 0 THEN "FILLED" ELSE "PARTIAL"]
  BY <1>4, <1>8
<1>12. Executes(v, i, b, s, n, t)
  <2>1. b \in LiveOrders(v, i, "BUY") /\ s \in LiveOrders(v, i, "SELL")
    BY <1>3, <1>6, <1>7, <1>9 DEF LiveOrders
  <2>2. n <= remaining[b] /\ n <= remaining[s]
    BY <1>3, <1>7
  <2>3. Signed[s].limit <= t.price /\ t.price <= Signed[b].limit
    BY <1>4, <1>6
  <2> QED BY <1>4, <1>10, <1>11, <2>1, <2>2, <2>3 DEF Executes
<1>13. InStep'
  <2>1. ASSUME NEW o \in Queued(c.buys) \cup Queued(c.sells)
        PROVE  orderStatus'[o] \in Live /\ c.rem[o] = remaining'[o]
    <3>1. /\ o \in Queued(a.buys) \cup Queued(a.sells) /\ o \in Order
      <4>1. a.buys \in Seq(Order) /\ a.sells \in Seq(Order)
        BY <1>3 DEF WellMade, AuctionRecord
      <4>2. Queued(a.buys) \subseteq Order /\ Queued(a.sells) \subseteq Order
        BY <4>1 DEF Queued
      <4> QED BY <1>3, <4>2
    <3>2. r2[o] > 0
      BY <1>3 DEF WellMade, Stocked
    <3>3. orderStatus[o] \in Live /\ a.rem[o] = remaining[o]
      BY <1>5, <3>1 DEF StillThere
    <3>4. CASE o \in {b, s}
      BY <1>3, <1>4, <3>1, <3>2, <3>4 DEF Live
    <3>5. CASE o \notin {b, s}
      BY <1>3, <1>4, <3>1, <3>3, <3>5
    <3> QED BY <3>4, <3>5
  <2>2. \A r \in Proc \ {q} : pc'[r] = "idle"
    BY <1>4, <1>5 DEF OneCall, calls
  <2> SUFFICES ASSUME NEW r \in Proc, pc'[r] = "auction" PROVE StillThere(auction[r])'
    BY DEF InStep
  <2>3. r = q /\ auction'[r] = c
    BY <1>3, <2>2
  <2> QED
    BY <2>1, <2>3 DEF StillThere, Queued
<1> QED
  BY <1>3, <1>4, <1>12, <1>13

LEMMA SerialTrade ==
  ASSUME SInv, NEW q \in Proc, AuctionTrade(q)
  PROVE  SInv' /\ UNCHANGED LedgerVars
<1>1. AInv /\ IInv /\ OneCall /\ InStep /\ TypeOK /\ TablesOK
  BY DEF SInv, IInv, TypeOK
<1>2. AInv' /\ TypeOK' /\ TablesOK'
  BY <1>1, TradeKeeps DEF AInv, TypeOK
<1>3. PICK v \in Venue, i \in Instrument, b \in Order, s \in Order, n \in Nat, t \in Deals :
        Executes(v, i, b, s, n, t) /\ n > 0 /\ Signed[b].by # Signed[s].by
  BY <1>1, AuctionExecutes
<1>4. UNCHANGED <<market, balance, talks, calls>> /\ InStep'
  BY <1>1, AuctionExecutes
<1>5. IInv'
  BY <1>1, <1>2, <1>3, <1>4, ExecuteInv DEF market
<1>7. OneCall'
  BY <1>1, <1>4 DEF OneCall, calls
<1>8. UNCHANGED LedgerVars
  <2>1. balance' = balance /\ Issued' = Issued
    BY <1>4 DEF market, Issued
  <2>2. \A j \in Instrument, p \in Party : ReservedSell(j, p)' = ReservedSell(j, p)
    BY <1>1, <1>2, <1>3, ExecuteReserves
  <2> QED BY <2>1, <2>2, SameStep
<1> QED BY <1>2, <1>4, <1>5, <1>7, <1>8 DEF SInv

(* A step of an auction that writes none of the tables.                     *)
LEMMA SerialCaller ==
  ASSUME SInv, AInv', UNCHANGED <<market, balance, book, deals, talks, now>>
  PROVE  IInv' /\ UNCHANGED LedgerVars
<1>1. IInv /\ TypeOK'
  BY DEF SInv, AInv
<1>2. IInv'
  BY <1>1, QuietInv DEF market
<1>4. UNCHANGED LedgerVars
  <2>1. balance' = balance /\ Issued' = Issued
    BY DEF market, Issued
  <2> QED BY <2>1, OthersKeep, SameStep
<1> QED BY <1>2, <1>4

LEMMA SerialStep ==
  ASSUME Serial, SInv, [AuctionNext]_avars
  PROVE  SInv' /\ (Ledger!Next \/ UNCHANGED LedgerVars)
<1>0. /\ AInv /\ IInv /\ OneCall /\ InStep /\ TypeOK /\ TablesOK
      /\ AInv' /\ TypeOK' /\ DOMAIN auction = Proc
  BY AuctionKeeps DEF SInv, AInv, TypeOK, Auctions
<1>1. CASE Others \/ UNCHANGED avars
  <2>1. [Next]_vars /\ UNCHANGED auction
    BY <1>1, OthersAreNext DEF avars
  <2>2. ~(\E q \in Proc : pc[q] = "auction" /\ Abandon(q))
    <3> SUFFICES ASSUME NEW q \in Proc, pc[q] = "auction", Abandon(q) PROVE FALSE
      OBVIOUS
    <3>1. pc'[q] = "idle"
      BY <1>0 DEF Abandon, Return, TablesOK
    <3>2. CASE UNCHANGED avars
      BY <3>1, <3>2 DEF avars, vars, calls
    <3>3. CASE Others
      <4>1. ~AtOnce /\ ~Tick
        BY <3>1 DEF AtOnce, CreateVenue, RetireVenue, DefineInstrument, WithdrawInstrument,
                    MatchTrade, MatchSelf, AcceptQuote, Settle, Tick, calls
      <4>2. PICK r \in Proc : Check(r) \/ (pc[r] # "auction" /\ Commit(r))
        BY <3>3, <4>1 DEF Others
      <4>3. r # q
        <5>1. ASSUME NEW label, NEW x, NEW time, Begin(q, label, x, time) PROVE FALSE
          BY <5>1 DEF Begin
        <5>2. ~Check(q)
          BY <5>1 DEF Check, DiscloseCheck, ListCheck, PlaceCheck, CancelCheck, RfqCheck, QuoteCheck
        <5> QED BY <4>2, <5>2
      <4>4. CASE Check(r)
        <5>1. ASSUME NEW label, NEW x, NEW time, Begin(r, label, x, time) PROVE pc'[q] = pc[q]
          BY <1>0, <4>3, <5>1 DEF Begin, TablesOK
        <5>2. pc'[q] = pc[q]
          BY <4>4, <5>1 DEF Check, DiscloseCheck, ListCheck, PlaceCheck, CancelCheck, RfqCheck,
                            QuoteCheck
        <5> QED BY <3>1, <5>2
      <4>5. CASE Commit(r)
        <5>1. Return(r)
          BY <4>5 DEF Commit, DiscloseCommit, ListCommit, PlaceCommit, CancelCommit, RfqCommit,
                      QuoteCommit, Abandon
        <5>2. pc'[q] = pc[q]
          BY <1>0, <4>3, <5>1 DEF Return, TablesOK
        <5> QED BY <3>1, <5>2
      <4> QED BY <4>2, <4>4, <4>5
    <3> QED BY <1>1, <3>2, <3>3
  <2>3. OneCall' /\ (UNCHANGED <<book, pc>> \/ \A q \in Proc : pc'[q] # "auction")
    BY <1>0, <2>1, <2>2, OthersWait
  <2>4. InStep'
    BY <1>0, <2>1, <2>3 DEF InStep, StillThere, Queued, book
  <2>5. IInv'
    BY <1>0, <2>1, NextInv
  <2>6. Ledger!Next \/ UNCHANGED LedgerVars
    BY <1>0, <2>1, LedgerStep
  <2> QED BY <1>0, <2>3, <2>4, <2>5, <2>6 DEF SInv
<1>2. ASSUME NEW q \in Proc, NEW v \in Venue, NEW i \in Instrument, AuctionStart(q, v, i)
      PROVE  SInv' /\ UNCHANGED LedgerVars
  <2>1. /\ UNCHANGED <<market, balance, book, deals, talks, now>>
        /\ Begin(q, "auction", <<v, i>>, 0)
    BY <1>2 DEF AuctionStart
  <2>2. /\ auction'[q].rem = remaining
        /\ \A o \in Queued(auction'[q].buys) \cup Queued(auction'[q].sells) :
             o \in Order /\ orderStatus[o] \in Live
    BY <1>0, <1>2, StartMade DEF AInv
  <2>3. OneCall' /\ \A r \in Proc : pc[r] = "idle"
    BY <1>0, <2>1, BeginAlone
  <2>4. /\ \A r \in Proc \ {q} : pc'[r] = pc[r] /\ arg'[r] = arg[r]
        /\ pc'[q] = "auction" /\ pc[q] = "idle"
    BY <1>0, <2>1 DEF Begin, TablesOK
  <2>5. InStep'
    <3> SUFFICES ASSUME NEW r \in Proc, pc'[r] = "auction" PROVE StillThere(auction[r])'
      BY DEF InStep
    <3>1. r = q
      BY <2>3, <2>4
    <3> QED BY <2>1, <2>2, <3>1 DEF StillThere, Queued, book
  <2>6. IInv' /\ UNCHANGED LedgerVars
    BY <1>0, <2>1, <2>4, SerialCaller
  <2> QED BY <1>0, <2>3, <2>5, <2>6 DEF SInv
<1>3. ASSUME NEW q \in Proc, AuctionSkip(q) PROVE SInv' /\ UNCHANGED LedgerVars
  <2>1. /\ UNCHANGED vars /\ pc[q] = "auction"
    BY <1>3 DEF AuctionSkip, Running
  <2>2. /\ \A r \in Proc \ {q} : auction'[r] = auction[r]
        /\ auction'[q].rem = auction[q].rem /\ auction'[q].buys = auction[q].buys
        /\ Queued(auction'[q].sells) \subseteq Queued(auction[q].sells)
    BY <1>0, <1>3, SkipMade DEF AInv
  <2>3. OneCall'
    BY <1>0, <2>1 DEF vars, calls, OneCall
  <2>4. InStep'
    <3> SUFFICES ASSUME NEW r \in Proc, pc'[r] = "auction" PROVE StillThere(auction[r])'
      BY DEF InStep
    <3>1. r = q
      BY <1>0, <2>1 DEF OneCall, vars, calls
    <3>2. StillThere(auction[q])
      BY <1>0, <2>1 DEF InStep
    <3>3. auction'[q].rem = auction[q].rem /\ remaining' = remaining /\ orderStatus' = orderStatus
      BY <2>1, <2>2 DEF book, vars
    <3> SUFFICES ASSUME NEW o \in Queued(auction'[q].buys) \cup Queued(auction'[q].sells)
                 PROVE  orderStatus'[o] \in Live /\ auction'[q].rem[o] = remaining'[o]
      BY <3>1 DEF StillThere, Queued
    <3>4. o \in Queued(auction[q].buys) \cup Queued(auction[q].sells)
      BY <2>2
    <3> QED BY <3>2, <3>3, <3>4 DEF StillThere
  <2>5. IInv' /\ UNCHANGED LedgerVars
    BY <1>0, <2>1, SerialCaller DEF vars, calls
  <2> QED BY <1>0, <2>3, <2>4, <2>5 DEF SInv
<1>4. ASSUME NEW q \in Proc, AuctionEnd(q) \/ AuctionDies(q) PROVE SInv' /\ UNCHANGED LedgerVars
  <2>1. /\ Return(q) /\ pc[q] = "auction"
        /\ UNCHANGED <<market, balance, book, deals, talks, now>>
    BY <1>4 DEF AuctionEnd, AuctionDies
  <2>2. OneCall' /\ \A r \in Proc : pc'[r] = "idle"
    BY <1>0, <2>1, ReturnAlone
  <2>3. InStep'
    BY <2>2 DEF InStep
  <2>4. \A r \in Proc \ {q} : pc'[r] = pc[r] /\ arg'[r] = arg[r]
    BY <1>0, <2>1 DEF Return, TablesOK
  <2>5. IInv' /\ UNCHANGED LedgerVars
    BY <1>0, <2>1, <2>2, <2>4, SerialCaller
  <2> QED BY <1>0, <2>2, <2>3, <2>5 DEF SInv
<1> QED BY <1>1, <1>2, <1>3, <1>4, SerialTrade DEF AuctionNext

LEMMA SerialInit == AuctionInit => SInv /\ Ledger!Init
<1> SUFFICES ASSUME AuctionInit PROVE SInv /\ Ledger!Init
  OBVIOUS
<1>1. Init
  BY DEF AuctionInit
<1>2. OneCall /\ InStep
  BY <1>1 DEF Init, OneCall, InStep
<1> QED BY <1>1, <1>2, AuctionInitKeeps, InitInv, LedgerInit DEF SInv

LEMMA SerialAlways ==
  ASSUME Serial
  PROVE  AuctionSpec => []SInv
BY SerialInit, SerialStep, PTL DEF AuctionSpec

(* One call at a time: a call auction fills no order beyond its signed      *)
(* quantity, and its orders' rows agree with their trades.  An order that   *)
(* is cancelled or matched between two of its trades breaks it: see         *)
(* exchange_overfill.                                                       *)
THEOREM AuctionOrdersAddUp ==
  ASSUME Serial
  PROVE  AuctionSpec => []NoOverfill
BY SerialAlways, PTL DEF SInv, IInv

(* One call at a time: no seller owes more units than it holds.             *)
THEOREM AuctionSellersAreCovered ==
  ASSUME Serial
  PROVE  AuctionSpec => []SellsCovered
BY SerialAlways, PTL DEF SInv, IInv

(* One call at a time: balances are issues plus settlements.                *)
THEOREM AuctionBalancesAreExplained ==
  ASSUME Serial
  PROVE  AuctionSpec => []LedgerExplained
BY SerialAlways, PTL DEF SInv, IInv

(* One call at a time: the exchange with auctions implements                *)
(* EntitlementLedger.  A trade of an auction turns units promised by an     *)
(* order into units promised by a trade, as a turn of the matcher does.     *)
THEOREM AuctionReservationKept ==
  ASSUME Serial
  PROVE  AuctionSpec => KeepsReservation
<1>1. SInv /\ [AuctionNext]_avars => [Ledger!Next]_LedgerVars
  BY SerialStep
<1> QED
  BY <1>1, SerialInit, SerialAlways, PTL DEF AuctionSpec, KeepsReservation, Ledger!Spec, LedgerVars,
     Issued, ReservedTable
==============================================================================
