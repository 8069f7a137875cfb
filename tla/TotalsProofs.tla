----------------------------- MODULE TotalsProofs -----------------------------
(* What the totals of Totals do when a row is added or changes.  Each total   *)
(* is the size of a union of disjoint sets, one per row, so the facts about   *)
(* cardinalities suffice.                                                     *)
EXTENDS Totals, FiniteSetTheorems, TLAPS

LEMMA RowUnits ==
  ASSUME NEW x, NEW n \in Nat
  PROVE  IsFiniteSet({x} \X (1 .. n)) /\ Cardinality({x} \X (1 .. n)) = n
<1> DEFINE A == {x}
           B == 1 .. n
<1>1. IsFiniteSet(A) /\ Cardinality(A) = 1
  BY FS_Singleton
<1>2. IsFiniteSet(B) /\ Cardinality(B) = n
  BY FS_Interval
<1> HIDE DEF A, B
<1>3. IsFiniteSet(A \X B) /\ Cardinality(A \X B) = Cardinality(A) * Cardinality(B)
  BY <1>1, <1>2, FS_Product
<1>4. Cardinality(A \X B) = n
  BY <1>1, <1>2, <1>3
<1> QED BY <1>3, <1>4 DEF A, B

(* A total over finitely many rows is a natural number.                       *)
LEMMA TotalType ==
  ASSUME NEW S, IsFiniteSet(S), NEW f \in [S -> Nat]
  PROVE  IsFiniteSet(UnitsOf(f)) /\ Total(f) \in Nat
<1> DEFINE row == [x \in S |-> {x} \X (1 .. f[x])]
           rows == {row[x] : x \in S}
<1>1. row \in Surjection(S, rows)
  BY DEF Surjection
<1>2. IsFiniteSet(rows)
  <2> HIDE DEF row, rows
  <2> QED BY <1>1, FS_Surjection
<1>3. \A r \in rows : IsFiniteSet(r)
  <2> SUFFICES ASSUME NEW x \in S PROVE IsFiniteSet(row[x])
    OBVIOUS
  <2>1. f[x] \in Nat
    OBVIOUS
  <2> QED BY <2>1, RowUnits
<1>4. IsFiniteSet(UNION rows)
  BY <1>2, <1>3, FS_UNION
<1>5. UnitsOf(f) = UNION rows
  BY DEF UnitsOf
<1> QED BY <1>4, <1>5, FS_CardinalityType DEF Total

(* A new row adds its units.                                                  *)
LEMMA TotalExtend ==
  ASSUME NEW S, IsFiniteSet(S), NEW x, x \notin S,
         NEW f \in [S -> Nat], NEW g \in [S \cup {x} -> Nat],
         \A y \in S : g[y] = f[y]
  PROVE  Total(g) = Total(f) + g[x]
<1> DEFINE new == {x} \X (1 .. g[x])
<1>1. IsFiniteSet(UnitsOf(f)) /\ Total(f) \in Nat
  BY TotalType
<1>2. IsFiniteSet(new) /\ Cardinality(new) = g[x] /\ g[x] \in Nat
  BY RowUnits
<1>3. UnitsOf(g) = UnitsOf(f) \cup new
  <2>1. UnitsOf(g) \subseteq UnitsOf(f) \cup new
    <3> SUFFICES ASSUME NEW u \in UnitsOf(g) PROVE u \in UnitsOf(f) \cup new
      OBVIOUS
    <3>1. PICK y \in S \cup {x} : u \in {y} \X (1 .. g[y])
      BY DEF UnitsOf
    <3>2. CASE y = x
      BY <3>1, <3>2
    <3>3. CASE y \in S
      BY <3>1, <3>3 DEF UnitsOf
    <3> QED BY <3>2, <3>3
  <2>2. UnitsOf(f) \subseteq UnitsOf(g)
    <3> SUFFICES ASSUME NEW u \in UnitsOf(f) PROVE u \in UnitsOf(g)
      OBVIOUS
    <3>1. PICK y \in S : u \in {y} \X (1 .. f[y])
      BY DEF UnitsOf
    <3> QED BY <3>1 DEF UnitsOf
  <2>3. new \subseteq UnitsOf(g)
    BY DEF UnitsOf
  <2> QED BY <2>1, <2>2, <2>3
<1>4. UnitsOf(f) \cap new = {}
  <2> SUFFICES ASSUME NEW u \in UnitsOf(f), u \in new PROVE FALSE
    OBVIOUS
  <2>1. PICK y \in S : u \in {y} \X (1 .. f[y])
    BY DEF UnitsOf
  <2>2. u[1] = y /\ u[1] = x
    BY <2>1
  <2> QED BY <2>2
<1>5. Cardinality(UnitsOf(g)) = Cardinality(UnitsOf(f)) + Cardinality(new) - Cardinality({})
  BY <1>1, <1>2, <1>3, <1>4, FS_Union
<1> HIDE DEF new
<1> QED BY <1>1, <1>2, <1>5, FS_EmptySet DEF Total

(* When one row changes, the total changes by as much.                        *)
LEMMA TotalUpdate ==
  ASSUME NEW S, IsFiniteSet(S), NEW x \in S,
         NEW f \in [S -> Nat], NEW g \in [S -> Nat],
         \A y \in S \ {x} : g[y] = f[y]
  PROVE  Total(g) + f[x] = Total(f) + g[x]
<1> DEFINE R == S \ {x}
           h == [y \in R |-> f[y]]
<1>1. IsFiniteSet(R) /\ x \notin R /\ R \cup {x} = S
  BY FS_Subset
<1>2. h \in [R -> Nat] /\ \A y \in R : f[y] = h[y] /\ g[y] = h[y]
  OBVIOUS
<1>3. Total(h) \in Nat
  BY <1>1, <1>2, TotalType
<1> HIDE DEF R, h
<1>4. f \in [R \cup {x} -> Nat] /\ g \in [R \cup {x} -> Nat]
  BY <1>1
<1>5. Total(f) = Total(h) + f[x]
  BY <1>1, <1>2, <1>4, TotalExtend
<1>6. Total(g) = Total(h) + g[x]
  BY <1>1, <1>2, <1>4, TotalExtend
<1>7. f[x] \in Nat /\ g[x] \in Nat
  OBVIOUS
<1> QED BY <1>3, <1>5, <1>6, <1>7

(* Rows without units have no total.                                          *)
LEMMA TotalZero ==
  ASSUME NEW S, NEW f \in [S -> Nat], \A x \in S : f[x] = 0
  PROVE  Total(f) = 0
<1>1. UnitsOf(f) = {}
  BY DEF UnitsOf
<1> QED BY <1>1, FS_EmptySet DEF Total
=============================================================================
