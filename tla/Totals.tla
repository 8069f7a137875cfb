------------------------------- MODULE Totals --------------------------------
(* SELECT SUM(...) over the rows of a table: the total of a function that   *)
(* gives each row a natural number.  It is the size of the disjoint union   *)
(* of the rows' units, which needs no recursion.                            *)
EXTENDS Naturals, FiniteSets

UnitsOf(f) == UNION {{x} \X (1 .. f[x]) : x \in DOMAIN f}
Total(f) == Cardinality(UnitsOf(f))
=============================================================================
