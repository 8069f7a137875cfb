--------------------------- MODULE MCAdamUniverse ---------------------------
(* Two threads, two events of one type on one entity, and two calls, which   *)
(* may record the same event twice.                                          *)
EXTENDS AdamUniverse, TLC

CONSTANTS x, e1, e2, id, type, v1, v2, w

MCSubject == (e1 :> x) @@ (e2 :> x)
MCShows == (e1 :> ((id :> v1) @@ (type :> w))) @@ (e2 :> ((id :> v2) @@ (type :> w)))

(* The threads are interchangeable.                                          *)
MCSymmetry == Permutations(Thread)
=============================================================================
