---------------------------- MODULE MCBTDUStorage ----------------------------
(* A small BTDU storage root for TLC: two processes, two payloads that share *)
(* a chunk (one of them holds it twice) and a tape over the same chunk.      *)
EXTENDS BTDUStorage, TLC

CONSTANTS a, b, pa, pb, ta

MCChunks == (pa :> <<a, b>>) @@ (pb :> <<b, b>>) @@ (ta :> <<b>>)
MCContent == [j \in Payload \cup Tape |-> MCChunks[j]]

(* The processes are interchangeable.                                        *)
MCSymmetry == Permutations(Proc)
=============================================================================
