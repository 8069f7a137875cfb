---------------------------- MODULE MCUsageControl ----------------------------
EXTENDS UsageControl, TLC

(* Threads, claims, tickets and nonces are interchangeable; so are terms.    *)
MCSymmetry == Permutations(Thread) \cup Permutations(Claim) \cup Permutations(Nonce) \cup Permutations(Terms)
=============================================================================
