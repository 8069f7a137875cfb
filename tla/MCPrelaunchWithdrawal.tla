----------------------- MODULE MCPrelaunchWithdrawal ------------------------
(* One instrument of two units.  The issuer offers both of them to a request  *)
(* for quotes, and the treasury its reserve of one in an order; each of two   *)
(* policies reserves one for the treasury.                                    *)
EXTENDS PrelaunchWithdrawal, TLC

CONSTANTS v1, i1, issuer, treasury, holder, os, r1, x1, p1, p2

MCSigned == os :> [venue |-> v1, inst |-> i1, by |-> treasury, side |-> "SELL", qty |-> 1, limit |-> 1]
(* An order of the issuer's instead, over everything it was issued.          *)
MCSoldOut == os :> [venue |-> v1, inst |-> i1, by |-> issuer, side |-> "SELL", qty |-> 2, limit |-> 1]
MCRank == os :> 1
MCAsked == r1 :> [venue |-> v1, inst |-> i1, by |-> holder, side |-> "BUY", qty |-> 2, expires |-> 1]
MCOffered == x1 :> [rfq |-> r1, by |-> issuer, price |-> 1, expires |-> 1]
MCIssuer == i1 :> issuer
MCUnits == i1 :> 2

T(version) == [inst |-> i1, by |-> issuer, treasury |-> treasury, total |-> 2, reserve |-> 1,
               primary |-> 10000, secondary |-> 5000, version |-> version]
MCTerms == (p1 :> T(1)) @@ (p2 :> T(2))

(* The agents are interchangeable.                                           *)
MCSymmetry == Permutations(Agent)
=============================================================================
