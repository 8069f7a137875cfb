----------------------------- MODULE MCExchange ------------------------------
(* A small exchange for TLC: the issuer offers its two units in one order;   *)
(* the holder buys one from the book or from a quote of the issuer, and sells *)
(* it on in an order that also meets its own bid, or by a request.           *)
EXTENDS Exchange, TLC

CONSTANTS v1, i1, issuer, holder, os, ot, ob, r1, r2, x1, x2

O(by, side, qty, limit) ==
  [venue |-> v1, inst |-> i1, by |-> by, side |-> side, qty |-> qty, limit |-> limit]
Bodies == (os :> O(issuer, "SELL", 2, 1)) @@ (ot :> O(holder, "SELL", 1, 0))
          @@ (ob :> O(holder, "BUY", 1, 1))
Ids == (os :> 1) @@ (ot :> 2) @@ (ob :> 3)

R(by, side, expires) ==
  [venue |-> v1, inst |-> i1, by |-> by, side |-> side, qty |-> 1, expires |-> expires]
Requests == (r1 :> R(holder, "BUY", 1)) @@ (r2 :> R(holder, "SELL", 2))
X(r, by, price, expires) == [rfq |-> r, by |-> by, price |-> price, expires |-> expires]
Prices == (x1 :> X(r1, issuer, 1, 1)) @@ (x2 :> X(r2, issuer, 0, 1))

MCSigned == [o \in Order |-> Bodies[o]]
MCRank == [o \in Order |-> Ids[o]]
MCAsked == [r \in Rfq |-> Requests[r]]
MCOffered == [x \in Quote |-> Prices[x]]
MCIssuer == [i \in Instrument |-> issuer]
MCUnits == [i \in Instrument |-> 2]

(* The callers are interchangeable.                                          *)
MCSymmetry == Permutations(Proc)
=============================================================================
