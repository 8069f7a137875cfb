-------------------------- MODULE MCExchangeAuction --------------------------
(* A small exchange with call auctions for TLC: two asks of the issuer at    *)
(* different prices, two bids of the holder, and a bid of the issuer that     *)
(* must not meet its own asks.                                               *)
EXTENDS ExchangeAuction, TLC

CONSTANTS v1, i1, issuer, holder, os, ou, ob, oc, od, r1

O(by, side, qty, limit) ==
  [venue |-> v1, inst |-> i1, by |-> by, side |-> side, qty |-> qty, limit |-> limit]
Bodies == (os :> O(issuer, "SELL", 2, 1)) @@ (ou :> O(issuer, "SELL", 1, 2))
          @@ (ob :> O(holder, "BUY", 1, 2)) @@ (oc :> O(holder, "BUY", 2, 1))
          @@ (od :> O(issuer, "BUY", 1, 2))
Ids == (os :> 1) @@ (ou :> 2) @@ (ob :> 3) @@ (oc :> 4) @@ (od :> 5)

MCSigned == [o \in Order |-> Bodies[o]]
MCRank == [o \in Order |-> Ids[o]]
MCAsked == [r \in Rfq |->
  [venue |-> v1, inst |-> i1, by |-> holder, side |-> "BUY", qty |-> 1, expires |-> 1]]
MCOffered == [x \in Quote |-> [rfq |-> r1, by |-> issuer, price |-> 1, expires |-> 1]]
MCIssuer == [i \in Instrument |-> issuer]
MCUnits == [i \in Instrument |-> 3]
=============================================================================
