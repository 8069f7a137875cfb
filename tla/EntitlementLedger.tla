-------------------------- MODULE EntitlementLedger --------------------------
(***************************************************************************)
(* What the exchange promises of the units of an instrument, whatever its   *)
(* order books, quotes and settlements do: the issuer's units are issued    *)
(* once; a seller's units are reserved only while they are free, stay       *)
(* reserved until they are released or delivered, and a delivery takes      *)
(* reserved units of the seller and nothing else                            *)
(* (ENTITY_EXCHANGE_PROTOCOL_3_0.md, lines 68-70 and 76).                   *)
(***************************************************************************)
EXTENDS Naturals

CONSTANTS Instrument, Party, Issuer, Units

VARIABLES
  issued,    \* instruments whose units exist
  balance,   \* units held of each instrument by each party
  reserved   \* units of each holder that are promised to somebody

Init ==
  /\ issued = {}
  /\ balance = [i \in Instrument |-> [p \in Party |-> 0]]
  /\ reserved = [i \in Instrument |-> [p \in Party |-> 0]]

Issue(i) ==
  /\ i \notin issued
  /\ issued' = issued \cup {i}
  /\ balance' = [balance EXCEPT ![i][Issuer[i]] = @ + Units[i]]
  /\ UNCHANGED reserved

(* An order is admitted or a quote accepted: n free units of p are promised. *)
Reserve(i, p, n) ==
  /\ UNCHANGED <<issued, balance>>
  /\ reserved[i][p] + n <= balance[i][p]
  /\ reserved' = [reserved EXCEPT ![i][p] = @ + n]

(* An order is cancelled: the units it had not sold are free again.          *)
Release(i, p, n) ==
  /\ UNCHANGED <<issued, balance>>
  /\ n <= reserved[i][p]
  /\ reserved' = [reserved EXCEPT ![i][p] = @ - n]

(* A trade settles: n reserved units of seller become units of buyer.        *)
Deliver(i, seller, buyer, n) ==
  /\ UNCHANGED issued
  /\ balance' = [balance EXCEPT ![i] =
       [p \in Party |-> (IF p = buyer THEN n ELSE 0)
                        + (IF p = seller THEN balance[i][p] - n ELSE balance[i][p])]]
  /\ n <= reserved[i][seller]
  /\ reserved' = [reserved EXCEPT ![i][seller] = @ - n]

Next ==
  \/ \E i \in Instrument : Issue(i)
  \/ \E i \in Instrument, p \in Party : \E n \in 1 .. balance[i][p] : Reserve(i, p, n)
  \/ \E i \in Instrument, p \in Party : \E n \in 1 .. balance[i][p] : Release(i, p, n)
  \/ \E i \in Instrument, s, b \in Party : \E n \in 1 .. balance[i][s] : Deliver(i, s, b, n)

Spec == Init /\ [][Next]_<<issued, balance, reserved>>
=============================================================================
