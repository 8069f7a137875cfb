----------------------------- MODULE UsageControl -----------------------------
(***************************************************************************)
(* Licence-bound evidence of use                                            *)
(* (src/src/01_Core_Runtime/usage_control/canonical_usage_control.py):      *)
(* gateway tickets, consumed once, and receipts, in a database beside the   *)
(* licences, which change meanwhile.  Consuming a ticket, recording its     *)
(* receipt and reporting the receipt are three transactions.                *)
(*                                                                          *)
(* Abstracted: quantities, purposes and rights (a call asks for what the    *)
(* terms allow); a ticket's expiry, which only refuses a call; who attests  *)
(* a use that no ticket covers.                                             *)
(***************************************************************************)
EXTENDS Licensing

CONSTANTS Ticket, Nonce, NoTicket

(* What the ledger reports on: the n-th event of a licence, or a receipt.   *)
Ref == (Licence \X Nat) \cup ({"receipt"} \X Nonce)

(* What a thread may be about to do.                                        *)
Reporting == [op : {"report"}, ref : Ref]
Issuing == [op : {"issue"}, lic : Licence, ticket : Ticket]
Using == [op : {"consume", "receipt"}, ticket : Ticket \cup {NoTicket}, lic : Licence, nonce : Nonce]
Calls == Loading \cup Reporting \cup Issuing \cup Using

ASSUME UsageAssumption ==
  NoTicket \notin Ticket /\ NoCall \notin Calls /\ "receipt" \notin Licence

VARIABLES
  tickets,    \* tickets: "absent", "ISSUED" or "CONSUMED"
  ticketOf,   \* the licence of each ticket
  receipts,   \* receipts: nonce, ticket and licence
  spent       \* history: tickets consumed by a call that recorded nothing

usage == <<tickets, ticketOf, receipts, spent>>
vars == <<licensing, history, ledger, call, unreported, usage>>

active(l) == licences[l].state = "ACTIVE"

(* consume_gateway_ticket writes under BEGIN IMMEDIATE from its first read.  *)
Unlocked == \A t \in Thread : ~Doing(t, "consume")

-----------------------------------------------------------------------------
Begin(t, record) ==
  /\ call[t] = NoCall
  /\ call' = [call EXCEPT ![t] = record]
  /\ UNCHANGED <<licensing, history, ledger, unreported, usage>>

IssueCheck(t, l, k) == tickets[k] = "absent" /\ active(l) /\ Begin(t, [op |-> "issue", lic |-> l, ticket |-> k])
IssueCommit(t) ==
  /\ Doing(t, "issue") /\ Unlocked
  /\ tickets[call[t].ticket] = "absent"
  /\ tickets' = [tickets EXCEPT ![call[t].ticket] = "ISSUED"]
  /\ ticketOf' = [ticketOf EXCEPT ![call[t].ticket] = call[t].lic]
  /\ call' = [call EXCEPT ![t] = NoCall]
  /\ UNCHANGED <<licensing, history, ledger, unreported, receipts, spent>>

ConsumeAnyway(k) == tickets[k] = "ISSUED"   \* mutant: the ticket is read before the transaction
consumable(k) == tickets[k] = "ISSUED" /\ Unlocked
ConsumeCheck(t, k, n) ==
  /\ consumable(k) /\ active(ticketOf[k])
  /\ Begin(t, [op |-> "consume", ticket |-> k, lic |-> ticketOf[k], nonce |-> n])
ConsumeCommit(t) ==
  /\ Doing(t, "consume")
  /\ tickets' = [tickets EXCEPT ![call[t].ticket] = "CONSUMED"]
  /\ call' = [call EXCEPT ![t].op = "receipt"]
  /\ UNCHANGED <<licensing, history, ledger, unreported, ticketOf, receipts, spent>>

(* record_declared and the two attested records.                            *)
DeclareCheck(t, l, n) ==
  active(l) /\ Begin(t, [op |-> "receipt", ticket |-> NoTicket, lic |-> l, nonce |-> n])

AnyNonce(n) == TRUE    \* mutant: INSERT OR IGNORE
fresh(n) == \A r \in receipts : r.nonce # n
RecordReceipt(t) ==
  /\ Doing(t, "receipt") /\ Unlocked
  /\ fresh(call[t].nonce)
  /\ receipts' = receipts \cup {[nonce |-> call[t].nonce, ticket |-> call[t].ticket, lic |-> call[t].lic]}
  /\ Report(t, <<"receipt", call[t].nonce>>)
  /\ UNCHANGED <<licensing, history, ledger, unreported, tickets, ticketOf, spent>>

(* A used nonce is one of the errors that stop a call; its ticket is gone.   *)
UsageStop(t) ==
  /\ Stop(t)
  /\ spent' = IF Doing(t, "receipt") THEN spent \cup ({call[t].ticket} \cap Ticket) ELSE spent
  /\ UNCHANGED <<tickets, ticketOf, receipts>>

-----------------------------------------------------------------------------
Init ==
  /\ LicensingInit
  /\ tickets = [k \in Ticket |-> "absent"] /\ ticketOf = [k \in Ticket |-> CHOOSE l \in Licence : TRUE]
  /\ receipts = {} /\ spent = {}

UsageStep ==
  \E t \in Thread :
    \/ \E l \in Licence, k \in Ticket : IssueCheck(t, l, k)
    \/ \E k \in Ticket, n \in Nonce : ConsumeCheck(t, k, n)
    \/ \E l \in Licence, n \in Nonce : DeclareCheck(t, l, n)
    \/ IssueCommit(t) \/ ConsumeCommit(t) \/ RecordReceipt(t) \/ UsageStop(t)

Next == (LicensingStep /\ UNCHANGED usage) \/ UsageStep
Spec == Init /\ [][Next]_vars

-----------------------------------------------------------------------------
(* Properties.                                                              *)

(* Every variable has its type.                                             *)
TypeOK ==
  /\ licences \in [Licence -> Row]
  /\ events \in [Licence -> Seq([from : REACHED, to : REACHED])]
  /\ claims \in [Claim -> {"absent", "ACTIVE", "closed"}]
  /\ IsABag(ledger) /\ BagToSet(ledger) \subseteq Ref /\ unreported \subseteq Ref
  /\ call \in [Thread -> Calls \cup {NoCall}]
  /\ overtaken \subseteq Licence
  /\ agreed \in [Licence -> Terms \cup {{}}] /\ refused \in [Licence -> SUBSET Claim]
  /\ tickets \in [Ticket -> {"absent", "ISSUED", "CONSUMED"}] /\ ticketOf \in [Ticket -> Licence]
  /\ receipts \subseteq [nonce : Nonce, ticket : Ticket \cup {NoTicket}, lic : Licence]
  /\ spent \subseteq Ticket

(* A ticket has at most one receipt, and one that has is consumed; a ticket  *)
(* consumed without a receipt is in the hands of a call, or of one that      *)
(* stopped.                                                                  *)
TicketsAccounted ==
  \A k \in Ticket :
    LET mine == {r \in receipts : r.ticket = k} IN
    /\ Cardinality(mine) <= 1
    /\ mine # {} => tickets[k] = "CONSUMED" /\ k \notin spent
    /\ tickets[k] = "CONSUMED" /\ mine = {} =>
         k \in spent \/ \E t \in Thread : Doing(t, "receipt") /\ call[t].ticket = k

(* The ledger reports records that exist, each once; and a record it does    *)
(* not report is about to be reported, or its thread stopped before.         *)
Recorded == (UNION {{<<l, n>> : n \in DOMAIN events[l]} : l \in Licence})
              \cup {<<"receipt", r.nonce>> : r \in receipts}
LedgerMatches ==
  /\ BagToSet(ledger) \subseteq Recorded \ unreported
  /\ \A ref \in BagToSet(ledger) : ledger[ref] = 1
  /\ \A ref \in Recorded \ (BagToSet(ledger) \cup unreported) :
       \E t \in Thread : Doing(t, "report") /\ call[t].ref = ref
=============================================================================
