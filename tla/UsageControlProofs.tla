------------------------- MODULE UsageControlProofs -------------------------
(***************************************************************************)
(* Theorems of Licensing and UsageControl, for every set of threads,        *)
(* licences, terms, claims, tickets and nonces, and every bound.            *)
(***************************************************************************)
EXTENDS UsageControl, FiniteSetTheorems, TLAPS

-----------------------------------------------------------------------------
(* The inductive invariant.                                                 *)

Older(r, c) == r.version <= c.version /\ (r.version = c.version => r.terms = c.terms)

(* A licence has events once it exists.                                     *)
Begun == \A l \in Licence : events[l] = << >> <=> licences[l].state = "absent"

(* What a call between its load and its transaction knows: the row is the   *)
(* present one as long as no event was added, and no newer than it.         *)
KnowsRow(j) ==
  /\ j.row.state \notin TERMINAL_STATES \cup {"absent"}
  /\ j.op = "counter" => j.row.state = "OFFERED"
  /\ j.to # "absent"
  /\ j.to = "ACCEPTED" => j.op = "accept"
  /\ j.to = "ACTIVE" => j.op = "activate"
  /\ j.op = "activate" => j.row.state = "ACCEPTED" /\ j.basis # {} /\ j.basis \cap j.inactive = {}
Current(j) ==
  /\ j.seen <= Len(events[j.lic])
  /\ j.seen = Len(events[j.lic]) => j.row = licences[j.lic]
  /\ j.lic \notin overtaken => Older(j.row, licences[j.lic])
LoadedSound == \A t \in Thread : call[t] \in Loading => KnowsRow(call[t]) /\ Current(call[t])

(* One call at a time consumes a ticket, and one records its receipt.       *)
TicketCalls ==
  /\ \A k \in spent : tickets[k] = "CONSUMED"
  /\ \A t \in Thread : Doing(t, "consume") =>
       /\ call[t].ticket \in Ticket /\ tickets[call[t].ticket] = "ISSUED"
       /\ \A u \in Thread \ {t} : ~Doing(u, "consume")
  /\ \A t \in Thread : Doing(t, "receipt") /\ call[t].ticket \in Ticket =>
       /\ tickets[call[t].ticket] = "CONSUMED" /\ call[t].ticket \notin spent
       /\ \A r \in receipts : r.ticket # call[t].ticket
       /\ \A u \in Thread \ {t} : Doing(u, "receipt") => call[u].ticket # call[t].ticket

(* One call at a time reports a record, which exists and was not reported.  *)
LedgerCalls ==
  /\ \A t \in Thread : Doing(t, "report") =>
       /\ call[t].ref \in Recorded \ (BagToSet(ledger) \cup unreported)
       /\ \A u \in Thread \ {t} : Doing(u, "report") => call[u].ref # call[t].ref
  /\ unreported \subseteq Recorded

Licences == Begun /\ LoadedSound /\ LicenceHistory /\ AgreementSound
Tickets == TicketCalls /\ TicketsAccounted
Ledger == LedgerCalls /\ LedgerMatches

-----------------------------------------------------------------------------
(* Steps.                                                                   *)

LEMMA CallKinds ==
  ASSUME NEW c \in Calls
  PROVE  /\ c # NoCall
         /\ c.op \in Transition \cup {"counter"} => c \in Loading
         /\ c \in Loading => c.op \in Transition \cup {"counter"}
         /\ c.op = "report" => c \in Reporting
         /\ c.op = "issue" => c \in Issuing
         /\ c.op \in {"consume", "receipt"} => c \in Using
  BY UsageAssumption DEF Calls, Loading, Reporting, Issuing, Using, Transition

(* A load sets only the call, to one that knows its row.                    *)
Loads(t, l) ==
  /\ call[t] = NoCall
  /\ \E j \in Loading : /\ call' = [call EXCEPT ![t] = j] /\ KnowsRow(j)
                        /\ j.lic = l /\ j.row = licences[l] /\ j.seen = Len(events[l])
  /\ UNCHANGED <<licensing, ledger, history, unreported>>

LEMMA LoadLoads ==
  ASSUME TypeOK, NEW t \in Thread, NEW l \in Licence,
         NEW op \in Transition \cup {"counter"}, NEW to \in REACHED, NEW basis \in SUBSET Claim,
         Load(t, l, op, to, basis),
         licences[l].state \notin TERMINAL_STATES \cup {"absent"},
         op = "counter" => licences[l].state = "OFFERED",
         to # "absent", to = "ACCEPTED" => op = "accept", to = "ACTIVE" => op = "activate",
         op = "activate" => licences[l].state = "ACCEPTED" /\ basis # {} /\ basis = eligible
  PROVE  Loads(t, l)
<1> DEFINE j == [op |-> op, lic |-> l, row |-> licences[l], to |-> to, basis |-> basis,
                 inactive |-> Claim \ eligible, seen |-> Len(events[l])]
<1>1. licences[l] \in Row /\ Len(events[l]) \in Nat
  BY DEF TypeOK
<1>2. j \in Loading
  BY <1>1 DEF Loading
<1>3. KnowsRow(j)
  BY DEF KnowsRow
<1>4. call[t] = NoCall /\ call' = [call EXCEPT ![t] = j]
      /\ UNCHANGED <<licensing, ledger, history, unreported>>
  BY DEF Load
<1> QED
  BY <1>2, <1>3, <1>4 DEF Loads

LEMMA LoadSteps ==
  ASSUME TypeOK, NEW t \in Thread, NEW l \in Licence,
         \/ offer(t, l) \/ counter(t, l) \/ accept(t, l) \/ activate(t, l)
         \/ future_revoke(t, l) \/ terminate(t, l)
  PROVE  Loads(t, l)
<1>0. /\ eligible \in SUBSET Claim /\ licences[l].basis \in SUBSET Claim
      /\ licences[l].state \in REACHED
  BY DEF TypeOK, Row, eligible
<1>1. CASE offer(t, l)
  BY <1>0, <1>1, LoadLoads DEF offer, Transition, REACHED, TERMINAL_STATES
<1>2. CASE counter(t, l)
  BY <1>0, <1>2, LoadLoads DEF counter, REACHED, TERMINAL_STATES
<1>3. CASE accept(t, l)
  BY <1>0, <1>3, LoadLoads DEF accept, Transition, REACHED, TERMINAL_STATES
<1>4. CASE activate(t, l)
  BY <1>0, <1>4, LoadLoads DEF activate, activationBasis, Transition, REACHED, TERMINAL_STATES
<1>5. CASE future_revoke(t, l)
  BY <1>0, <1>5, LoadLoads DEF future_revoke, Transition, REACHED, TERMINAL_STATES
<1>6. CASE terminate(t, l)
  BY <1>0, <1>6, LoadLoads DEF terminate, Transition, REACHED, TERMINAL_STATES
<1> QED
  BY <1>1, <1>2, <1>3, <1>4, <1>5, <1>6

(* The steps of the specification, the loads as one kind.                   *)
LEMMA Steps ==
  ASSUME TypeOK, [Next]_vars
  PROVE  \/ \E c \in Claim : (assert_claim(c) \/ set_state(c)) /\ UNCHANGED usage
         \/ \E t \in Thread, l \in Licence : Loads(t, l) /\ UNCHANGED usage
         \/ \E t \in Thread, l \in Licence, x \in Terms : create_draft(t, l, x) /\ UNCHANGED usage
         \/ \E t \in Thread : (_transition(t) \/ Append_(t)) /\ UNCHANGED usage
         \/ \E t \in Thread, x \in Terms : WriteCounter(t, x) /\ UNCHANGED usage
         \/ \E t \in Thread, l \in Licence, k \in Ticket : IssueCheck(t, l, k)
         \/ \E t \in Thread, k \in Ticket, n \in Nonce : ConsumeCheck(t, k, n)
         \/ \E t \in Thread, l \in Licence, n \in Nonce : DeclareCheck(t, l, n)
         \/ \E t \in Thread : IssueCommit(t) \/ ConsumeCommit(t) \/ RecordReceipt(t) \/ UsageStop(t)
         \/ UNCHANGED vars
<1>1. CASE LicensingStep /\ UNCHANGED usage
  BY <1>1, LoadSteps DEF LicensingStep
<1>2. CASE UsageStep
  BY <1>2 DEF UsageStep
<1> QED
  BY <1>1, <1>2 DEF Next

(* What a transition leaves of the row.                                     *)
LEMMA RowMoves ==
  ASSUME NEW r \in Row, NEW to \in REACHED, NEW basis \in SUBSET Claim
  PROVE  LET q == [r EXCEPT !.state = to, !.basis = basis] IN
         /\ q = [state |-> to, version |-> r.version, terms |-> r.terms, basis |-> basis]
         /\ [state |-> to, version |-> r.version, terms |-> r.terms, basis |-> basis] \in Row
<1> DEFINE f == [r EXCEPT !.state = to]
<1>1. f \in Row /\ f = [state |-> to, version |-> r.version, terms |-> r.terms, basis |-> r.basis]
  BY DEF Row
<1> HIDE DEF f
<1>2. [f EXCEPT !.basis = basis] \in Row
      /\ [f EXCEPT !.basis = basis] = [state |-> to, version |-> r.version, terms |-> r.terms, basis |-> basis]
  BY <1>1 DEF Row
<1> QED
  BY <1>2 DEF f

(* The transactions, with what their callers had read.                       *)
Transits(t, j) ==
  /\ j \in Loading /\ j.op # "counter" /\ unchanged(j.lic, j.row)
  /\ licences' = [licences EXCEPT ![j.lic] =
                    [state |-> j.to, version |-> @.version, terms |-> @.terms, basis |-> j.basis]]
  /\ events' = [events EXCEPT ![j.lic] = Append(@, [from |-> j.row.state, to |-> j.to])]
  /\ agreed' = IF j.op = "accept" THEN [agreed EXCEPT ![j.lic] = j.row.terms] ELSE agreed
  /\ refused' = IF j.op = "activate" THEN [refused EXCEPT ![j.lic] = j.inactive] ELSE refused
  /\ call' = [call EXCEPT ![t] = [op |-> "report", ref |-> <<j.lic, Len(events[j.lic]) + 1>>]]
  /\ UNCHANGED <<claims, ledger, overtaken, unreported>>

LEMMA TransitionWrites ==
  ASSUME TypeOK, NEW t \in Thread, _transition(t)
  PROVE  Transits(t, call[t])
<1>1. call[t] \in Calls /\ call[t].op \in Transition
  BY DEF TypeOK, _transition
<1>2. call[t] \in Loading /\ call[t].op # "counter"
  BY <1>1, CallKinds DEF Transition
<1>3. /\ call[t].lic \in Licence /\ licences[call[t].lic] \in Row
      /\ call[t].to \in REACHED /\ call[t].basis \in SUBSET Claim
  BY <1>2 DEF Loading, TypeOK
<1> DEFINE r == licences[call[t].lic]
           q == [r EXCEPT !.state = call[t].to, !.basis = call[t].basis]
<1>4. q = [state |-> call[t].to, version |-> r.version, terms |-> r.terms, basis |-> call[t].basis]
  BY <1>3, RowMoves, Zenon
<1>5. /\ unchanged(call[t].lic, call[t].row)
      /\ Write(call[t].lic, q, call[t].row.state)
      /\ agreed' = IF call[t].op = "accept" THEN [agreed EXCEPT ![call[t].lic] = call[t].row.terms] ELSE agreed
      /\ refused' = IF call[t].op = "activate" THEN [refused EXCEPT ![call[t].lic] = call[t].inactive] ELSE refused
      /\ call' = [call EXCEPT ![t] = [op |-> "report", ref |-> <<call[t].lic, Len(events[call[t].lic]) + 1>>]]
      /\ UNCHANGED <<claims, ledger, overtaken, unreported>>
  BY DEF _transition, Report
<1> HIDE DEF q
<1>6. Write(call[t].lic, [state |-> call[t].to, version |-> r.version, terms |-> r.terms, basis |-> call[t].basis],
            call[t].row.state)
  BY <1>4, <1>5
<1> QED
  BY <1>2, <1>3, <1>5, <1>6 DEF Transits, Write

Counters(t, x, j) ==
  /\ j \in Loading /\ j.op = "counter"
  /\ licences' = [licences EXCEPT ![j.lic] =
                    [state |-> "COUNTERED", version |-> j.row.version + 1, terms |-> x, basis |-> {}]]
  /\ events' = [events EXCEPT ![j.lic] = Append(@, [from |-> "OFFERED", to |-> "COUNTERED"])]
  /\ overtaken' = IF Len(events[j.lic]) # j.seen THEN overtaken \cup {j.lic} ELSE overtaken
  /\ call' = [call EXCEPT ![t] = [op |-> "report", ref |-> <<j.lic, Len(events[j.lic]) + 1>>]]
  /\ UNCHANGED <<claims, ledger, agreed, refused, unreported>>

LEMMA CounterWrites ==
  ASSUME TypeOK, NEW t \in Thread, NEW x \in Terms, WriteCounter(t, x)
  PROVE  Counters(t, x, call[t])
<1>1. call[t] \in Calls /\ call[t].op = "counter"
  BY DEF TypeOK, WriteCounter, Doing
<1>2. call[t] \in Loading
  BY <1>1, CallKinds
<1> QED
  BY <1>1, <1>2 DEF Counters, WriteCounter, Write, Report

-----------------------------------------------------------------------------
(* Types.                                                                   *)

LEMMA InitTypes == Init => TypeOK
<1> SUFFICES ASSUME Init PROVE TypeOK
  OBVIOUS
<1>1. NoRow \in Row /\ EmptyBag = [e \in {} |-> 1]
  BY DEF NoRow, Row, REACHED, EmptyBag, SetToBag
<1>2. IsABag(ledger) /\ BagToSet(ledger) = {}
  BY <1>1 DEF Init, LicensingInit, IsABag, BagToSet
<1>3. ticketOf \in [Ticket -> Licence]
  BY LicensingAssumption DEF Init
<1> QED
  BY <1>1, <1>2, <1>3 DEF Init, LicensingInit, TypeOK

(* A bag with one more of an element.                                      *)
LEMMA OneMore ==
  ASSUME NEW b, IsABag(b), NEW ref
  PROVE  LET c == b (+) SetToBag({ref}) IN
         /\ IsABag(c) /\ BagToSet(c) = BagToSet(b) \cup {ref}
         /\ ref \notin BagToSet(b) => c[ref] = 1
         /\ \A e \in BagToSet(b) \ {ref} : c[e] = b[e]
<1> DEFINE one == SetToBag({ref})
           c == b (+) one
<1>1. DOMAIN one = {ref} /\ one[ref] = 1
  BY DEF SetToBag
<1> HIDE DEF one
<1>2. c = [e \in (DOMAIN b) \cup {ref} |-> (IF e \in DOMAIN b THEN b[e] ELSE 0) + (IF e \in {ref} THEN one[e] ELSE 0)]
  BY <1>1 DEF \oplus
<1>3. \A e \in DOMAIN b : b[e] \in Nat /\ b[e] > 0
  BY DEF IsABag
<1>4. DOMAIN c = (DOMAIN b) \cup {ref} /\ \A e \in DOMAIN c : c[e] \in Nat /\ c[e] > 0
  BY <1>1, <1>2, <1>3
<1>5. IsABag(c)
  <2>1. c = [e \in DOMAIN c |-> c[e]]
    BY <1>2
  <2> HIDE DEF c
  <2> QED
    BY <2>1, <1>4 DEF IsABag
<1>6. ref \notin DOMAIN b => c[ref] = 1
  BY <1>1, <1>2, <1>4
<1>7. \A e \in (DOMAIN b) \ {ref} : c[e] = b[e]
  BY <1>2, <1>3
<1> HIDE DEF c
<1> QED
  BY <1>4, <1>5, <1>6, <1>7 DEF BagToSet, one, c

LEMMA OneMoreOfIt ==
  ASSUME NEW b, IsABag(b), NEW ref, ref \notin BagToSet(b)
  PROVE  (b (+) SetToBag({ref}))[ref] = 1
BY OneMore

LEMMA StepTypes ==
  ASSUME TypeOK, [Next]_vars
  PROVE  TypeOK'
<1>1. CASE \E c \in Claim : (assert_claim(c) \/ set_state(c)) /\ UNCHANGED usage
  BY <1>1 DEF assert_claim, set_state, usage, history, TypeOK
<1>2. CASE \E t \in Thread, l \in Licence : Loads(t, l) /\ UNCHANGED usage
  BY <1>2 DEF Loads, Calls, licensing, history, usage, TypeOK
<1>3. ASSUME NEW t \in Thread, NEW l \in Licence, NEW x \in Terms, create_draft(t, l, x), UNCHANGED usage
      PROVE TypeOK'
  <2>1. [state |-> "DRAFT", version |-> 1, terms |-> x, basis |-> {}] \in Row
    BY DEF Row, REACHED
  <2>2. <<[from |-> "absent", to |-> "DRAFT"]>> \in Seq([from : REACHED, to : REACHED])
    BY DEF REACHED
  <2>3. [op |-> "report", ref |-> <<l, 1>>] \in Calls
    BY DEF Calls, Reporting, Ref
  <2> QED
    BY <1>3, <2>1, <2>2, <2>3 DEF create_draft, Report, history, usage, TypeOK
<1>4. ASSUME NEW t \in Thread, _transition(t), UNCHANGED usage
      PROVE TypeOK'
  <2>1. PICK j : Transits(t, j)
    BY <1>4, TransitionWrites
  <2>2. j \in Loading /\ j.lic \in Licence /\ Len(events[j.lic]) \in Nat
    BY <2>1 DEF Transits, Loading, TypeOK
  <2>3. [state |-> j.to, version |-> licences[j.lic].version, terms |-> licences[j.lic].terms, basis |-> j.basis] \in Row
    <3>1. licences[j.lic] \in Row
      BY <2>2 DEF TypeOK
    <3>2. j.to \in REACHED /\ j.basis \in SUBSET Claim
      BY <2>2 DEF Loading
    <3> QED
      BY <3>1, <3>2 DEF Row
  <2>4. Append(events[j.lic], [from |-> j.row.state, to |-> j.to]) \in Seq([from : REACHED, to : REACHED])
    <3>1. j.row.state \in REACHED /\ j.to \in REACHED
      BY <2>2 DEF Loading, Row
    <3>2. events[j.lic] \in Seq([from : REACHED, to : REACHED])
      BY <2>2 DEF TypeOK
    <3>3. [from |-> j.row.state, to |-> j.to] \in [from : REACHED, to : REACHED]
      BY <3>1
    <3> QED
      BY <3>2, <3>3
  <2>5. [op |-> "report", ref |-> <<j.lic, Len(events[j.lic]) + 1>>] \in Calls
    BY <2>2 DEF Calls, Reporting, Ref
  <2>6. j.row.terms \in Terms \cup {{}} /\ j.inactive \in SUBSET Claim
    BY <2>2 DEF Loading, Row
  <2> QED
    BY <1>4, <2>1, <2>2, <2>3, <2>4, <2>5, <2>6 DEF Transits, usage, TypeOK
<1>5. ASSUME NEW t \in Thread, NEW x \in Terms, WriteCounter(t, x), UNCHANGED usage
      PROVE TypeOK'
  <2>1. PICK j : Counters(t, x, j)
    BY <1>5, CounterWrites
  <2>2. j \in Loading /\ j.lic \in Licence /\ Len(events[j.lic]) \in Nat
    BY <2>1 DEF Counters, Loading, TypeOK
  <2>3. [state |-> "COUNTERED", version |-> j.row.version + 1, terms |-> x, basis |-> {}] \in Row
    BY <2>2 DEF Loading, Row, REACHED
  <2>4. Append(events[j.lic], [from |-> "OFFERED", to |-> "COUNTERED"]) \in Seq([from : REACHED, to : REACHED])
    BY <2>2 DEF REACHED, TypeOK
  <2>5. [op |-> "report", ref |-> <<j.lic, Len(events[j.lic]) + 1>>] \in Calls
    BY <2>2 DEF Calls, Reporting, Ref
  <2> QED
    BY <1>5, <2>1, <2>2, <2>3, <2>4, <2>5 DEF Counters, usage, TypeOK
<1>6. ASSUME NEW t \in Thread, Append_(t), UNCHANGED usage
      PROVE TypeOK'
  <2>1. call[t] \in Reporting
    BY <1>6, CallKinds DEF Append_, Doing, TypeOK
  <2>2. IsABag(ledger') /\ BagToSet(ledger') = BagToSet(ledger) \cup {call[t].ref}
    BY <1>6, OneMore DEF Append_, TypeOK
  <2>3. call[t].ref \in Ref
    BY <2>1 DEF Reporting
  <2>4. BagToSet(ledger') \subseteq Ref
    BY <2>2, <2>3 DEF TypeOK
  <2>5. call' \in [Thread -> Calls \cup {NoCall}]
    BY <1>6 DEF Append_, TypeOK
  <2>6. UNCHANGED <<licensing, history, unreported, usage>>
    BY <1>6 DEF Append_
  <2> QED
    BY <2>2, <2>4, <2>5, <2>6 DEF licensing, history, usage, TypeOK
<1>7. ASSUME NEW t \in Thread, NEW c \in Calls, Begin(t, c)
      PROVE TypeOK'
  BY <1>7 DEF Begin, licensing, history, usage, TypeOK
<1>8. CASE \E t \in Thread, l \in Licence, k \in Ticket : IssueCheck(t, l, k)
  BY <1>7, <1>8 DEF IssueCheck, Calls, Issuing
<1>9. CASE \/ \E t \in Thread, k \in Ticket, n \in Nonce : ConsumeCheck(t, k, n)
           \/ \E t \in Thread, l \in Licence, n \in Nonce : DeclareCheck(t, l, n)
  <2>1. ASSUME NEW t \in Thread, NEW k \in Ticket, NEW n \in Nonce, ConsumeCheck(t, k, n)
        PROVE TypeOK'
    <3>1. [op |-> "consume", ticket |-> k, lic |-> ticketOf[k], nonce |-> n] \in Calls
      BY DEF Calls, Using, TypeOK
    <3> QED
      BY <1>7, <2>1, <3>1 DEF ConsumeCheck
  <2>2. ASSUME NEW t \in Thread, NEW l \in Licence, NEW n \in Nonce, DeclareCheck(t, l, n)
        PROVE TypeOK'
    <3>1. [op |-> "receipt", ticket |-> NoTicket, lic |-> l, nonce |-> n] \in Calls
      BY DEF Calls, Using
    <3> QED
      BY <1>7, <2>2, <3>1 DEF DeclareCheck
  <2> QED
    BY <1>9, <2>1, <2>2
<1>10. ASSUME NEW t \in Thread, IssueCommit(t)
       PROVE TypeOK'
  <2>1. call[t] \in Issuing
    BY <1>10, CallKinds DEF IssueCommit, Doing, TypeOK
  <2> QED
    BY <1>10, <2>1 DEF IssueCommit, Issuing, licensing, history, TypeOK
<1>11. ASSUME NEW t \in Thread, ConsumeCommit(t)
       PROVE TypeOK'
  <2>1. call[t] \in Using
    BY <1>11, CallKinds DEF ConsumeCommit, Doing, TypeOK
  <2>2. [call[t] EXCEPT !.op = "receipt"] \in Calls
    BY <2>1 DEF Using, Calls
  <2> QED
    BY <1>11, <2>1, <2>2 DEF ConsumeCommit, Using, licensing, history, TypeOK
<1>12. ASSUME NEW t \in Thread, RecordReceipt(t)
       PROVE TypeOK'
  <2>1. call[t] \in Using
    BY <1>12, CallKinds DEF RecordReceipt, Doing, TypeOK
  <2>2. [op |-> "report", ref |-> <<"receipt", call[t].nonce>>] \in Calls
    BY <2>1 DEF Using, Calls, Reporting, Ref
  <2> QED
    <3>1. receipts' \subseteq [nonce : Nonce, ticket : Ticket \cup {NoTicket}, lic : Licence]
      BY <1>12, <2>1 DEF RecordReceipt, Using, TypeOK
    <3>2. call' \in [Thread -> Calls \cup {NoCall}]
      BY <1>12, <2>2 DEF RecordReceipt, Report, TypeOK
    <3> QED
      BY <1>12, <3>1, <3>2 DEF RecordReceipt, licensing, history, TypeOK
<1>13. ASSUME NEW t \in Thread, UsageStop(t)
       PROVE TypeOK'
  <2>1. call' \in [Thread -> Calls \cup {NoCall}]
    BY <1>13 DEF UsageStop, Stop, TypeOK
  <2>2. unreported' \subseteq Ref
    BY <1>13, CallKinds DEF UsageStop, Stop, Doing, Reporting, TypeOK
  <2>3. spent' \subseteq Ticket
    BY <1>13 DEF UsageStop, TypeOK
  <2> QED
    BY <1>13, <2>1, <2>2, <2>3 DEF UsageStop, Stop, licensing, history, TypeOK
<1>14. CASE UNCHANGED vars
  BY <1>14 DEF vars, licensing, history, usage, TypeOK
<1> QED
  BY <1>1, <1>2, <1>3, <1>4, <1>5, <1>6, <1>7, <1>8, <1>9, <1>10, <1>11, <1>12, <1>13, <1>14, Steps

(* Every variable keeps its type.                                           *)
THEOREM Typed == Spec => []TypeOK
  BY InitTypes, StepTypes, PTL DEF Spec

-----------------------------------------------------------------------------
(* The licences.                                                            *)

LEMMA InitLicences == Init => Licences
  BY UsageAssumption DEF Init, LicensingInit, Licences, Begun, LoadedSound, LicenceHistory, AgreementSound, NoRow, Calls

(* A step of another kind: the licences stay, and no call loads one.        *)
LEMMA OtherCalls ==
  ASSUME TypeOK, Licences, UNCHANGED <<licences, events, overtaken, agreed, refused>>,
         \/ UNCHANGED call
         \/ \E t \in Thread : \E c : c \notin Loading /\ call' = [call EXCEPT ![t] = c]
  PROVE  Licences'
<1>1. LoadedSound'
  <2> SUFFICES ASSUME NEW u \in Thread, call'[u] \in Loading
               PROVE  (KnowsRow(call[u]) /\ Current(call[u]))'
    BY DEF LoadedSound
  <2>1. call'[u] = call[u]
    BY DEF TypeOK
  <2>2. KnowsRow(call[u]) /\ Current(call[u])
    BY <2>1 DEF Licences, LoadedSound
  <2> QED
    BY <2>1, <2>2 DEF KnowsRow, Current
<1>2. Begun' /\ LicenceHistory' /\ AgreementSound'
  BY DEF Licences, Begun, LicenceHistory, AgreementSound
<1> QED
  BY <1>1, <1>2 DEF Licences

LEMMA LoadsKeep ==
  ASSUME TypeOK, Licences, NEW t \in Thread, NEW l \in Licence, Loads(t, l)
  PROVE  Licences'
<1>1. UNCHANGED <<licences, events, overtaken, agreed, refused>>
  BY DEF Loads, licensing, history
<1>2. PICK j \in Loading : /\ call' = [call EXCEPT ![t] = j] /\ KnowsRow(j)
                           /\ j.lic = l /\ j.row = licences[l] /\ j.seen = Len(events[l])
  BY DEF Loads
<1>3. LoadedSound'
  <2> SUFFICES ASSUME NEW u \in Thread, call'[u] \in Loading
               PROVE  (KnowsRow(call[u]) /\ Current(call[u]))'
    BY DEF LoadedSound
  <2>1. CASE u = t
    <3>1. call'[u] = j
      BY <1>2, <2>1 DEF TypeOK
    <3>2. licences[l] \in Row /\ Len(events[l]) \in Nat
      BY DEF TypeOK
    <3> QED
      BY <1>1, <1>2, <3>1, <3>2 DEF KnowsRow, Current, Older, Row
  <2>2. CASE u # t
    <3>1. call'[u] = call[u]
      BY <1>2, <2>2 DEF TypeOK
    <3> QED
      BY <1>1, <3>1 DEF Licences, LoadedSound, KnowsRow, Current
  <2> QED
    BY <2>1, <2>2
<1>4. Begun' /\ LicenceHistory' /\ AgreementSound'
  BY <1>1 DEF Licences, Begun, LicenceHistory, AgreementSound
<1> QED
  BY <1>3, <1>4 DEF Licences

LEMMA DraftKeeps ==
  ASSUME TypeOK, Licences, NEW t \in Thread, NEW l \in Licence, NEW x \in Terms, create_draft(t, l, x)
  PROVE  Licences'
<1>1. /\ licences' = [licences EXCEPT ![l] = [state |-> "DRAFT", version |-> 1, terms |-> x, basis |-> {}]]
      /\ events' = [events EXCEPT ![l] = <<[from |-> "absent", to |-> "DRAFT"]>>]
      /\ UNCHANGED <<overtaken, agreed, refused>>
      /\ licences[l].state = "absent"
      /\ call' = [call EXCEPT ![t] = [op |-> "report", ref |-> <<l, 1>>]]
  BY DEF create_draft, Report, history, NoRow
<1>2. events[l] = << >>
  BY <1>1 DEF Licences, Begun
<1>3. \A m \in Licence \ {l} : licences'[m] = licences[m] /\ events'[m] = events[m]
  BY <1>1 DEF TypeOK
<1>4. licences'[l].state = "DRAFT" /\ events'[l] = <<[from |-> "absent", to |-> "DRAFT"]>>
  BY <1>1 DEF TypeOK
<1>5. LoadedSound'
  <2> SUFFICES ASSUME NEW u \in Thread, call'[u] \in Loading
               PROVE  (KnowsRow(call[u]) /\ Current(call[u]))'
    BY DEF LoadedSound
  <2>1. call'[u] = call[u]
    BY <1>1 DEF TypeOK, Loading, Transition
  <2>2. KnowsRow(call[u]) /\ Current(call[u]) /\ call[u].lic \in Licence /\ call[u].seen \in Nat
    BY <2>1 DEF Licences, LoadedSound, Loading
  <2>3. call[u].lic # l
    BY <1>1, <1>2, <2>2 DEF KnowsRow, Current
  <2> QED
    BY <1>1, <1>3, <2>1, <2>2, <2>3 DEF KnowsRow, Current
<1>6. Begun' /\ AgreementSound'
  BY <1>1, <1>3, <1>4 DEF Licences, Begun, AgreementSound
<1>7. LicenceHistory'
  BY <1>1, <1>3, <1>4 DEF Licences, LicenceHistory
<1> QED
  BY <1>5, <1>6, <1>7 DEF Licences

(* An appended event that starts where the last one ended keeps a path.     *)
LEMMA PathGrows ==
  ASSUME NEW S, NEW path \in Seq([from : S, to : S]), NEW e \in [from : S, to : S], path # << >>,
         e.from = path[Len(path)].to, e.from \notin TERMINAL_STATES,
         \A n \in 2..Len(path) : path[n].from = path[n - 1].to /\ path[n].from \notin TERMINAL_STATES
  PROVE  LET longer == Append(path, e) IN
         /\ \A n \in 2..Len(longer) :
              longer[n].from = longer[n - 1].to /\ longer[n].from \notin TERMINAL_STATES
         /\ longer # << >> /\ Len(longer) = Len(path) + 1 /\ longer[Len(longer)].to = e.to
<1> DEFINE longer == Append(path, e)
<1>1. Len(longer) = Len(path) + 1 /\ Len(path) \in Nat /\ Len(path) > 0
  BY DEF longer
<1>2. longer[Len(path) + 1] = e /\ \A n \in 1..Len(path) : longer[n] = path[n]
  BY DEF longer
<1>3. ASSUME NEW n \in 2..Len(longer)
      PROVE  longer[n].from = longer[n - 1].to /\ longer[n].from \notin TERMINAL_STATES
  <2>1. CASE n = Len(path) + 1
    BY <1>1, <1>2, <2>1
  <2>2. CASE n # Len(path) + 1
    <3>1. n \in 2..Len(path) /\ n \in 1..Len(path) /\ n - 1 \in 1..Len(path)
      BY <1>1, <2>2
    <3> QED
      BY <1>2, <3>1
  <2> QED
    BY <2>1, <2>2
<1> QED
  BY <1>1, <1>2, <1>3

LEMMA TransitionKeeps ==
  ASSUME TypeOK, Licences, NEW t \in Thread, _transition(t)
  PROVE  Licences'
<1> DEFINE j == call[t]
           l == j.lic
<1>1. Transits(t, j)
  BY TransitionWrites
<1>2. /\ j \in Loading /\ l \in Licence /\ licences[l] \in Row /\ j.to \in REACHED
      /\ events[l] \in Seq([from : REACHED, to : REACHED])
  BY <1>1 DEF Transits, Loading, TypeOK
<1>3. KnowsRow(j) /\ Current(j)
  BY <1>2 DEF Licences, LoadedSound
<1>4. licences[l].state = j.row.state /\ licences[l].version = j.row.version
  BY <1>1 DEF Transits, unchanged
<1>5. /\ licences'[l] = [state |-> j.to, version |-> licences[l].version, terms |-> licences[l].terms,
                         basis |-> j.basis]
      /\ events'[l] = Append(events[l], [from |-> j.row.state, to |-> j.to])
      /\ \A m \in Licence \ {l} : licences'[m] = licences[m] /\ events'[m] = events[m]
                                  /\ agreed'[m] = agreed[m] /\ refused'[m] = refused[m]
      /\ overtaken' = overtaken
  BY <1>1, <1>2 DEF Transits, TypeOK
<1>6. agreed'[l] = IF j.op = "accept" THEN j.row.terms ELSE agreed[l]
  BY <1>1, <1>2 DEF Transits, TypeOK
<1>7. refused'[l] = IF j.op = "activate" THEN j.inactive ELSE refused[l]
  BY <1>1, <1>2 DEF Transits, TypeOK
<1>8. ASSUME NEW u \in Thread, call'[u] \in Loading
      PROVE  call'[u] = call[u] /\ call[u] \in Loading /\ KnowsRow(call[u]) /\ Current(call[u])
  BY <1>1, <1>8 DEF Transits, TypeOK, Loading, Transition, Licences, LoadedSound
<1>9. [from |-> j.row.state, to |-> j.to] \in [from : REACHED, to : REACHED]
  BY <1>2, <1>4 DEF Row
<1>10. events[l] # << >> /\ Len(events[l]) \in Nat /\ Len(events'[l]) = Len(events[l]) + 1
       /\ events'[l] # << >>
  BY <1>2, <1>3, <1>4, <1>5 DEF KnowsRow, Licences, Begun
<1> HIDE DEF j, l
<1>11. LoadedSound'
  <2> SUFFICES ASSUME NEW u \in Thread, call'[u] \in Loading
               PROVE  (KnowsRow(call[u]) /\ Current(call[u]))'
    BY DEF LoadedSound
  <2>1. call'[u] = call[u] /\ call[u] \in Loading /\ KnowsRow(call[u]) /\ Current(call[u])
    BY <1>8
  <2>2. call[u].lic \in Licence /\ call[u].seen \in Nat
    BY <2>1 DEF Loading
  <2>3. CASE call[u].lic = l
    BY <1>5, <1>10, <2>1, <2>2, <2>3 DEF KnowsRow, Current, Older
  <2>4. CASE call[u].lic # l
    BY <1>5, <2>1, <2>2, <2>4 DEF KnowsRow, Current
  <2> QED
    BY <2>3, <2>4
<1>12. Begun'
  BY <1>2, <1>3, <1>5, <1>10 DEF Begun, Licences, KnowsRow
<1>13. LicenceHistory'
  <2> SUFFICES ASSUME NEW m \in Licence \ overtaken
               PROVE  LET path == events'[m] IN
                 /\ \A n \in 2..Len(path) : path[n].from = path[n - 1].to /\ path[n].from \notin TERMINAL_STATES
                 /\ path # << >> => path[Len(path)].to = licences'[m].state
    BY <1>5 DEF LicenceHistory
  <2>1. /\ \A n \in 2..Len(events[m]) :
             events[m][n].from = events[m][n - 1].to /\ events[m][n].from \notin TERMINAL_STATES
        /\ events[m] # << >> => events[m][Len(events[m])].to = licences[m].state
    BY DEF Licences, LicenceHistory
  <2>2. CASE m = l
    <3> DEFINE e == [from |-> j.row.state, to |-> j.to]
    <3>1. /\ e.from = events[l][Len(events[l])].to /\ e.from \notin TERMINAL_STATES /\ e.to = j.to
          /\ e \in [from : REACHED, to : REACHED]
      BY <1>3, <1>4, <1>9, <1>10, <2>1, <2>2 DEF KnowsRow
    <3>2. \A n \in 2..Len(events[l]) :
            events[l][n].from = events[l][n - 1].to /\ events[l][n].from \notin TERMINAL_STATES
      BY <2>1, <2>2
    <3>3. events'[l] = Append(events[l], e)
      BY <1>5
    <3> HIDE DEF e
    <3>4. /\ \A n \in 2..Len(events'[l]) :
               events'[l][n].from = events'[l][n - 1].to /\ events'[l][n].from \notin TERMINAL_STATES
          /\ events'[l][Len(events'[l])].to = e.to
      BY <1>2, <1>10, <3>1, <3>2, <3>3, PathGrows
    <3>5. licences'[l].state = e.to
      BY <1>5, <3>1
    <3> QED
      BY <2>2, <3>4, <3>5
  <2>3. CASE m # l
    BY <1>5, <2>1, <2>3
  <2> QED
    BY <2>2, <2>3
<1>14. AgreementSound'
  <2> SUFFICES ASSUME NEW m \in Licence \ overtaken
               PROVE  /\ licences'[m].state \in {"ACCEPTED", "ACTIVE"} => licences'[m].terms = agreed'[m]
                      /\ licences'[m].state = "ACTIVE" =>
                           licences'[m].basis # {} /\ licences'[m].basis \cap refused'[m] = {}
    BY <1>5 DEF AgreementSound
  <2>1. /\ licences[m].state \in {"ACCEPTED", "ACTIVE"} => licences[m].terms = agreed[m]
        /\ licences[m].state = "ACTIVE" => licences[m].basis # {} /\ licences[m].basis \cap refused[m] = {}
    BY DEF Licences, AgreementSound
  <2>2. CASE m = l
    <3>1. licences[l].terms = j.row.terms
      BY <1>3, <1>4, <2>2 DEF Current, Older, l
    <3>2. CASE j.to = "ACCEPTED"
      BY <1>3, <1>5, <1>6, <2>2, <3>1, <3>2 DEF KnowsRow
    <3>3. CASE j.to = "ACTIVE"
      BY <1>3, <1>4, <1>5, <1>6, <1>7, <2>1, <2>2, <3>3 DEF KnowsRow
    <3>4. CASE j.to \notin {"ACCEPTED", "ACTIVE"}
      BY <1>5, <2>2, <3>4
    <3> QED
      BY <3>2, <3>3, <3>4
  <2>3. CASE m # l
    BY <1>5, <2>1, <2>3
  <2> QED
    BY <2>2, <2>3
<1> QED
  BY <1>11, <1>12, <1>13, <1>14 DEF Licences

LEMMA CounterKeeps ==
  ASSUME TypeOK, Licences, NEW t \in Thread, NEW x \in Terms, WriteCounter(t, x)
  PROVE  Licences'
<1> DEFINE j == call[t]
           l == j.lic
           e == [from |-> "OFFERED", to |-> "COUNTERED"]
<1>1. Counters(t, x, j)
  BY CounterWrites
<1>2. /\ j \in Loading /\ l \in Licence /\ licences[l] \in Row /\ j.op = "counter"
      /\ events[l] \in Seq([from : REACHED, to : REACHED]) /\ j.row.version \in Nat
  BY <1>1 DEF Counters, Loading, Row, TypeOK
<1>3. KnowsRow(j) /\ Current(j)
  BY <1>2 DEF Licences, LoadedSound
<1>4. /\ licences'[l] = [state |-> "COUNTERED", version |-> j.row.version + 1, terms |-> x, basis |-> {}]
      /\ events'[l] = Append(events[l], e)
      /\ \A m \in Licence \ {l} : licences'[m] = licences[m] /\ events'[m] = events[m]
      /\ agreed' = agreed /\ refused' = refused
  BY <1>1, <1>2 DEF Counters, TypeOK
<1>5. /\ Len(events'[l]) = Len(events[l]) + 1 /\ Len(events[l]) \in Nat /\ events'[l] # << >>
      /\ e \in [from : REACHED, to : REACHED] /\ e.from = "OFFERED" /\ e.to = "COUNTERED"
  BY <1>2, <1>4 DEF REACHED
(* Unless the row had changed, it is the row that was offered.              *)
<1>6. l \notin overtaken' => licences[l] = j.row /\ j.row.state = "OFFERED" /\ events[l] # << >>
  BY <1>1, <1>2, <1>3 DEF Counters, KnowsRow, Current, Licences, Begun
<1>7. overtaken \subseteq overtaken' /\ overtaken' \subseteq overtaken \cup {l}
  BY <1>1 DEF Counters
<1>8. ASSUME NEW u \in Thread, call'[u] \in Loading
      PROVE  call'[u] = call[u] /\ call[u] \in Loading /\ KnowsRow(call[u]) /\ Current(call[u])
  BY <1>1, <1>8 DEF Counters, TypeOK, Loading, Transition, Licences, LoadedSound
<1> HIDE DEF j, l, e
<1>9. LoadedSound'
  <2> SUFFICES ASSUME NEW u \in Thread, call'[u] \in Loading
               PROVE  (KnowsRow(call[u]) /\ Current(call[u]))'
    BY DEF LoadedSound
  <2>1. call'[u] = call[u] /\ call[u] \in Loading /\ KnowsRow(call[u]) /\ Current(call[u])
    BY <1>8
  <2>2. call[u].lic \in Licence /\ call[u].seen \in Nat /\ call[u].row.version \in Nat
    BY <2>1 DEF Loading, Row
  <2>3. CASE call[u].lic = l
    <3>1. l \notin overtaken' => Older(call[u].row, licences'[l])
      BY <1>2, <1>4, <1>6, <1>7, <2>1, <2>2, <2>3 DEF Current, Older
    <3> QED
      BY <1>5, <2>1, <2>2, <2>3, <3>1 DEF KnowsRow, Current
  <2>4. CASE call[u].lic # l
    BY <1>4, <1>7, <2>1, <2>2, <2>4 DEF KnowsRow, Current
  <2> QED
    BY <2>3, <2>4
<1>10. Begun'
  BY <1>2, <1>4, <1>5 DEF Begun, Licences
<1>11. LicenceHistory'
  <2> SUFFICES ASSUME NEW m \in Licence, m \notin overtaken'
               PROVE  LET path == events'[m] IN
                 /\ \A n \in 2..Len(path) : path[n].from = path[n - 1].to /\ path[n].from \notin TERMINAL_STATES
                 /\ path # << >> => path[Len(path)].to = licences'[m].state
    BY DEF LicenceHistory
  <2>1. /\ \A n \in 2..Len(events[m]) :
             events[m][n].from = events[m][n - 1].to /\ events[m][n].from \notin TERMINAL_STATES
        /\ events[m] # << >> => events[m][Len(events[m])].to = licences[m].state
    BY <1>7 DEF Licences, LicenceHistory
  <2>2. CASE m = l
    <3>1. /\ events[l] # << >> /\ e.from = events[l][Len(events[l])].to /\ e.from \notin TERMINAL_STATES
      BY <1>5, <1>6, <2>1, <2>2 DEF TERMINAL_STATES
    <3>2. \A n \in 2..Len(events[l]) :
            events[l][n].from = events[l][n - 1].to /\ events[l][n].from \notin TERMINAL_STATES
      BY <2>1, <2>2
    <3>3. /\ \A n \in 2..Len(events'[l]) :
               events'[l][n].from = events'[l][n - 1].to /\ events'[l][n].from \notin TERMINAL_STATES
          /\ events'[l][Len(events'[l])].to = e.to
      BY <1>2, <1>4, <1>5, <3>1, <3>2, PathGrows
    <3>4. licences'[l].state = e.to
      BY <1>4, <1>5
    <3> QED
      BY <2>2, <3>3, <3>4
  <2>3. CASE m # l
    BY <1>4, <2>1, <2>3
  <2> QED
    BY <2>2, <2>3
<1>12. AgreementSound'
  BY <1>4, <1>7 DEF Licences, AgreementSound
<1> QED
  BY <1>9, <1>10, <1>11, <1>12 DEF Licences

LEMMA LicencesKept ==
  ASSUME TypeOK, Licences, [Next]_vars
  PROVE  Licences'
<1>1. CASE \E c \in Claim : (assert_claim(c) \/ set_state(c)) /\ UNCHANGED usage
  BY <1>1, OtherCalls DEF assert_claim, set_state, history
<1>2. CASE \E t \in Thread, l \in Licence : Loads(t, l) /\ UNCHANGED usage
  BY <1>2, LoadsKeep
<1>3. CASE \E t \in Thread, l \in Licence, x \in Terms : create_draft(t, l, x) /\ UNCHANGED usage
  BY <1>3, DraftKeeps
<1>4. CASE \E t \in Thread : (_transition(t) \/ Append_(t)) /\ UNCHANGED usage
  <2>1. NoCall \notin Loading
    BY UsageAssumption DEF Calls
  <2>2. ASSUME NEW t \in Thread, Append_(t) PROVE Licences'
    BY <2>1, <2>2, OtherCalls DEF Append_, licensing, history
  <2> QED
    BY <1>4, <2>2, TransitionKeeps
<1>5. CASE \E t \in Thread, x \in Terms : WriteCounter(t, x) /\ UNCHANGED usage
  BY <1>5, CounterKeeps
<1>6. CASE \/ \E t \in Thread, l \in Licence, k \in Ticket : IssueCheck(t, l, k)
           \/ \E t \in Thread, k \in Ticket, n \in Nonce : ConsumeCheck(t, k, n)
           \/ \E t \in Thread, l \in Licence, n \in Nonce : DeclareCheck(t, l, n)
  <2>1. PICK t \in Thread : \E c : c \notin Loading /\ Begin(t, c)
    BY <1>6 DEF IssueCheck, ConsumeCheck, DeclareCheck, Loading, Transition
  <2> QED
    BY <2>1, OtherCalls DEF Begin, licensing, history
<1>7. CASE \E t \in Thread : IssueCommit(t) \/ ConsumeCommit(t) \/ RecordReceipt(t) \/ UsageStop(t)
  <2>1. PICK t \in Thread : IssueCommit(t) \/ ConsumeCommit(t) \/ RecordReceipt(t) \/ UsageStop(t)
    BY <1>7
  <2>2. UNCHANGED <<licences, events, overtaken, agreed, refused>>
    BY <2>1 DEF IssueCommit, ConsumeCommit, RecordReceipt, UsageStop, Stop, licensing, history
  <2>3. \E c : c \notin Loading /\ call' = [call EXCEPT ![t] = c]
    <3>1. NoCall \notin Loading
      BY UsageAssumption DEF Calls
    <3>2. CASE IssueCommit(t) \/ UsageStop(t)
      BY <3>1, <3>2 DEF IssueCommit, UsageStop, Stop
    <3>3. CASE ConsumeCommit(t)
      <4>1. call[t] \in Using
        BY <3>3, CallKinds DEF ConsumeCommit, Doing, TypeOK
      <4>2. [call[t] EXCEPT !.op = "receipt"] \notin Loading
        BY <4>1 DEF Using, Loading, Transition
      <4> QED
        BY <3>3, <4>2 DEF ConsumeCommit
    <3>4. CASE RecordReceipt(t)
      BY <3>4 DEF RecordReceipt, Report, Loading, Transition
    <3> QED
      BY <2>1, <3>2, <3>3, <3>4
  <2> QED
    BY <2>2, <2>3, OtherCalls
<1>8. CASE UNCHANGED vars
  BY <1>8, OtherCalls DEF vars, licensing, history
<1> QED
  BY <1>1, <1>2, <1>3, <1>4, <1>5, <1>6, <1>7, <1>8, Steps

(* Unless a counter-offer was made from a row that had changed, a licence's  *)
(* events are one path to its state, which a terminal state ends.           *)
THEOREM HistoryKept == Spec => []LicenceHistory
<1>1. Init => TypeOK /\ Licences
  BY InitTypes, InitLicences
<1>2. TypeOK /\ Licences /\ [Next]_vars => (TypeOK /\ Licences)'
  BY StepTypes, LicencesKept
<1>3. TypeOK /\ Licences => LicenceHistory
  BY DEF Licences
<1> QED
  BY <1>1, <1>2, <1>3, PTL DEF Spec

(* With the same exception, an accepted licence has the terms its accepter   *)
(* read, and an active one rests on claims its activation found active.     *)
THEOREM AgreementKept == Spec => []AgreementSound
<1>1. Init => TypeOK /\ Licences
  BY InitTypes, InitLicences
<1>2. TypeOK /\ Licences /\ [Next]_vars => (TypeOK /\ Licences)'
  BY StepTypes, LicencesKept
<1>3. TypeOK /\ Licences => AgreementSound
  BY DEF Licences
<1> QED
  BY <1>1, <1>2, <1>3, PTL DEF Spec

-----------------------------------------------------------------------------
(* Tickets.                                                                 *)

Mine(k) == {r \in receipts : r.ticket = k}

(* A step that moves no ticket past its check and records nothing.          *)
LEMMA OtherTickets ==
  ASSUME TypeOK, Tickets, NEW t \in Thread, NEW c, call' = [call EXCEPT ![t] = c],
         ~Doing(t, "receipt"),
         c = NoCall \/ c.op \notin {"consume", "receipt"} \/ (c.op = "receipt" /\ c.ticket \notin Ticket),
         UNCHANGED <<tickets, receipts, spent>>
  PROVE  Tickets'
<1>1. call'[t] = c /\ \A u \in Thread \ {t} : call'[u] = call[u]
  BY DEF TypeOK
<1>2. \A u \in Thread : Doing(u, "consume")' => u # t /\ Doing(u, "consume") /\ call'[u] = call[u]
  BY <1>1 DEF Doing
<1>3. \A u \in Thread : Doing(u, "receipt")' /\ (call[u].ticket \in Ticket)' =>
        u # t /\ Doing(u, "receipt") /\ call'[u] = call[u]
  BY <1>1 DEF Doing
<1>4. \A u \in Thread : Doing(u, "receipt") => Doing(u, "receipt")' /\ call'[u] = call[u]
  BY <1>1 DEF Doing
<1>5. TicketCalls'
  BY <1>2, <1>3 DEF Tickets, TicketCalls
<1>6. TicketsAccounted'
  BY <1>4 DEF Tickets, TicketsAccounted
<1> QED
  BY <1>5, <1>6 DEF Tickets

LEMMA InitTickets == Init => Tickets
<1> SUFFICES ASSUME Init PROVE Tickets
  OBVIOUS
<1>1. \A t \in Thread : call[t] = NoCall
  BY DEF Init, LicensingInit
<1>2. TicketCalls
  BY <1>1 DEF Init, TicketCalls, Doing
<1>3. ASSUME NEW k \in Ticket PROVE Mine(k) = {} /\ tickets[k] = "absent"
  BY DEF Init, Mine
<1>4. TicketsAccounted
  BY <1>3, FS_EmptySet DEF TicketsAccounted, Mine
<1> QED
  BY <1>2, <1>4 DEF Tickets

LEMMA IdleTickets ==
  ASSUME Tickets, UNCHANGED <<call, tickets, receipts, spent>>
  PROVE  Tickets'
BY DEF Tickets, TicketCalls, TicketsAccounted, Doing

LEMMA IssueKeeps ==
  ASSUME TypeOK, Tickets, NEW t \in Thread, IssueCommit(t)
  PROVE  Tickets'
<1> DEFINE k == call[t].ticket
<1>1. call[t] \in Issuing /\ k \in Ticket
  BY CallKinds DEF IssueCommit, Doing, TypeOK, Issuing
<1>2. /\ tickets[k] = "absent" /\ \A i \in Ticket \ {k} : tickets'[i] = tickets[i]
      /\ tickets'[k] = "ISSUED" /\ UNCHANGED <<receipts, spent>>
  BY <1>1 DEF IssueCommit, TypeOK
<1>3. call'[t] = NoCall /\ ~Doing(t, "receipt") /\ \A u \in Thread \ {t} : call'[u] = call[u]
  BY DEF IssueCommit, Doing, TypeOK
<1>4. /\ \A u \in Thread, op \in {"consume", "receipt"} :
           Doing(u, op)' => u # t /\ Doing(u, op) /\ call'[u] = call[u]
      /\ \A u \in Thread : Doing(u, "receipt") => Doing(u, "receipt")' /\ call'[u] = call[u]
  BY <1>3 DEF Doing
<1>5. spent \subseteq Ticket
  BY DEF TypeOK
<1>6. \A i \in Ticket : tickets'[i] = "CONSUMED" <=> tickets[i] = "CONSUMED"
  BY <1>2
<1> HIDE DEF k
<1>7. TicketCalls'
  <2>1. ASSUME NEW i \in spent' PROVE tickets'[i] = "CONSUMED"
    BY <1>2, <1>5, <1>6 DEF Tickets, TicketCalls
  <2>2. ASSUME NEW u \in Thread, Doing(u, "consume")'
        PROVE  /\ call'[u].ticket \in Ticket /\ tickets'[call'[u].ticket] = "ISSUED"
               /\ \A w \in Thread \ {u} : ~Doing(w, "consume")'
    BY <1>2, <1>4, <2>2 DEF Tickets, TicketCalls
  <2>3. ASSUME NEW u \in Thread, Doing(u, "receipt")', call'[u].ticket \in Ticket
        PROVE  /\ tickets'[call'[u].ticket] = "CONSUMED" /\ call'[u].ticket \notin spent'
               /\ \A r \in receipts' : r.ticket # call'[u].ticket
               /\ \A w \in Thread \ {u} : Doing(w, "receipt")' => call'[w].ticket # call'[u].ticket
    BY <1>2, <1>4, <1>6, <2>3 DEF Tickets, TicketCalls
  <2> QED
    BY <2>1, <2>2, <2>3 DEF TicketCalls
<1>8. TicketsAccounted'
  BY <1>2, <1>4, <1>6 DEF Tickets, TicketsAccounted
<1> QED
  BY <1>7, <1>8 DEF Tickets

LEMMA CheckKeeps ==
  ASSUME TypeOK, Tickets, NEW t \in Thread, NEW k \in Ticket, NEW n \in Nonce, ConsumeCheck(t, k, n)
  PROVE  Tickets'
<1>1. /\ tickets[k] = "ISSUED" /\ \A u \in Thread : ~Doing(u, "consume")
      /\ call[t] = NoCall /\ UNCHANGED <<tickets, receipts, spent>>
  BY DEF ConsumeCheck, consumable, Unlocked, Begin, usage
<1>2. /\ Doing(t, "consume")' /\ (call[t].ticket = k)' /\ ~Doing(t, "receipt")'
      /\ \A u \in Thread \ {t} : call'[u] = call[u]
  <2>1. call' = [call EXCEPT ![t] = [op |-> "consume", ticket |-> k, lic |-> ticketOf[k], nonce |-> n]]
    BY DEF ConsumeCheck, Begin
  <2>2. call'[t] = [op |-> "consume", ticket |-> k, lic |-> ticketOf[k], nonce |-> n]
    BY <2>1 DEF TypeOK
  <2>3. call'[t] \in Calls
    BY <2>2 DEF Calls, Using, TypeOK
  <2> QED
    BY <2>1, <2>2, <2>3, UsageAssumption DEF Doing, TypeOK
<1>3. \A u \in Thread : Doing(u, "receipt") <=> Doing(u, "receipt")'
  BY <1>1, <1>2 DEF Doing
<1>4. \A u \in Thread : Doing(u, "receipt") => u # t /\ call'[u] = call[u]
  BY <1>1, <1>2 DEF Doing
<1>5. \A u \in Thread \ {t} : ~Doing(u, "consume")'
  BY <1>1, <1>2 DEF Doing
<1>6. TicketCalls'
  BY <1>1, <1>2, <1>3, <1>4, <1>5 DEF Tickets, TicketCalls
<1>7. TicketsAccounted'
  BY <1>1, <1>3, <1>4 DEF Tickets, TicketsAccounted
<1> QED
  BY <1>6, <1>7 DEF Tickets

LEMMA ConsumeKeeps ==
  ASSUME TypeOK, Tickets, NEW t \in Thread, ConsumeCommit(t)
  PROVE  Tickets'
<1> DEFINE k == call[t].ticket
<1>1. call[t] \in Using /\ Doing(t, "consume")
  BY CallKinds DEF ConsumeCommit, Doing, TypeOK
<1>2. /\ k \in Ticket /\ tickets[k] = "ISSUED" /\ k \notin spent
      /\ \A u \in Thread \ {t} : ~Doing(u, "consume")
  BY <1>1 DEF Tickets, TicketCalls
<1>3. /\ \A r \in receipts : r.ticket # k
      /\ \A u \in Thread : Doing(u, "receipt") => call[u].ticket # k
  <2>1. Mine(k) = {}
    BY <1>2 DEF Tickets, TicketsAccounted, Mine
  <2> QED
    BY <1>2, <2>1 DEF Tickets, TicketCalls, Mine
<1>4. /\ tickets'[k] = "CONSUMED" /\ \A i \in Ticket \ {k} : tickets'[i] = tickets[i]
      /\ UNCHANGED <<receipts, spent>>
  BY <1>2 DEF ConsumeCommit, TypeOK
<1>5. /\ Doing(t, "receipt")' /\ call'[t].ticket = k /\ ~Doing(t, "consume")'
      /\ \A u \in Thread \ {t} : call'[u] = call[u]
  <2>1. call'[t] = [call[t] EXCEPT !.op = "receipt"] /\ \A u \in Thread \ {t} : call'[u] = call[u]
    BY DEF ConsumeCommit, TypeOK
  <2>2. call'[t] \in Using /\ call'[t].op = "receipt" /\ call'[t].ticket = k
    BY <1>1, <2>1 DEF Using
  <2>3. call'[t] # NoCall
    BY <2>2, UsageAssumption DEF Calls
  <2> QED
    BY <2>1, <2>2, <2>3 DEF Doing
<1>6. /\ \A u \in Thread : ~Doing(u, "consume")'
      /\ \A u \in Thread \ {t} : Doing(u, "receipt")' <=> Doing(u, "receipt")
  BY <1>2, <1>5 DEF Doing
<1>7. ~Doing(t, "receipt") /\ spent \subseteq Ticket
  BY <1>1 DEF Doing, TypeOK
<1> HIDE DEF k
<1>8. TicketCalls'
  <2>1. ASSUME NEW i \in spent' PROVE tickets'[i] = "CONSUMED"
    BY <1>4, <1>7 DEF Tickets, TicketCalls
  <2>2. ASSUME NEW u \in Thread, Doing(u, "receipt")', call'[u].ticket \in Ticket
        PROVE  /\ tickets'[call'[u].ticket] = "CONSUMED" /\ call'[u].ticket \notin spent'
               /\ \A r \in receipts' : r.ticket # call'[u].ticket
               /\ \A w \in Thread \ {u} : Doing(w, "receipt")' => call'[w].ticket # call'[u].ticket
    <3>1. CASE u = t
      <4>1. /\ tickets'[k] = "CONSUMED" /\ k \notin spent' /\ \A r \in receipts' : r.ticket # k
        BY <1>2, <1>3, <1>4
      <4>2. \A w \in Thread \ {t} : Doing(w, "receipt")' => call'[w].ticket # k
        BY <1>3, <1>5, <1>6
      <4> QED
        BY <1>5, <3>1, <4>1, <4>2
    <3>2. CASE u # t
      <4>1. Doing(u, "receipt") /\ call'[u] = call[u] /\ call[u].ticket # k
        BY <1>3, <1>5, <1>6, <2>2, <3>2
      <4>2. /\ tickets[call[u].ticket] = "CONSUMED" /\ call[u].ticket \notin spent
            /\ \A r \in receipts : r.ticket # call[u].ticket
            /\ \A w \in Thread \ {u} : Doing(w, "receipt") => call[w].ticket # call[u].ticket
        BY <2>2, <4>1 DEF Tickets, TicketCalls
      <4>3. ASSUME NEW w \in Thread \ {u}, Doing(w, "receipt")' PROVE call'[w].ticket # call'[u].ticket
        <5>1. CASE w = t
          BY <1>5, <4>1, <5>1
        <5>2. CASE w # t
          BY <1>5, <1>6, <4>1, <4>2, <4>3, <5>2
        <5> QED
          BY <5>1, <5>2
      <4> QED
        BY <1>4, <2>2, <4>1, <4>2, <4>3
    <3> QED
      BY <3>1, <3>2
  <2> QED
    BY <1>6, <2>1, <2>2 DEF TicketCalls
<1>9. TicketsAccounted'
  <2> SUFFICES ASSUME NEW i \in Ticket
               PROVE  /\ Cardinality(Mine(i)) <= 1
                      /\ Mine(i) # {} => tickets'[i] = "CONSUMED" /\ i \notin spent
                      /\ tickets'[i] = "CONSUMED" /\ Mine(i) = {} =>
                           i \in spent \/ \E u \in Thread : Doing(u, "receipt")' /\ call'[u].ticket = i
    BY <1>4 DEF TicketsAccounted, Mine
  <2>1. /\ Cardinality(Mine(i)) <= 1
        /\ Mine(i) # {} => tickets[i] = "CONSUMED" /\ i \notin spent
        /\ tickets[i] = "CONSUMED" /\ Mine(i) = {} =>
             i \in spent \/ \E u \in Thread : Doing(u, "receipt") /\ call[u].ticket = i
    BY DEF Tickets, TicketsAccounted, Mine
  <2>2. CASE i = k
    <3>1. Mine(i) = {}
      BY <1>3, <2>2 DEF Mine
    <3>2. \E u \in Thread : Doing(u, "receipt")' /\ call'[u].ticket = i
      BY <1>5, <2>2
    <3> QED
      BY <2>1, <3>1, <3>2
  <2>3. CASE i # k
    BY <1>4, <1>5, <1>6, <1>7, <2>1, <2>3
  <2> QED
    BY <2>2, <2>3
<1> QED
  BY <1>8, <1>9 DEF Tickets

LEMMA ReceiptKeeps ==
  ASSUME TypeOK, Tickets, NEW t \in Thread, RecordReceipt(t)
  PROVE  Tickets'
<1> DEFINE k == call[t].ticket
           r0 == [nonce |-> call[t].nonce, ticket |-> k, lic |-> call[t].lic]
<1>1. k \in Ticket \cup {NoTicket} /\ Doing(t, "receipt") /\ \A u \in Thread : ~Doing(u, "consume")
  BY CallKinds DEF RecordReceipt, Doing, TypeOK, Unlocked, Using
<1>2. receipts' = receipts \cup {r0} /\ r0.ticket = k /\ UNCHANGED <<tickets, spent>>
  BY DEF RecordReceipt
<1>3. /\ ~Doing(t, "receipt")' /\ ~Doing(t, "consume")' /\ \A u \in Thread \ {t} : call'[u] = call[u]
  BY DEF RecordReceipt, Report, Doing, TypeOK
<1>4. /\ \A u \in Thread : ~Doing(u, "consume")'
      /\ \A u \in Thread \ {t} : Doing(u, "receipt")' <=> Doing(u, "receipt")
  BY <1>1, <1>3 DEF Doing
<1>5. k \in Ticket =>
        /\ tickets[k] = "CONSUMED" /\ k \notin spent /\ \A r \in receipts : r.ticket # k
        /\ \A u \in Thread \ {t} : Doing(u, "receipt") => call[u].ticket # k
  BY <1>1 DEF Tickets, TicketCalls
<1> HIDE DEF k, r0
<1>6. TicketCalls'
  <2>1. ASSUME NEW u \in Thread, Doing(u, "receipt")', call'[u].ticket \in Ticket
        PROVE  /\ tickets'[call'[u].ticket] = "CONSUMED" /\ call'[u].ticket \notin spent'
               /\ \A r \in receipts' : r.ticket # call'[u].ticket
               /\ \A w \in Thread \ {u} : Doing(w, "receipt")' => call'[w].ticket # call'[u].ticket
    <3>1. u # t /\ Doing(u, "receipt") /\ call'[u] = call[u] /\ call[u].ticket # k
      BY <1>3, <1>4, <1>5, <2>1
    <3> QED
      BY <1>2, <1>3, <1>4, <2>1, <3>1 DEF Tickets, TicketCalls
  <2>2. \A i \in spent' : tickets'[i] = "CONSUMED"
    BY <1>2 DEF Tickets, TicketCalls
  <2> QED
    BY <1>4, <2>1, <2>2 DEF TicketCalls
<1>7. TicketsAccounted'
  <2> SUFFICES ASSUME NEW i \in Ticket
               PROVE  LET mine == Mine(i)' IN
                      /\ Cardinality(mine) <= 1
                      /\ mine # {} => tickets[i] = "CONSUMED" /\ i \notin spent
                      /\ tickets[i] = "CONSUMED" /\ mine = {} =>
                           i \in spent \/ \E u \in Thread : Doing(u, "receipt")' /\ call'[u].ticket = i
    BY <1>2 DEF TicketsAccounted, Mine
  <2>1. /\ Cardinality(Mine(i)) <= 1
        /\ Mine(i) # {} => tickets[i] = "CONSUMED" /\ i \notin spent
        /\ tickets[i] = "CONSUMED" /\ Mine(i) = {} =>
             i \in spent \/ \E u \in Thread : Doing(u, "receipt") /\ call[u].ticket = i
    BY DEF Tickets, TicketsAccounted, Mine
  <2>2. CASE i = k
    <3>1. Mine(i)' = {r0}
      BY <1>2, <1>5, <2>2 DEF Mine
    <3>2. Cardinality({r0}) = 1
      BY FS_Singleton
    <3> QED
      BY <1>5, <2>2, <3>1, <3>2
  <2>3. CASE i # k
    <3>1. Mine(i)' = Mine(i)
      BY <1>2, <2>3 DEF Mine
    <3>2. \A u \in Thread : Doing(u, "receipt") /\ call[u].ticket = i => Doing(u, "receipt")' /\ call'[u].ticket = i
      BY <1>3, <1>4, <2>3 DEF k
    <3> QED
      BY <2>1, <3>1, <3>2
  <2> QED
    BY <2>2, <2>3
<1> QED
  BY <1>6, <1>7 DEF Tickets

LEMMA StopKeeps ==
  ASSUME TypeOK, Tickets, NEW t \in Thread, UsageStop(t)
  PROVE  Tickets'
<1> DEFINE lost == IF Doing(t, "receipt") THEN {call[t].ticket} \cap Ticket ELSE {}
<1>1. spent' = spent \cup lost /\ lost \subseteq Ticket /\ UNCHANGED <<tickets, receipts>>
  BY DEF UsageStop
<1>2. /\ ~Doing(t, "receipt")' /\ ~Doing(t, "consume")' /\ \A u \in Thread \ {t} : call'[u] = call[u]
  BY DEF UsageStop, Stop, Doing, TypeOK
<1>3. \A u \in Thread, op \in {"consume", "receipt"} :
        Doing(u, op)' <=> u # t /\ Doing(u, op)
  BY <1>2 DEF Doing
<1>4. \A k \in lost :
        /\ Doing(t, "receipt") /\ call[t].ticket = k
        /\ tickets[k] = "CONSUMED" /\ \A r \in receipts : r.ticket # k
        /\ \A u \in Thread \ {t} : Doing(u, "receipt") => call[u].ticket # k
  BY DEF Tickets, TicketCalls
<1>5. Doing(t, "receipt") => \A k \in Ticket : call[t].ticket = k => k \in lost
  OBVIOUS
<1> HIDE DEF lost
<1>6. \A u \in Thread : Doing(u, "receipt") /\ u # t => Doing(u, "receipt")' /\ call'[u] = call[u]
  BY <1>2, <1>3
<1>7. TicketCalls'
  <2>1. \A k \in spent' : tickets'[k] = "CONSUMED"
    BY <1>1, <1>4 DEF Tickets, TicketCalls
  <2>2. ASSUME NEW u \in Thread, Doing(u, "consume")'
        PROVE  /\ call'[u].ticket \in Ticket /\ tickets'[call'[u].ticket] = "ISSUED"
               /\ \A w \in Thread \ {u} : ~Doing(w, "consume")'
    BY <1>1, <1>2, <1>3, <2>2 DEF Tickets, TicketCalls
  <2>3. ASSUME NEW u \in Thread, Doing(u, "receipt")', call'[u].ticket \in Ticket
        PROVE  /\ tickets'[call'[u].ticket] = "CONSUMED" /\ call'[u].ticket \notin spent'
               /\ \A r \in receipts' : r.ticket # call'[u].ticket
               /\ \A w \in Thread \ {u} : Doing(w, "receipt")' => call'[w].ticket # call'[u].ticket
    <3>1. u # t /\ Doing(u, "receipt") /\ call'[u] = call[u]
      BY <1>2, <1>3, <2>3
    <3>2. call[u].ticket \notin lost
      BY <1>4, <3>1
    <3> QED
      BY <1>1, <1>2, <1>3, <2>3, <3>1, <3>2 DEF Tickets, TicketCalls
  <2> QED
    BY <2>1, <2>2, <2>3 DEF TicketCalls
<1>8. TicketsAccounted'
  <2> SUFFICES ASSUME NEW i \in Ticket
               PROVE  /\ Cardinality(Mine(i)) <= 1
                      /\ Mine(i) # {} => tickets[i] = "CONSUMED" /\ i \notin spent'
                      /\ tickets[i] = "CONSUMED" /\ Mine(i) = {} =>
                           i \in spent' \/ \E u \in Thread : Doing(u, "receipt")' /\ call'[u].ticket = i
    BY <1>1 DEF TicketsAccounted, Mine
  <2>1. /\ Cardinality(Mine(i)) <= 1
        /\ Mine(i) # {} => tickets[i] = "CONSUMED" /\ i \notin spent
        /\ tickets[i] = "CONSUMED" /\ Mine(i) = {} =>
             i \in spent \/ \E u \in Thread : Doing(u, "receipt") /\ call[u].ticket = i
    BY DEF Tickets, TicketsAccounted, Mine
  <2>2. Mine(i) # {} => i \notin spent'
    BY <1>1, <1>4, <2>1 DEF Mine
  <2>3. \A u \in Thread : Doing(u, "receipt") /\ call[u].ticket = i =>
          i \in spent' \/ (Doing(u, "receipt")' /\ call'[u].ticket = i)
    <3> SUFFICES ASSUME NEW u \in Thread, Doing(u, "receipt"), call[u].ticket = i
                 PROVE  i \in spent' \/ (Doing(u, "receipt")' /\ call'[u].ticket = i)
      OBVIOUS
    <3>1. CASE u = t
      BY <1>1, <1>5, <3>1
    <3>2. CASE u # t
      BY <1>6, <3>2
    <3> QED
      BY <3>1, <3>2
  <2> QED
    BY <1>1, <2>1, <2>2, <2>3
<1> QED
  BY <1>7, <1>8 DEF Tickets

LEMMA TicketStepsKeep ==
  ASSUME TypeOK, Tickets, [Next]_vars
  PROVE  Tickets'
<1>1. CASE \E c \in Claim : (assert_claim(c) \/ set_state(c)) /\ UNCHANGED usage
  BY <1>1, IdleTickets DEF assert_claim, set_state, usage
<1>2. ASSUME NEW t \in Thread, NEW l \in Licence, Loads(t, l), UNCHANGED usage
      PROVE  Tickets'
  <2>1. PICK j \in Loading : call' = [call EXCEPT ![t] = j]
    BY <1>2 DEF Loads
  <2>2. ~Doing(t, "receipt") /\ j.op \notin {"consume", "receipt"}
    BY <1>2 DEF Loads, Doing, Loading, Transition
  <2> QED
    BY <1>2, <2>1, <2>2, OtherTickets DEF usage
<1>3. ASSUME NEW t \in Thread, NEW ref, Report(t, ref), ~Doing(t, "receipt"), UNCHANGED usage
      PROVE  Tickets'
  <2> DEFINE c == [op |-> "report", ref |-> ref]
  <2>1. c.op \notin {"consume", "receipt"} /\ call' = [call EXCEPT ![t] = c]
    BY <1>3 DEF Report
  <2> HIDE DEF c
  <2> QED
    BY <1>3, <2>1, OtherTickets DEF usage
<1>4. CASE \E t \in Thread, l \in Licence, x \in Terms : create_draft(t, l, x) /\ UNCHANGED usage
  BY <1>3, <1>4 DEF create_draft, Doing
<1>5. CASE \E t \in Thread : (_transition(t) \/ Append_(t)) /\ UNCHANGED usage
  <2>1. ASSUME NEW t \in Thread, Append_(t), UNCHANGED usage PROVE Tickets'
    BY <2>1, OtherTickets DEF Append_, Doing, usage
  <2>2. ASSUME NEW t \in Thread, _transition(t), UNCHANGED usage PROVE Tickets'
    BY <1>3, <2>2 DEF _transition, Doing, Transition
  <2> QED
    BY <1>5, <2>1, <2>2
<1>6. CASE \E t \in Thread, x \in Terms : WriteCounter(t, x) /\ UNCHANGED usage
  BY <1>3, <1>6 DEF WriteCounter, Doing
<1>7. ASSUME NEW t \in Thread, NEW l \in Licence, NEW k \in Ticket, IssueCheck(t, l, k)
      PROVE  Tickets'
  BY <1>7, OtherTickets DEF IssueCheck, Begin, Doing, usage
<1>8. ASSUME NEW t \in Thread, NEW l \in Licence, NEW n \in Nonce, DeclareCheck(t, l, n)
      PROVE  Tickets'
  BY <1>8, OtherTickets, UsageAssumption DEF DeclareCheck, Begin, Doing, usage
<1>9. CASE UNCHANGED vars
  BY <1>9, IdleTickets DEF vars, usage
<1> QED
  BY <1>1, <1>2, <1>4, <1>5, <1>6, <1>7, <1>8, <1>9, CheckKeeps, IssueKeeps, ConsumeKeeps, ReceiptKeeps,
     StopKeeps, Steps

(* A ticket has at most one receipt, and one consumed without has its call  *)
(* still at work, or stopped before.                                        *)
THEOREM TicketsKept == Spec => []TicketsAccounted
<1>1. Init => TypeOK /\ Tickets
  BY InitTypes, InitTickets
<1>2. TypeOK /\ Tickets /\ [Next]_vars => (TypeOK /\ Tickets)'
  BY StepTypes, TicketStepsKeep
<1>3. TypeOK /\ Tickets => TicketsAccounted
  BY DEF Tickets
<1> QED
  BY <1>1, <1>2, <1>3, PTL DEF Spec

-----------------------------------------------------------------------------
(* The ledger.                                                              *)

EventRef(x, evs) == \E l \in Licence : \E n \in DOMAIN evs[l] : x = <<l, n>>
ReceiptRef(x, rs) == \E r \in rs : x = <<"receipt", r.nonce>>

(* The records of a history of events and receipts.                         *)
Records(evs, rs) ==
  (UNION {{<<l, n>> : n \in DOMAIN evs[l]} : l \in Licence}) \cup {<<"receipt", r.nonce>> : r \in rs}

LEMMA InRecords ==
  ASSUME NEW evs, NEW rs, NEW x
  PROVE  x \in Records(evs, rs) <=> EventRef(x, evs) \/ ReceiptRef(x, rs)
<1> DEFINE Of(l) == {<<l, n>> : n \in DOMAIN evs[l]}
           All == UNION {Of(l) : l \in Licence}
<1>1. \A l : x \in Of(l) <=> \E n \in DOMAIN evs[l] : x = <<l, n>>
  OBVIOUS
<1> HIDE DEF Of
<1>2. x \in All <=> \E l \in Licence : x \in Of(l)
  OBVIOUS
<1>3. x \in All <=> EventRef(x, evs)
  BY <1>1, <1>2 DEF EventRef
<1>4. Records(evs, rs) = All \cup {<<"receipt", r.nonce>> : r \in rs}
  BY DEF Records, Of
<1> HIDE DEF All
<1> QED
  BY <1>3, <1>4 DEF ReceiptRef

LEMMA InRecorded ==
  /\ \A x : x \in Recorded <=> EventRef(x, events) \/ ReceiptRef(x, receipts)
  /\ \A x : x \in Recorded' <=> EventRef(x, events') \/ ReceiptRef(x, receipts')
<1>1. Recorded = Records(events, receipts) /\ Recorded' = Records(events', receipts')
  BY DEF Recorded, Records
<1> QED
  BY <1>1, InRecords

LEMMA SameRecords ==
  ASSUME UNCHANGED <<events, receipts>>
  PROVE  Recorded' = Recorded
BY DEF Recorded

(* A licence's next event is a new record.                                  *)
LEMMA EventRecorded ==
  ASSUME TypeOK, NEW l \in Licence, NEW e, events' = [events EXCEPT ![l] = Append(@, e)],
         UNCHANGED receipts
  PROVE  LET ref == <<l, Len(events[l]) + 1>> IN
         ref \notin Recorded /\ Recorded' = Recorded \cup {ref}
<1> DEFINE ref == <<l, Len(events[l]) + 1>>
<1>1. /\ Len(events[l]) \in Nat /\ DOMAIN events[l] = 1..Len(events[l])
      /\ DOMAIN events'[l] = 1..(Len(events[l]) + 1)
      /\ \A m \in Licence \ {l} : events'[m] = events[m]
  BY DEF TypeOK
<1>2. ~EventRef(ref, events)
  BY <1>1 DEF EventRef
<1>3. ~ReceiptRef(ref, receipts)
  BY UsageAssumption DEF ReceiptRef
<1>4. ASSUME NEW x
      PROVE  EventRef(x, events') <=> EventRef(x, events) \/ x = ref
  <2>1. ASSUME EventRef(x, events') PROVE EventRef(x, events) \/ x = ref
    <3>1. PICK m \in Licence : \E n \in DOMAIN events'[m] : x = <<m, n>>
      BY <2>1 DEF EventRef
    <3>2. PICK n \in DOMAIN events'[m] : x = <<m, n>>
      BY <3>1
    <3>3. CASE m # l
      BY <1>1, <3>2, <3>3 DEF EventRef
    <3>4. CASE m = l
      BY <1>1, <3>2, <3>4 DEF EventRef
    <3> QED
      BY <3>3, <3>4
  <2>2. ASSUME EventRef(x, events) PROVE EventRef(x, events')
    <3>1. \A m \in Licence : DOMAIN events[m] \subseteq DOMAIN events'[m]
      BY <1>1
    <3> QED
      BY <2>2, <3>1 DEF EventRef
  <2>3. EventRef(ref, events')
    <3>1. Len(events[l]) + 1 \in DOMAIN events'[l]
      BY <1>1
    <3> QED
      BY <3>1 DEF EventRef
  <2> QED
    BY <2>1, <2>2, <2>3
<1> HIDE DEF ref
<1>5. ref \notin Recorded
  BY <1>2, <1>3, InRecorded
<1>6. Recorded' = Recorded \cup {ref}
  BY <1>4, InRecorded
<1> QED
  BY <1>5, <1>6 DEF ref

(* A receipt of a nonce not used before is a new record.                    *)
LEMMA ReceiptRecorded ==
  ASSUME NEW r, fresh(r.nonce), receipts' = receipts \cup {r}, UNCHANGED events
  PROVE  LET ref == <<"receipt", r.nonce>> IN
         ref \notin Recorded /\ Recorded' = Recorded \cup {ref}
<1> DEFINE ref == <<"receipt", r.nonce>>
<1>1. ~EventRef(ref, events)
  BY UsageAssumption DEF EventRef
<1>2. ~ReceiptRef(ref, receipts)
  BY DEF ReceiptRef, fresh
<1>3. \A x : ReceiptRef(x, receipts') <=> ReceiptRef(x, receipts) \/ x = ref
  BY DEF ReceiptRef
<1>4. \A x : EventRef(x, events') <=> EventRef(x, events)
  BY DEF EventRef
<1> HIDE DEF ref
<1>5. ref \notin Recorded
  BY <1>1, <1>2, InRecorded
<1>6. Recorded' = Recorded \cup {ref}
  BY <1>3, <1>4, InRecorded
<1> QED
  BY <1>5, <1>6 DEF ref

LEMMA InitLedger == Init => Ledger
<1> SUFFICES ASSUME Init PROVE Ledger
  OBVIOUS
<1>1. \A t \in Thread : call[t] = NoCall
  BY DEF Init, LicensingInit
<1>2. BagToSet(ledger) = {}
  BY DEF Init, LicensingInit, EmptyBag, SetToBag, BagToSet
<1>3. events = [l \in Licence |-> << >>] /\ receipts = {} /\ unreported = {}
  BY DEF Init, LicensingInit
<1>4. Recorded = {}
  <2>1. \A x : ~EventRef(x, events) /\ ~ReceiptRef(x, receipts)
    BY <1>3 DEF EventRef, ReceiptRef
  <2> QED
    BY <2>1, InRecorded
<1> QED
  BY <1>1, <1>2, <1>3, <1>4 DEF Ledger, LedgerCalls, LedgerMatches, Doing

(* A step that neither records, nor reports, nor stops a report.            *)
LEMMA OtherReports ==
  ASSUME TypeOK, Ledger, UNCHANGED <<events, receipts, ledger, unreported>>,
         \/ UNCHANGED call
         \/ \E t \in Thread : \E c : /\ call' = [call EXCEPT ![t] = c]
                                     /\ ~Doing(t, "report") /\ (c = NoCall \/ c.op # "report")
  PROVE  Ledger'
<1>1. Recorded' = Recorded
  BY SameRecords
<1>2. \A u \in Thread : Doing(u, "report")' <=> Doing(u, "report")
  BY DEF TypeOK, Doing
<1>3. \A u \in Thread : Doing(u, "report") => call'[u] = call[u]
  BY DEF TypeOK, Doing
<1>4. LedgerCalls'
  BY <1>1, <1>2, <1>3 DEF Ledger, LedgerCalls
<1>5. LedgerMatches'
  BY <1>1, <1>2, <1>3 DEF Ledger, LedgerMatches
<1> QED
  BY <1>4, <1>5 DEF Ledger

(* A new record, and the call about to report it.                           *)
LEMMA RecordKeeps ==
  ASSUME TypeOK, Ledger, NEW t \in Thread, NEW ref \in Ref, ref \notin Recorded,
         Recorded' = Recorded \cup {ref}, Report(t, ref), ~Doing(t, "report"),
         UNCHANGED <<ledger, unreported>>
  PROVE  Ledger'
<1>1. /\ Doing(t, "report")' /\ call'[t].ref = ref
      /\ \A u \in Thread \ {t} : call'[u] = call[u]
  <2> DEFINE c == [op |-> "report", ref |-> ref]
  <2>1. c \in Calls /\ c.op = "report" /\ c.ref = ref
    BY DEF Calls, Reporting
  <2>2. call' = [call EXCEPT ![t] = c]
    BY DEF Report
  <2> HIDE DEF c
  <2> QED
    BY <2>1, <2>2, UsageAssumption DEF Doing, TypeOK
<1>2. \A u \in Thread \ {t} : Doing(u, "report")' <=> Doing(u, "report")
  BY <1>1 DEF Doing
<1>3. ref \notin BagToSet(ledger) /\ ref \notin unreported
  BY DEF Ledger, LedgerCalls, LedgerMatches
<1>4. \A u \in Thread : Doing(u, "report") => call[u].ref # ref /\ u # t
  BY DEF Ledger, LedgerCalls
<1>5. ASSUME NEW u \in Thread, Doing(u, "report")'
      PROVE  /\ call'[u].ref \in Recorded' \ (BagToSet(ledger) \cup unreported)
             /\ \A w \in Thread \ {u} : Doing(w, "report")' => call'[w].ref # call'[u].ref
  <2>1. CASE u = t
    <3>1. \A w \in Thread \ {t} : Doing(w, "report")' => call'[w].ref # ref
      BY <1>1, <1>2, <1>4
    <3> QED
      BY <1>1, <1>3, <2>1, <3>1
  <2>2. CASE u # t
    <3>1. Doing(u, "report") /\ call'[u] = call[u] /\ call[u].ref # ref
      BY <1>1, <1>2, <1>4, <1>5, <2>2
    <3>2. /\ call[u].ref \in Recorded \ (BagToSet(ledger) \cup unreported)
          /\ \A w \in Thread \ {u} : Doing(w, "report") => call[w].ref # call[u].ref
      BY <3>1 DEF Ledger, LedgerCalls
    <3>3. ASSUME NEW w \in Thread \ {u}, Doing(w, "report")' PROVE call'[w].ref # call'[u].ref
      <4>1. CASE w = t
        BY <1>1, <3>1, <4>1
      <4>2. CASE w # t
        BY <1>1, <1>2, <3>1, <3>2, <3>3, <4>2
      <4> QED
        BY <4>1, <4>2
    <3> QED
      BY <3>1, <3>2, <3>3
  <2> QED
    BY <2>1, <2>2
<1>6. LedgerCalls'
  BY <1>5 DEF Ledger, LedgerCalls
<1>7. LedgerMatches'
  <2>1. ASSUME NEW x \in Recorded' \ (BagToSet(ledger) \cup unreported)
        PROVE  \E u \in Thread : Doing(u, "report")' /\ call'[u].ref = x
    <3>1. CASE x = ref
      BY <1>1, <3>1
    <3>2. CASE x # ref
      BY <1>1, <1>2, <1>4, <3>2 DEF Ledger, LedgerMatches
    <3> QED
      BY <3>1, <3>2
  <2> QED
    BY <2>1 DEF Ledger, LedgerMatches
<1> QED
  BY <1>6, <1>7 DEF Ledger

LEMMA AppendKeeps ==
  ASSUME TypeOK, Ledger, NEW t \in Thread, Append_(t), UNCHANGED usage
  PROVE  Ledger'
<1> DEFINE ref == call[t].ref
<1>1. /\ Doing(t, "report") /\ ref \in Recorded \ (BagToSet(ledger) \cup unreported)
      /\ \A u \in Thread \ {t} : Doing(u, "report") => call[u].ref # ref
  BY DEF Append_, Ledger, LedgerCalls
<1>2. /\ BagToSet(ledger') = BagToSet(ledger) \cup {ref}
      /\ \A e \in BagToSet(ledger') : ledger'[e] = 1
  <2>1. \A e \in BagToSet(ledger) : ledger[e] = 1
    BY DEF Ledger, LedgerMatches
  <2>2. IsABag(ledger) /\ ledger' = ledger (+) SetToBag({call[t].ref})
    BY DEF Append_, TypeOK
  <2>3. BagToSet(ledger') = BagToSet(ledger) \cup {call[t].ref}
    BY <2>2, OneMore
  <2>4. ledger'[call[t].ref] = 1
    BY <1>1, <2>2, OneMoreOfIt
  <2>5. \A e \in BagToSet(ledger) \ {call[t].ref} : ledger'[e] = ledger[e]
    BY <2>2, OneMore
  <2> QED
    BY <1>1, <2>1, <2>3, <2>4, <2>5
<1>3. Recorded' = Recorded /\ unreported' = unreported
  BY SameRecords DEF Append_, licensing, usage
<1>4. ~Doing(t, "report")' /\ \A u \in Thread \ {t} : call'[u] = call[u]
  BY DEF Append_, Doing, TypeOK
<1>5. \A u \in Thread : Doing(u, "report")' <=> u # t /\ Doing(u, "report")
  BY <1>4 DEF Doing
<1> HIDE DEF ref
<1>6. LedgerCalls'
  <2>1. ASSUME NEW u \in Thread, Doing(u, "report")'
        PROVE  /\ call'[u].ref \in Recorded \ (BagToSet(ledger') \cup unreported)
               /\ \A w \in Thread \ {u} : Doing(w, "report")' => call'[w].ref # call'[u].ref
    BY <1>1, <1>2, <1>4, <1>5, <2>1 DEF Ledger, LedgerCalls
  <2> QED
    BY <1>3, <2>1 DEF Ledger, LedgerCalls
<1>7. LedgerMatches'
  <2>1. BagToSet(ledger') \subseteq Recorded \ unreported
    BY <1>1, <1>2 DEF Ledger, LedgerMatches
  <2>2. ASSUME NEW x \in Recorded \ (BagToSet(ledger') \cup unreported)
        PROVE  \E u \in Thread : Doing(u, "report")' /\ call'[u].ref = x
    <3>1. PICK u \in Thread : Doing(u, "report") /\ call[u].ref = x
      BY <1>2 DEF Ledger, LedgerMatches
    <3>2. u # t
      BY <1>2, <3>1 DEF ref
    <3> QED
      BY <1>4, <1>5, <3>1, <3>2
  <2> QED
    BY <1>2, <1>3, <2>1, <2>2 DEF LedgerMatches
<1> QED
  BY <1>6, <1>7 DEF Ledger

LEMMA StopReports ==
  ASSUME TypeOK, Ledger, NEW t \in Thread, UsageStop(t)
  PROVE  Ledger'
<1> DEFINE ref == call[t].ref
<1>1. /\ Doing(t, "report") => unreported' = unreported \cup {ref}
      /\ ~Doing(t, "report") => unreported' = unreported
      /\ UNCHANGED <<ledger, events, receipts>>
  BY DEF UsageStop, Stop, licensing
<1>2. Doing(t, "report") =>
        /\ ref \in Recorded \ (BagToSet(ledger) \cup unreported)
        /\ \A u \in Thread \ {t} : Doing(u, "report") => call[u].ref # ref
  BY DEF Ledger, LedgerCalls
<1>3. Recorded' = Recorded
  BY <1>1, SameRecords
<1>4. ~Doing(t, "report")' /\ \A u \in Thread \ {t} : call'[u] = call[u]
  BY DEF UsageStop, Stop, Doing, TypeOK
<1>5. \A u \in Thread : Doing(u, "report")' <=> u # t /\ Doing(u, "report")
  BY <1>4 DEF Doing
<1> HIDE DEF ref
<1>6. LedgerCalls'
  <2>1. ASSUME NEW u \in Thread, Doing(u, "report")'
        PROVE  /\ call'[u].ref \in Recorded \ (BagToSet(ledger) \cup unreported')
               /\ \A w \in Thread \ {u} : Doing(w, "report")' => call'[w].ref # call'[u].ref
    BY <1>1, <1>2, <1>4, <1>5, <2>1 DEF Ledger, LedgerCalls
  <2>2. unreported' \subseteq Recorded
    BY <1>1, <1>2 DEF Ledger, LedgerCalls
  <2> QED
    BY <1>1, <1>3, <2>1, <2>2 DEF LedgerCalls
<1>7. LedgerMatches'
  <2>1. BagToSet(ledger) \subseteq Recorded \ unreported'
    BY <1>1, <1>2 DEF Ledger, LedgerMatches
  <2>2. ASSUME NEW x \in Recorded \ (BagToSet(ledger) \cup unreported')
        PROVE  \E u \in Thread : Doing(u, "report")' /\ call'[u].ref = x
    <3>1. PICK u \in Thread : Doing(u, "report") /\ call[u].ref = x
      BY <1>1 DEF Ledger, LedgerMatches
    <3>2. u # t
      BY <1>1, <3>1 DEF ref
    <3> QED
      BY <1>4, <1>5, <3>1, <3>2
  <2>3. \A x \in BagToSet(ledger) : ledger[x] = 1
    BY DEF Ledger, LedgerMatches
  <2> QED
    BY <1>1, <1>3, <2>1, <2>2, <2>3 DEF LedgerMatches
<1> QED
  BY <1>6, <1>7 DEF Ledger

LEMMA LedgerStepsKeep ==
  ASSUME TypeOK, Licences, Ledger, [Next]_vars
  PROVE  Ledger'
<1>1. CASE \E c \in Claim : (assert_claim(c) \/ set_state(c)) /\ UNCHANGED usage
  BY <1>1, OtherReports DEF assert_claim, set_state, usage
<1>2. ASSUME NEW t \in Thread, NEW l \in Licence, Loads(t, l), UNCHANGED usage
      PROVE  Ledger'
  <2>1. PICK j \in Loading : call' = [call EXCEPT ![t] = j]
    BY <1>2 DEF Loads
  <2>2. ~Doing(t, "report") /\ j.op # "report"
    BY <1>2 DEF Loads, Doing, Loading, Transition
  <2> QED
    BY <1>2, <2>1, <2>2, OtherReports DEF Loads, licensing, usage
<1>3. ASSUME NEW t \in Thread, NEW l \in Licence, NEW e,
             events' = [events EXCEPT ![l] = Append(@, e)], Report(t, <<l, Len(events[l]) + 1>>),
             ~Doing(t, "report"), UNCHANGED <<ledger, unreported, usage>>
      PROVE  Ledger'
  <2> DEFINE ref == <<l, Len(events[l]) + 1>>
  <2>1. ref \in Ref
    <3>1. Len(events[l]) \in Nat
      BY DEF TypeOK
    <3> QED
      BY <3>1 DEF Ref
  <2>2. ref \notin Recorded /\ Recorded' = Recorded \cup {ref}
    BY <1>3, EventRecorded DEF usage
  <2> HIDE DEF ref
  <2>3. Report(t, ref)
    BY <1>3 DEF ref
  <2> QED
    BY <1>3, <2>1, <2>2, <2>3, RecordKeeps
<1>4. ASSUME NEW t \in Thread, NEW l \in Licence, NEW x \in Terms, create_draft(t, l, x), UNCHANGED usage
      PROVE  Ledger'
  <2> DEFINE e == [from |-> "absent", to |-> "DRAFT"]
  <2>1. events[l] = << >>
    BY <1>4 DEF create_draft, NoRow, Licences, Begun
  <2>2. <<e>> = Append(events[l], e) /\ Len(events[l]) + 1 = 1
    BY <2>1
  <2>3. events' = [events EXCEPT ![l] = <<e>>] /\ Report(t, <<l, 1>>)
        /\ ~Doing(t, "report") /\ UNCHANGED <<ledger, unreported>>
    BY <1>4 DEF create_draft, Doing
  <2> HIDE DEF e
  <2>4. events' = [events EXCEPT ![l] = Append(@, e)] /\ Report(t, <<l, Len(events[l]) + 1>>)
    BY <2>2, <2>3
  <2> QED
    BY <1>3, <1>4, <2>3, <2>4
<1>5. ASSUME NEW t \in Thread, _transition(t), UNCHANGED usage
      PROVE  Ledger'
  <2>1. Transits(t, call[t])
    BY <1>5, TransitionWrites
  <2>2. call[t].lic \in Licence /\ ~Doing(t, "report")
    BY <1>5, <2>1 DEF Transits, Loading, _transition, Transition, Doing
  <2> QED
    BY <1>3, <1>5, <2>1, <2>2 DEF Transits, Report
<1>6. ASSUME NEW t \in Thread, NEW x \in Terms, WriteCounter(t, x), UNCHANGED usage
      PROVE  Ledger'
  <2>1. Counters(t, x, call[t])
    BY <1>6, CounterWrites
  <2>2. call[t].lic \in Licence /\ ~Doing(t, "report")
    BY <2>1 DEF Counters, Loading, Doing
  <2> QED
    BY <1>3, <1>6, <2>1, <2>2 DEF Counters, Report
<1>7. CASE \/ \E t \in Thread, l \in Licence, k \in Ticket : IssueCheck(t, l, k)
           \/ \E t \in Thread, k \in Ticket, n \in Nonce : ConsumeCheck(t, k, n)
           \/ \E t \in Thread, l \in Licence, n \in Nonce : DeclareCheck(t, l, n)
  <2>1. PICK t \in Thread : \E c : c.op # "report" /\ Begin(t, c)
    BY <1>7 DEF IssueCheck, ConsumeCheck, DeclareCheck
  <2> QED
    BY <2>1, OtherReports DEF Begin, Doing, licensing, usage
<1>8. ASSUME NEW t \in Thread, IssueCommit(t)
      PROVE  Ledger'
  BY <1>8, OtherReports DEF IssueCommit, Doing, licensing
<1>9. ASSUME NEW t \in Thread, ConsumeCommit(t)
      PROVE  Ledger'
  <2>1. call[t] \in Using
    BY <1>9, CallKinds DEF ConsumeCommit, Doing, TypeOK
  <2>2. [call[t] EXCEPT !.op = "receipt"].op # "report"
    BY <2>1 DEF Using
  <2> QED
    BY <1>9, <2>2, OtherReports DEF ConsumeCommit, Doing, licensing
<1>10. ASSUME NEW t \in Thread, RecordReceipt(t)
       PROVE  Ledger'
  <2> DEFINE r == [nonce |-> call[t].nonce, ticket |-> call[t].ticket, lic |-> call[t].lic]
             ref == <<"receipt", call[t].nonce>>
  <2>1. call[t].nonce \in Nonce
    BY <1>10, CallKinds DEF RecordReceipt, Doing, Using, TypeOK
  <2>2. ref \in Ref
    BY <2>1 DEF Ref
  <2>3. fresh(r.nonce) /\ receipts' = receipts \cup {r} /\ r.nonce = call[t].nonce
        /\ UNCHANGED <<events, ledger, unreported>> /\ Report(t, ref) /\ ~Doing(t, "report")
    BY <1>10 DEF RecordReceipt, licensing, Doing
  <2> HIDE DEF r
  <2>4. ref \notin Recorded /\ Recorded' = Recorded \cup {ref}
    BY <2>3, ReceiptRecorded
  <2> HIDE DEF ref
  <2> QED
    BY <2>2, <2>3, <2>4, RecordKeeps
<1>11. CASE UNCHANGED vars
  BY <1>11, OtherReports DEF vars, licensing, usage
<1> QED
  BY <1>1, <1>2, <1>4, <1>5, <1>6, <1>7, <1>8, <1>9, <1>10, <1>11, AppendKeeps, StopReports, Steps

(* The ledger reports each record at most once and only what was recorded,  *)
(* and misses none but those about to be reported or whose call stopped.    *)
THEOREM LedgerKept == Spec => []LedgerMatches
<1>1. Init => TypeOK /\ Licences /\ Ledger
  BY InitTypes, InitLicences, InitLedger
<1>2. TypeOK /\ Licences /\ Ledger /\ [Next]_vars => (TypeOK /\ Licences /\ Ledger)'
  BY StepTypes, LicencesKept, LedgerStepsKeep
<1>3. TypeOK /\ Licences /\ Ledger => LedgerMatches
  BY DEF Ledger
<1> QED
  BY <1>1, <1>2, <1>3, PTL DEF Spec
=============================================================================
