------------------------------ MODULE Licensing ------------------------------
(***************************************************************************)
(* Licences between a grantor and a licensee                                *)
(* (src/src/01_Core_Runtime/contracts/canonical_contracts.py), the grantor's *)
(* rights claims they rest on                                               *)
(* (src/src/04_Entity_Registry/ownership_graphs/canonical_rights_claims.py) *)
(* and the event ledger that every change is reported to                    *)
(* (src/src/04_Entity_Registry/event_ledger/canonical_event_ledger.py):     *)
(* three databases, and threads of one service that call the methods.       *)
(*                                                                          *)
(* A method loads the licence's row, and the claims where it needs them,    *)
(* then writes in a transaction of its own, then appends to the ledger in   *)
(* another.  _transition compares the row with the one it was loaded from;  *)
(* the engine's lock, held meanwhile, makes that one step among the threads *)
(* of a process.  counter does not compare.                                 *)
(*                                                                          *)
(* Abstracted: the parties (a call is made for the one it requires), terms, *)
(* which are one value, and claims, which license or no longer do.  A call  *)
(* reads the licence and the claims at one moment.  The ledger is a bag:    *)
(* its order, its hash chain and its signatures are not looked at.          *)
(***************************************************************************)
EXTENDS Naturals, Sequences, FiniteSets, Bags

CONSTANTS
  Thread,     \* threads of the service
  Licence, Terms,
  Claim,      \* the grantor's claims on the assets of the terms
  NoCall,     \* a thread outside every method
  MaxEvents,  \* bound: signed events of one licence
  MaxLost     \* bound: reports lost

ASSUME LicensingAssumption ==
  Thread # {} /\ Licence # {} /\ Terms # {} /\ MaxEvents \in Nat /\ MaxLost \in Nat

VARIABLES
  licences,    \* licences: state, terms_version, terms, authority_basis
  events,      \* licence_events of each licence, in order
  claims,      \* claims: "absent", "ACTIVE", or "closed" to licensing
  ledger,      \* the events of the ledger, by the record they report
  call,        \* what each thread has read
  overtaken,   \* history: licences countered from a row that had changed
  agreed,      \* history: the terms each licence's last accepter had loaded
  refused,     \* history: the claims not active when the activation read them
  unreported   \* history: records whose thread stopped before its append

licensing == <<licences, events, claims>>
history == <<overtaken, agreed, refused>>

TERMINAL_STATES == {"EXPIRED", "TERMINATED", "CLOSED"}
REACHED == {"absent", "DRAFT", "OFFERED", "COUNTERED", "ACCEPTED", "ACTIVE",
            "REVOKED_FOR_FUTURE_USE", "TERMINATED"}   \* LICENCE_STATES, those some operation writes
Row == [state : REACHED, version : Nat, terms : Terms \cup {{}}, basis : SUBSET Claim]
NoRow == [state |-> "absent", version |-> 0, terms |-> {}, basis |-> {}]

(* A call between its load and its transaction.                             *)
Transition == {"offer", "accept", "activate", "revoke", "terminate"}
Loading == [op : Transition \cup {"counter"}, lic : Licence, row : Row, to : REACHED,
            basis : SUBSET Claim, inactive : SUBSET Claim, seen : Nat]
Doing(t, op) == call[t] # NoCall /\ call[t].op = op

-----------------------------------------------------------------------------
(* Every change of a record is followed by an append to the ledger.         *)

Report(t, ref) == call' = [call EXCEPT ![t] = [op |-> "report", ref |-> ref]]

Append_(t) ==
  /\ Doing(t, "report")
  /\ ledger' = ledger (+) SetToBag({call[t].ref})
  /\ call' = [call EXCEPT ![t] = NoCall]
  /\ UNCHANGED <<licensing, history, unreported>>

-----------------------------------------------------------------------------
(* The rights claims.                                                       *)

assert_claim(c) ==
  /\ claims[c] = "absent"
  /\ claims' = [claims EXCEPT ![c] = "ACTIVE"]
  /\ UNCHANGED <<licences, events, ledger, call, history, unreported>>

(* CHALLENGED, DISPUTED, SUPERSEDED or ADJUDICATED: no claim is active again. *)
set_state(c) ==
  /\ claims[c] = "ACTIVE"
  /\ claims' = [claims EXCEPT ![c] = "closed"]
  /\ UNCHANGED <<licences, events, ledger, call, history, unreported>>

eligible == {c \in Claim : claims[c] = "ACTIVE"}

-----------------------------------------------------------------------------
(* The methods, up to their transaction.                                    *)

create_draft(t, l, x) ==
  /\ call[t] = NoCall /\ licences[l] = NoRow
  /\ licences' = [licences EXCEPT ![l] = [state |-> "DRAFT", version |-> 1, terms |-> x, basis |-> {}]]
  /\ events' = [events EXCEPT ![l] = <<[from |-> "absent", to |-> "DRAFT"]>>]
  /\ Report(t, <<l, 1>>)
  /\ UNCHANGED <<claims, ledger, history, unreported>>

(* The row as loaded, and the state and the basis to write.                 *)
Load(t, l, op, to, basis) ==
  /\ call[t] = NoCall /\ Len(events[l]) < MaxEvents
  /\ call' = [call EXCEPT ![t] = [op |-> op, lic |-> l, row |-> licences[l], to |-> to, basis |-> basis,
                                  inactive |-> Claim \ eligible, seen |-> Len(events[l])]]
  /\ UNCHANGED <<licensing, ledger, history, unreported>>

offer(t, l) ==
  /\ licences[l].state \in {"DRAFT", "COUNTERED"} /\ eligible # {}
  /\ Load(t, l, "offer", "OFFERED", eligible)
counter(t, l) ==
  /\ licences[l].state = "OFFERED"
  /\ Load(t, l, "counter", "COUNTERED", {})
accept(t, l) ==
  \/ /\ licences[l].state = "OFFERED"
     /\ Load(t, l, "accept", "ACCEPTED", licences[l].basis)
  \/ /\ licences[l].state = "COUNTERED" /\ eligible # {}
     /\ Load(t, l, "accept", "ACCEPTED", eligible)
BasisOfOffer(l) == licences[l].basis   \* mutant: the authority is not looked up again
activationBasis(l) == eligible
activate(t, l) ==
  /\ licences[l].state = "ACCEPTED" /\ activationBasis(l) # {}
  /\ Load(t, l, "activate", "ACTIVE", activationBasis(l))
future_revoke(t, l) ==
  /\ licences[l].state \in {"ACTIVE", "SUSPENDED", "DISPUTED"}
  /\ Load(t, l, "revoke", "REVOKED_FOR_FUTURE_USE", licences[l].basis)
terminate(t, l) ==
  /\ licences[l].state \notin TERMINAL_STATES \cup {"absent"}
  /\ Load(t, l, "terminate", "TERMINATED", licences[l].basis)

-----------------------------------------------------------------------------
(* The transactions.                                                        *)

Write(l, row, from) ==
  /\ licences' = [licences EXCEPT ![l] = row]
  /\ events' = [events EXCEPT ![l] = Append(@, [from |-> from, to |-> row.state])]

AnyRow(l, row) == TRUE                                  \* mutant: no comparison
unchanged(l, row) == licences[l].state = row.state /\ licences[l].version = row.version

_transition(t) ==
  /\ call[t] # NoCall /\ call[t].op \in Transition
  /\ LET j == call[t] IN
     /\ unchanged(j.lic, j.row)
     /\ Write(j.lic, [licences[j.lic] EXCEPT !.state = j.to, !.basis = j.basis], j.row.state)
     /\ agreed' = IF j.op = "accept" THEN [agreed EXCEPT ![j.lic] = j.row.terms] ELSE agreed
     /\ refused' = IF j.op = "activate" THEN [refused EXCEPT ![j.lic] = j.inactive] ELSE refused
     /\ Report(t, <<j.lic, Len(events[j.lic]) + 1>>)
  /\ UNCHANGED <<claims, ledger, overtaken, unreported>>

(* The transaction of counter: whatever the row has become.                 *)
WriteCounter(t, x) ==
  /\ Doing(t, "counter")
  /\ LET j == call[t] IN
     /\ Write(j.lic, [state |-> "COUNTERED", version |-> j.row.version + 1, terms |-> x, basis |-> {}], "OFFERED")
     /\ overtaken' = IF Len(events[j.lic]) # j.seen THEN overtaken \cup {j.lic} ELSE overtaken
     /\ Report(t, <<j.lic, Len(events[j.lic]) + 1>>)
  /\ UNCHANGED <<claims, ledger, agreed, refused, unreported>>

(* An exception, or the death of the process: the record stays and its       *)
(* report is lost.                                                          *)
Stop(t) ==
  /\ call[t] # NoCall
  /\ Doing(t, "report") => Cardinality(unreported) < MaxLost
  /\ call' = [call EXCEPT ![t] = NoCall]
  /\ unreported' = IF Doing(t, "report") THEN unreported \cup {call[t].ref} ELSE unreported
  /\ UNCHANGED <<licensing, ledger, history>>

-----------------------------------------------------------------------------
LicensingInit ==
  /\ licences = [l \in Licence |-> NoRow] /\ events = [l \in Licence |-> << >>]
  /\ claims = [c \in Claim |-> "absent"]
  /\ ledger = EmptyBag /\ call = [t \in Thread |-> NoCall]
  /\ overtaken = {} /\ unreported = {}
  /\ agreed = [l \in Licence |-> {}] /\ refused = [l \in Licence |-> {}]

LicensingStep ==
  \/ \E c \in Claim : assert_claim(c) \/ set_state(c)
  \/ \E t \in Thread :
       \/ \E l \in Licence :
            \/ offer(t, l) \/ counter(t, l) \/ accept(t, l) \/ activate(t, l)
            \/ future_revoke(t, l) \/ terminate(t, l)
            \/ \E x \in Terms : create_draft(t, l, x)
       \/ _transition(t) \/ Append_(t)
       \/ \E x \in Terms : WriteCounter(t, x)

-----------------------------------------------------------------------------
(* Properties.                                                              *)

(* The signed events of a licence are a path that ends in its state, and a   *)
(* terminal state ends it, whatever threads meet: unless one of them         *)
(* countered from a row that had changed since it was loaded.                *)
LicenceHistory ==
  \A l \in Licence \ overtaken :
    LET path == events[l] IN
    /\ \A n \in 2..Len(path) : path[n].from = path[n - 1].to /\ path[n].from \notin TERMINAL_STATES
    /\ path # << >> => path[Len(path)].to = licences[l].state

(* An accepted licence has the terms its accepter had read; an active one    *)
(* rests on claims of the grantor, none of them closed before the activation *)
(* was called: with the same exception.                                      *)
AgreementSound ==
  \A l \in Licence \ overtaken :
    /\ licences[l].state \in {"ACCEPTED", "ACTIVE"} => licences[l].terms = agreed[l]
    /\ licences[l].state = "ACTIVE" => licences[l].basis # {} /\ licences[l].basis \cap refused[l] = {}
=============================================================================
