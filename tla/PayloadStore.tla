---------------------------- MODULE PayloadStore ----------------------------
(***************************************************************************)
(* What the payload store promises its callers, whatever its files and      *)
(* index do: a payload whose put was acknowledged is there until a delete   *)
(* of it begins; one whose delete was acknowledged is gone until a put of   *)
(* it begins; one whose last call has no known outcome (it is running, it   *)
(* was interrupted, or a put and a delete overlapped) may be either.        *)
(***************************************************************************)
CONSTANT Payload

VARIABLES
  acked,      \* payloads acknowledged as stored
  undecided,  \* payloads whose last put or delete has no known outcome
  stored      \* payloads a rebuild of the store would find

vars == <<acked, undecided, stored>>

Init == acked = {} /\ undecided = {} /\ stored = {}

BeginPut(p) ==
  /\ p \notin acked
  /\ undecided' = undecided \cup {p}
  /\ UNCHANGED <<acked, stored>>

(* A call under way writes the payload.                                     *)
Write(p) ==
  /\ p \in acked \cup undecided
  /\ stored' = stored \cup {p}
  /\ UNCHANGED <<acked, undecided>>

AckPut(p) ==
  /\ p \in (acked \cup undecided) \cap stored
  /\ acked' = acked \cup {p}
  /\ undecided' = undecided \ {p}
  /\ UNCHANGED stored

BeginDelete(p) ==
  /\ acked' = acked \ {p}
  /\ undecided' = undecided \cup {p}
  /\ UNCHANGED stored

(* The payload is removed: its delete is acknowledged, unless a put of it   *)
(* is still running.                                                        *)
Remove(p) ==
  /\ p \in undecided
  /\ stored' = stored \ {p}
  /\ undecided' \in {undecided, undecided \ {p}}
  /\ UNCHANGED acked

Next == \E p \in Payload :
          BeginPut(p) \/ Write(p) \/ AckPut(p) \/ BeginDelete(p) \/ Remove(p)

Spec == Init /\ [][Next]_vars
=============================================================================
