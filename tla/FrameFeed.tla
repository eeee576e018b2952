------------------------------ MODULE FrameFeed ------------------------------
(***************************************************************************)
(* What the broadcaster promises its clients, as an abstract               *)
(* specification: frames are numbered as they are published; a connected   *)
(* client is handed a growing selection of them in order; frames may be    *)
(* skipped, but never the newest for good while the client stays.          *)
(***************************************************************************)
EXTENDS Naturals

CONSTANT Clients

VARIABLES
  latest,  \* number of the newest frame published
  seen,    \* of each client: the newest frame it was handed, or that preceded its joining
  on       \* the clients that are connected

feedVars == <<latest, seen, on>>

Init == latest = 0 /\ seen = [c \in Clients |-> 0] /\ on = {}

Publish == latest' = latest + 1 /\ UNCHANGED <<seen, on>>

Join(c) ==
  /\ c \notin on
  /\ on' = on \cup {c}
  /\ seen' = [seen EXCEPT ![c] = latest]
  /\ UNCHANGED latest

Deliver(c) ==
  /\ c \in on
  /\ \E k \in (seen[c] + 1) .. latest : seen' = [seen EXCEPT ![c] = k]
  /\ UNCHANGED <<latest, on>>

\* A client leaves, or all do.
Leave(gone) == on' = on \ gone /\ UNCHANGED <<latest, seen>>

Next ==
  \/ Publish
  \/ \E c \in Clients : Join(c) \/ Deliver(c)
  \/ \E gone \in SUBSET Clients : Leave(gone)

SafeSpec == Init /\ [][Next]_feedVars

Spec == SafeSpec /\ \A c \in Clients : WF_feedVars(Deliver(c))

===============================================================================
