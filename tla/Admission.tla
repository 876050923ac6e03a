----------------------------- MODULE Admission ------------------------------
(***************************************************************************)
(* What proxy.Start promises about admission and shutdown, without saying  *)
(* how: at most MaxConnections clients are served at a time (zero means no *)
(* limit), a client is served at most once, and once the server is down    *)
(* nobody is being served and nobody is let in again.                      *)
(***************************************************************************)
EXTENDS Naturals, FiniteSets

CONSTANTS
    Conns,          \* the client connections
    MaxConnections  \* WithMaxConnections; 0 is unlimited

VARIABLES
    serving,  \* connections that hold an admission slot
    served,   \* connections that gave their slot back
    down      \* stop() has returned

admissionVars == <<serving, served, down>>

RoomLeft == MaxConnections > 0 => Cardinality(serving) < MaxConnections

Init ==
    /\ serving = {}
    /\ served = {}
    /\ down = FALSE

\* A connection takes an admission slot.
Enter(c) ==
    /\ ~down
    /\ c \notin serving \cup served
    /\ RoomLeft
    /\ serving' = serving \cup {c}
    /\ UNCHANGED <<served, down>>

\* A session ends and its slot is free again.
Leave(c) ==
    /\ c \in serving
    /\ serving' = serving \ {c}
    /\ served' = served \cup {c}
    /\ UNCHANGED down

\* stop() returns: every session has ended.
Shutdown ==
    /\ ~down
    /\ serving = {}
    /\ down' = TRUE
    /\ UNCHANGED <<serving, served>>

Next ==
    \/ \E c \in Conns : Enter(c) \/ Leave(c)
    \/ Shutdown

Spec == Init /\ [][Next]_admissionVars

=============================================================================
