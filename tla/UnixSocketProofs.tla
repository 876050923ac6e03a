-------------------------- MODULE UnixSocketProofs --------------------------
(***************************************************************************)
(* Proofs about UnixSocket, for any number of processes and of starts.     *)
(***************************************************************************)
EXTENDS UnixSocket, TLAPS

PcStates == {"off", "activation", "stat", "dial", "remove", "listen",
             "serving", "inherited", "failed", "ioerror"}

Types ==
    /\ pc \in [Procs -> PcStates]
    /\ path \in Procs \cup {Nothing, OtherFile, Systemd}

\* What is foreign was there from the start, and no process has got past the
\* mode check or, on a socket of systemd that answers, past the dial.
ForeignInv ==
    /\ path = OtherFile =>
           \A p \in Procs : pc[p] \notin {"dial", "remove", "serving"}
    /\ path = Systemd =>
           \A p \in Procs : /\ pc[p] # "serving"
                            /\ pc[p] = "remove" => p \in misled

\* A process about to remove the socket of a live one has been misled: what
\* its dial told it was wrong, or is out of date.
MisledInv ==
    \A p \in Procs : pc[p] = "remove" /\ path \in Serving => p \in misled

Inv == Types /\ ForeignInv /\ MisledInv /\ LiveSocketKept

LEMMA InitInv == Init => Inv
  BY SocketAssumption
  DEF Init, Inv, Types, PcStates, ForeignInv, MisledInv, LiveSocketKept,
      Serving

LEMMA StepInv == Inv /\ [Next]_vars => Inv'
<1> SUFFICES ASSUME Inv, [Next]_vars PROVE Inv'
  OBVIOUS
<1> USE SocketAssumption
    DEF Inv, Types, PcStates, ForeignInv, MisledInv, LiveSocketKept, Serving
<1>1. ASSUME NEW p \in Procs,
             Start(p) \/ Activation(p) \/ CloseInherited(p)
      PROVE  Inv'
  <2>1. PICK l \in {"activation", "inherited", "stat", "off"} :
            pc' = [pc EXCEPT ![p] = l]
    BY <1>1 DEF Start, Activation, CloseInherited, Goto
  <2>2. UNCHANGED <<path, misled, robbed>>
    BY <1>1 DEF Start, Activation, CloseInherited, history
  <2> QED BY <2>1, <2>2
<1>2. ASSUME NEW p \in Procs, Stat(p) PROVE Inv'
  <2>1. PICK l \in {"listen", "failed", "dial", "ioerror"} :
            /\ pc' = [pc EXCEPT ![p] = l]
            /\ path = OtherFile => l # "dial"
    BY <1>2 DEF Stat, Goto
  <2>2. UNCHANGED <<path, misled, robbed>>
    BY <1>2 DEF Stat, history
  <2> QED BY <2>1, <2>2
<1>3. ASSUME NEW p \in Procs, Dial(p) PROVE Inv'
  BY <1>3 DEF Dial, Goto, Live
<1>4. ASSUME NEW p \in Procs, Remove(p) PROVE Inv'
  <2>1. CASE pc' = [pc EXCEPT ![p] = "ioerror"] /\ UNCHANGED <<path, robbed>>
    BY <1>4, <2>1 DEF Remove
  <2>2. CASE /\ path' = Nothing
             /\ robbed' = robbed \cup Victims(p, misled)
             /\ pc' = [pc EXCEPT ![p] = "listen"]
    <3>1. pc[p] = "remove"
      BY <1>4 DEF Remove
    <3>2. ASSUME path \in Serving PROVE path \in robbed'
      BY <2>2, <3>1, <3>2 DEF Victims
    <3>3. LiveSocketKept'
      BY <2>2, <3>1, <3>2
    <3> QED BY <2>2, <3>1, <3>3
  <2> QED BY <1>4, <2>1, <2>2 DEF Remove, Goto
<1>5. ASSUME NEW p \in Procs, Listen(p) PROVE Inv'
  BY <1>5 DEF Listen, Goto
<1>6. ASSUME NEW p \in Procs, CloseListener(p) PROVE Inv'
  <2>1. /\ pc[p] = "serving" /\ path' = Nothing
        /\ pc' = [pc EXCEPT ![p] = "off"] /\ misled' = misled
        /\ robbed' = (robbed \cup Victims(p, robbed)) \ {p}
    BY <1>6 DEF CloseListener, Goto
  <2>2. ASSUME NEW q \in Procs, pc'[q] = "serving" PROVE q \in robbed'
    <3>1. q # p /\ pc[q] = "serving"
      BY <2>1, <2>2
    <3>2. path = q => p \in robbed
      BY <2>1, <3>1
    <3> QED BY <2>1, <3>1, <3>2 DEF Victims
  <2> QED BY <2>1, <2>2
<1>7. ASSUME NEW p \in Procs, Crash(p) PROVE Inv'
  BY <1>7 DEF Crash, Goto
<1>8. CASE UNCHANGED vars
  BY <1>8 DEF vars, history
<1> QED
  BY <1>1, <1>2, <1>3, <1>4, <1>5, <1>6, <1>7, <1>8
  DEF Next, getListener, removeStaleUnixSocket

LEMMA InvHolds == Spec => []Inv
  BY InitInv, StepInv, PTL DEF Spec

\* A file at the path that is not a socket is never removed or replaced by any
\* number of processes that start at the same time, and a socket that systemd
\* listens on only by one whose dial systemd left unanswered
\* (removeStaleUnixSocket and getListener).
THEOREM ForeignFileSafe == Spec => ForeignFileKept
<1>1. Inv /\ [Next]_vars =>
          [(path \in {OtherFile, Systemd} /\ path' # path) =>
               path = Systemd /\ misled # {}]_vars
  <2> SUFFICES ASSUME Inv, Next, path \in {OtherFile, Systemd}, path' # path
               PROVE  path = Systemd /\ misled # {}
    BY DEF vars
  <2>1. PICK p \in Procs :
            \/ Start(p) \/ getListener(p)
            \/ CloseListener(p) \/ CloseInherited(p) \/ Crash(p)
    BY DEF Next
  <2>2. pc[p] \in {"remove", "serving"}
    BY <2>1, SocketAssumption
    DEF Start, getListener, Activation, removeStaleUnixSocket, Stat, Dial,
        Remove, Listen, CloseListener, CloseInherited, Crash
  <2> QED BY <2>2, SocketAssumption DEF Inv, ForeignInv
<1> QED BY <1>1, InvHolds, PTL DEF Spec, ForeignFileKept

\* The socket of a live process is taken from it only by a start that dialled a
\* live listener in vain, or before the path was bound, and by the end of a
\* process that had lost its own path so (removeStaleUnixSocket): for any
\* number of processes, of overlapping starts and of crashes.
THEOREM LiveSocketSafe == Spec => []LiveSocketKept
<1>1. Inv => LiveSocketKept
  BY DEF Inv
<1> QED BY <1>1, InvHolds, PTL

-----------------------------------------------------------------------------
(* Starts that do not overlap, and listeners that answer *)

AloneInv ==
    /\ \A p, q \in Starting : p = q
    /\ misled = {} /\ robbed = {}

LEMMA StepAlone ==
  ASSUME Overlap = FALSE, Slow = {}
  PROVE  Inv /\ AloneInv /\ [Next]_vars => AloneInv'
<1> SUFFICES ASSUME Inv, AloneInv, [Next]_vars PROVE AloneInv'
  OBVIOUS
<1> USE DEF Inv, Types, PcStates, AloneInv, Starting
<1>1. ASSUME NEW p \in Procs, Start(p) PROVE AloneInv'
  BY <1>1 DEF Start, Goto, history
<1>2. ASSUME NEW p \in Procs, Activation(p) \/ CloseInherited(p)
      PROVE  AloneInv'
  BY <1>2 DEF Activation, CloseInherited, Goto, history
<1>3. ASSUME NEW p \in Procs, Stat(p) PROVE AloneInv'
  <2>1. PICK l \in {"listen", "failed", "dial", "ioerror"} :
            pc' = [pc EXCEPT ![p] = l]
    BY <1>3 DEF Stat, Goto
  <2> QED BY <1>3, <2>1 DEF Stat, history
<1>4. ASSUME NEW p \in Procs, Dial(p) PROVE AloneInv'
  BY <1>4 DEF Dial, Goto
<1>5. ASSUME NEW p \in Procs, Remove(p) PROVE AloneInv'
  BY <1>5 DEF Remove, Goto, Victims
<1>6. ASSUME NEW p \in Procs, Listen(p) PROVE AloneInv'
  <2>1. \A q \in Procs : pc[q] # "remove"
    BY <1>6 DEF Listen
  <2>2. misled' = {} /\ robbed' = {}
    BY <1>6, <2>1 DEF Listen
  <2> QED BY <1>6, <2>2 DEF Listen, Goto
<1>7. ASSUME NEW p \in Procs, CloseListener(p) PROVE AloneInv'
  BY <1>7 DEF CloseListener, Goto, Victims
<1>8. ASSUME NEW p \in Procs, Crash(p) PROVE AloneInv'
  BY <1>8 DEF Crash, Goto
<1>9. CASE UNCHANGED vars
  BY <1>9 DEF vars, history
<1> QED
  BY <1>1, <1>2, <1>3, <1>4, <1>5, <1>6, <1>7, <1>8, <1>9
  DEF Next, getListener, removeStaleUnixSocket

\* Where the service manager starts one process at a time and every listener
\* answers within 200 ms, the path of a live process leads to it, without the
\* exception of LiveSocketKept (the promise of removeStaleUnixSocket).
THEOREM PathLeadsToServer ==
  ASSUME Overlap = FALSE, Slow = {}
  PROVE  Spec => [](\A p \in Serving : path = p)
<1>1. Init => AloneInv
  BY DEF Init, AloneInv, Starting
<1>2. Inv /\ AloneInv => \A p \in Serving : path = p
  BY DEF Inv, AloneInv, LiveSocketKept
<1> QED BY <1>1, <1>2, StepAlone, InvHolds, PTL DEF Spec
=============================================================================
