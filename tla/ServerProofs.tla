---------------------------- MODULE ServerProofs ----------------------------
(***************************************************************************)
(* Proofs about Server, for every set of connections, every cap and every  *)
(* access-control list.                                                    *)
(*                                                                         *)
(* The properties of interest are not inductive.  The cap holds because    *)
(* active counts exactly the slots that are held, and counting is spread   *)
(* over the accept goroutine and the session; a clean stop holds because   *)
(* wg counts exactly the goroutines that run, and because of what each     *)
(* goroutine has closed by the time it gets to a given point.              *)
(***************************************************************************)
EXTENDS Server, FiniteSetTheorems, TLAPS

\* Service goroutines that have not called wg.Done.
Running == {c \in Conns : svc[c] \notin {"none", "done"}}

\* Where the accept goroutine has a connection in hand.
InHand == {"check", "store", "count", "spawn"}

\* Where a service goroutine has not closed its client connection.
Live == {"startup", "cancel", "dial", "ssl", "relay", "close"}

\* Where a service goroutine holds a slot.
Slot == Live \cup {"delete", "dec"}

\* The connection in hand has arrived and has no session yet.
HandInv ==
    /\ cur \in Conns <=> acc \in InHand
    /\ cur \in Conns => client[cur] # "away" /\ svc[cur] = "none"
    /\ \A c \in Conns : client[c] = "away" => svc[c] = "none"

\* The two counters count what they are meant to count.
CountInv ==
    /\ active = Cardinality(Counted)
    /\ wg = Cardinality(Running) + (IF acc = "exited" THEN 0 ELSE 1)

\* There is room for the connection that has passed the check.
CapInv ==
    MaxConnections > 0 =>
        /\ active <= MaxConnections
        /\ acc \in {"store", "count"} => active < MaxConnections

\* What is open, and what is in the map, at each point of a session.
SocketInv ==
    /\ \A c \in Conns : rconn[c] \in {"open", "eof"} => svc[c] \in {"ssl", "relay"}
    /\ \A c \in Conns : lconn[c] = "open" => c = cur \/ svc[c] \in Live
    /\ \A c \in Conns :
          c \in sessions <=> \/ svc[c] \in Live \cup {"delete"}
                             \/ c = cur /\ acc \in {"count", "spawn"}

\* Once stop has returned no goroutine is left to change anything.
StopInv ==
    stopPc = "returned" =>
        /\ acc = "exited"
        /\ \A c \in Conns : svc[c] \in {"none", "done"}

\* The connection in hand is not in the map yet.
Unstored == {"check", "store"}

\* What Range has yet to close is among what it has yet to visit, was stored
\* after it began, or is in the accept goroutine's hand; and the one that is
\* stored late is the last that goroutine accepts.
RangeInv ==
    /\ stopPc = "forcing" =>
          \A c \in Conns :
              lconn[c] = "open" =>
                  c \in unvisited \cup late \/ (c = cur /\ acc \in Unstored)
    /\ stopPc = "waiting" =>
          \A c \in Conns :
              lconn[c] = "open" => c \in late \/ (c = cur /\ acc \in Unstored)
    /\ late # {} => ~listening /\ acc \notin Unstored
    /\ \A c, d \in late : c = d

Inv ==
    TypeOK /\ HandInv /\ CountInv /\ CapInv /\ SocketInv /\ StopInv /\ RangeInv

-----------------------------------------------------------------------------
\* The sets that are counted are finite.
LEMMA FiniteCounts ==
    ASSUME TypeOK, HandInv
    PROVE  /\ IsFiniteSet(Counted) /\ Cardinality(Counted) \in Nat
           /\ IsFiniteSet(Running) /\ Cardinality(Running) \in Nat
  <1>1. Counted \in SUBSET Conns /\ Running \in SUBSET Conns
    BY DEF HandInv, InHand, Counted, Serving, Running
  <1> QED
    BY <1>1, ConnsAssumption, FS_Subset, FS_CardinalityType

\* A session that moves from one place where it holds a slot to another
\* changes neither count.
LEMMA SlotKept ==
    ASSUME TypeOK, CountInv, NEW c \in Conns, NEW from \in Slot,
           NEW to \in Slot, ServiceStep(c, from, to), active' = active,
           wg' = wg
    PROVE  CountInv'
  <1>1. Serving' = Serving /\ Running' = Running
    BY DEF TypeOK, SvcStates, ServiceStep, Slot, Live, Serving, Running
  <1> QED
    BY <1>1 DEF CountInv, Counted, ServiceStep, acceptVars

\* So does a step of somebody else.
LEMMA CountsUnchanged ==
    ASSUME CountInv, UNCHANGED <<svc, acc, cur, active, wg>>
    PROVE  CountInv'
  BY DEF CountInv, Counted, Serving, Running

\* A step that leaves alone all that the counts, the map, the sockets and
\* stop depend on keeps everything but, perhaps, the types.
LEMMA RestUnchanged ==
    ASSUME Inv,
           UNCHANGED <<svc, acc, cur, active, wg, client, lconn, rconn,
                       sessions, stopVars>>
    PROVE  HandInv' /\ CountInv' /\ CapInv' /\ SocketInv' /\ StopInv' /\ RangeInv'
  BY CountsUnchanged
     DEF Inv, HandInv, CapInv, SocketInv, StopInv, RangeInv, stopVars,
         listening

-----------------------------------------------------------------------------
\* Init establishes the invariant.
LEMMA InitInv == Init => Inv
  <1> SUFFICES ASSUME Init PROVE Inv
    OBVIOUS
  <1>1. Counted = {} /\ Running = {}
    BY DEF Init, Counted, Serving, Running
  <1>2. CountInv
    BY <1>1, FS_EmptySet DEF Init, CountInv
  <1>3. TypeOK
    BY ConnsAssumption
       DEF Init, TypeOK, ClientStates, SocketStates, AccStates, SvcStates,
           IncStates, RspStates, StopStates
  <1> QED
    BY <1>2, <1>3, ConnsAssumption, OptionsAssumption
       DEF Init, Inv, HandInv, CapInv, SocketInv, StopInv, RangeInv, InHand,
           Live, Unstored

\* The accept goroutine preserves it.
LEMMA AcceptLoopInv == Inv /\ AcceptLoop => Inv'
  <1> SUFFICES ASSUME Inv, AcceptLoop PROVE Inv'
    OBVIOUS
  <1> USE ConnsAssumption, OptionsAssumption
      DEF Inv, TypeOK, HandInv, CapInv, SocketInv, StopInv, RangeInv,
          ClientStates, SocketStates, AccStates, SvcStates, InHand, Live, Unstored,
          listening,
          connVars, relayVars, countVars, stopVars
  <1>1. CASE \E c \in Conns : Accept(c)
    <2> PICK c \in Conns : Accept(c)
      BY <1>1
    <2>1. svc[c] = "none" /\ stopPc \notin {"forcing", "waiting", "returned"}
      BY DEF Accept, listening
    <2>2. CountInv'
      BY DEF Accept, CountInv, Counted, Serving, Running
    <2> QED
      BY <2>1, <2>2 DEF Accept
  <1>2. CASE RejectAddr
    <2>1. CountInv'
      BY <1>2 DEF RejectAddr, Refuse, CountInv, Counted, Serving, Running
    <2> QED
      BY <1>2, <2>1 DEF RejectAddr, Refuse
  <1>3. CASE RejectFull
    <2>1. CountInv'
      BY <1>3 DEF RejectFull, Refuse, CountInv, Counted, Serving, Running
    <2> QED
      BY <1>3, <2>1 DEF RejectFull, Refuse
  <1>4. CASE Admit
    <2>1. CountInv'
      BY <1>4 DEF Admit, CountInv, Counted, Serving, Running
    <2> QED
      BY <1>4, <2>1 DEF Admit, AtLimit
  <1>5. CASE StoreSession
    <2>1. CountInv'
      BY <1>5 DEF StoreSession, CountInv, Counted, Serving, Running
    <2> QED
      BY <1>5, <2>1 DEF StoreSession
  <1>6. CASE CountActive
    \* The connection in hand joins those that are counted.
    <2>1. Counted' = Counted \cup {cur} /\ cur \notin Counted
      BY <1>6 DEF CountActive, Counted, Serving
    <2>2. Cardinality(Counted') = Cardinality(Counted) + 1
      BY <2>1, FiniteCounts, FS_AddElement
    <2>3. CountInv'
      BY <1>6, <2>2 DEF CountActive, CountInv, Running
    <2> QED
      BY <1>6, <2>3 DEF CountActive
  <1>7. CASE Spawn
    \* It was counted already; now it is waited for as well.
    <2>1. Counted' = Counted
      BY <1>7 DEF Spawn, Counted, Serving
    <2>2. Running' = Running \cup {cur} /\ cur \notin Running
      BY <1>7 DEF Spawn, Running
    <2>3. Cardinality(Running') = Cardinality(Running) + 1
      BY <2>2, FiniteCounts, FS_AddElement
    <2>4. CountInv'
      BY <1>7, <2>1, <2>3, FiniteCounts DEF Spawn, CountInv
    <2>5. stopPc # "returned"
      BY <1>7 DEF Spawn
    <2> QED
      BY <1>7, <2>4, <2>5 DEF Spawn
  <1>8. CASE AcceptLoopExits
    <2>1. Counted' = Counted /\ Running' = Running
      BY <1>8 DEF AcceptLoopExits, Counted, Serving, Running
    <2>2. CountInv' /\ wg' \in Nat
      BY <1>8, <2>1, FiniteCounts DEF AcceptLoopExits, CountInv
    <2> QED
      BY <1>8, <2>2 DEF AcceptLoopExits
  <1> QED
    BY <1>1, <1>2, <1>3, <1>4, <1>5, <1>6, <1>7, <1>8 DEF AcceptLoop

\* The service goroutine preserves it on the way to the relay.
LEMMA ServiceInv == ASSUME Inv, NEW c \in Conns, Service(c) PROVE Inv'
  <1> USE ConnsAssumption, OptionsAssumption
      DEF Inv, TypeOK, HandInv, CapInv, SocketInv, StopInv, RangeInv,
          ClientStates, SocketStates, AccStates, SvcStates, IncStates,
          RspStates, StopStates, InHand, Live, Unstored,
          listening, acceptVars, connVars,
          relayVars, countVars, stopVars
  <1>1. CASE StartupFails(c)
    <2>1. CountInv'
      BY <1>1, SlotKept DEF StartupFails, Slot
    <2> QED
      BY <1>1, <2>1 DEF StartupFails, SignalErr, ServiceStep
  <1>2. CASE CancelRequest(c)
    <2>1. CountInv'
      BY <1>2, SlotKept DEF CancelRequest, Slot
    <2> QED
      BY <1>2, <2>1 DEF CancelRequest, ServiceStep
  <1>3. CASE CancelDone(c)
    <2>1. CountInv'
      BY <1>3, SlotKept DEF CancelDone, Slot
    <2> QED
      BY <1>3, <2>1 DEF CancelDone, ServiceStep
  <1>4. CASE RefuseStartup(c)
    <2>1. CountInv'
      BY <1>4, SlotKept DEF RefuseStartup, Slot
    <2> QED
      BY <1>4, <2>1 DEF RefuseStartup, SignalErr, ServiceStep
  <1>5. CASE UnknownDatabase(c)
    <2>1. CountInv'
      BY <1>5, SlotKept DEF UnknownDatabase, Slot
    <2> QED
      BY <1>5, <2>1 DEF UnknownDatabase, SignalErr, ServiceStep
  <1>6. CASE StartupMessage(c)
    <2>1. CountInv'
      BY <1>6, SlotKept DEF StartupMessage, Slot
    <2> QED
      BY <1>6, <2>1 DEF StartupMessage, ServiceStep
  <1>7. CASE DialOk(c)
    <2>1. CountInv'
      BY <1>7, SlotKept DEF DialOk, Slot
    <2> QED
      BY <1>7, <2>1 DEF DialOk, ServiceStep
  <1>8. CASE DialFails(c)
    <2>1. CountInv'
      BY <1>8, SlotKept DEF DialFails, ConnectFails, Slot
    <2> QED
      BY <1>8, <2>1 DEF DialFails, ConnectFails, SignalErr, ServiceStep
  <1>9. CASE SSLAnswered(c)
    <2>1. CountInv'
      BY <1>9, SlotKept DEF SSLAnswered, Slot
    <2> QED
      BY <1>9, <2>1 DEF SSLAnswered, ServiceStep
  <1>10. CASE SSLFails(c)
    <2>1. CountInv'
      BY <1>10, SlotKept DEF SSLFails, ConnectFails, Slot
    <2> QED
      BY <1>10, <2>1 DEF SSLFails, ConnectFails, SignalErr, ServiceStep
  <1> QED
    BY <1>1, <1>2, <1>3, <1>4, <1>5, <1>6, <1>7, <1>8, <1>9, <1>10
       DEF Service

\* So does the end of a session.
LEMMA TeardownInv == ASSUME Inv, NEW c \in Conns, Teardown(c) PROVE Inv'
  <1> USE ConnsAssumption, OptionsAssumption
      DEF Inv, TypeOK, HandInv, CapInv, SocketInv, StopInv, RangeInv,
          ClientStates, SocketStates, AccStates, SvcStates, IncStates,
          RspStates, StopStates, InHand, Live, Unstored,
          listening, acceptVars, connVars,
          relayVars, countVars, stopVars
  <1>1. CASE SessionEnds(c)
    <2>1. CountInv'
      BY <1>1, SlotKept DEF SessionEnds, Slot
    <2> QED
      BY <1>1, <2>1 DEF SessionEnds, ServiceStep
  <1>2. CASE CloseClient(c)
    <2>1. CountInv'
      BY <1>2, SlotKept DEF CloseClient, Slot
    <2> QED
      BY <1>2, <2>1 DEF CloseClient, ServiceStep
  <1>3. CASE DeleteSession(c)
    <2>1. CountInv'
      BY <1>3, SlotKept DEF DeleteSession, Slot
    <2> QED
      BY <1>3, <2>1 DEF DeleteSession, ServiceStep
  <1>4. CASE DecActive(c)
    \* The session leaves those that are counted, and is still waited for.
    <2>1. Counted' = Counted \ {c} /\ c \in Counted /\ Running' = Running
      BY <1>4 DEF DecActive, ServiceStep, Counted, Serving, Running
    <2>2. Cardinality(Counted') = Cardinality(Counted) - 1
      BY <2>1, FiniteCounts, FS_RemoveElement
    <2>3. Cardinality(Counted) > 0
      BY <2>1, FiniteCounts, FS_EmptySet
    <2>4. CountInv' /\ active' \in Nat
      BY <1>4, <2>1, <2>2, <2>3, FiniteCounts
         DEF DecActive, ServiceStep, CountInv
    <2> QED
      BY <1>4, <2>4 DEF DecActive, ServiceStep
  <1>5. CASE ServiceDone(c)
    <2>1. Running' = Running \ {c} /\ c \in Running /\ Counted' = Counted
      BY <1>5 DEF ServiceDone, ServiceStep, Counted, Serving, Running
    <2>2. Cardinality(Running') = Cardinality(Running) - 1
      BY <2>1, FiniteCounts, FS_RemoveElement
    <2>3. Cardinality(Running) > 0
      BY <2>1, FiniteCounts, FS_EmptySet
    <2>4. CountInv' /\ wg' \in Nat
      BY <1>5, <2>1, <2>2, <2>3, FiniteCounts
         DEF ServiceDone, ServiceStep, CountInv
    <2> QED
      BY <1>5, <2>4 DEF ServiceDone, ServiceStep
  <1> QED
    BY <1>1, <1>2, <1>3, <1>4, <1>5 DEF Teardown

\* The relay goroutines touch nothing the invariant is about but types.
LEMMA RelayInv == ASSUME Inv, NEW c \in Conns, RelayLoops(c) PROVE Inv'
  <1> USE DEF acceptVars, connVars, countVars, stopVars
  <1>1. CASE ClientMessage(c)
    <2>1. TypeOK'
      BY <1>1 DEF Inv, TypeOK, IncStates, ClientMessage, IncStep
    <2> QED
      BY <1>1, <2>1, RestUnchanged DEF ClientMessage, IncStep, Inv
  <1>2. CASE IncReadFails(c)
    <2>1. TypeOK'
      BY <1>2 DEF Inv, TypeOK, IncStates, IncReadFails, IncStep, SignalErr
    <2> QED
      BY <1>2, <2>1, RestUnchanged DEF IncReadFails, IncStep, Inv
  <1>3. CASE IncReply(c)
    <2>1. TypeOK'
      BY <1>3 DEF Inv, TypeOK, IncStates, IncReply, IncStep
    <2> QED
      BY <1>3, <2>1, RestUnchanged DEF IncReply, IncStep, Inv
  <1>4. CASE IncWrite(c)
    <2>1. TypeOK'
      BY <1>4 DEF Inv, TypeOK, IncStates, IncWrite, IncStep
    <2> QED
      BY <1>4, <2>1, RestUnchanged DEF IncWrite, IncStep, Inv
  <1>5. CASE IncWriteFails(c)
    <2>1. TypeOK'
      BY <1>5 DEF Inv, TypeOK, IncStates, IncWriteFails, IncStep, SignalErr
    <2> QED
      BY <1>5, <2>1, RestUnchanged DEF IncWriteFails, IncStep, Inv
  <1>6. CASE BackendMessage(c)
    <2>1. TypeOK'
      BY <1>6 DEF Inv, TypeOK, RspStates, BackendMessage, RspStep
    <2> QED
      BY <1>6, <2>1, RestUnchanged DEF BackendMessage, RspStep, Inv
  <1>7. CASE RspReadFails(c)
    <2>1. TypeOK'
      BY <1>7 DEF Inv, TypeOK, RspStates, RspReadFails, RspStep, SignalErr
    <2> QED
      BY <1>7, <2>1, RestUnchanged DEF RspReadFails, RspStep, Inv
  <1>8. CASE RspWrite(c)
    <2>1. TypeOK'
      BY <1>8 DEF Inv, TypeOK, RspStates, RspWrite, RspStep
    <2> QED
      BY <1>8, <2>1, RestUnchanged DEF RspWrite, RspStep, Inv
  <1>9. CASE RspWriteFails(c)
    <2>1. TypeOK'
      BY <1>9 DEF Inv, TypeOK, RspStates, RspWriteFails, RspStep, SignalErr
    <2> QED
      BY <1>9, <2>1, RestUnchanged DEF RspWriteFails, RspStep, Inv
  <1> QED
    BY <1>1, <1>2, <1>3, <1>4, <1>5, <1>6, <1>7, <1>8, <1>9 DEF RelayLoops

\* Clients and backends preserve it.
LEMMA EnvironmentInv ==
    ASSUME Inv, NEW c \in Conns, Environment(c) PROVE Inv'
  <1> USE ConnsAssumption, OptionsAssumption
      DEF Inv, TypeOK, HandInv, CapInv, SocketInv, StopInv, RangeInv,
          ClientStates, SocketStates, AccStates, SvcStates, IncStates,
          RspStates, StopStates, InHand, Live, Unstored,
          listening, acceptVars, connVars,
          relayVars, countVars, stopVars
  <1>1. CASE ClientCloses(c)
    <2>1. CountInv'
      BY <1>1, CountsUnchanged DEF ClientCloses
    <2> QED
      BY <1>1, <2>1 DEF ClientCloses
  <1>2. CASE ClientFallsSilent(c)
    <2>1. CountInv'
      BY <1>2, CountsUnchanged DEF ClientFallsSilent
    <2> QED
      BY <1>2, <2>1 DEF ClientFallsSilent
  <1>3. CASE BackendCloses(c)
    <2>1. CountInv'
      BY <1>3, CountsUnchanged DEF BackendCloses
    <2> QED
      BY <1>3, <2>1 DEF BackendCloses
  <1> QED
    BY <1>1, <1>2, <1>3 DEF Environment

\* So does the call of stop.
LEMMA StopCallInv == Inv /\ StopCall => Inv'
  <1> SUFFICES ASSUME Inv, StopCall PROVE Inv'
    OBVIOUS
  <1> USE ConnsAssumption, OptionsAssumption
      DEF Inv, TypeOK, HandInv, CapInv, SocketInv, StopInv, RangeInv,
          ClientStates, SocketStates, AccStates, SvcStates, IncStates,
          RspStates, StopStates, InHand, Live, Unstored,
          listening, acceptVars, connVars,
          relayVars, countVars, stopVars
  <1>1. CASE Stop
    <2>1. CountInv'
      BY <1>1, CountsUnchanged DEF Stop, StopStep
    <2> QED
      BY <1>1, <2>1 DEF Stop, StopStep
  <1>2. CASE StopCloseListener
    <2>1. CountInv'
      BY <1>2, CountsUnchanged DEF StopCloseListener, StopStep
    <2> QED
      BY <1>2, <2>1 DEF StopCloseListener, StopStep
  <1>3. CASE DrainTimeout
    <2>1. CountInv'
      BY <1>3, CountsUnchanged DEF DrainTimeout, StopStep
    \* What is open and not in the accept goroutine's hand is in the map.
    <2>2. RangeInv'
      BY <1>3 DEF DrainTimeout, StopStep
    <2> QED
      BY <1>3, <2>1, <2>2 DEF DrainTimeout, StopStep
  <1>4. CASE \E c \in Conns : ForceClose(c)
    <2> PICK c \in Conns : ForceClose(c)
      BY <1>4
    <2>1. CountInv'
      BY CountsUnchanged DEF ForceClose, StopStep
    <2> QED
      BY <2>1 DEF ForceClose, StopStep
  <1>5. CASE RangeEnds
    <2>1. CountInv'
      BY <1>5, CountsUnchanged DEF RangeEnds, StopStep
    \* What is in the map has been visited.
    <2>2. RangeInv'
      BY <1>5 DEF RangeEnds, StopStep
    <2> QED
      BY <1>5, <2>1, <2>2 DEF RangeEnds, StopStep
  <1>6. CASE StopReturns
    <2>1. CountInv'
      BY <1>6, CountsUnchanged DEF StopReturns, StopStep
    \* wg = 0 leaves no goroutine.
    <2>2. acc = "exited" /\ Cardinality(Running) = 0
      BY <1>6, FiniteCounts DEF StopReturns, CountInv
    <2>3. Running = {}
      BY <2>2, FiniteCounts, FS_EmptySet
    <2>4. StopInv'
      BY <1>6, <2>2, <2>3 DEF StopReturns, StopStep, Running
    <2> QED
      BY <1>6, <2>1, <2>4 DEF StopReturns, StopStep
  <1> QED
    BY <1>1, <1>2, <1>3, <1>4, <1>5, <1>6 DEF StopCall

\* Every step preserves the invariant.
LEMMA NextInv == Inv /\ [Next]_vars => Inv'
  <1> SUFFICES ASSUME Inv, [Next]_vars PROVE Inv'
    OBVIOUS
  <1>1. CASE UNCHANGED vars
    <2>1. TypeOK'
      BY <1>1 DEF Inv, TypeOK, vars, acceptVars, connVars, relayVars,
                  countVars, stopVars
    <2> QED
      BY <1>1, <2>1, RestUnchanged
         DEF Inv, vars, acceptVars, connVars, countVars, stopVars
  <1>2. CASE Finished
    BY <1>1, <1>2 DEF Finished
  <1> QED
    BY <1>1, <1>2, AcceptLoopInv, ServiceInv, TeardownInv, RelayInv,
       EnvironmentInv, StopCallInv DEF Next

-----------------------------------------------------------------------------
\* The invariant holds in every reachable state.
THEOREM Invariance == Spec => []Inv
  BY InitInv, NextInv, PTL DEF Spec

\* The types are right: in particular neither counter of Start ever goes
\* below zero.
THEOREM TypeCorrect == Spec => []TypeOK
  BY Invariance, PTL DEF Inv

\* WithMaxConnections holds for every cap and any number of clients: the
\* sessions being serviced and the backend connections held for them never
\* exceed it.
THEOREM CapHolds == Spec => []CapRespected
  <1>1. Inv => CapRespected
    <2> SUFFICES ASSUME Inv, MaxConnections > 0
                 PROVE  Cardinality(Serving \cup BackendsOpen) <= MaxConnections
      BY DEF CapRespected
    <2>1. Serving \cup BackendsOpen \in SUBSET Counted
      BY DEF Inv, SocketInv, Serving, BackendsOpen, Counted
    <2>2. Cardinality(Serving \cup BackendsOpen) <= Cardinality(Counted)
      BY <2>1, FiniteCounts, FS_Subset DEF Inv
    <2>3. IsFiniteSet(Serving \cup BackendsOpen)
      BY <2>1, FiniteCounts, FS_Subset DEF Inv
    <2>4. Cardinality(Serving \cup BackendsOpen) \in Nat
      BY <2>3, FS_CardinalityType
    <2> QED
      BY <2>2, <2>4, FiniteCounts, OptionsAssumption DEF Inv, CapInv, CountInv
  <1> QED
    BY <1>1, Invariance, PTL

\* When stop returns, nothing is left running, open, counted or in the map.
THEOREM StopIsClean == Spec => []StopClean
  <1>1. Inv => StopClean
    <2> SUFFICES ASSUME Inv, stopPc = "returned"
                 PROVE  /\ acc = "exited"
                        /\ \A c \in Conns :
                              /\ svc[c] \in {"none", "done"}
                              /\ lconn[c] # "open"
                              /\ c \notin BackendsOpen
                        /\ sessions = {}
                        /\ active = 0
      BY DEF StopClean
    <2>1. acc = "exited" /\ \A c \in Conns : svc[c] \in {"none", "done"}
      BY DEF Inv, StopInv
    <2>2. cur \notin Conns
      BY <2>1 DEF Inv, HandInv, InHand
    <2>3. \A c \in Conns : lconn[c] # "open" /\ c \notin BackendsOpen
      BY <2>1, <2>2 DEF Inv, SocketInv, Live, BackendsOpen
    <2>4. sessions = {}
      BY <2>1, <2>2 DEF Inv, TypeOK, SocketInv, Live
    <2>5. Counted = {}
      BY <2>1 DEF Counted, Serving
    <2>6. active = 0
      BY <2>5, FS_EmptySet DEF Inv, CountInv
    <2> QED
      BY <2>1, <2>3, <2>4, <2>6
  <1> QED
    BY <1>1, Invariance, PTL

\* Whatever the accept goroutine and ending sessions do meanwhile, stop's Range
\* closes every session that was in the map when it began, and at most one
\* session is stored later.
THEOREM ForceCloseHolds == Spec => []ForceCloseComplete
  <1>1. Inv => ForceCloseComplete
    <2> SUFFICES ASSUME Inv PROVE ForceCloseComplete
      OBVIOUS
    <2>1. \A c \in Conns : svc[c] # "none" => c # cur
      BY DEF Inv, HandInv
    <2> QED
      BY <2>1 DEF Inv, RangeInv, ForceCloseComplete
  <1> QED
    BY <1>1, Invariance, PTL

-----------------------------------------------------------------------------
\* Connections that were given a session, and those whose session is past the
\* attempt to connect to a backend.
Started == {c \in Conns : svc[c] # "none"}

PastConnect ==
    {c \in Conns : svc[c] \notin {"none", "startup", "cancel", "dial", "ssl"}}

\* Every connection is in one column of the ledger, and each failed connect
\* belongs to a session of its own.
LedgerInv ==
    /\ total = rejectedByACL + rejectedByMax + Cardinality(Started)
                   + (IF cur \in Conns THEN 1 ELSE 0)
    /\ connectErrors <= Cardinality(PastConnect)

\* The columns are finite.
LEMMA FiniteLedger ==
    /\ IsFiniteSet(Started) /\ Cardinality(Started) \in Nat
    /\ IsFiniteSet(PastConnect) /\ Cardinality(PastConnect) \in Nat
    /\ Cardinality(PastConnect) <= Cardinality(Started)
  <1>1. Started \in SUBSET Conns /\ PastConnect \in SUBSET Started
    BY DEF Started, PastConnect
  <1>2. IsFiniteSet(Started) /\ IsFiniteSet(PastConnect)
    BY <1>1, ConnsAssumption, FS_Subset
  <1>3. Cardinality(PastConnect) <= Cardinality(Started)
    BY <1>1, <1>2, FS_Subset
  <1> QED
    BY <1>2, <1>3, FS_CardinalityType

\* A step that moves no connection from one column to another.
LEMMA LedgerUnchanged ==
    ASSUME LedgerInv, Started' = Started, PastConnect' = PastConnect,
           UNCHANGED <<cur, total, rejectedByACL, rejectedByMax, connectErrors>>
    PROVE  LedgerInv'
  BY DEF LedgerInv

\* A session that gets past the attempt to connect has room for one error.
LEMMA LedgerPast ==
    ASSUME LedgerInv, TypeOK, NEW c \in Conns, c \notin PastConnect,
           Started' = Started, PastConnect' = PastConnect \cup {c},
           connectErrors' \in {connectErrors, connectErrors + 1},
           UNCHANGED <<cur, total, rejectedByACL, rejectedByMax>>
    PROVE  LedgerInv'
  <1>1. Cardinality(PastConnect') = Cardinality(PastConnect) + 1
    BY FiniteLedger, FS_AddElement
  <1> QED
    BY <1>1, FiniteLedger DEF LedgerInv, TypeOK

\* Every step keeps the ledger.
LEMMA NextLedger == Inv /\ LedgerInv /\ [Next]_vars => LedgerInv'
  <1> SUFFICES ASSUME Inv, LedgerInv, [Next]_vars PROVE LedgerInv'
    OBVIOUS
  <1> USE DEF acceptVars, connVars, relayVars, countVars, stopVars
  <1>1. ASSUME NEW c \in Conns, Accept(c) PROVE LedgerInv'
    <2>1. cur \notin Conns /\ cur' \in Conns /\ total' = total + 1
      BY <1>1 DEF Accept, Inv, HandInv, InHand
    <2>2. UNCHANGED <<svc, rejectedByACL, rejectedByMax, connectErrors>>
      BY <1>1 DEF Accept
    <2> QED
      BY <2>1, <2>2, FiniteLedger
         DEF LedgerInv, Inv, TypeOK, Started, PastConnect
  <1>2. CASE RejectAddr \/ RejectFull
    <2>1. /\ cur \in Conns /\ cur' \notin Conns
          /\ rejectedByACL' + rejectedByMax' = rejectedByACL + rejectedByMax + 1
          /\ UNCHANGED <<svc, total, connectErrors>>
      BY <1>2, ConnsAssumption
         DEF RejectAddr, RejectFull, Refuse, Inv, TypeOK, HandInv, InHand
    <2>2. rejectedByACL' \in Nat /\ rejectedByMax' \in Nat
      BY <1>2 DEF RejectAddr, RejectFull, Inv, TypeOK
    <2>3. Started' = Started /\ PastConnect' = PastConnect
      BY <2>1 DEF Started, PastConnect
    <2>4. /\ {total, rejectedByACL, rejectedByMax} \subseteq Nat
          /\ Cardinality(Started) \in Nat
      BY FiniteLedger DEF Inv, TypeOK
    <2>5. total = rejectedByACL + rejectedByMax + Cardinality(Started) + 1
      BY <2>1 DEF LedgerInv
    <2>6. total = rejectedByACL' + rejectedByMax' + Cardinality(Started)
      BY <2>1, <2>2, <2>4, <2>5
    <2> QED
      BY <2>1, <2>2, <2>3, <2>4, <2>6 DEF LedgerInv
  <1>3. CASE Admit \/ StoreSession \/ CountActive \/ AcceptLoopExits
    <2>1. UNCHANGED <<svc, cur, total, rejectedByACL, rejectedByMax,
                      connectErrors>>
      BY <1>3 DEF Admit, StoreSession, CountActive, AcceptLoopExits
    <2> QED
      BY <2>1, LedgerUnchanged DEF Started, PastConnect
  <1>4. CASE Spawn
    \* The connection passes from the hand to its session.
    <2>1. cur \in Conns /\ cur' \notin Conns /\ svc[cur] = "none"
      BY <1>4, ConnsAssumption DEF Spawn, Inv, HandInv, InHand
    <2>2. svc' = [svc EXCEPT ![cur] = "startup"]
      BY <1>4 DEF Spawn
    <2>3. Started' = Started \cup {cur} /\ cur \notin Started
      BY <2>1, <2>2 DEF Inv, TypeOK, Started
    <2>4. PastConnect' = PastConnect
      BY <2>1, <2>2 DEF Inv, TypeOK, PastConnect
    <2>5. Cardinality(Started') = Cardinality(Started) + 1
      BY <2>3, FiniteLedger, FS_AddElement
    <2>6. UNCHANGED <<total, rejectedByACL, rejectedByMax, connectErrors>>
      BY <1>4 DEF Spawn
    <2> QED
      BY <2>1, <2>4, <2>5, <2>6, FiniteLedger DEF LedgerInv, Inv, TypeOK
  <1>5. ASSUME NEW c \in Conns, Service(c) PROVE LedgerInv'
    <2>1. UNCHANGED <<cur, total, rejectedByACL, rejectedByMax>>
      BY <1>5 DEF Service, StartupFails, CancelRequest, CancelDone,
                  RefuseStartup, UnknownDatabase, StartupMessage, DialOk,
                  DialFails, SSLAnswered, SSLFails, ConnectFails, ServiceStep
    <2>2. PICK to : /\ svc' = [svc EXCEPT ![c] = to]
                    /\ svc[c] \in {"startup", "cancel", "dial", "ssl"}
                    /\ \/ to \in {"close", "relay"}
                       \/ to \in {"cancel", "dial", "ssl"}
                              /\ UNCHANGED connectErrors
                    /\ connectErrors' \in {connectErrors, connectErrors + 1}
      BY <1>5 DEF Service, StartupFails, CancelRequest, CancelDone,
                  RefuseStartup, UnknownDatabase, StartupMessage, DialOk,
                  DialFails, SSLAnswered, SSLFails, ConnectFails, ServiceStep
    <2>3. Started' = Started
      BY <2>2 DEF Inv, TypeOK, Started
    <2>4. CASE to \in {"close", "relay"}
      <3>1. c \notin PastConnect /\ PastConnect' = PastConnect \cup {c}
        BY <2>2, <2>4 DEF Inv, TypeOK, PastConnect
      <3> QED
        BY <2>1, <2>2, <2>3, <3>1, LedgerPast DEF Inv
    <2>5. CASE to \in {"cancel", "dial", "ssl"} /\ UNCHANGED connectErrors
      <3>1. PastConnect' = PastConnect
        BY <2>2, <2>5 DEF Inv, TypeOK, PastConnect
      <3> QED
        BY <2>1, <2>3, <2>5, <3>1, LedgerUnchanged
    <2> QED
      BY <2>2, <2>4, <2>5
  <1>6. ASSUME NEW c \in Conns, Teardown(c) PROVE LedgerInv'
    <2>1. UNCHANGED <<cur, total, rejectedByACL, rejectedByMax, connectErrors>>
      BY <1>6 DEF Teardown, SessionEnds, CloseClient, DeleteSession, DecActive,
                  ServiceDone, ServiceStep
    <2>2. Started' = Started /\ PastConnect' = PastConnect
      BY <1>6 DEF Teardown, SessionEnds, CloseClient, DeleteSession, DecActive,
                  ServiceDone, ServiceStep, Inv, TypeOK, Started, PastConnect
    <2> QED
      BY <2>1, <2>2, LedgerUnchanged
  <1>7. ASSUME NEW c \in Conns, RelayLoops(c) \/ Environment(c)
        PROVE  LedgerInv'
    <2>1. UNCHANGED <<svc, cur, total, rejectedByACL, rejectedByMax,
                      connectErrors>>
      BY <1>7 DEF RelayLoops, Environment, ClientMessage, IncReadFails,
                  IncReply, IncWrite, IncWriteFails, BackendMessage,
                  RspReadFails, RspWrite, RspWriteFails, ClientCloses,
                  ClientFallsSilent, BackendCloses, IncStep, RspStep
    <2> QED
      BY <2>1, LedgerUnchanged DEF Started, PastConnect
  <1>8. CASE StopCall
    <2>1. UNCHANGED <<svc, cur, total, rejectedByACL, rejectedByMax,
                      connectErrors>>
      BY <1>8 DEF StopCall, Stop, StopCloseListener, DrainTimeout, ForceClose,
                  RangeEnds, StopReturns, StopStep
    <2> QED
      BY <2>1, LedgerUnchanged DEF Started, PastConnect
  <1>9. CASE Finished \/ UNCHANGED vars
    BY <1>9, LedgerUnchanged DEF Finished, vars, Started, PastConnect
  <1> QED
    BY <1>1, <1>2, <1>3, <1>4, <1>5, <1>6, <1>7, <1>8, <1>9
       DEF Next, AcceptLoop

\* The metrics add up: every accepted connection is counted in exactly one of
\* the columns, ActiveConnections is the number of slots held, and no more
\* failed connects are reported than there were sessions.
THEOREM LedgerHolds == Spec => []MetricsLedger
  <1>1. Init => LedgerInv
    <2> SUFFICES ASSUME Init PROVE LedgerInv
      OBVIOUS
    <2>1. Started = {} /\ PastConnect = {} /\ cur \notin Conns
      BY ConnsAssumption DEF Init, Started, PastConnect
    <2> QED
      BY <2>1, FS_EmptySet DEF Init, LedgerInv
  <1>2. Inv /\ LedgerInv => MetricsLedger
    <2> SUFFICES ASSUME Inv, LedgerInv PROVE MetricsLedger
      OBVIOUS
    <2>1. Cardinality({cur} \cap Conns) = IF cur \in Conns THEN 1 ELSE 0
      <3>1. CASE cur \in Conns
        <4>1. {cur} \cap Conns = {cur}
          BY <3>1
        <4> QED
          BY <3>1, <4>1, FS_Singleton
      <3>2. CASE cur \notin Conns
        <4>1. {cur} \cap Conns = {}
          BY <3>2
        <4> QED
          BY <3>2, <4>1, FS_EmptySet
      <3> QED
        BY <3>1, <3>2
    <2>2. connectErrors <= total - rejectedByACL - rejectedByMax
      BY FiniteLedger DEF LedgerInv, Inv, TypeOK
    <2> QED
      BY <2>1, <2>2 DEF MetricsLedger, LedgerInv, Started, Inv, CountInv
  <1> QED
    BY <1>1, <1>2, NextLedger, Invariance, PTL DEF Spec

-----------------------------------------------------------------------------
\* The connections that have given their slot back.
Served == {c \in Conns : svc[c] \in {"wgdone", "done"}}

\* A step that moves no session across the places where slots are taken and
\* given back, and does not end stop, is invisible to Admission.
LEMMA Invisible ==
    ASSUME Counted' = Counted, Served' = Served,
           (stopPc' = "returned") = (stopPc = "returned")
    PROVE  UNCHANGED Promise!admissionVars
  BY DEF Promise!admissionVars, Served

\* Start implements Admission: of all its steps, CountActive is Enter,
\* DecActive is Leave, the return of stop is Shutdown, and the others do not
\* show.
THEOREM AdmissionHolds == Spec => AdmissionKept
  <1>1. Init => Promise!Init
    BY DEF Init, Promise!Init, Counted, Serving
  <1>2. Inv /\ [Next]_vars => [Promise!Next]_(Promise!admissionVars)
    <2> SUFFICES ASSUME Inv, [Next]_vars
                 PROVE  [Promise!Next]_(Promise!admissionVars)
      OBVIOUS
    <2> USE DEF Inv, TypeOK, HandInv, AccStates, SvcStates, InHand, Served,
                Counted, Serving, acceptVars, stopVars
    <2>1. CASE CountActive
      <3>1. stopPc # "returned"
        BY <2>1 DEF CountActive, StopInv
      <3>2. Counted' = Counted \cup {cur} /\ cur \notin Counted \cup Served
        BY <2>1 DEF CountActive
      <3>3. MaxConnections > 0 => Cardinality(Counted) < MaxConnections
        BY <2>1 DEF CountActive, CapInv, CountInv
      <3>4. Served' = Served /\ stopPc' = stopPc /\ cur \in Conns
        BY <2>1 DEF CountActive
      <3> HIDE DEF Inv, TypeOK, HandInv, Counted, Serving
      <3>5. Promise!RoomLeft
        BY <3>3 DEF Promise!RoomLeft, Promise!Cardinality, Cardinality
      <3>6. Promise!Enter(cur)
        BY <3>1, <3>2, <3>4, <3>5 DEF Promise!Enter
      <3>7. Promise!Next
        BY <3>4, <3>6 DEF Promise!Next
      <3> QED
        BY <3>7
    <2>2. ASSUME NEW c \in Conns, DecActive(c)
          PROVE  Promise!Next
      <3>1. c \in Counted /\ Counted' = Counted \ {c}
        BY <2>2 DEF DecActive, ServiceStep
      <3>2. Served' = Served \cup {c} /\ stopPc' = stopPc
        BY <2>2 DEF DecActive, ServiceStep
      <3>3. Promise!Leave(c)
        BY <3>1, <3>2 DEF Promise!Leave
      <3> QED
        BY <3>3 DEF Promise!Next
    <2>3. CASE StopReturns
      <3>1. stopPc # "returned" /\ stopPc' = "returned"
        BY <2>3 DEF StopReturns, StopStep
      <3>2. acc = "exited" /\ Cardinality(Running) = 0
        BY <2>3, FiniteCounts DEF StopReturns, CountInv
      <3>3. Running = {}
        BY <3>2, FiniteCounts, FS_EmptySet
      <3>4. Counted = {}
        BY <3>2, <3>3 DEF Running
      <3>5. Counted' = Counted /\ Served' = Served
        BY <2>3 DEF StopReturns, StopStep
      <3>6. Promise!Shutdown
        BY <3>1, <3>4, <3>5 DEF Promise!Shutdown
      <3> QED
        BY <3>6 DEF Promise!Next
    <2>4. CASE AcceptLoop /\ ~CountActive
      <3>1. Counted' = Counted /\ Served' = Served /\ stopPc' = stopPc
        BY <2>4 DEF AcceptLoop, Accept, RejectAddr, RejectFull, Refuse, Admit,
                    StoreSession, Spawn, AcceptLoopExits
      <3> QED
        BY <3>1, Invisible
    <2>5. ASSUME NEW c \in Conns, Service(c)
          PROVE  UNCHANGED Promise!admissionVars
      <3>1. Counted' = Counted /\ Served' = Served /\ stopPc' = stopPc
        BY <2>5 DEF Service, StartupFails, CancelRequest, CancelDone,
                    RefuseStartup, UnknownDatabase, StartupMessage, DialOk,
                    DialFails, SSLAnswered, SSLFails, ConnectFails,
                    ServiceStep
      <3> QED
        BY <3>1, Invisible
    <2>6. ASSUME NEW c \in Conns, Teardown(c), ~DecActive(c)
          PROVE  UNCHANGED Promise!admissionVars
      <3>1. Counted' = Counted /\ Served' = Served /\ stopPc' = stopPc
        BY <2>6 DEF Teardown, SessionEnds, CloseClient, DeleteSession,
                    ServiceDone, ServiceStep
      <3> QED
        BY <3>1, Invisible
    <2>7. ASSUME NEW c \in Conns, RelayLoops(c) \/ Environment(c)
          PROVE  UNCHANGED Promise!admissionVars
      <3>1. UNCHANGED <<svc, acc, cur, stopPc>>
        BY <2>7 DEF RelayLoops, Environment, ClientMessage, IncReadFails,
                    IncReply, IncWrite, IncWriteFails, BackendMessage,
                    RspReadFails, RspWrite, RspWriteFails, ClientCloses,
                    ClientFallsSilent, BackendCloses, IncStep, RspStep
      <3> QED
        BY <3>1, Invisible
    <2>8. CASE StopCall /\ ~StopReturns
      <3>1. UNCHANGED <<svc, acc, cur>>
        BY <2>8 DEF StopCall, Stop, StopCloseListener, DrainTimeout,
                    ForceClose, RangeEnds, StopStep
      <3>2. stopPc # "returned" /\ stopPc' # "returned"
        BY <2>8 DEF StopCall, Stop, StopCloseListener, DrainTimeout,
                    ForceClose, RangeEnds, StopStep
      <3> QED
        BY <3>1, <3>2, Invisible
    <2>9. CASE Finished \/ UNCHANGED vars
      BY <2>9, Invisible DEF Finished, vars
    <2> QED
      BY <2>1, <2>2, <2>3, <2>4, <2>5, <2>6, <2>7, <2>8, <2>9 DEF Next
  <1> QED
    BY <1>1, <1>2, Invariance, PTL DEF Spec, Promise!Spec, AdmissionKept
=============================================================================
