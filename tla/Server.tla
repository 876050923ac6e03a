------------------------------- MODULE Server -------------------------------
(***************************************************************************)
(* The server built by proxy.Start (src/proxy/proxy.go): the goroutine that *)
(* accepts connections, the service goroutine of every session, the two    *)
(* relay goroutines a session starts once its backend is connected, and    *)
(* the stop function that drains or force-closes all of it.                *)
(*                                                                         *)
(* Each connection of Conns connects at most once.  What is said on a      *)
(* connection is abstracted to what decides control: which messages end    *)
(* the session, which are blocked by the handler, and who is blocked on    *)
(* which socket.  Message contents are the subject of CancelRegistry.      *)
(***************************************************************************)
EXTENDS Naturals, FiniteSets

CONSTANTS
    Conns,           \* the client connections that may arrive
    NoConn,          \* the accept goroutine has no connection in hand
    MaxConnections,  \* WithMaxConnections; 0 stands for n <= 0, unlimited
    IdleTimeout,     \* whether WithIdleTimeout is positive
    DeniedAddr,      \* connections whose source address WithACL refuses
    DeniedStartup,   \* connections whose user or database WithACL refuses
    Stalls           \* the places where the environment may block forever

(***************************************************************************)
(* The members of Stalls.  "ssl": a backend that accepts the connection    *)
(* and never answers the SSLRequest.  "write": a backend that stops        *)
(* reading.  "terminate": a backend that does not close its connection     *)
(* after a Terminate.  "accept": the accept goroutine is held up for more  *)
(* than drainTimeout between Accept and sessions.Store.                    *)
(***************************************************************************)
ASSUME ConnsAssumption ==
    /\ IsFiniteSet(Conns)
    /\ NoConn \notin Conns
    /\ DeniedAddr \subseteq Conns
    /\ DeniedStartup \subseteq Conns

ASSUME OptionsAssumption ==
    /\ MaxConnections \in Nat
    /\ IdleTimeout \in BOOLEAN
    /\ Stalls \subseteq {"ssl", "write", "terminate", "accept"}

VARIABLES
    client,         \* what the peer on each client connection is doing
    lconn,          \* the proxy's end of each client connection
    rconn,          \* the proxy's end of each backend connection
    acc,            \* where the accept goroutine is
    cur,            \* the connection the accept goroutine has in hand
    sessions,       \* the sessions map, as the set of its keys
    wg,             \* the WaitGroup's counter
    total,          \* Metrics.TotalConnections
    active,         \* Metrics.ActiveConnections
    rejectedByACL,  \* Metrics.RejectedByACL
    rejectedByMax,  \* Metrics.RejectedByMaxConnections
    connectErrors,  \* Metrics.BackendConnectErrors
    svc,            \* where each session's service goroutine is
    inc,            \* where each handleIncomingConnection goroutine is
    rsp,            \* where each handleResponseConnection goroutine is
    errsig,         \* whether each session's errsig channel is closed
    stopPc,         \* where the call of stop is
    unvisited,      \* sessions the force-closing Range has yet to visit
    late            \* history: sessions stored once that Range had begun

acceptVars == <<acc, cur, total, rejectedByACL, rejectedByMax>>
connVars   == <<client, lconn, rconn>>
relayVars  == <<inc, rsp>>
countVars  == <<sessions, wg, active, connectErrors>>
stopVars   == <<stopPc, unvisited, late>>

vars == <<acceptVars, connVars, relayVars, countVars, stopVars, svc, errsig>>

ClientStates == {"away", "open", "silent", "gone"}
SocketStates == {"none", "open", "eof", "closed"}
AccStates == {"accept", "check", "store", "count", "spawn", "exited"}
SvcStates == {"none", "startup", "cancel", "dial", "ssl", "relay", "close",
              "delete", "dec", "wgdone", "done"}
IncStates == {"none", "read", "reply", "write", "terminate", "left", "exit"}
RspStates == {"none", "read", "write", "exit"}
StopStates == {"running", "closing", "draining", "forcing", "waiting",
               "returned"}

TypeOK ==
    /\ client \in [Conns -> ClientStates]
    /\ lconn \in [Conns -> SocketStates \ {"eof"}]
    /\ rconn \in [Conns -> SocketStates]
    /\ acc \in AccStates
    /\ cur \in Conns \cup {NoConn}
    /\ sessions \subseteq Conns
    /\ wg \in Nat
    /\ total \in Nat
    /\ active \in Nat
    /\ rejectedByACL \in Nat
    /\ rejectedByMax \in Nat
    /\ connectErrors \in Nat
    /\ svc \in [Conns -> SvcStates]
    /\ inc \in [Conns -> IncStates]
    /\ rsp \in [Conns -> RspStates]
    /\ errsig \in [Conns -> BOOLEAN]
    /\ stopPc \in StopStates
    /\ unvisited \subseteq Conns
    /\ late \subseteq Conns

Init ==
    /\ client = [c \in Conns |-> "away"]
    /\ lconn = [c \in Conns |-> "none"]
    /\ rconn = [c \in Conns |-> "none"]
    /\ acc = "accept"
    /\ cur = NoConn
    /\ sessions = {}
    /\ wg = 1
    /\ total = 0
    /\ active = 0
    /\ rejectedByACL = 0
    /\ rejectedByMax = 0
    /\ connectErrors = 0
    /\ svc = [c \in Conns |-> "none"]
    /\ inc = [c \in Conns |-> "none"]
    /\ rsp = [c \in Conns |-> "none"]
    /\ errsig = [c \in Conns |-> FALSE]
    /\ stopPc = "running"
    /\ unvisited = {}
    /\ late = {}

-----------------------------------------------------------------------------
(***************************************************************************)
(* The clients.  What a client does once the proxy has closed the          *)
(* connection makes no difference and is left out.                         *)
(***************************************************************************)
\* A client closes its connection, or the network drops it.
ClientCloses(c) ==
    /\ client[c] \in {"open", "silent"}
    /\ lconn[c] = "open"
    /\ client' = [client EXCEPT ![c] = "gone"]
    /\ UNCHANGED <<acceptVars, lconn, rconn, relayVars, countVars, stopVars,
                   svc, errsig>>

\* A client stays connected but neither sends nor reads anything any more.
ClientFallsSilent(c) ==
    /\ client[c] = "open"
    /\ lconn[c] = "open"
    /\ client' = [client EXCEPT ![c] = "silent"]
    /\ UNCHANGED <<acceptVars, lconn, rconn, relayVars, countVars, stopVars,
                   svc, errsig>>

\* The client still sends, and the proxy still has the socket to read it.
CanReceive(c) == client[c] = "open" /\ lconn[c] = "open"

\* Reads from and writes to the client connection fail.
ClientBroken(c) == client[c] = "gone" \/ lconn[c] = "closed"

-----------------------------------------------------------------------------
(***************************************************************************)
(* The accept goroutine of Start.  A failed Accept before stop is called   *)
(* is logged and retried, which changes nothing.                           *)
(***************************************************************************)
stopping == stopPc # "running"
listening == stopPc \in {"running", "closing"}

Accept(c) ==
    /\ acc = "accept"
    /\ listening
    /\ client[c] = "away"
    /\ client' = [client EXCEPT ![c] = "open"]
    /\ lconn' = [lconn EXCEPT ![c] = "open"]
    /\ cur' = c
    /\ total' = total + 1
    /\ acc' = "check"
    /\ UNCHANGED <<rejectedByACL, rejectedByMax, rconn, relayVars, countVars,
                   stopVars, svc, errsig>>

\* The connection in hand is answered with an error, closed and forgotten.
Refuse ==
    /\ lconn' = [lconn EXCEPT ![cur] = "closed"]
    /\ cur' = NoConn
    /\ acc' = "accept"
    /\ UNCHANGED <<total, client, rconn, relayVars, countVars, stopVars, svc,
                   errsig>>

RejectAddr ==
    /\ acc = "check"
    /\ cur \in DeniedAddr
    /\ rejectedByACL' = rejectedByACL + 1
    /\ Refuse
    /\ UNCHANGED rejectedByMax

\* Mutant: the limit is compared with > instead of >=.
AtLimitOffByOne == MaxConnections > 0 /\ active > MaxConnections

AtLimit == MaxConnections > 0 /\ active >= MaxConnections

\* Mutant: the refused connection is not counted.
RejectFullUncounted ==
    /\ acc = "check"
    /\ cur \notin DeniedAddr
    /\ AtLimit
    /\ Refuse
    /\ UNCHANGED <<rejectedByACL, rejectedByMax>>

RejectFull ==
    /\ acc = "check"
    /\ cur \notin DeniedAddr
    /\ AtLimit
    /\ rejectedByMax' = rejectedByMax + 1
    /\ Refuse
    /\ UNCHANGED rejectedByACL

Admit ==
    /\ acc = "check"
    /\ cur \notin DeniedAddr
    /\ ~AtLimit
    /\ acc' = "store"
    /\ UNCHANGED <<cur, total, rejectedByACL, rejectedByMax, connVars,
                   relayVars, countVars, stopVars, svc, errsig>>

\* Mutant: the session is never put in the map.
StoreSessionForgotten ==
    /\ acc = "store"
    /\ acc' = "count"
    /\ UNCHANGED <<cur, total, rejectedByACL, rejectedByMax, connVars,
                   relayVars, countVars, stopVars, svc, errsig>>

StoreSession ==
    /\ acc = "store"
    /\ sessions' = sessions \cup {cur}
    /\ late' = IF stopPc \in {"forcing", "waiting"} THEN late \cup {cur}
                                                   ELSE late
    /\ acc' = "count"
    /\ UNCHANGED <<cur, total, rejectedByACL, rejectedByMax, connVars,
                   relayVars, wg, active, connectErrors, stopPc, unvisited,
                   svc, errsig>>

\* Mutant: the slot is never counted as taken.
CountActiveForgotten ==
    /\ acc = "count"
    /\ acc' = "spawn"
    /\ UNCHANGED <<cur, total, rejectedByACL, rejectedByMax, connVars,
                   relayVars, countVars, stopVars, svc, errsig>>

CountActive ==
    /\ acc = "count"
    /\ active' = active + 1
    /\ acc' = "spawn"
    /\ UNCHANGED <<cur, total, rejectedByACL, rejectedByMax, connVars,
                   relayVars, sessions, wg, connectErrors, stopVars, svc,
                   errsig>>

\* Mutant: the session goroutine starts without wg.Add(1).
SpawnNotAwaited ==
    /\ acc = "spawn"
    /\ svc' = [svc EXCEPT ![cur] = "startup"]
    /\ cur' = NoConn
    /\ acc' = "accept"
    /\ UNCHANGED <<total, rejectedByACL, rejectedByMax, connVars, relayVars,
                   countVars, stopVars, errsig>>

\* wg.Add(1) and the go statement that starts the session.
Spawn ==
    /\ acc = "spawn"
    /\ wg' = wg + 1
    /\ svc' = [svc EXCEPT ![cur] = "startup"]
    /\ cur' = NoConn
    /\ acc' = "accept"
    /\ UNCHANGED <<total, rejectedByACL, rejectedByMax, connVars, relayVars,
                   sessions, active, connectErrors, stopVars, errsig>>

\* Accept fails and the stopping channel is closed.
AcceptLoopExits ==
    /\ acc = "accept"
    /\ stopping
    /\ wg' = wg - 1
    /\ acc' = "exited"
    /\ UNCHANGED <<cur, total, rejectedByACL, rejectedByMax, connVars,
                   relayVars, sessions, active, connectErrors, stopVars, svc,
                   errsig>>

-----------------------------------------------------------------------------
(***************************************************************************)
(* The service goroutine, up to the point where the relay starts.          *)
(***************************************************************************)
\* The service goroutine of c moves and touches none of the counters.
ServiceStep(c, from, to) ==
    /\ svc[c] = from
    /\ svc' = [svc EXCEPT ![c] = to]
    /\ UNCHANGED <<acceptVars, stopVars>>

\* p.err: the first call closes errsig, later ones do nothing.
SignalErr(c) == errsig' = [errsig EXCEPT ![c] = TRUE]

\* readStartupMessage fails, or the message is of no supported kind.  There
\* is no read deadline yet: a silent client blocks it.
StartupFails(c) ==
    /\ ClientBroken(c) \/ CanReceive(c)
    /\ ServiceStep(c, "startup", "close")
    /\ SignalErr(c)
    /\ UNCHANGED <<connVars, relayVars, countVars>>

CancelRequest(c) ==
    /\ CanReceive(c)
    /\ ServiceStep(c, "startup", "cancel")
    /\ UNCHANGED <<connVars, relayVars, countVars, errsig>>

\* forwardCancelRequest returns, whatever became of the request.
CancelDone(c) ==
    /\ ServiceStep(c, "cancel", "close")
    /\ UNCHANGED <<connVars, relayVars, countVars, errsig>>

RefuseStartup(c) ==
    /\ CanReceive(c)
    /\ c \in DeniedStartup
    /\ ServiceStep(c, "startup", "close")
    /\ SignalErr(c)
    /\ UNCHANGED <<connVars, relayVars, countVars>>

\* Permitted, but the database is not in the configuration.
UnknownDatabase(c) ==
    /\ CanReceive(c)
    /\ c \notin DeniedStartup
    /\ ServiceStep(c, "startup", "close")
    /\ SignalErr(c)
    /\ UNCHANGED <<connVars, relayVars, countVars>>

StartupMessage(c) ==
    /\ CanReceive(c)
    /\ c \notin DeniedStartup
    /\ ServiceStep(c, "startup", "dial")
    /\ UNCHANGED <<connVars, relayVars, countVars, errsig>>

\* connectBackend failed: counted, reported to the client, session over.
ConnectFails(c, from) ==
    /\ ServiceStep(c, from, "close")
    /\ connectErrors' = connectErrors + 1
    /\ SignalErr(c)
    /\ UNCHANGED <<client, lconn, relayVars, sessions, wg, active>>

DialOk(c) ==
    /\ ServiceStep(c, "dial", "ssl")
    /\ rconn' = [rconn EXCEPT ![c] = "open"]
    /\ UNCHANGED <<client, lconn, relayVars, countVars, errsig>>

DialFails(c) ==
    /\ ConnectFails(c, "dial")
    /\ UNCHANGED rconn

\* The SSLRequest is answered and the startup message forwarded: both relay
\* goroutines start, and service waits on errsig.
SSLAnswered(c) ==
    /\ ServiceStep(c, "ssl", "relay")
    /\ inc' = [inc EXCEPT ![c] = "read"]
    /\ rsp' = [rsp EXCEPT ![c] = "read"]
    /\ UNCHANGED <<connVars, countVars, errsig>>

SSLFails(c) ==
    /\ ConnectFails(c, "ssl")
    /\ rconn' = [rconn EXCEPT ![c] = "closed"]

-----------------------------------------------------------------------------
(***************************************************************************)
(* The end of a session: serviceStartup's wait and deferred close, then    *)
(* the deferred calls of service and of the goroutine around it.           *)
(***************************************************************************)
\* Mutant: the deferred close of the backend connection is missing.
SessionEndsKeepingBackend(c) ==
    /\ errsig[c]
    /\ ServiceStep(c, "relay", "close")
    /\ UNCHANGED <<connVars, relayVars, countVars, errsig>>

SessionEnds(c) ==
    /\ errsig[c]
    /\ ServiceStep(c, "relay", "close")
    /\ rconn' = [rconn EXCEPT ![c] = "closed"]
    /\ UNCHANGED <<client, lconn, relayVars, countVars, errsig>>

CloseClient(c) ==
    /\ ServiceStep(c, "close", "delete")
    /\ lconn' = [lconn EXCEPT ![c] = "closed"]
    /\ UNCHANGED <<client, rconn, relayVars, countVars, errsig>>

DeleteSession(c) ==
    /\ ServiceStep(c, "delete", "dec")
    /\ sessions' = sessions \ {c}
    /\ UNCHANGED <<connVars, relayVars, wg, active, connectErrors, errsig>>

DecActive(c) ==
    /\ ServiceStep(c, "dec", "wgdone")
    /\ active' = active - 1
    /\ UNCHANGED <<connVars, relayVars, sessions, wg, connectErrors, errsig>>

\* Mutant: wg.Done is called twice.
ServiceDoneTwice(c) ==
    /\ ServiceStep(c, "wgdone", "done")
    /\ wg' = wg - 2
    /\ UNCHANGED <<connVars, relayVars, sessions, active, connectErrors,
                   errsig>>

ServiceDone(c) ==
    /\ ServiceStep(c, "wgdone", "done")
    /\ wg' = wg - 1
    /\ UNCHANGED <<connVars, relayVars, sessions, active, connectErrors,
                   errsig>>

-----------------------------------------------------------------------------
(***************************************************************************)
(* handleIncomingConnection.                                               *)
(***************************************************************************)
IncStep(c, from, to) ==
    /\ inc[c] = from
    /\ inc' = [inc EXCEPT ![c] = to]
    /\ UNCHANGED <<acceptVars, connVars, rsp, countVars, stopVars, svc>>

\* A message to forward, one the handler blocks, or a Terminate.
ClientMessage(c) ==
    /\ CanReceive(c)
    /\ \E to \in {"write", "reply", "terminate"} : IncStep(c, "read", to)
    /\ UNCHANGED errsig

\* Mutant: a failed read returns without calling p.err.
IncReadFailsQuietly(c) ==
    /\ ClientBroken(c) \/ client[c] = "open" \/ IdleTimeout
    /\ IncStep(c, "read", "exit")
    /\ UNCHANGED errsig

\* Mutant: no read deadline is set.
IncReadFailsNoDeadline(c) ==
    /\ ClientBroken(c) \/ client[c] = "open"
    /\ IncStep(c, "read", "exit")
    /\ SignalErr(c)

\* Receive fails: the connection broke, the message did not decode, or the
\* read deadline passed.
IncReadFails(c) ==
    /\ ClientBroken(c) \/ client[c] = "open" \/ IdleTimeout
    /\ IncStep(c, "read", "exit")
    /\ SignalErr(c)

\* The error (and ReadyForQuery) for a blocked statement is written to the
\* client, which may block while the client does not read; a failed write is
\* ignored and the loop goes on.
IncReply(c) ==
    /\ IncStep(c, "reply", "read")
    /\ UNCHANGED errsig

\* The backend, or at least its socket, takes the message.
IncWrite(c) ==
    /\ rconn[c] \in {"open", "eof"}
    /\ \/ IncStep(c, "write", "read")
       \/ IncStep(c, "terminate", "left")
    /\ UNCHANGED errsig

IncWriteFails(c) ==
    /\ rconn[c] \in {"eof", "closed"}
    /\ \E from \in {"write", "terminate"} : IncStep(c, from, "exit")
    /\ SignalErr(c)

-----------------------------------------------------------------------------
(***************************************************************************)
(* handleResponseConnection, and the backend it reads from.                *)
(***************************************************************************)
RspStep(c, from, to) ==
    /\ rsp[c] = from
    /\ rsp' = [rsp EXCEPT ![c] = to]
    /\ UNCHANGED <<acceptVars, connVars, inc, countVars, stopVars, svc>>

BackendMessage(c) ==
    /\ rconn[c] = "open"
    /\ RspStep(c, "read", "write")
    /\ UNCHANGED errsig

RspReadFails(c) ==
    /\ rconn[c] \in {"eof", "closed"}
    /\ RspStep(c, "read", "exit")
    /\ SignalErr(c)

\* The client, or at least its socket, takes the message.
RspWrite(c) ==
    /\ client[c] \in {"open", "silent"}
    /\ lconn[c] = "open"
    /\ RspStep(c, "write", "read")
    /\ UNCHANGED errsig

RspWriteFails(c) ==
    /\ ClientBroken(c)
    /\ RspStep(c, "write", "exit")
    /\ SignalErr(c)

\* The backend ends the connection: after a Terminate, or on its own.
BackendCloses(c) ==
    /\ rconn[c] = "open"
    /\ svc[c] = "relay"
    /\ rconn' = [rconn EXCEPT ![c] = "eof"]
    /\ UNCHANGED <<acceptVars, client, lconn, relayVars, countVars, stopVars,
                   svc, errsig>>

-----------------------------------------------------------------------------
(***************************************************************************)
(* The function returned by Start, called once.                            *)
(***************************************************************************)
StopStep(from, to) ==
    /\ stopPc = from
    /\ stopPc' = to
    /\ UNCHANGED <<acceptVars, client, rconn, relayVars, countVars, late, svc,
                   errsig>>

Stop ==
    /\ StopStep("running", "closing")
    /\ UNCHANGED <<lconn, unvisited>>

StopCloseListener ==
    /\ StopStep("closing", "draining")
    /\ UNCHANGED <<lconn, unvisited>>

\* drainTimeout passes first.  Nothing in the code orders this after the end
\* of the accept goroutine; that it is gone when the listener was closed
\* drainTimeout ago is an assumption on timing, which "accept" lifts.
DrainTimeout ==
    /\ acc = "exited" \/ "accept" \in Stalls
    /\ StopStep("draining", "forcing")
    /\ unvisited' = sessions
    /\ UNCHANGED lconn

\* Range hands a session to the callback.  Those stored before Range began
\* and not deleted since are all visited; others may be.
ForceClose(c) ==
    /\ c \in sessions
    /\ StopStep("forcing", "forcing")
    /\ lconn' = [lconn EXCEPT ![c] = "closed"]
    /\ unvisited' = unvisited \ {c}

\* Mutant: the callback ends the Range after the first session.
RangeEndsEarly ==
    /\ unvisited # sessions \/ sessions = {}
    /\ StopStep("forcing", "waiting")
    /\ UNCHANGED <<lconn, unvisited>>

RangeEnds ==
    /\ unvisited \cap sessions = {}
    /\ StopStep("forcing", "waiting")
    /\ UNCHANGED <<lconn, unvisited>>

\* drained is closed: wg.Wait has returned.
StopReturns ==
    /\ wg = 0
    /\ \E from \in {"draining", "waiting"} : StopStep(from, "returned")
    /\ UNCHANGED <<lconn, unvisited>>

Finished == stopPc = "returned" /\ UNCHANGED vars

-----------------------------------------------------------------------------
AcceptLoop ==
    \/ \E c \in Conns : Accept(c)
    \/ RejectAddr \/ RejectFull \/ Admit \/ StoreSession \/ CountActive
    \/ Spawn \/ AcceptLoopExits

Service(c) ==
    \/ StartupFails(c) \/ CancelRequest(c) \/ CancelDone(c)
    \/ RefuseStartup(c) \/ UnknownDatabase(c) \/ StartupMessage(c)
    \/ DialOk(c) \/ DialFails(c) \/ SSLAnswered(c) \/ SSLFails(c)

Teardown(c) ==
    \/ SessionEnds(c) \/ CloseClient(c) \/ DeleteSession(c)
    \/ DecActive(c) \/ ServiceDone(c)

RelayLoops(c) ==
    \/ ClientMessage(c) \/ IncReadFails(c) \/ IncReply(c) \/ IncWrite(c)
    \/ IncWriteFails(c) \/ BackendMessage(c) \/ RspReadFails(c)
    \/ RspWrite(c) \/ RspWriteFails(c)

Environment(c) ==
    ClientCloses(c) \/ ClientFallsSilent(c) \/ BackendCloses(c)

StopCall ==
    \/ Stop \/ StopCloseListener \/ DrainTimeout
    \/ \E c \in Conns : ForceClose(c)
    \/ RangeEnds \/ StopReturns

Next ==
    \/ AcceptLoop
    \/ \E c \in Conns :
          Service(c) \/ Teardown(c) \/ RelayLoops(c) \/ Environment(c)
    \/ StopCall
    \/ Finished

(***************************************************************************)
(* Goroutines that can run do; dials are bounded by backendDialTimeout.    *)
(* Nothing is assumed of clients: they need not connect, send, read or     *)
(* close.  A backend answers the SSLRequest, reads what it is sent and     *)
(* closes after a Terminate unless Stalls says that it may not.            *)
(***************************************************************************)
Fairness ==
    /\ WF_vars(RejectAddr \/ RejectFull \/ Admit \/ StoreSession
               \/ CountActive \/ Spawn \/ AcceptLoopExits)
    /\ WF_vars(StopCloseListener) /\ WF_vars(DrainTimeout)
    /\ WF_vars(RangeEnds) /\ WF_vars(StopReturns)
    /\ \A c \in Conns :
          /\ WF_vars(c \in unvisited /\ ForceClose(c))
          /\ WF_vars(ClientBroken(c) /\ StartupFails(c))
          /\ WF_vars(CancelDone(c))
          /\ WF_vars(DialOk(c) \/ DialFails(c))
          /\ WF_vars("ssl" \notin Stalls /\ (SSLAnswered(c) \/ SSLFails(c)))
          /\ WF_vars(Teardown(c))
          /\ WF_vars((ClientBroken(c) \/ IdleTimeout) /\ IncReadFails(c))
          /\ WF_vars(ClientBroken(c) /\ IncReply(c))
          /\ WF_vars("write" \notin Stalls /\ IncWrite(c))
          /\ WF_vars(IncWriteFails(c))
          /\ WF_vars(RspReadFails(c))
          /\ WF_vars(RspWriteFails(c))
          /\ WF_vars(/\ "terminate" \notin Stalls
                     /\ inc[c] = "left"
                     /\ BackendCloses(c))

Spec == Init /\ [][Next]_vars

FairSpec == Spec /\ Fairness

-----------------------------------------------------------------------------
(***************************************************************************)
(* Safety.                                                                 *)
(***************************************************************************)
\* Sessions whose service goroutine holds an admission slot.
Serving == {c \in Conns : svc[c] \notin {"none", "wgdone", "done"}}

\* Connections counted by Metrics.ActiveConnections: the accept goroutine
\* counts a session just before it starts it.
Counted == Serving \cup (IF acc = "spawn" THEN {cur} ELSE {})

\* Backend connections the proxy has not closed.
BackendsOpen == {c \in Conns : rconn[c] \in {"open", "eof"}}

\* WithMaxConnections bounds the sessions being serviced and the backend
\* connections held for them, though the check, the counting and the release
\* of a slot are separate steps of different goroutines: no interleaving of
\* the accept goroutine with ending sessions exceeds the cap, and a slot is
\* only given back once the backend connection is closed.
CapRespected ==
    MaxConnections > 0 =>
        Cardinality(Serving \cup BackendsOpen) <= MaxConnections

\* Every accepted connection is accounted for exactly once in the metrics:
\* rejected by address, rejected by the cap, given a session, or still in the
\* accept goroutine's hand; and ActiveConnections is the number of slots held.
MetricsLedger ==
    /\ total = rejectedByACL + rejectedByMax
                + Cardinality({c \in Conns : svc[c] # "none"})
                + Cardinality({cur} \cap Conns)
    /\ active = Cardinality(Counted)
    /\ connectErrors <= total - rejectedByACL - rejectedByMax

\* When stop's Range has ended, the client connection of every session that
\* was in the map when it began is closed, however the accept goroutine and
\* the ends of other sessions interleave with it: sessions enter the map
\* before their goroutine starts and leave it after their connection is
\* closed.  The only session it can miss is the one connection the accept
\* goroutine still had in hand and stored while Range ran or after it.
ForceCloseComplete ==
    /\ stopPc = "waiting" =>
          \A c \in Conns :
              svc[c] # "none" /\ lconn[c] = "open" => c \in late
    /\ \A c, d \in late : c = d

\* When stop returns, the accept goroutine and every service goroutine are
\* gone, the sessions map is empty, no slot is held and no client or backend
\* connection is left open.
StopClean ==
    stopPc = "returned" =>
        /\ acc = "exited"
        /\ \A c \in Conns :
              /\ svc[c] \in {"none", "done"}
              /\ lconn[c] # "open"
              /\ c \notin BackendsOpen
        /\ sessions = {}
        /\ active = 0

\* What Admission promises, seen through the slots.
Promise == INSTANCE Admission WITH
    serving <- Counted,
    served  <- {c \in Conns : svc[c] \in {"wgdone", "done"}},
    down    <- stopPc = "returned"

\* Start implements Admission: slots are taken one at a time within the cap,
\* no connection is served twice, and after stop nobody is let in.
AdmissionKept == Promise!Spec

-----------------------------------------------------------------------------
(***************************************************************************)
(* Liveness, under FairSpec.                                               *)
(***************************************************************************)
\* A call of stop returns: the sessions that do not end by themselves end
\* because their client connection is closed under them.
StopTerminates == [](stopping => <>(stopPc = "returned"))

\* Once a client is gone its session ends and gives its slot back.
SlotReleased ==
    \A c \in Conns :
        (client[c] = "gone" /\ svc[c] # "none") ~> (svc[c] = "done")

\* The two relay goroutines, which stop does not wait for, do not outlive
\* their session for ever.
RelayGoroutinesExit ==
    \A c \in Conns :
        (svc[c] = "done") ~> (/\ inc[c] \in {"none", "left", "exit"}
                             /\ rsp[c] \in {"none", "exit"})

\* With WithIdleTimeout a client that has gone silent while the proxy waits
\* for its next message loses its session.  (Before the relay starts no
\* deadline is set: a client that never sends its startup message stays.)
IdleRelayReleased ==
    \A c \in Conns :
        (IdleTimeout /\ client[c] = "silent" /\ inc[c] = "read")
            ~> (svc[c] = "done")

=============================================================================
