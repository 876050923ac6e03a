--------------------------- MODULE CancelRegistry ---------------------------
(***************************************************************************)
(* The process-wide cancelRegistry of src/proxy/proxy.go and the three     *)
(* kinds of goroutine that share it: the response relay of a session       *)
(* enters the (pid, secret) pair of the backend's BackendKeyData, the      *)
(* session's service goroutine deletes it when the session ends, and a     *)
(* connection that carries a CancelRequest looks it up to find the backend *)
(* to forward the request to.                                              *)
(*                                                                         *)
(* A key is the pid and the first four bytes of the secret.  Backends      *)
(* number their processes independently, so one pid may be in use at two   *)
(* backends, and a backend gives the pid of a process that is gone to      *)
(* another one; that the random secret also comes out the same is assumed  *)
(* not to happen.                                                          *)
(***************************************************************************)
EXTENDS Naturals, FiniteSets

CONSTANTS
    Sessions,   \* sessions that reach the relay stage
    Cancels,    \* connections that carry a CancelRequest
    Backends,   \* the configured backends (their backendTarget)
    Pids,       \* backend process ids
    Secrets,    \* first four bytes of backend secrets
    NoKey,      \* a nil registeredKey, or no key issued
    NoBackend   \* no entry in the registry

Keys == [pid : Pids, secret : Secrets]

ASSUME KeysAssumption == NoKey \notin Keys /\ NoBackend \notin Backends

VARIABLES
    target,      \* the backend each session is connected to
    svc,         \* where each service goroutine is
    rsp,         \* where each handleResponseConnection goroutine is
    errsig,      \* whether each session's errsig channel is closed
    issued,      \* the key each session's backend assigned to it
    registered,  \* each session's registeredKey
    loaded,      \* the key each session's teardown has read
    registry,    \* cancelRegistry: key to backend
    told,        \* history: sessions whose client has been sent its key
    toldInTime,  \* history: those told before errsig was closed
    canc,        \* where each CancelRequest is
    asked,       \* the key each CancelRequest carries
    found,       \* the backend it found in the registry
    forwarded    \* history: requests that reached a backend

sessionVars == <<target, svc, errsig, loaded>>
relayVars   == <<rsp, issued, registered, told, toldInTime>>
cancelVars  == <<canc, asked, found, forwarded>>

vars == <<sessionVars, relayVars, registry, cancelVars>>

TypeOK ==
    /\ target \in [Sessions -> Backends]
    /\ svc \in [Sessions -> {"none", "relay", "delete", "over"}]
    /\ rsp \in [Sessions -> {"none", "read", "store", "remember", "tell",
                             "exit"}]
    /\ errsig \in [Sessions -> BOOLEAN]
    /\ issued \in [Sessions -> Keys \cup {NoKey}]
    /\ registered \in [Sessions -> Keys \cup {NoKey}]
    /\ loaded \in [Sessions -> Keys \cup {NoKey}]
    /\ registry \in [Keys -> Backends \cup {NoBackend}]
    /\ told \subseteq Sessions
    /\ toldInTime \subseteq told
    /\ canc \in [Cancels -> {"none", "dial", "send", "over"}]
    /\ asked \in [Cancels -> Keys \cup {NoKey}]
    /\ found \in [Cancels -> Backends \cup {NoBackend}]
    /\ forwarded \subseteq [key : Keys, to : Backends]

Init ==
    /\ target \in [Sessions -> Backends]
    /\ svc = [s \in Sessions |-> "none"]
    /\ rsp = [s \in Sessions |-> "none"]
    /\ errsig = [s \in Sessions |-> FALSE]
    /\ issued = [s \in Sessions |-> NoKey]
    /\ registered = [s \in Sessions |-> NoKey]
    /\ loaded = [s \in Sessions |-> NoKey]
    /\ registry = [k \in Keys |-> NoBackend]
    /\ told = {}
    /\ toldInTime = {}
    /\ canc = [x \in Cancels |-> "none"]
    /\ asked = [x \in Cancels |-> NoKey]
    /\ found = [x \in Cancels |-> NoBackend]
    /\ forwarded = {}

-----------------------------------------------------------------------------
(***************************************************************************)
(* A session: serviceStartup starts the relay, waits on errsig, and cleans *)
(* up.                                                                     *)
(***************************************************************************)
StartRelay(s) ==
    /\ svc[s] = "none"
    /\ svc' = [svc EXCEPT ![s] = "relay"]
    /\ rsp' = [rsp EXCEPT ![s] = "read"]
    /\ UNCHANGED <<target, errsig, loaded, issued, registered, told,
                   toldInTime, registry, cancelVars>>

\* handleIncomingConnection calls p.err: the client may leave at any moment.
SessionFails(s) ==
    /\ svc[s] = "relay"
    /\ ~errsig[s]
    /\ errsig' = [errsig EXCEPT ![s] = TRUE]
    /\ UNCHANGED <<target, svc, loaded, relayVars, registry, cancelVars>>

\* errsig is closed: teardown reads registeredKey.
LoadKey(s) ==
    /\ svc[s] = "relay"
    /\ errsig[s]
    /\ svc' = [svc EXCEPT ![s] = "delete"]
    /\ loaded' = [loaded EXCEPT ![s] = registered[s]]
    /\ UNCHANGED <<target, errsig, relayVars, registry, cancelVars>>

\* Mutant: teardown deletes an entry of the same pid, whatever its secret.
DeleteKeyByPid(s) ==
    /\ svc[s] = "delete"
    /\ registry' = [k \in Keys |->
                      IF loaded[s] # NoKey /\ k.pid = loaded[s].pid
                      THEN NoBackend ELSE registry[k]]
    /\ svc' = [svc EXCEPT ![s] = "over"]
    /\ UNCHANGED <<target, errsig, loaded, relayVars, cancelVars>>

\* Mutant: teardown deletes nothing, as with a key of another type.
DeleteKeyMisses(s) ==
    /\ svc[s] = "delete"
    /\ svc' = [svc EXCEPT ![s] = "over"]
    /\ UNCHANGED <<target, errsig, loaded, relayVars, registry, cancelVars>>

\* The entry is deleted if a key was registered; the deferred calls then
\* close both connections.
DeleteKey(s) ==
    /\ svc[s] = "delete"
    /\ registry' = [k \in Keys |->
                      IF k = loaded[s] THEN NoBackend ELSE registry[k]]
    /\ svc' = [svc EXCEPT ![s] = "over"]
    /\ UNCHANGED <<target, errsig, loaded, relayVars, cancelVars>>

-----------------------------------------------------------------------------
(***************************************************************************)
(* handleResponseConnection, from BackendKeyData to its delivery.          *)
(***************************************************************************)
\* No session was assigned the key before.  The pid may have been in use, at
\* this backend too: its process may be gone though the proxy, which only sees
\* the connection end, does not know yet.
Fresh(k) == \A t \in Sessions : issued[t] # k

\* The backend sends its BackendKeyData, once.
ReceiveKeyData(s) ==
    /\ rsp[s] = "read"
    /\ svc[s] # "over"
    /\ issued[s] = NoKey
    /\ \E k \in Keys :
          /\ Fresh(k)
          /\ issued' = [issued EXCEPT ![s] = k]
    /\ rsp' = [rsp EXCEPT ![s] = "store"]
    /\ UNCHANGED <<sessionVars, registered, told, toldInTime, registry,
                   cancelVars>>

StoreKey(s) ==
    /\ rsp[s] = "store"
    /\ registry' = [registry EXCEPT ![issued[s]] = target[s]]
    /\ rsp' = [rsp EXCEPT ![s] = "remember"]
    /\ UNCHANGED <<sessionVars, issued, registered, told, toldInTime,
                   cancelVars>>

RememberKey(s) ==
    /\ rsp[s] = "remember"
    /\ registered' = [registered EXCEPT ![s] = issued[s]]
    /\ rsp' = [rsp EXCEPT ![s] = "tell"]
    /\ UNCHANGED <<sessionVars, issued, told, toldInTime, registry,
                   cancelVars>>

\* The BackendKeyData is written to the client.
TellClient(s) ==
    /\ rsp[s] = "tell"
    /\ svc[s] # "over"
    /\ told' = told \cup {s}
    /\ toldInTime' = IF errsig[s] THEN toldInTime ELSE toldInTime \cup {s}
    /\ rsp' = [rsp EXCEPT ![s] = "read"]
    /\ UNCHANGED <<sessionVars, issued, registered, registry, cancelVars>>

\* A read from the backend or a write to the client fails: the other side is
\* gone, or the session has closed both connections.
RelayFails(s) ==
    /\ rsp[s] \in {"read", "tell"}
    /\ rsp' = [rsp EXCEPT ![s] = "exit"]
    /\ errsig' = [errsig EXCEPT ![s] = TRUE]
    /\ UNCHANGED <<target, svc, loaded, issued, registered, told, toldInTime,
                   registry, cancelVars>>

-----------------------------------------------------------------------------
(***************************************************************************)
(* forwardCancelRequest.                                                   *)
(***************************************************************************)
\* Mutant: the lookup compares the pid only.
LookupByPid(x, k) ==
    /\ canc[x] = "none"
    /\ asked' = [asked EXCEPT ![x] = k]
    /\ \E j \in Keys :
          /\ j.pid = k.pid
          /\ registry[j] # NoBackend
          /\ found' = [found EXCEPT ![x] = registry[j]]
    /\ canc' = [canc EXCEPT ![x] = "dial"]
    /\ UNCHANGED <<sessionVars, relayVars, registry, forwarded>>

\* Mutant: the entry is used without asking whether there is one.
LookupUnchecked(x, k) ==
    /\ canc[x] = "none"
    /\ asked' = [asked EXCEPT ![x] = k]
    /\ found' = [found EXCEPT ![x] = registry[k]]
    /\ canc' = [canc EXCEPT ![x] = "dial"]
    /\ UNCHANGED <<sessionVars, relayVars, registry, forwarded>>

\* The key is in the registry: the backend is read out of the entry.
Lookup(x, k) ==
    /\ canc[x] = "none"
    /\ registry[k] # NoBackend
    /\ asked' = [asked EXCEPT ![x] = k]
    /\ found' = [found EXCEPT ![x] = registry[k]]
    /\ canc' = [canc EXCEPT ![x] = "dial"]
    /\ UNCHANGED <<sessionVars, relayVars, registry, forwarded>>

\* The key is not: the request is dropped.
LookupMisses(x, k) ==
    /\ canc[x] = "none"
    /\ registry[k] = NoBackend
    /\ asked' = [asked EXCEPT ![x] = k]
    /\ canc' = [canc EXCEPT ![x] = "over"]
    /\ UNCHANGED <<sessionVars, relayVars, registry, found, forwarded>>

\* DialTimeout ends, one way or the other.
CancelDial(x) ==
    /\ canc[x] = "dial"
    /\ \E to \in {"send", "over"} : canc' = [canc EXCEPT ![x] = to]
    /\ UNCHANGED <<sessionVars, relayVars, registry, asked, found, forwarded>>

\* The raw request is written to the backend and the connection closed.
CancelSend(x) ==
    /\ canc[x] = "send"
    /\ forwarded' = forwarded \cup {[key |-> asked[x], to |-> found[x]]}
    /\ canc' = [canc EXCEPT ![x] = "over"]
    /\ UNCHANGED <<sessionVars, relayVars, registry, asked, found>>

CancelSendFails(x) ==
    /\ canc[x] = "send"
    /\ canc' = [canc EXCEPT ![x] = "over"]
    /\ UNCHANGED <<sessionVars, relayVars, registry, asked, found, forwarded>>

-----------------------------------------------------------------------------
Session(s) ==
    \/ StartRelay(s) \/ SessionFails(s) \/ LoadKey(s) \/ DeleteKey(s)
    \/ ReceiveKeyData(s) \/ StoreKey(s) \/ RememberKey(s) \/ TellClient(s)
    \/ RelayFails(s)

Cancel(x) ==
    \/ \E k \in Keys : Lookup(x, k) \/ LookupMisses(x, k)
    \/ CancelDial(x) \/ CancelSend(x) \/ CancelSendFails(x)

Next ==
    \/ \E s \in Sessions : Session(s)
    \/ \E x \in Cancels : Cancel(x)

Spec == Init /\ [][Next]_vars

-----------------------------------------------------------------------------
(***************************************************************************)
(* Properties.                                                             *)
(***************************************************************************)
\* A CancelRequest only ever reaches a backend that issued the very key it
\* carries: not another backend with a process of the same number, not for a
\* wrong secret, whatever sessions start and end between the lookup and the
\* dial.
CancelReachesIssuer ==
    \A f \in forwarded :
        \E s \in Sessions : issued[s] = f.key /\ target[s] = f.to

\* As long as its session has not failed, a client that has been told its key
\* can cancel: the entry was made before the key was passed on, and no other
\* session's teardown removes it.
ToldKeyUsable ==
    \A s \in told : ~errsig[s] => registry[issued[s]] = target[s]

\* A session whose client was told its key before the session failed leaves
\* no entry behind when its teardown is done.
ToldKeyDeleted ==
    \A s \in toldInTime :
        svc[s] = "over" => registry[issued[s]] = NoBackend

\* REVIEW.md H1 and the teardown comment: no session leaves its entry in the
\* registry once all its goroutines have ended.
NoOrphanEntry ==
    \A s \in Sessions :
        (svc[s] = "over" /\ rsp[s] = "exit" /\ issued[s] # NoKey) =>
            registry[issued[s]] = NoBackend

=============================================================================
