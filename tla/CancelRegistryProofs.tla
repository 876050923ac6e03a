------------------------ MODULE CancelRegistryProofs ------------------------
(***************************************************************************)
(* Proofs about CancelRegistry, for any number of sessions, backends and   *)
(* CancelRequests.                                                         *)
(***************************************************************************)
EXTENDS CancelRegistry, TLAPS

\* The session s was assigned the key k by the backend b.
IssuedBy(s, k, b) == issued[s] = k /\ target[s] = b

\* A key belongs to one session, and what a session remembers or is about to
\* delete is its own key.
KeyInv ==
    /\ \A s, t \in Sessions :
          (issued[s] # NoKey /\ issued[s] = issued[t]) => s = t
    /\ \A s \in Sessions :
          /\ registered[s] # NoKey => registered[s] = issued[s]
          /\ loaded[s] # NoKey => loaded[s] = issued[s]

\* The order of a session's steps: teardown follows the signal, and the
\* client is told last.
OrderInv ==
    \A s \in Sessions :
        /\ svc[s] = "none" => rsp[s] = "none"
        /\ svc[s] \in {"delete", "over"} => errsig[s]
        /\ rsp[s] \in {"store", "remember", "tell"} => issued[s] # NoKey
        /\ rsp[s] \in {"store", "remember", "tell"} => s \notin told
        /\ (rsp[s] = "tell" \/ s \in told) =>
               /\ issued[s] # NoKey
               /\ registered[s] = issued[s]

\* Every entry of the registry leads to the backend that issued its key, and
\* so does what a CancelRequest has read from it.
EntryInv ==
    /\ \A k \in Keys :
          registry[k] # NoBackend =>
              \E s \in Sessions : IssuedBy(s, k, registry[k])
    /\ \A x \in Cancels :
          canc[x] \in {"dial", "send"} =>
              /\ asked[x] \in Keys
              /\ found[x] \in Backends
              /\ \E s \in Sessions : IssuedBy(s, asked[x], found[x])

\* A session's entry is there from the moment it is made until the session's
\* own teardown.
PresentInv ==
    \A s \in Sessions :
        ((rsp[s] \in {"remember", "tell"} \/ s \in told) /\ svc[s] # "over")
            => registry[issued[s]] = target[s]

\* A teardown that began after the client was told deletes that entry.
GoneInv ==
    \A s \in toldInTime :
        /\ svc[s] \in {"delete", "over"} => loaded[s] = issued[s]
        /\ svc[s] = "over" => registry[issued[s]] = NoBackend

Inv ==
    /\ TypeOK
    /\ KeyInv
    /\ OrderInv
    /\ EntryInv
    /\ PresentInv
    /\ GoneInv
    /\ CancelReachesIssuer

-----------------------------------------------------------------------------
\* Init establishes the invariant.
LEMMA InitInv == Init => Inv
  BY KeysAssumption
     DEF Init, Inv, TypeOK, KeyInv, OrderInv, EntryInv, PresentInv, GoneInv,
         CancelReachesIssuer

\* Every step of a session preserves it.
LEMMA SessionInv == ASSUME Inv, NEW s \in Sessions, Session(s) PROVE Inv'
  <1> USE KeysAssumption
      DEF Inv, TypeOK, KeyInv, OrderInv, EntryInv, PresentInv, GoneInv,
          CancelReachesIssuer, IssuedBy, sessionVars, relayVars, cancelVars
  <1>1. CASE StartRelay(s)
    BY <1>1 DEF StartRelay
  <1>2. CASE SessionFails(s)
    BY <1>2 DEF SessionFails
  <1>3. CASE LoadKey(s)
    <2>1. KeyInv'
      BY <1>3 DEF LoadKey
    <2>2. GoneInv'
      BY <1>3 DEF LoadKey
    <2> QED
      BY <1>3, <2>1, <2>2 DEF LoadKey
  <1>4. CASE DeleteKey(s)
    <2>1. EntryInv'
      BY <1>4 DEF DeleteKey
    <2>2. PresentInv'
      BY <1>4 DEF DeleteKey
    <2>3. GoneInv'
      BY <1>4 DEF DeleteKey
    <2> QED
      BY <1>4, <2>1, <2>2, <2>3 DEF DeleteKey
  <1>5. CASE ReceiveKeyData(s)
    <2>1. KeyInv'
      BY <1>5 DEF ReceiveKeyData, Fresh
    <2>2. EntryInv'
      BY <1>5 DEF ReceiveKeyData, Fresh
    <2>3. CancelReachesIssuer'
      BY <1>5 DEF ReceiveKeyData, Fresh
    <2> QED
      BY <1>5, <2>1, <2>2, <2>3 DEF ReceiveKeyData
  <1>6. CASE StoreKey(s)
    <2>1. EntryInv'
      BY <1>6 DEF StoreKey
    <2>2. PresentInv'
      BY <1>6 DEF StoreKey
    <2>3. GoneInv'
      BY <1>6 DEF StoreKey
    <2> QED
      BY <1>6, <2>1, <2>2, <2>3 DEF StoreKey
  <1>7. CASE RememberKey(s)
    <2>1. KeyInv'
      BY <1>7 DEF RememberKey
    <2>2. OrderInv'
      BY <1>7 DEF RememberKey
    <2> QED
      BY <1>7, <2>1, <2>2 DEF RememberKey
  <1>8. CASE TellClient(s)
    <2>1. OrderInv'
      BY <1>8 DEF TellClient
    <2>2. PresentInv'
      BY <1>8 DEF TellClient
    <2>3. GoneInv'
      BY <1>8 DEF TellClient
    <2> QED
      BY <1>8, <2>1, <2>2, <2>3 DEF TellClient
  <1>9. CASE RelayFails(s)
    BY <1>9 DEF RelayFails
  <1> QED
    BY <1>1, <1>2, <1>3, <1>4, <1>5, <1>6, <1>7, <1>8, <1>9 DEF Session

\* So does every step of a CancelRequest.
LEMMA CancelInv == ASSUME Inv, NEW x \in Cancels, Cancel(x) PROVE Inv'
  <1> USE KeysAssumption
      DEF Inv, TypeOK, KeyInv, OrderInv, EntryInv, PresentInv, GoneInv,
          CancelReachesIssuer, IssuedBy, sessionVars, relayVars, cancelVars
  <1>1. ASSUME NEW k \in Keys, Lookup(x, k) PROVE Inv'
    <2>1. EntryInv'
      BY <1>1 DEF Lookup
    <2> QED
      BY <1>1, <2>1 DEF Lookup
  <1>2. ASSUME NEW k \in Keys, LookupMisses(x, k) PROVE Inv'
    BY <1>2 DEF LookupMisses
  <1>3. CASE CancelDial(x)
    BY <1>3 DEF CancelDial
  <1>4. CASE CancelSend(x)
    <2>1. CancelReachesIssuer'
      BY <1>4 DEF CancelSend
    <2> QED
      BY <1>4, <2>1 DEF CancelSend
  <1>5. CASE CancelSendFails(x)
    BY <1>5 DEF CancelSendFails
  <1> QED
    BY <1>1, <1>2, <1>3, <1>4, <1>5 DEF Cancel

\* Every step preserves the invariant.
LEMMA NextInv == Inv /\ [Next]_vars => Inv'
  <1> SUFFICES ASSUME Inv, [Next]_vars PROVE Inv'
    OBVIOUS
  <1>1. CASE UNCHANGED vars
    BY <1>1 DEF Inv, TypeOK, KeyInv, OrderInv, EntryInv, PresentInv, GoneInv,
                CancelReachesIssuer, IssuedBy, vars, sessionVars, relayVars,
                cancelVars
  <1> QED
    BY <1>1, SessionInv, CancelInv DEF Next

-----------------------------------------------------------------------------
\* The invariant holds in every reachable state.
THEOREM Invariance == Spec => []Inv
  BY InitInv, NextInv, PTL DEF Spec

\* The types are right: in particular forwardCancelRequest dials no backend
\* that it did not find in an entry.
THEOREM TypeCorrect == Spec => []TypeOK
  BY Invariance, PTL DEF Inv

\* A CancelRequest reaches no backend but the one that issued its key.
THEOREM CancelSafe == Spec => []CancelReachesIssuer
  BY Invariance, PTL DEF Inv

\* A client that has been told its key can use it until its session fails.
THEOREM KeyUsable == Spec => []ToldKeyUsable
  <1>1. Inv => ToldKeyUsable
    BY DEF Inv, TypeOK, OrderInv, PresentInv, ToldKeyUsable
  <1> QED
    BY <1>1, Invariance, PTL

\* Teardown deletes the entry of a session whose client was told its key
\* while the session was up.
THEOREM KeyDeleted == Spec => []ToldKeyDeleted
  <1>1. Inv => ToldKeyDeleted
    BY DEF Inv, GoneInv, ToldKeyDeleted
  <1> QED
    BY <1>1, Invariance, PTL
=============================================================================
