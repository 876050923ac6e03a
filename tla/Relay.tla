-------------------------------- MODULE Relay --------------------------------
(***************************************************************************)
(* One session of src/proxy/proxy.go from the moment its backend is        *)
(* connected: the client authenticates, then sends queries.  Two           *)
(* goroutines relay.  handleIncomingConnection ("inc") decodes what the    *)
(* client sends, shows the SQL of Query and Parse messages to the handler  *)
(* and forwards what the handler allows; handleResponseConnection ("rsp")  *)
(* relays the backend's answers.  They share                               *)
(*   - authTypeCh: every authentication reply has message type 'p', and    *)
(*     inc can only decode one if rsp has told it which request it answers;*)
(*   - lastTxStatus and the client connection: inc answers a blocked       *)
(*     statement itself, with the transaction status rsp last saw.         *)
(*                                                                         *)
(* lconnMutex makes each write to the client one step.  A batch of the     *)
(* extended protocol is Parse, Execute and Sync on the unnamed statement;  *)
(* Bind and the messages that carry no SQL and no result are left out.     *)
(* Messages carry the number of the request they belong to (0 during       *)
(* authentication), which the real ones do not: it tells an answer from an *)
(* equal answer to another request.                                        *)
(***************************************************************************)
EXTENDS Integers, Sequences, FiniteSets, SequencesExt

CONSTANTS
    Methods,      \* what the backend may ask for: names of Script
    Rounds,       \* the lengths a GSS exchange may have
    AuthChCap,    \* capacity of authTypeCh; 4 in the code
    Handler,      \* SQL text to the text to forward, or "block"
    Batched,      \* the SQL the client may also send in extended batches
    Window,       \* requests the client has outstanding at most; 1: it waits
    MaxRequests   \* bound: requests the client sends in all

Sqls == {"begin", "commit", "select", "fail", "old"}

ASSUME AuthAssumption ==
    /\ Methods \subseteq {"trust", "cleartext", "md5", "scram", "gss"}
    /\ Rounds \subseteq Nat \ {0}
    /\ AuthChCap \in Nat \ {0}

ASSUME QueryAssumption ==
    /\ Handler \in [Sqls -> Sqls \cup {"block"}]
    /\ Batched \subseteq Sqls
    /\ Window \in Nat \ {0}
    /\ MaxRequests \in Nat

AuthTypes == {"Cleartext", "MD5", "SASL", "SASLContinue", "SASLFinal", "GSS",
              "GSSContinue"}

Replies == {"password", "saslInitial", "saslResponse", "gssToken", "mangled"}

TxStates == {"I", "T", "E"}

Msg(n, type, val) == [n |-> n, type |-> type, val |-> val]

NoMsg == Msg(0, "", "")

FrontendMessages ==
    [n : {0}, type : {"p"}, val : Replies]
        \cup [n : 1..MaxRequests, type : {"query", "parse"}, val : Sqls]
        \cup [n : 1..MaxRequests, type : {"execute", "sync"}, val : {""}]

BackendMessages ==
    [n : {0}, type : {"auth"}, val : AuthTypes]
        \cup [n : 0..MaxRequests, type : {"ready"}, val : TxStates]
        \cup [n : 0..MaxRequests, type : {"ok", "refused", "complete", "error"},
              val : {""}]

\* The exchange each method consists of: requests, and the reply to each.
Script(method, rounds) ==
    CASE method = "trust"     -> << >>
      [] method = "cleartext" -> <<[ask |-> "Cleartext", reply |-> "password"]>>
      [] method = "md5"       -> <<[ask |-> "MD5", reply |-> "password"]>>
      [] method = "scram"     ->
           <<[ask |-> "SASL", reply |-> "saslInitial"],
             [ask |-> "SASLContinue", reply |-> "saslResponse"],
             [ask |-> "SASLFinal", reply |-> "none"]>>
      [] method = "gss"       ->
           [i \in 1..rounds |->
              [ask |-> IF i = 1 THEN "GSS" ELSE "GSSContinue",
               reply |-> "gssToken"]]

Scripts == {Script(m, r) : m \in Methods, r \in Rounds}

VARIABLES
    sent,            \* client: the SQL of each request it made
    replied,         \* client: authentication requests it has dealt with
    toProxy,         \* client to proxy
    toBackend,       \* proxy to backend
    fromBackend,     \* backend to proxy
    received,        \* proxy to client, everything so far
    authTypeCh,      \* the channel from rsp to inc
    incPc, incMsg,   \* handleIncomingConnection and the message it holds
    authType,        \* the authentication type its decoder was last given
    txStatus,        \* the status it read for a synthetic ReadyForQuery
    blockedQueries,  \* Metrics.BlockedQueries
    rspPc, rspMsg,   \* handleResponseConnection and the message it holds
    lastTxStatus,    \* Proxy.lastTxStatus
    script, asked,   \* backend: the exchange it wants and how far it is
    decided,         \* backend: it has granted or refused access
    delivered,       \* backend: the replies it received
    tx, stmt,        \* backend: transaction status, unnamed statement
    executed         \* backend: what it ran, and for which request

clientVars == <<sent, replied>>
incVars    == <<incPc, incMsg, authType, txStatus, blockedQueries>>
rspVars    == <<rspPc, rspMsg, lastTxStatus>>
authVars   == <<script, asked, decided, delivered>>
queryVars  == <<tx, stmt, executed>>

vars == <<clientVars, toProxy, toBackend, fromBackend, received, authTypeCh,
          incVars, rspVars, authVars, queryVars>>

TypeOK ==
    /\ sent \in Seq(Sqls)
    /\ replied \in Nat
    /\ toProxy \in Seq(FrontendMessages)
    /\ toBackend \in Seq(FrontendMessages)
    /\ fromBackend \in Seq(BackendMessages)
    /\ received \in Seq(BackendMessages)
    /\ authTypeCh \in Seq(AuthTypes)
    /\ Len(authTypeCh) <= AuthChCap
    /\ incPc \in {"drain", "receive", "forward", "error", "status", "ready",
                  "returned", "closed"}
    /\ incMsg \in FrontendMessages \cup {NoMsg}
    /\ authType \in AuthTypes \cup {"none"}
    /\ {txStatus, lastTxStatus, tx} \subseteq TxStates
    /\ blockedQueries \in Nat
    /\ rspPc \in {"read", "send", "write"}
    /\ rspMsg \in BackendMessages \cup {NoMsg}
    /\ script \in Scripts
    /\ asked \in 0..Len(script)
    /\ decided \in BOOLEAN
    /\ delivered \in Seq(Replies)
    /\ stmt \in Sqls \cup {""}
    /\ executed \in Seq([n : 1..MaxRequests, sql : Sqls])

Init ==
    /\ sent = << >> /\ replied = 0
    /\ toProxy = << >> /\ toBackend = << >>
    /\ fromBackend = << >> /\ received = << >>
    /\ authTypeCh = << >>
    /\ incPc = "drain" /\ incMsg = NoMsg
    /\ authType = "none"
    /\ txStatus = "I" /\ lastTxStatus = "I"
    /\ blockedQueries = 0
    /\ rspPc = "read" /\ rspMsg = NoMsg
    /\ script \in Scripts
    /\ asked = 0 /\ decided = FALSE /\ delivered = << >>
    /\ tx = "I" /\ stmt = "" /\ executed = << >>

-----------------------------------------------------------------------------
(***************************************************************************)
(* The client.                                                             *)
(***************************************************************************)
IsReady(m) == m.type = "ready"
IsAuth(m) == m.type = "auth"

\* The client sends nothing but authentication replies until it has seen the
\* first ReadyForQuery.
Ready == \E i \in 1..Len(received) : IsReady(received[i])

Outstanding ==
    Len(sent) + 1
        - Cardinality({i \in 1..Len(received) : IsReady(received[i])})

\* The client deals with the next authentication request it has received,
\* and answers it if it calls for an answer.
ClientReplies ==
    /\ replied < Cardinality({i \in 1..Len(received) : IsAuth(received[i])})
    /\ replied' = replied + 1
    /\ LET reply == script[replied + 1].reply IN
       toProxy' = IF reply = "none" THEN toProxy
                  ELSE Append(toProxy, Msg(0, "p", reply))
    /\ UNCHANGED <<sent, toBackend, fromBackend, received, authTypeCh,
                   incVars, rspVars, authVars, queryVars>>

Send(sql, types) ==
    /\ Ready
    /\ Outstanding < Window
    /\ Len(sent) < MaxRequests
    /\ sent' = Append(sent, sql)
    /\ LET n == Len(sent) + 1
           Carries(t) == IF t \in {"query", "parse"} THEN sql ELSE ""
       IN  toProxy' = toProxy \o
               [i \in 1..Len(types) |-> Msg(n, types[i], Carries(types[i]))]
    /\ UNCHANGED <<replied, toBackend, fromBackend, received, authTypeCh,
                   incVars, rspVars, authVars, queryVars>>

SendQuery(sql) == Send(sql, <<"query">>)

SendBatch(sql) ==
    sql \in Batched /\ Send(sql, <<"parse", "execute", "sync">>)

-----------------------------------------------------------------------------
(***************************************************************************)
(* handleIncomingConnection.                                               *)
(***************************************************************************)
IncStep(from, to) ==
    /\ incPc = from
    /\ incPc' = to
    /\ UNCHANGED <<clientVars, fromBackend, rspVars, authVars, queryVars>>

\* Mutant: the channel is never read.
IncDrainSkipped ==
    /\ IncStep("drain", "receive")
    /\ UNCHANGED <<authTypeCh, authType, toProxy, toBackend, received,
                   incMsg, txStatus, blockedQueries>>

\* One turn of the drain loop: take a type, or go on to Receive.
IncDrain ==
    /\ \/ /\ authTypeCh # << >>
          /\ IncStep("drain", "drain")
          /\ authType' = Head(authTypeCh)
          /\ authTypeCh' = Tail(authTypeCh)
       \/ /\ authTypeCh = << >>
          /\ IncStep("drain", "receive")
          /\ UNCHANGED <<authType, authTypeCh>>
    /\ UNCHANGED <<toProxy, toBackend, received, incMsg, txStatus,
                   blockedQueries>>

\* What pgproto3 may make of a 'p' message and encode again.  A
\* PasswordMessage ends at the first zero byte and is an error without one: a
\* SASLInitialResponse is cut after the name of the mechanism, a SASLResponse
\* is text without a zero.  A SASLInitialResponse is a name, a zero byte and
\* data behind its length, which a password and a SASLResponse do not have.
\* The bytes of a GSS token may happen to be anything.  The other two messages
\* take the bytes as they are.
Decoded(reply, type) ==
    CASE type \in {"SASLContinue", "SASLFinal", "GSS", "GSSContinue"} -> {reply}
      [] type = "SASL" ->
             CASE reply = "saslInitial" -> {reply}
               [] reply \in {"password", "saslResponse"} -> {"error"}
               [] OTHER -> {reply, "mangled", "error"}
      [] type \in {"Cleartext", "MD5", "none"} ->
             CASE reply = "password" -> {reply}
               [] reply = "saslInitial" -> {"mangled"}
               [] reply = "saslResponse" -> {"error"}
               [] OTHER -> {reply, "mangled", "error"}

\* What Receive may return for a message, if it returns one.
Decodings(m) ==
    IF m.type = "p"
    THEN {Msg(0, "p", v) : v \in Decoded(m.val, authType) \ {"error"}}
    ELSE {m}

\* Whether applyFrontendHandler returns an error for the message.
Blocked(m) == m.type \in {"query", "parse"} /\ Handler[m.val] = "block"

\* Mutant: the text the handler returns is dropped.
RewriteLost(m) == m

\* What it returns otherwise: the message with the handler's text.
Rewritten(m) ==
    IF m.type \in {"query", "parse"} THEN [m EXCEPT !.val = Handler[m.val]]
    ELSE m

\* Receive returns, having decoded the message with the type that was set
\* before it was called, and the handler is asked.
IncReceive ==
    /\ toProxy # << >>
    /\ toProxy' = Tail(toProxy)
    /\ \E m \in Decodings(Head(toProxy)) :
          /\ incMsg' = m
          /\ \/ /\ Blocked(m)
                /\ IncStep("receive", "error")
                /\ blockedQueries' = blockedQueries + 1
             \/ /\ ~Blocked(m)
                /\ IncStep("receive", "forward")
                /\ UNCHANGED blockedQueries
    /\ UNCHANGED <<toBackend, received, authTypeCh, authType, txStatus>>

\* The message does not decode under that type: Receive returns an error, and
\* inc calls p.err and returns.
IncReceiveFails ==
    /\ toProxy # << >>
    /\ Head(toProxy).type = "p"
    /\ "error" \in Decoded(Head(toProxy).val, authType)
    /\ toProxy' = Tail(toProxy)
    /\ IncStep("receive", "returned")
    /\ UNCHANGED <<toBackend, received, authTypeCh, incMsg, authType, txStatus,
                   blockedQueries>>

\* p.err has woken serviceStartup: it and service close both connections, and
\* nothing is read or written any more.  (How the goroutines then end is the
\* subject of Server.)
SessionEnds ==
    /\ IncStep("returned", "closed")
    /\ UNCHANGED <<toProxy, toBackend, received, authTypeCh, incMsg, authType,
                   txStatus, blockedQueries>>

IncForward ==
    /\ IncStep("forward", "drain")
    /\ toBackend' = Append(toBackend, Rewritten(incMsg))
    /\ incMsg' = NoMsg
    /\ UNCHANGED <<toProxy, received, authTypeCh, authType, txStatus,
                   blockedQueries>>

\* inc itself writes an answer to the client.
IncAnswer(type, val) ==
    /\ received' = Append(received, Msg(incMsg.n, type, val))
    /\ UNCHANGED <<toProxy, toBackend, authTypeCh, incMsg, authType, txStatus,
                   blockedQueries>>

\* Mutant: the session does not tell the client that it is ready again.
IncErrorOnly == IncStep("error", "drain") /\ IncAnswer("error", "")

\* writeError; a ReadyForQuery follows only if the message was a Query.
IncError ==
    /\ IncStep("error", IF incMsg.type = "query" THEN "status" ELSE "drain")
    /\ IncAnswer("error", "")

\* Mutant: the status is always idle.
IncStatusIdle ==
    /\ IncStep("status", "ready")
    /\ txStatus' = "I"
    /\ UNCHANGED <<toProxy, toBackend, received, authTypeCh, incMsg, authType,
                   blockedQueries>>

\* lastTxStatus.Load, before the mutex is taken.
IncStatus ==
    /\ IncStep("status", "ready")
    /\ txStatus' = lastTxStatus
    /\ UNCHANGED <<toProxy, toBackend, received, authTypeCh, incMsg, authType,
                   blockedQueries>>

IncReady == IncStep("ready", "drain") /\ IncAnswer("ready", txStatus)

-----------------------------------------------------------------------------
(***************************************************************************)
(* handleResponseConnection.                                               *)
(***************************************************************************)
RspStep(from, to) ==
    /\ rspPc = from
    /\ rspPc' = to
    /\ UNCHANGED <<clientVars, toProxy, toBackend, incVars, authVars,
                   queryVars>>

\* Mutant: a status is recorded from every message.
RspReceiveAny ==
    /\ incPc # "closed"
    /\ fromBackend # << >>
    /\ rspMsg' = Head(fromBackend)
    /\ fromBackend' = Tail(fromBackend)
    /\ lastTxStatus' = rspMsg'.val
    /\ RspStep("read", IF IsAuth(rspMsg') THEN "send" ELSE "write")
    /\ UNCHANGED <<received, authTypeCh>>

\* A message is read; the status of a ReadyForQuery is recorded, and the type
\* of an authentication request goes through the channel.
RspReceive ==
    /\ incPc # "closed"
    /\ fromBackend # << >>
    /\ rspMsg' = Head(fromBackend)
    /\ fromBackend' = Tail(fromBackend)
    /\ lastTxStatus' = IF IsReady(rspMsg') THEN rspMsg'.val ELSE lastTxStatus
    /\ RspStep("read", IF IsAuth(rspMsg') THEN "send" ELSE "write")
    /\ UNCHANGED <<received, authTypeCh>>

\* Mutant: the channel has no buffer, so a send needs a receiver.
RspSendUnbuffered ==
    /\ incPc = "drain" /\ authTypeCh = << >>
    /\ authTypeCh' = Append(authTypeCh, rspMsg.val)
    /\ RspStep("send", "write")
    /\ UNCHANGED <<fromBackend, received, rspMsg, lastTxStatus>>

\* Mutant: a case of the switch announces the type of another request.
RspSendMixedUp ==
    /\ Len(authTypeCh) < AuthChCap
    /\ authTypeCh' = Append(authTypeCh,
                            IF rspMsg.val = "MD5" THEN "SASL" ELSE rspMsg.val)
    /\ RspStep("send", "write")
    /\ UNCHANGED <<fromBackend, received, rspMsg, lastTxStatus>>

\* The send blocks while the channel is full.
RspSend ==
    /\ Len(authTypeCh) < AuthChCap
    /\ authTypeCh' = Append(authTypeCh, rspMsg.val)
    /\ RspStep("send", "write")
    /\ UNCHANGED <<fromBackend, received, rspMsg, lastTxStatus>>

RspWrite ==
    /\ incPc # "closed"
    /\ RspStep("write", "read")
    /\ received' = Append(received, rspMsg)
    /\ rspMsg' = NoMsg
    /\ UNCHANGED <<fromBackend, authTypeCh, lastTxStatus>>

-----------------------------------------------------------------------------
(***************************************************************************)
(* The backend: PostgreSQL as its clients see it.                          *)
(***************************************************************************)
BackendSends(msgs) ==
    /\ fromBackend' = fromBackend \o msgs
    /\ UNCHANGED <<clientVars, toProxy, received, authTypeCh, incVars,
                   rspVars>>

NeedsReply(step) == step.reply # "none"

\* Once it has the reply to its last request, where there is one, the backend
\* goes on to the next, or grants access and is ready for queries.
BackendAsks ==
    /\ ~decided
    /\ Len(delivered) = Cardinality({i \in 1..asked : NeedsReply(script[i])})
    /\ \/ /\ asked < Len(script)
          /\ BackendSends(<<Msg(0, "auth", script[asked + 1].ask)>>)
          /\ asked' = asked + 1
          /\ UNCHANGED decided
       \/ /\ asked = Len(script)
          /\ BackendSends(<<Msg(0, "ok", ""), Msg(0, "ready", "I")>>)
          /\ decided' = TRUE
          /\ UNCHANGED asked
    /\ UNCHANGED <<toBackend, script, delivered, queryVars>>

\* It may refuse a reply that is not what the client sent, or happen to
\* accept it.
BackendRefuses ==
    /\ ~decided
    /\ \E i \in 1..Len(delivered) : delivered[i] = "mangled"
    /\ BackendSends(<<Msg(0, "refused", "")>>)
    /\ decided' = TRUE
    /\ UNCHANGED <<toBackend, script, asked, delivered, queryVars>>

TxAfter(st, sql) ==
    CASE sql = "begin"  -> IF st = "I" THEN "T" ELSE st
      [] sql = "commit" -> "I"
      [] sql = "fail"   -> IF st = "I" THEN "I" ELSE "E"
      [] sql \in {"select", "old"} -> st

\* In a failed transaction everything but its end is refused.
Runs(st, sql) == st # "E" \/ sql = "commit"

Outcome(n, st, sql) ==
    Msg(n, IF Runs(st, sql) /\ sql # "fail" THEN "complete" ELSE "error", "")

\* The backend runs sql for request n and answers with more after the result.
Execute(n, sql, more) ==
    /\ tx' = TxAfter(tx, sql)
    /\ executed' = IF Runs(tx, sql)
                   THEN Append(executed, [n |-> n, sql |-> sql])
                   ELSE executed
    /\ BackendSends(<<Outcome(n, tx, sql)>> \o more)
    /\ UNCHANGED <<delivered, stmt>>

BackendReceives ==
    /\ toBackend # << >>
    /\ toBackend' = Tail(toBackend)
    /\ LET m == Head(toBackend) IN
         \/ /\ m.type = "p"
            /\ delivered' = Append(delivered, m.val)
            /\ BackendSends(<< >>)
            /\ UNCHANGED queryVars
         \/ /\ m.type = "query"
            /\ Execute(m.n, m.val, <<Msg(m.n, "ready", TxAfter(tx, m.val))>>)
         \/ /\ m.type = "parse"
            /\ stmt' = m.val
            /\ BackendSends(<< >>)
            /\ UNCHANGED <<delivered, tx, executed>>
         \/ /\ m.type = "execute" /\ stmt # ""
            /\ Execute(m.n, stmt, << >>)
         \/ /\ m.type = "execute" /\ stmt = ""
            /\ BackendSends(<<Msg(m.n, "error", "")>>)
            /\ tx' = IF tx = "I" THEN "I" ELSE "E"
            /\ UNCHANGED <<delivered, stmt, executed>>
         \/ /\ m.type = "sync"
            /\ BackendSends(<<Msg(m.n, "ready", tx)>>)
            /\ UNCHANGED <<delivered, queryVars>>
    /\ UNCHANGED <<script, asked, decided>>

-----------------------------------------------------------------------------
Inc ==
    \/ IncDrain \/ IncReceive \/ IncReceiveFails \/ IncForward
    \/ IncError \/ IncStatus \/ IncReady

Rsp == RspReceive \/ RspSend \/ RspWrite

Backend == BackendAsks \/ BackendRefuses \/ BackendReceives

Next ==
    \/ ClientReplies
    \/ \E sql \in Sqls : SendQuery(sql) \/ SendBatch(sql)
    \/ Inc \/ Rsp \/ SessionEnds \/ Backend

Spec == Init /\ [][Next]_vars

\* The goroutines of the session run, the backend answers what it is sent, and the client
\* answers the backend's authentication requests; it need not send queries.
FairSpec ==
    /\ Spec
    /\ WF_vars(Inc) /\ WF_vars(Rsp) /\ WF_vars(SessionEnds)
    /\ WF_vars(ClientReplies)
    /\ WF_vars(BackendAsks) /\ WF_vars(BackendReceives)

-----------------------------------------------------------------------------
(***************************************************************************)
(* Authentication.                                                         *)
(***************************************************************************)
\* The comment on the drain loop says that it lets Receive decode the
\* client's next reply correctly: every reply then reaches the backend as the
\* client sent it.
RepliesIntact == \A i \in 1..Len(delivered) : delivered[i] # "mangled"

\* A password reaches the backend as the client sent it, and never ends the
\* session as a message that does not decode, whether or not the type of the
\* request got to the decoder before the reply did.
PasswordIntact ==
    /\ \A i \in 1..Len(delivered) :
          script[i].reply = "password" => delivered[i] = "password"
    /\ incPc \in {"returned", "closed"} =>
          \A i \in 1..Len(script) : script[i].reply # "password"

\* The response relay never has to wait for room in authTypeCh: a send that
\* blocked would outlive the session, since closing the connections does not
\* wake it.
SendNeverBlocks == rspPc = "send" => Len(authTypeCh) < AuthChCap

\* Authentication ends: the client gets to see a verdict, or the session is
\* closed because a reply did not decode.  Neither relay goroutine waits for
\* the other, and no reply is lost on a session that stays open.
AuthenticationEnds ==
    <>(\/ \E i \in 1..Len(received) : received[i].type \in {"ok", "refused"}
       \/ incPc = "closed")

-----------------------------------------------------------------------------
(***************************************************************************)
(* Queries.  What the client should see: each request run, or refused,     *)
(* before the next.  A refused request runs nothing and leaves the         *)
(* transaction as it is.                                                   *)
(***************************************************************************)
AfterRequest(r, n, sql) ==
    LET runs == sql # "block" /\ Runs(r.st, sql)
        st == IF sql = "block" THEN r.st ELSE TxAfter(r.st, sql)
        res == IF sql = "block" THEN Msg(n, "error", "")
               ELSE Outcome(n, r.st, sql)
    IN  [st |-> st,
         answers |-> r.answers \o <<res, Msg(n, "ready", st)>>,
         ran |-> IF runs THEN Append(r.ran, [n |-> n, sql |-> sql]) ELSE r.ran]

RunAll(requests) ==
    LET After[n \in 0..Len(requests)] ==
          IF n = 0 THEN [st |-> "I", answers |-> << >>, ran |-> << >>]
          ELSE AfterRequest(After[n - 1], n, Handler[requests[n]])
    IN  After[Len(requests)]

Reference == RunAll(sent)

\* After authentication the client receives the answers of the reference, in
\* its order and with its transaction statuses, although two goroutines write
\* them: a blocked statement is answered in its turn and with the backend's
\* real status.  This takes a client that waits for each answer (Window = 1).
AnswersTransparent ==
    \E k \in 0..Len(received) :
        /\ \A i \in 1..k : received[i].n = 0
        /\ IsPrefix(SubSeq(received, k + 1, Len(received)), Reference.answers)

\* The backend runs the statements the handler allowed, as the handler
\* rewrote them, once each and in the client's order; a blocked statement
\* gets an error and causes nothing to run.
OnlyAllowedExecuted == IsPrefix(executed, Reference.ran)

\* Every request is eventually answered: a blocked statement does not leave
\* the client waiting for a ReadyForQuery.
RequestsAnswered == (sent # << >> /\ Outstanding > 0) ~> (Outstanding = 0)

=============================================================================
