----------------------------- MODULE RelayProofs -----------------------------
(***************************************************************************)
(* Proofs about the authentication exchange of Relay, for GSS exchanges of *)
(* any length, any handler and any number of requests.                     *)
(***************************************************************************)
EXTENDS Relay, FiniteSetTheorems, SequenceTheorems, TLAPS

-----------------------------------------------------------------------------
(* The inductive invariant *)

\* The goroutines hold a message where they have one to deal with.
HeldInv ==
    /\ incPc = "forward" => incMsg \in FrontendMessages /\ ~Blocked(incMsg)
    /\ incPc \in {"error", "status", "ready"} =>
           incMsg \in FrontendMessages /\ Blocked(incMsg)
    /\ rspPc # "read" => rspMsg \in BackendMessages
    /\ rspPc = "send" => IsAuth(rspMsg)

\* How many of the backend's messages rsp has read.
Read == Len(received) + (IF rspPc = "read" THEN 0 ELSE 1)

\* The backend's first messages are its authentication requests, and no other
\* message is one.  The next comes when the client has answered the last.
StreamInv ==
    /\ \A i \in 1..Len(received) : IsAuth(received[i]) <=> i <= asked
    /\ rspPc # "read" => (IsAuth(rspMsg) <=> Len(received) + 1 <= asked)
    /\ \A i \in 1..Len(fromBackend) :
           IsAuth(fromBackend[i]) <=> Read + i <= asked
    /\ asked <= Read + Len(fromBackend)
    /\ ~decided => Read + Len(fromBackend) = asked
    /\ asked <= Len(received) + 1
    /\ replied <= Len(received)
    /\ replied <= asked

\* The replies that the first k requests call for.
Due(k) == IF k > 0 /\ script[k].reply = "none" THEN k - 1 ELSE k

Granted == decided /\ asked = Len(script) /\ Len(delivered) = Due(asked)

\* Only a backend that has got every reply becomes ready, and only then the
\* client sends queries.
GrantInv ==
    /\ \A i \in 1..Len(received) : IsReady(received[i]) => Granted
    /\ rspPc # "read" /\ IsReady(rspMsg) => Granted
    /\ \A i \in 1..Len(fromBackend) : IsReady(fromBackend[i]) => Granted
    /\ sent # << >> => Granted /\ Len(received) > asked

IsReply(m) == m.type = "p"

\* At most one reply is under way, or was lost with the session, and nothing
\* else is before there are queries.
ReplyInv ==
    /\ Due(asked) <= Len(delivered) + 1
    /\ Len(delivered) <= Due(replied)
    /\ Len(delivered) = Due(replied) =>
           /\ \A i \in 1..Len(toProxy) : ~IsReply(toProxy[i])
           /\ ~IsReply(incMsg)
           /\ \A i \in 1..Len(toBackend) : ~IsReply(toBackend[i])
           /\ incPc \notin {"returned", "closed"}
           /\ sent = << >> =>
                  toProxy = << >> /\ toBackend = << >>
                      /\ incPc \in {"drain", "receive"}
    /\ Len(delivered) # Due(replied) =>
           /\ sent = << >>
           /\ \/ /\ Len(toProxy) = 1 /\ IsReply(toProxy[1])
                 /\ toBackend = << >>
                 /\ incPc \in {"drain", "receive"} /\ ~IsReply(incMsg)
              \/ /\ toProxy = << >> /\ toBackend = << >>
                 /\ incPc = "forward" /\ IsReply(incMsg)
              \/ /\ toProxy = << >>
                 /\ Len(toBackend) = 1 /\ IsReply(toBackend[1])
                 /\ incPc \in {"drain", "receive"} /\ ~IsReply(incMsg)
              \/ /\ toProxy = << >> /\ toBackend = << >>
                 /\ incPc \in {"returned", "closed"} /\ ~IsReply(incMsg)

\* How many requests rsp has announced to inc, and how many announcements inc
\* has not taken, those that rsp has still to make included.
Announced == Len(received) + (IF rspPc = "write" THEN 1 ELSE 0)
Untaken ==
    Len(authTypeCh) + (IF asked > Announced THEN asked - Announced ELSE 0)

\* inc has emptied the channel since it forwarded the last reply but one.
ChannelInv ==
    /\ Untaken <= 2
    /\ incPc \in {"receive", "forward"} => Untaken <= 1
    /\ asked < Len(script) /\ replied = asked /\ toProxy = << >> =>
           /\ incPc = "receive" => Untaken = 0
           /\ incPc = "drain" => Untaken <= 1

\* A password is the answer to the one request of its method.
PasswordInv ==
    script # << >> /\ script[1].reply = "password" =>
        /\ authType \in {"Cleartext", "MD5", "none"}
        /\ \A i \in 1..Len(authTypeCh) : authTypeCh[i] \in {"Cleartext", "MD5"}
        /\ rspPc = "send" => rspMsg.val \in {"Cleartext", "MD5"}
        /\ \A i \in 1..Len(fromBackend) :
               IsAuth(fromBackend[i]) => fromBackend[i].val \in {"Cleartext", "MD5"}
        /\ \A i \in 1..Len(toProxy) :
               IsReply(toProxy[i]) => toProxy[i].val = "password"
        /\ IsReply(incMsg) => incMsg.val = "password"
        /\ \A i \in 1..Len(toBackend) :
               IsReply(toBackend[i]) => toBackend[i].val = "password"
        /\ \A i \in 1..Len(delivered) : delivered[i] = "password"
        /\ incPc \notin {"returned", "closed"}

-----------------------------------------------------------------------------
(* Sequences and scripts *)

LEMMA AppendFacts ==
  ASSUME NEW S, NEW s \in Seq(S), NEW e \in S
  PROVE  /\ Append(s, e) \in Seq(S)
         /\ Len(Append(s, e)) = Len(s) + 1
         /\ Len(s) \in Nat
         /\ \A i \in 1..Len(s) : Append(s, e)[i] = s[i]
         /\ Append(s, e)[Len(s) + 1] = e
  OBVIOUS

LEMMA TailFacts ==
  ASSUME NEW S, NEW s \in Seq(S), s # << >>
  PROVE  /\ Tail(s) \in Seq(S)
         /\ Len(s) \in Nat /\ Len(s) > 0
         /\ Len(Tail(s)) = Len(s) - 1
         /\ \A i \in 1..(Len(s) - 1) : Tail(s)[i] = s[i + 1]
         /\ Head(s) = s[1]
         /\ Head(s) \in S
  OBVIOUS

LEMMA ConcatFacts ==
  ASSUME NEW S, NEW s \in Seq(S), NEW t \in Seq(S)
  PROVE  /\ s \o t \in Seq(S)
         /\ Len(s) \in Nat /\ Len(t) \in Nat
         /\ Len(s \o t) = Len(s) + Len(t)
         /\ \A i \in 1..Len(s) : (s \o t)[i] = s[i]
         /\ \A i \in 1..Len(t) : (s \o t)[Len(s) + i] = t[i]
  OBVIOUS

LEMMA OneElement ==
  ASSUME NEW S, NEW e \in S
  PROVE  /\ <<e>> \in Seq(S) /\ Len(<<e>>) = 1 /\ <<e>>[1] = e
         /\ \A i \in 1..Len(<<e>>) : <<e>>[i] = e
  OBVIOUS

LEMMA FunctionSeq ==
  ASSUME NEW S, NEW k \in Nat, NEW f \in [1..k -> S]
  PROVE  f \in Seq(S) /\ Len(f) = k
  OBVIOUS

LEMMA EmptyOrNot ==
  ASSUME NEW S, NEW s \in Seq(S)
  PROVE  /\ Len(s) \in Nat
         /\ (s = << >>) <=> (Len(s) = 0)
  OBVIOUS

Steps == [ask : AuthTypes, reply : Replies \cup {"none"}]

\* Only the last request of an exchange calls for no reply, and a password is
\* the whole of its exchange.
IsScript(s) ==
    /\ s \in Seq(Steps)
    /\ \A i \in 1..Len(s) : i < Len(s) => s[i].reply # "none"
    /\ \A i \in 1..Len(s) :
           s[i].reply = "password" =>
               i = 1 /\ Len(s) = 1 /\ s[1].ask \in {"Cleartext", "MD5"}

LEMMA ScriptFacts ==
  ASSUME NEW m \in Methods, NEW r \in Rounds
  PROVE  IsScript(Script(m, r))
<1> USE DEF Steps, AuthTypes, Replies
<1>1. CASE m = "trust"
  BY <1>1 DEF Script, IsScript
<1>2. CASE m = "cleartext" \/ m = "md5"
  <2>1. PICK a \in {"Cleartext", "MD5"} :
            Script(m, r) = <<[ask |-> a, reply |-> "password"]>>
    BY <1>2 DEF Script
  <2> QED BY <2>1 DEF IsScript
<1>3. CASE m = "scram"
  BY <1>3 DEF Script, IsScript
<1>4. CASE m = "gss"
  <2> DEFINE s == [i \in 1..r |->
                     [ask |-> IF i = 1 THEN "GSS" ELSE "GSSContinue",
                      reply |-> "gssToken"]]
  <2>1. Script(m, r) = s
    BY <1>4 DEF Script
  <2>2. r \in Nat
    BY AuthAssumption
  <2>3. s \in Seq(Steps) /\ Len(s) = r
    BY <2>2
  <2>4. \A i \in 1..Len(s) : s[i].reply = "gssToken"
    BY <2>3
  <2> QED BY <2>1, <2>3, <2>4 DEF IsScript
<1> QED BY <1>1, <1>2, <1>3, <1>4, AuthAssumption

LEMMA ScriptTyped ==
  ASSUME TypeOK
  PROVE  /\ IsScript(script)
         /\ Len(script) \in Nat /\ asked \in Nat /\ asked <= Len(script)
<1>1. IsScript(script)
  <2>1. script \in Scripts
    BY DEF TypeOK
  <2> QED BY <2>1, ScriptFacts DEF Scripts
<1>2. Len(script) \in Nat
  BY <1>1 DEF IsScript
<1>3. asked \in 0..Len(script)
  BY DEF TypeOK
<1> QED BY <1>1, <1>2, <1>3

LEMMA CountTo ==
  ASSUME NEW k \in Nat
  PROVE  Cardinality(1..k) = k
<1>1. Cardinality(1..k) = IF 1 > k THEN 0 ELSE k - 1 + 1
  BY FS_Interval
<1> QED BY <1>1

LEMMA DueCount ==
  ASSUME IsScript(script), NEW k \in 0..Len(script)
  PROVE  Cardinality({i \in 1..k : NeedsReply(script[i])}) = Due(k)
<1> DEFINE due == {i \in 1..k : NeedsReply(script[i])}
<1>1. Len(script) \in Nat /\ k \in Nat /\ k <= Len(script)
  BY DEF IsScript
<1>2. CASE k > 0 /\ script[k].reply = "none"
  <2>1. due = 1..(k - 1)
    BY <1>1, <1>2 DEF IsScript, NeedsReply
  <2>2. k - 1 \in Nat
    BY <1>1, <1>2
  <2> QED BY <1>2, <2>1, <2>2, CountTo DEF Due
<1>3. CASE ~(k > 0 /\ script[k].reply = "none")
  <2>1. due = 1..k
    BY <1>1, <1>3 DEF IsScript, NeedsReply
  <2> QED BY <1>1, <1>3, <2>1, CountTo DEF Due
<1> QED BY <1>2, <1>3

LEMMA AuthCount ==
  ASSUME TypeOK, StreamInv
  PROVE  Cardinality({i \in 1..Len(received) : IsAuth(received[i])}) =
             IF Len(received) <= asked THEN Len(received) ELSE asked
<1> DEFINE auths == {i \in 1..Len(received) : IsAuth(received[i])}
           k == IF Len(received) <= asked THEN Len(received) ELSE asked
<1>1. Len(received) \in Nat /\ asked \in Nat
  <2>1. received \in Seq(BackendMessages)
    BY DEF TypeOK
  <2> QED BY <2>1, ScriptTyped
<1>2. auths = 1..k
  BY <1>1 DEF StreamInv
<1>3. k \in Nat
  BY <1>1
<1> HIDE DEF k
<1> QED BY <1>2, <1>3, CountTo DEF k

LEMMA Numbers ==
  ASSUME TypeOK
  PROVE  /\ Len(received) \in Nat /\ Len(fromBackend) \in Nat
         /\ Len(toProxy) \in Nat /\ Len(toBackend) \in Nat
         /\ Len(authTypeCh) \in Nat /\ Len(delivered) \in Nat
         /\ Len(sent) \in Nat /\ replied \in Nat
         /\ asked \in Nat /\ Len(script) \in Nat /\ asked <= Len(script)
<1>1. /\ sent \in Seq(Sqls) /\ received \in Seq(BackendMessages)
      /\ fromBackend \in Seq(BackendMessages)
      /\ toProxy \in Seq(FrontendMessages)
      /\ toBackend \in Seq(FrontendMessages)
      /\ authTypeCh \in Seq(AuthTypes) /\ delivered \in Seq(Replies)
      /\ replied \in Nat
  BY DEF TypeOK
<1> QED BY <1>1, ScriptTyped

LEMMA DueFacts ==
  ASSUME IsScript(script), NEW k \in 0..Len(script)
  PROVE  /\ Due(k) \in Nat /\ Due(k) \in {k - 1, k}
         /\ k < Len(script) => Due(k) = k
<1>1. Len(script) \in Nat /\ k \in Nat
  BY DEF IsScript
<1> QED BY <1>1 DEF Due, IsScript

\* What each kind of message carries.
LEMMA FrontendFacts ==
  ASSUME NEW m \in FrontendMessages
  PROVE  /\ m = Msg(m.n, m.type, m.val)
         /\ m.type \in {"p", "query", "parse", "execute", "sync"}
         /\ m.type = "p" => m.n = 0 /\ m.val \in Replies
         /\ m.type # "p" => m.n \in 1..MaxRequests
         /\ m.type \in {"query", "parse"} => m.val \in Sqls
         /\ m.type \in {"execute", "sync"} => m.val = ""
  BY DEF FrontendMessages, Msg

LEMMA BackendFacts ==
  ASSUME NEW m \in BackendMessages
  PROVE  /\ m.n \in 0..MaxRequests
         /\ m.type \in {"auth", "ready", "ok", "refused", "complete", "error"}
         /\ IsAuth(m) => m.val \in AuthTypes
         /\ IsReady(m) => m.val \in TxStates
<1> USE QueryAssumption DEF IsAuth, IsReady
<1>1. CASE m \in [n : {0}, type : {"auth"}, val : AuthTypes]
  BY <1>1
<1>2. CASE m \in [n : 0..MaxRequests, type : {"ready"}, val : TxStates]
  BY <1>2
<1>3. CASE m \in [n : 0..MaxRequests,
                  type : {"ok", "refused", "complete", "error"}, val : {""}]
  BY <1>3
<1> QED BY <1>1, <1>2, <1>3 DEF BackendMessages

\* Messages are what their parts say.
LEMMA NewMessages ==
  /\ \A v \in Replies : Msg(0, "p", v) \in FrontendMessages
  /\ \A n \in 1..MaxRequests, v \in Sqls :
         /\ Msg(n, "query", v) \in FrontendMessages
         /\ Msg(n, "parse", v) \in FrontendMessages
         /\ Msg(n, "execute", "") \in FrontendMessages
         /\ Msg(n, "sync", "") \in FrontendMessages
  /\ \A v \in AuthTypes : Msg(0, "auth", v) \in BackendMessages
  /\ \A n \in 0..MaxRequests, v \in TxStates :
         Msg(n, "ready", v) \in BackendMessages
  /\ \A n \in 0..MaxRequests, t \in {"ok", "refused", "complete", "error"} :
         Msg(n, t, "") \in BackendMessages
  BY DEF FrontendMessages, BackendMessages, Msg

LEMMA NoMsgFacts ==
  ~IsAuth(NoMsg) /\ ~IsReply(NoMsg) /\ ~IsReady(NoMsg) /\ ~Blocked(NoMsg)
  BY DEF NoMsg, Msg, IsAuth, IsReady, IsReply, Blocked

-----------------------------------------------------------------------------
(* Types *)

LEMMA InitTyped == Init => TypeOK /\ HeldInv
<1> SUFFICES ASSUME Init PROVE TypeOK /\ HeldInv
  OBVIOUS
<1>1. /\ sent = << >> /\ replied = 0 /\ toProxy = << >> /\ toBackend = << >>
      /\ fromBackend = << >> /\ received = << >> /\ authTypeCh = << >>
      /\ incPc = "drain" /\ incMsg = NoMsg /\ authType = "none"
      /\ txStatus = "I" /\ lastTxStatus = "I" /\ blockedQueries = 0
      /\ rspPc = "read" /\ rspMsg = NoMsg /\ script \in Scripts
      /\ asked = 0 /\ decided = FALSE /\ delivered = << >>
      /\ tx = "I" /\ stmt = "" /\ executed = << >>
  BY DEF Init
<1>2. 0 \in 0..Len(script)
  <2>1. script \in Scripts
    BY <1>1
  <2>2. IsScript(script)
    BY <2>1, ScriptFacts DEF Scripts
  <2> QED BY <2>2 DEF IsScript
<1>3. Len(<< >>) <= AuthChCap
  BY AuthAssumption
<1>4. TypeOK
  <2>1. {txStatus, lastTxStatus, tx} \subseteq TxStates
    BY <1>1 DEF TxStates
  <2>2. asked \in 0..Len(script) /\ Len(authTypeCh) <= AuthChCap
    BY <1>1, <1>2, <1>3
  <2>3. decided \in BOOLEAN
    BY <1>1
  <2>4. /\ sent \in Seq(Sqls) /\ toProxy \in Seq(FrontendMessages)
        /\ toBackend \in Seq(FrontendMessages)
        /\ fromBackend \in Seq(BackendMessages)
        /\ received \in Seq(BackendMessages) /\ authTypeCh \in Seq(AuthTypes)
        /\ delivered \in Seq(Replies)
        /\ executed \in Seq([n : 1..MaxRequests, sql : Sqls])
    <3>1. \A S : << >> \in Seq(S)
      OBVIOUS
    <3>2. /\ sent = << >> /\ toProxy = << >> /\ toBackend = << >>
          /\ fromBackend = << >> /\ received = << >> /\ authTypeCh = << >>
          /\ delivered = << >> /\ executed = << >>
      BY <1>1
    <3> QED BY ONLY <3>1, <3>2
  <2>5. /\ incPc \in {"drain", "receive", "forward", "error", "status", "ready",
                      "returned", "closed"}
        /\ incMsg \in FrontendMessages \cup {NoMsg}
        /\ authType \in AuthTypes \cup {"none"}
        /\ rspPc \in {"read", "send", "write"}
        /\ rspMsg \in BackendMessages \cup {NoMsg}
        /\ stmt \in Sqls \cup {""}
        /\ replied \in Nat /\ blockedQueries \in Nat
    BY <1>1
  <2> QED BY <1>1, <2>1, <2>2, <2>3, <2>4, <2>5 DEF TypeOK
<1> QED BY <1>1, <1>4 DEF HeldInv

LEMMA ClientRepliesTyped ==
  ASSUME TypeOK, HeldInv, StreamInv, ClientReplies
  PROVE  /\ TypeOK' /\ HeldInv'
         /\ replied + 1 <= asked /\ replied + 1 <= Len(received)
         /\ script[replied + 1].reply \in Replies \cup {"none"}
<1> DEFINE reply == script[replied + 1].reply
<1>1. /\ replied' = replied + 1
      /\ toProxy' = IF reply = "none" THEN toProxy
                    ELSE Append(toProxy, Msg(0, "p", reply))
      /\ UNCHANGED <<sent, toBackend, fromBackend, received, authTypeCh, incPc,
                     incMsg, authType, txStatus, blockedQueries, rspPc, rspMsg,
                     lastTxStatus, script, asked, decided, delivered, tx, stmt,
                     executed>>
  BY DEF ClientReplies, incVars, rspVars, authVars, queryVars
<1>2. replied + 1 <= asked /\ replied + 1 <= Len(received)
  <2>1. replied < IF Len(received) <= asked THEN Len(received) ELSE asked
    BY AuthCount DEF ClientReplies
  <2> QED BY <2>1, Numbers
<1>3. reply \in Replies \cup {"none"}
  <2>1. script \in Seq(Steps)
    BY ScriptTyped DEF IsScript
  <2>2. replied + 1 \in 1..Len(script)
    BY <1>2, Numbers
  <2>3. script[replied + 1] \in Steps
    BY <2>1, <2>2
  <2> QED BY <2>3 DEF Steps
<1>4. toProxy' \in Seq(FrontendMessages)
  <2>1. toProxy \in Seq(FrontendMessages)
    BY DEF TypeOK
  <2>2. CASE reply = "none"
    BY <1>1, <2>1, <2>2
  <2>3. CASE reply # "none"
    <3>1. Msg(0, "p", reply) \in FrontendMessages
      BY <1>3, <2>3, NewMessages
    <3> QED BY <1>1, <2>1, <2>3, <3>1
  <2> QED BY <2>2, <2>3
<1>5. TypeOK'
  <2>1. replied' \in Nat
    BY <1>1, Numbers
  <2> QED BY <1>1, <1>4, <2>1 DEF TypeOK
<1>6. HeldInv'
  BY <1>1 DEF HeldInv, Blocked, IsAuth
<1> QED BY <1>2, <1>3, <1>5, <1>6

LEMMA SendTyped ==
  ASSUME TypeOK, HeldInv, NEW sql \in Sqls,
         NEW types \in {<<"query">>, <<"parse", "execute", "sync">>},
         Send(sql, types)
  PROVE  /\ TypeOK' /\ HeldInv'
         /\ \E news \in Seq(FrontendMessages) :
                /\ toProxy' = toProxy \o news
                /\ \A i \in 1..Len(news) : ~IsReply(news[i])
<1> DEFINE n == Len(sent) + 1
           Carries(t) == IF t \in {"query", "parse"} THEN sql ELSE ""
           news == [i \in 1..Len(types) |-> Msg(n, types[i], Carries(types[i]))]
<1>1. /\ sent' = Append(sent, sql)
      /\ toProxy' = toProxy \o news
      /\ Len(sent) < MaxRequests
      /\ UNCHANGED <<replied, toBackend, fromBackend, received, authTypeCh, incPc,
                     incMsg, authType, txStatus, blockedQueries, rspPc, rspMsg,
                     lastTxStatus, script, asked, decided, delivered, tx, stmt,
                     executed>>
  BY DEF Send, incVars, rspVars, authVars, queryVars
<1>2. n \in 1..MaxRequests
  <2>1. Len(sent) \in Nat /\ MaxRequests \in Nat /\ Len(sent) < MaxRequests
    BY <1>1, Numbers, QueryAssumption
  <2> QED BY <2>1
<1>3. /\ news \in Seq(FrontendMessages)
      /\ \A i \in 1..Len(news) : ~IsReply(news[i])
  <2> HIDE DEF n
  <2>1. CASE types = <<"query">>
    <3>1. Len(types) = 1 /\ types[1] = "query"
      BY <2>1
    <3>2. /\ \A i \in 1..1 : news[i] = Msg(n, "query", sql)
          /\ DOMAIN news = 1..1
      BY <3>1
    <3>3. Msg(n, "query", sql) \in FrontendMessages
      BY <1>2, NewMessages
    <3>4. ~IsReply(Msg(n, "query", sql))
      BY DEF IsReply, Msg
    <3>5. news \in [1..1 -> FrontendMessages]
      BY <3>1, <3>2, <3>3
    <3>6. news \in Seq(FrontendMessages) /\ Len(news) = 1
      BY <3>5, FunctionSeq
    <3> QED BY <3>2, <3>4, <3>6
  <2>2. CASE types = <<"parse", "execute", "sync">>
    <3>1. /\ Len(types) = 3
          /\ types[1] = "parse" /\ types[2] = "execute" /\ types[3] = "sync"
      BY <2>2
    <3>2. /\ DOMAIN news = 1..3
          /\ news[1] = Msg(n, "parse", sql)
          /\ news[2] = Msg(n, "execute", "") /\ news[3] = Msg(n, "sync", "")
      <4>1. Carries("parse") = sql /\ Carries("execute") = "" /\ Carries("sync") = ""
        OBVIOUS
      <4> HIDE DEF Carries
      <4>2. DOMAIN news = 1..3
        BY <3>1
      <4>3. \A i \in 1..3 : news[i] = Msg(n, types[i], Carries(types[i]))
        BY <3>1
      <4>4. 1 \in 1..3 /\ 2 \in 1..3 /\ 3 \in 1..3
        OBVIOUS
      <4> HIDE DEF news
      <4> QED BY <3>1, <4>1, <4>2, <4>3, <4>4
    <3>3. /\ Msg(n, "parse", sql) \in FrontendMessages
          /\ Msg(n, "execute", "") \in FrontendMessages
          /\ Msg(n, "sync", "") \in FrontendMessages
      BY <1>2, NewMessages
    <3>4. /\ ~IsReply(Msg(n, "parse", sql)) /\ ~IsReply(Msg(n, "execute", ""))
          /\ ~IsReply(Msg(n, "sync", ""))
      BY DEF IsReply, Msg
    <3>5. \A i \in 1..3 : news[i] \in FrontendMessages /\ ~IsReply(news[i])
      <4> HIDE DEF news
      <4>1. \A i \in 1..3 : i = 1 \/ i = 2 \/ i = 3
        OBVIOUS
      <4> QED BY <3>2, <3>3, <3>4, <4>1
    <3>6. news \in [1..3 -> FrontendMessages]
      BY <3>1, <3>2, <3>5
    <3>7. news \in Seq(FrontendMessages) /\ Len(news) = 3
      BY <3>6, FunctionSeq
    <3> QED BY <3>5, <3>7
  <2> QED BY <2>1, <2>2
<1> HIDE DEF news, n
<1>4. toProxy' \in Seq(FrontendMessages) /\ sent' \in Seq(Sqls)
  <2>1. toProxy \in Seq(FrontendMessages) /\ sent \in Seq(Sqls)
    BY DEF TypeOK
  <2>2. toProxy' = toProxy \o news /\ sent' = Append(sent, sql)
    BY <1>1
  <2> QED BY <1>3, <2>1, <2>2, ConcatFacts, AppendFacts
<1>6. TypeOK'
  BY <1>1, <1>4 DEF TypeOK
<1>7. HeldInv'
  BY <1>1 DEF HeldInv, Blocked, IsAuth
<1> QED BY <1>1, <1>3, <1>6, <1>7

LEMMA IncDrainTyped ==
  ASSUME TypeOK, HeldInv, IncDrain
  PROVE  TypeOK' /\ HeldInv'
<1>1. UNCHANGED <<sent, replied, toProxy, toBackend, fromBackend, received,
                  incMsg, txStatus, blockedQueries, rspPc, rspMsg, lastTxStatus,
                  script, asked, decided, delivered, tx, stmt, executed>>
  BY DEF IncDrain, IncStep, clientVars, rspVars, authVars, queryVars
<1>2. incPc' \in {"drain", "receive"}
  BY DEF IncDrain, IncStep
<1>3. authTypeCh \in Seq(AuthTypes) /\ Len(authTypeCh) <= AuthChCap
      /\ authType \in AuthTypes \cup {"none"}
  BY DEF TypeOK
<1>4. /\ authTypeCh' \in Seq(AuthTypes) /\ Len(authTypeCh') <= AuthChCap
      /\ authType' \in AuthTypes \cup {"none"}
  <2>1. CASE authTypeCh # << >>
    BY <1>3, <2>1, TailFacts, AuthAssumption DEF IncDrain
  <2>2. CASE authTypeCh = << >>
    BY <1>3, <2>2 DEF IncDrain
  <2> QED BY <2>1, <2>2
<1>5. TypeOK'
  BY <1>1, <1>2, <1>4 DEF TypeOK
<1>6. HeldInv'
  BY <1>1, <1>2 DEF HeldInv, Blocked, IsAuth
<1> QED BY <1>5, <1>6

\* What inc may make of a message it receives.
LEMMA DecodingFacts ==
  ASSUME NEW m \in FrontendMessages, authType \in AuthTypes \cup {"none"},
         NEW d \in Decodings(m)
  PROVE  /\ d \in FrontendMessages
         /\ d.type = m.type
         /\ m.type = "p" => d.val \in Decoded(m.val, authType)
         /\ m.type # "p" => d = m
<1>1. CASE m.type = "p"
  <2>1. m.val \in Replies
    BY <1>1, FrontendFacts
  <2>2. Decoded(m.val, authType) \ {"error"} \subseteq Replies
    BY <2>1 DEF Decoded, Replies, AuthTypes
  <2>3. PICK v \in Decoded(m.val, authType) \ {"error"} : d = Msg(0, "p", v)
    BY <1>1 DEF Decodings
  <2>4. d \in FrontendMessages
    BY <2>2, <2>3, NewMessages
  <2> QED BY <1>1, <2>3, <2>4 DEF Msg
<1>2. CASE m.type # "p"
  BY <1>2 DEF Decodings
<1> QED BY <1>1, <1>2

\* What IncReceive does, with the message it settles on.
LEMMA IncReceiveDoes ==
  ASSUME IncReceive
  PROVE  /\ UNCHANGED <<sent, replied, toBackend, fromBackend, received,
                        authTypeCh, authType, txStatus, rspPc, rspMsg,
                        lastTxStatus, script, asked, decided, delivered, tx,
                        stmt, executed>>
         /\ toProxy' = Tail(toProxy) /\ toProxy # << >>
         /\ incPc = "receive"
         /\ \E d \in Decodings(Head(toProxy)) :
               /\ incMsg' = d
               /\ \/ /\ Blocked(d) /\ incPc' = "error"
                     /\ blockedQueries' = blockedQueries + 1
                  \/ /\ ~Blocked(d) /\ incPc' = "forward"
                     /\ blockedQueries' = blockedQueries
  BY DEF IncReceive, IncStep, clientVars, rspVars, authVars, queryVars

LEMMA IncReceiveTyped ==
  ASSUME TypeOK, HeldInv, IncReceive
  PROVE  TypeOK' /\ HeldInv'
<1>1. /\ UNCHANGED <<sent, replied, toBackend, fromBackend, received,
                     authTypeCh, authType, txStatus, rspPc, rspMsg, lastTxStatus,
                     script, asked, decided, delivered, tx, stmt, executed>>
      /\ toProxy' = Tail(toProxy) /\ toProxy # << >>
  BY IncReceiveDoes
<1> PICK d \in Decodings(Head(toProxy)) :
      /\ incMsg' = d
      /\ \/ Blocked(d) /\ incPc' = "error" /\ blockedQueries' = blockedQueries + 1
         \/ ~Blocked(d) /\ incPc' = "forward" /\ blockedQueries' = blockedQueries
  BY IncReceiveDoes
<1>2. toProxy \in Seq(FrontendMessages) /\ authType \in AuthTypes \cup {"none"}
      /\ blockedQueries \in Nat
  BY DEF TypeOK
<1>3. toProxy' \in Seq(FrontendMessages) /\ Head(toProxy) \in FrontendMessages
  BY <1>1, <1>2, TailFacts
<1>4. d \in FrontendMessages
  BY <1>2, <1>3, DecodingFacts
<1>5. blockedQueries' \in Nat /\ incPc' \in {"error", "forward"}
  BY <1>2
<1>6. TypeOK'
  BY <1>1, <1>3, <1>4, <1>5 DEF TypeOK
<1>7. HeldInv'
  <2>1. Blocked(incMsg)' = Blocked(d)
    BY DEF Blocked
  <2>2. IsAuth(rspMsg)' = IsAuth(rspMsg)
    BY <1>1 DEF IsAuth
  <2> QED BY <1>1, <1>4, <2>1, <2>2 DEF HeldInv
<1> QED BY <1>6, <1>7

\* What the two steps of a session that fails have in common.
LEMMA FailureDoes ==
  ASSUME IncReceiveFails \/ SessionEnds
  PROVE  /\ UNCHANGED <<sent, replied, toBackend, fromBackend, received,
                        authTypeCh, incMsg, authType, txStatus, blockedQueries,
                        rspPc, rspMsg, lastTxStatus, script, asked, decided,
                        delivered, tx, stmt, executed>>
         /\ \/ /\ incPc = "receive" /\ incPc' = "returned"
               /\ toProxy # << >> /\ toProxy' = Tail(toProxy)
               /\ Head(toProxy).type = "p"
               /\ "error" \in Decoded(Head(toProxy).val, authType)
            \/ /\ incPc = "returned" /\ incPc' = "closed"
               /\ toProxy' = toProxy
  BY DEF IncReceiveFails, SessionEnds, IncStep, clientVars, rspVars, authVars,
         queryVars

LEMMA FailureTyped ==
  ASSUME TypeOK, HeldInv, IncReceiveFails \/ SessionEnds
  PROVE  TypeOK' /\ HeldInv'
<1>1. /\ UNCHANGED <<sent, replied, toBackend, fromBackend, received,
                     authTypeCh, incMsg, authType, txStatus, blockedQueries,
                     rspPc, rspMsg, lastTxStatus, script, asked, decided,
                     delivered, tx, stmt, executed>>
      /\ incPc' \in {"returned", "closed"}
      /\ toProxy' = toProxy \/ (toProxy # << >> /\ toProxy' = Tail(toProxy))
  BY FailureDoes
<1>2. toProxy' \in Seq(FrontendMessages)
  <2>1. toProxy \in Seq(FrontendMessages)
    BY DEF TypeOK
  <2> QED BY <1>1, <2>1, TailFacts
<1>3. TypeOK'
  BY <1>1, <1>2 DEF TypeOK
<1>4. HeldInv'
  BY <1>1 DEF HeldInv, IsAuth
<1> QED BY <1>3, <1>4

LEMMA RewrittenFacts ==
  ASSUME NEW m \in FrontendMessages, ~Blocked(m)
  PROVE  /\ Rewritten(m) \in FrontendMessages
         /\ Rewritten(m).type = m.type
         /\ m.type = "p" => Rewritten(m) = m
<1>1. CASE m.type \in {"query", "parse"}
  <2>1. m = Msg(m.n, m.type, m.val) /\ m.n \in 1..MaxRequests /\ m.val \in Sqls
    BY <1>1, FrontendFacts
  <2>2. Handler[m.val] \in Sqls
    BY <1>1, <2>1, QueryAssumption DEF Blocked
  <2>3. \A n, t, v, w : [Msg(n, t, v) EXCEPT !.val = w] = Msg(n, t, w)
    BY DEF Msg
  <2>4. Rewritten(m) = Msg(m.n, m.type, Handler[m.val])
    BY <1>1, <2>1, <2>3 DEF Rewritten
  <2>5. Rewritten(m) \in FrontendMessages
    BY <1>1, <2>1, <2>2, <2>4, NewMessages
  <2> QED BY <1>1, <2>4, <2>5 DEF Msg
<1>2. CASE m.type \notin {"query", "parse"}
  BY <1>2 DEF Rewritten
<1> QED BY <1>1, <1>2

LEMMA IncForwardTyped ==
  ASSUME TypeOK, HeldInv, IncForward
  PROVE  TypeOK' /\ HeldInv'
<1>1. /\ UNCHANGED <<sent, replied, toProxy, fromBackend, received, authTypeCh,
                     authType, txStatus, blockedQueries, rspPc, rspMsg,
                     lastTxStatus, script, asked, decided, delivered, tx, stmt,
                     executed>>
      /\ incPc = "forward" /\ incPc' = "drain"
      /\ toBackend' = Append(toBackend, Rewritten(incMsg))
      /\ incMsg' = NoMsg
  BY DEF IncForward, IncStep, clientVars, rspVars, authVars, queryVars
<1>2. incMsg \in FrontendMessages /\ ~Blocked(incMsg)
  BY <1>1 DEF HeldInv
<1>3. Rewritten(incMsg) \in FrontendMessages
  BY <1>2, RewrittenFacts
<1>4. toBackend' \in Seq(FrontendMessages)
  <2>1. toBackend \in Seq(FrontendMessages)
    BY DEF TypeOK
  <2> QED BY <1>1, <1>3, <2>1, AppendFacts
<1>5. TypeOK'
  BY <1>1, <1>4 DEF TypeOK
<1>6. HeldInv'
  BY <1>1 DEF HeldInv, IsAuth
<1> QED BY <1>5, <1>6

LEMMA IncAnswerTyped ==
  ASSUME TypeOK, HeldInv, IncError \/ IncStatus \/ IncReady
  PROVE  /\ TypeOK' /\ HeldInv'
         /\ incPc \in {"error", "status", "ready"}
         /\ incPc' \in {"drain", "status", "ready"}
         /\ UNCHANGED <<sent, replied, toProxy, toBackend, fromBackend,
                        authTypeCh, incMsg, authType, blockedQueries, rspPc,
                        rspMsg, lastTxStatus, script, asked, decided, delivered,
                        tx, stmt, executed>>
         /\ \/ received' = received
            \/ \E m \in BackendMessages : /\ received' = Append(received, m)
                                          /\ m.n # 0 /\ ~IsAuth(m)
<1>1. /\ UNCHANGED <<sent, replied, toProxy, toBackend, fromBackend,
                     authTypeCh, incMsg, authType, blockedQueries, rspPc,
                     rspMsg, lastTxStatus, script, asked, decided, delivered,
                     tx, stmt, executed>>
      /\ incPc \in {"error", "status", "ready"}
      /\ incPc' \in {"drain", "status", "ready"}
      /\ txStatus' \in {txStatus, lastTxStatus}
  BY DEF IncError, IncStatus, IncReady, IncAnswer, IncStep, clientVars, rspVars,
         authVars, queryVars
<1>2. incMsg \in FrontendMessages /\ Blocked(incMsg)
  BY <1>1 DEF HeldInv
<1>3. incMsg.n \in 1..MaxRequests
  BY <1>2, FrontendFacts DEF Blocked
<1>4. txStatus \in TxStates /\ lastTxStatus \in TxStates
  BY DEF TypeOK
<1>5. \/ received' = received
      \/ \E m \in BackendMessages : /\ received' = Append(received, m)
                                    /\ m.n # 0 /\ ~IsAuth(m)
  <2>1. MaxRequests \in Nat /\ incMsg.n \in 0..MaxRequests /\ incMsg.n # 0
    BY <1>3, QueryAssumption
  <2>2. CASE IncError
    <3>1. received' = Append(received, Msg(incMsg.n, "error", ""))
      BY <2>2 DEF IncError, IncAnswer
    <3>2. Msg(incMsg.n, "error", "") \in BackendMessages
      BY <2>1, NewMessages
    <3>3. Msg(incMsg.n, "error", "").n = incMsg.n /\ ~IsAuth(Msg(incMsg.n, "error", ""))
      BY DEF Msg, IsAuth
    <3> QED BY <2>1, <3>1, <3>2, <3>3
  <2>3. CASE IncStatus
    BY <2>3 DEF IncStatus
  <2>4. CASE IncReady
    <3>1. received' = Append(received, Msg(incMsg.n, "ready", txStatus))
      BY <2>4 DEF IncReady, IncAnswer
    <3>2. Msg(incMsg.n, "ready", txStatus) \in BackendMessages
      BY <1>4, <2>1, NewMessages
    <3>3. /\ Msg(incMsg.n, "ready", txStatus).n = incMsg.n
          /\ ~IsAuth(Msg(incMsg.n, "ready", txStatus))
      BY DEF Msg, IsAuth
    <3> QED BY <2>1, <3>1, <3>2, <3>3
  <2> QED BY <2>2, <2>3, <2>4
<1>6. received' \in Seq(BackendMessages)
  <2>1. received \in Seq(BackendMessages)
    BY DEF TypeOK
  <2> QED BY <1>5, <2>1, AppendFacts
<1>7. TypeOK'
  <2>1. {txStatus', lastTxStatus', tx'} \subseteq TxStates
    BY <1>1, <1>4 DEF TypeOK
  <2> QED BY <1>1, <1>6, <2>1 DEF TypeOK
<1>8. HeldInv'
  <2>1. Blocked(incMsg)' = Blocked(incMsg) /\ IsAuth(rspMsg)' = IsAuth(rspMsg)
    BY <1>1 DEF Blocked, IsAuth
  <2> QED BY <1>1, <1>2, <2>1 DEF HeldInv
<1> QED BY <1>1, <1>5, <1>7, <1>8

LEMMA RspTyped ==
  ASSUME TypeOK, HeldInv, Rsp
  PROVE  /\ TypeOK' /\ HeldInv'
         /\ UNCHANGED <<sent, replied, toProxy, toBackend, incPc, incMsg,
                        authType, txStatus, blockedQueries, script, asked,
                        decided, delivered, tx, stmt, executed>>
<1>1. UNCHANGED <<sent, replied, toProxy, toBackend, incPc, incMsg,
                  authType, txStatus, blockedQueries, script, asked,
                  decided, delivered, tx, stmt, executed>>
  BY DEF Rsp, RspReceive, RspSend, RspWrite, RspStep, clientVars, incVars,
         authVars, queryVars
<1>2. /\ fromBackend \in Seq(BackendMessages) /\ received \in Seq(BackendMessages)
      /\ authTypeCh \in Seq(AuthTypes) /\ Len(authTypeCh) <= AuthChCap
      /\ lastTxStatus \in TxStates /\ txStatus \in TxStates /\ tx \in TxStates
      /\ rspMsg \in BackendMessages \cup {NoMsg}
  BY DEF TypeOK
<1>3. /\ fromBackend' \in Seq(BackendMessages) /\ received' \in Seq(BackendMessages)
      /\ authTypeCh' \in Seq(AuthTypes) /\ Len(authTypeCh') <= AuthChCap
      /\ lastTxStatus' \in TxStates
      /\ rspMsg' \in BackendMessages \cup {NoMsg}
      /\ rspPc' \in {"read", "send", "write"}
      /\ rspPc' # "read" => rspMsg' \in BackendMessages
      /\ rspPc' = "send" => IsAuth(rspMsg')
  <2>1. CASE RspReceive
    <3>1. /\ rspMsg' \in BackendMessages /\ fromBackend' \in Seq(BackendMessages)
      BY <1>2, <2>1, TailFacts DEF RspReceive
    <3>2. lastTxStatus' \in TxStates
      BY <1>2, <2>1, <3>1, BackendFacts DEF RspReceive
    <3> QED BY <1>2, <2>1, <3>1, <3>2 DEF RspReceive, RspStep
  <2>2. CASE RspSend
    <3>1. /\ rspMsg \in BackendMessages /\ IsAuth(rspMsg)
          /\ Len(authTypeCh) < AuthChCap
          /\ authTypeCh' = Append(authTypeCh, rspMsg.val)
          /\ rspPc' = "write"
          /\ UNCHANGED <<fromBackend, received, rspMsg, lastTxStatus>>
      BY <2>2 DEF RspSend, RspStep, HeldInv
    <3>2. rspMsg.val \in AuthTypes
      BY <3>1, BackendFacts
    <3>3. /\ authTypeCh' \in Seq(AuthTypes)
          /\ Len(authTypeCh') = Len(authTypeCh) + 1 /\ Len(authTypeCh) \in Nat
      BY <1>2, <3>1, <3>2, AppendFacts
    <3>4. Len(authTypeCh') <= AuthChCap
      BY <3>1, <3>3, AuthAssumption
    <3> QED BY <1>2, <3>1, <3>3, <3>4
  <2>3. CASE RspWrite
    <3>1. /\ rspMsg \in BackendMessages
          /\ received' = Append(received, rspMsg)
          /\ rspPc' = "read" /\ rspMsg' = NoMsg
          /\ UNCHANGED <<fromBackend, authTypeCh, lastTxStatus>>
      BY <2>3 DEF RspWrite, RspStep, HeldInv
    <3>2. received' \in Seq(BackendMessages)
      BY <1>2, <3>1, AppendFacts
    <3> QED BY <1>2, <3>1, <3>2
  <2> QED BY <2>1, <2>2, <2>3 DEF Rsp
<1>4. TypeOK'
  <2>1. {txStatus', lastTxStatus', tx'} \subseteq TxStates
    BY <1>1, <1>2, <1>3
  <2> QED BY <1>1, <1>3, <2>1 DEF TypeOK
<1>5. HeldInv'
  <2>1. Blocked(incMsg)' = Blocked(incMsg) /\ IsAuth(rspMsg)' = IsAuth(rspMsg')
    BY <1>1 DEF Blocked, IsAuth
  <2> QED BY <1>1, <1>3, <2>1 DEF HeldInv
<1> QED BY <1>1, <1>4, <1>5

LEMMA BackendAsksTyped ==
  ASSUME TypeOK, HeldInv, BackendAsks
  PROVE  /\ TypeOK' /\ HeldInv'
         /\ ~decided /\ Len(delivered) = Due(asked)
         /\ UNCHANGED <<sent, replied, toProxy, toBackend, received, authTypeCh,
                        incPc, incMsg, authType, txStatus, blockedQueries, rspPc,
                        rspMsg, lastTxStatus, script, delivered, tx, stmt,
                        executed>>
         /\ \/ /\ asked < Len(script) /\ asked' = asked + 1 /\ ~decided'
               /\ fromBackend' =
                      Append(fromBackend, Msg(0, "auth", script[asked + 1].ask))
            \/ /\ asked = Len(script) /\ asked' = asked /\ decided'
               /\ fromBackend' =
                      fromBackend \o <<Msg(0, "ok", ""), Msg(0, "ready", "I")>>
<1>1. /\ ~decided
      /\ UNCHANGED <<sent, replied, toProxy, toBackend, received, authTypeCh,
                     incPc, incMsg, authType, txStatus, blockedQueries, rspPc,
                     rspMsg, lastTxStatus, script, delivered, tx, stmt, executed>>
  BY DEF BackendAsks, BackendSends, clientVars, incVars, rspVars, queryVars
<1>2. IsScript(script) /\ Len(script) \in Nat /\ asked \in Nat /\ asked <= Len(script)
  BY ScriptTyped
<1>3. Len(delivered) = Due(asked)
  <2>1. asked \in 0..Len(script)
    BY DEF TypeOK
  <2> QED BY <1>2, <2>1, DueCount DEF BackendAsks
<1>4. fromBackend \in Seq(BackendMessages)
  BY DEF TypeOK
<1>5. CASE asked < Len(script)
  <2>1. /\ asked' = asked + 1 /\ decided' = decided
        /\ fromBackend' = fromBackend \o <<Msg(0, "auth", script[asked + 1].ask)>>
    <3>1. asked # Len(script)
      BY <1>2, <1>5
    <3> QED BY <3>1 DEF BackendAsks, BackendSends
  <2>2. Msg(0, "auth", script[asked + 1].ask) \in BackendMessages
    <3>1. script \in Seq(Steps) /\ asked + 1 \in 1..Len(script)
      BY <1>2, <1>5 DEF IsScript
    <3>2. script[asked + 1] \in Steps
      BY <3>1
    <3> QED BY <3>2, NewMessages DEF Steps
  <2>3. \A e \in BackendMessages : fromBackend \o <<e>> = Append(fromBackend, e)
    BY <1>4
  <2>4. fromBackend' = Append(fromBackend, Msg(0, "auth", script[asked + 1].ask))
    BY <2>1, <2>2, <2>3
  <2>5. fromBackend' \in Seq(BackendMessages)
    BY <1>4, <2>2, <2>4, AppendFacts
  <2>6. asked' \in 0..Len(script')
    BY <1>1, <1>2, <1>5, <2>1
  <2>7. TypeOK'
    BY <1>1, <2>1, <2>5, <2>6 DEF TypeOK
  <2>8. HeldInv'
    BY <1>1 DEF HeldInv, Blocked, IsAuth
  <2> QED BY <1>1, <1>3, <1>5, <2>1, <2>4, <2>7, <2>8
<1>6. CASE asked = Len(script)
  <2>1. /\ asked' = asked /\ decided' = TRUE
        /\ fromBackend' = fromBackend \o <<Msg(0, "ok", ""), Msg(0, "ready", "I")>>
    <3>1. ~(asked < Len(script))
      BY <1>2, <1>6
    <3> QED BY <3>1 DEF BackendAsks, BackendSends
  <2>2. Msg(0, "ok", "") \in BackendMessages /\ Msg(0, "ready", "I") \in BackendMessages
    <3>1. 0 \in 0..MaxRequests
      BY QueryAssumption
    <3> QED BY <3>1, NewMessages DEF TxStates
  <2>3. \A d, e \in BackendMessages : <<d, e>> \in Seq(BackendMessages)
    OBVIOUS
  <2>4. fromBackend' \in Seq(BackendMessages)
    BY <1>4, <2>1, <2>2, <2>3, ConcatFacts
  <2>5. decided' \in BOOLEAN
    BY <2>1
  <2>6. TypeOK'
    BY <1>1, <2>1, <2>4, <2>5 DEF TypeOK
  <2>7. HeldInv'
    BY <1>1 DEF HeldInv, Blocked, IsAuth
  <2>8. decided'
    BY <2>1
  <2> QED BY <1>1, <1>3, <1>6, <2>1, <2>6, <2>7, <2>8
<1>7. asked < Len(script) \/ asked = Len(script)
  BY <1>2
<1> QED BY <1>5, <1>6, <1>7

LEMMA BackendRefusesTyped ==
  ASSUME TypeOK, HeldInv, BackendRefuses
  PROVE  /\ TypeOK' /\ HeldInv'
         /\ ~decided /\ decided'
         /\ UNCHANGED <<sent, replied, toProxy, toBackend, received, authTypeCh,
                        incPc, incMsg, authType, txStatus, blockedQueries, rspPc,
                        rspMsg, lastTxStatus, script, asked, delivered, tx, stmt,
                        executed>>
         /\ fromBackend' = Append(fromBackend, Msg(0, "refused", ""))
         /\ Msg(0, "refused", "") \in BackendMessages
<1>1. /\ ~decided /\ decided' = TRUE
      /\ UNCHANGED <<sent, replied, toProxy, toBackend, received, authTypeCh,
                     incPc, incMsg, authType, txStatus, blockedQueries, rspPc,
                     rspMsg, lastTxStatus, script, asked, delivered, tx, stmt,
                     executed>>
      /\ fromBackend' = fromBackend \o <<Msg(0, "refused", "")>>
  BY DEF BackendRefuses, BackendSends, clientVars, incVars, rspVars, queryVars
<1>2. fromBackend \in Seq(BackendMessages)
  BY DEF TypeOK
<1>3. Msg(0, "refused", "") \in BackendMessages
  <2>1. 0 \in 0..MaxRequests
    BY QueryAssumption
  <2> QED BY <2>1, NewMessages
<1>4. \A e \in BackendMessages : fromBackend \o <<e>> = Append(fromBackend, e)
  BY <1>2
<1>5. fromBackend' = Append(fromBackend, Msg(0, "refused", ""))
  BY <1>1, <1>3, <1>4
<1>6. fromBackend' \in Seq(BackendMessages) /\ decided' \in BOOLEAN
  BY <1>1, <1>2, <1>3, <1>5, AppendFacts
<1>7. TypeOK'
  BY <1>1, <1>6 DEF TypeOK
<1>8. HeldInv'
  BY <1>1 DEF HeldInv, Blocked, IsAuth
<1> QED BY <1>1, <1>3, <1>5, <1>7, <1>8

LEMMA TxTyped ==
  ASSUME NEW st \in TxStates, NEW sql \in Sqls
  PROVE  TxAfter(st, sql) \in TxStates
  BY DEF TxAfter, TxStates, Sqls

LEMMA OutcomeFacts ==
  ASSUME NEW n \in 1..MaxRequests, NEW st, NEW sql
  PROVE  Outcome(n, st, sql) \in BackendMessages /\ ~IsAuth(Outcome(n, st, sql))
<1>1. n \in 0..MaxRequests
  BY QueryAssumption
<1>2. /\ Msg(n, "complete", "") \in BackendMessages
      /\ Msg(n, "error", "") \in BackendMessages
  BY <1>1, NewMessages
<1>3. ~IsAuth(Msg(n, "complete", "")) /\ ~IsAuth(Msg(n, "error", ""))
  BY DEF IsAuth, Msg
<1>4. Outcome(n, st, sql) \in {Msg(n, "complete", ""), Msg(n, "error", "")}
  BY DEF Outcome
<1> QED BY <1>2, <1>3, <1>4

LEMMA BackendReceivesTyped ==
  ASSUME TypeOK, HeldInv, BackendReceives
  PROVE  /\ TypeOK' /\ HeldInv'
         /\ toBackend # << >> /\ toBackend' = Tail(toBackend)
         /\ UNCHANGED <<sent, replied, toProxy, received, authTypeCh, incPc,
                        incMsg, authType, txStatus, blockedQueries, rspPc,
                        rspMsg, lastTxStatus, script, asked, decided>>
         /\ IsReply(Head(toBackend)) =>
                /\ Head(toBackend).val \in Replies
                /\ delivered' = Append(delivered, Head(toBackend).val)
                /\ fromBackend' = fromBackend
         /\ ~IsReply(Head(toBackend)) => delivered' = delivered
         /\ \E msgs \in Seq(BackendMessages) :
                /\ fromBackend' = fromBackend \o msgs
                /\ \A i \in 1..Len(msgs) : ~IsAuth(msgs[i])
<1> DEFINE m == Head(toBackend)
<1>1. /\ toBackend # << >> /\ toBackend' = Tail(toBackend)
      /\ UNCHANGED <<sent, replied, toProxy, received, authTypeCh, incPc,
                     incMsg, authType, txStatus, blockedQueries, rspPc,
                     rspMsg, lastTxStatus, script, asked, decided>>
  BY DEF BackendReceives, BackendSends, Execute, clientVars, incVars, rspVars
<1>2. /\ toBackend \in Seq(FrontendMessages) /\ fromBackend \in Seq(BackendMessages)
      /\ delivered \in Seq(Replies)
      /\ tx \in TxStates /\ txStatus \in TxStates /\ lastTxStatus \in TxStates
      /\ stmt \in Sqls \cup {""}
      /\ executed \in Seq([n : 1..MaxRequests, sql : Sqls])
  BY DEF TypeOK
<1>3. m \in FrontendMessages /\ toBackend' \in Seq(FrontendMessages)
  BY <1>1, <1>2, TailFacts
<1>4. /\ m.type \in {"p", "query", "parse", "execute", "sync"}
      /\ m.type = "p" => m.val \in Replies
      /\ m.type # "p" => m.n \in 1..MaxRequests
      /\ m.type \in {"query", "parse"} => m.val \in Sqls
  BY <1>3, FrontendFacts
<1> DEFINE Good(msgs) == /\ msgs \in Seq(BackendMessages)
                         /\ fromBackend' = fromBackend \o msgs
                         /\ \A i \in 1..Len(msgs) : ~IsAuth(msgs[i])
<1> HIDE DEF m
<1>5. \A n \in 1..MaxRequests, st \in TxStates :
          /\ Msg(n, "ready", st) \in BackendMessages
          /\ ~IsAuth(Msg(n, "ready", st))
          /\ Msg(n, "error", "") \in BackendMessages
          /\ ~IsAuth(Msg(n, "error", ""))
  <2> TAKE n \in 1..MaxRequests, st \in TxStates
  <2>1. n \in 0..MaxRequests
    BY QueryAssumption
  <2> QED BY <2>1, NewMessages DEF Msg, IsAuth
<1>6. /\ \E msgs : Good(msgs)
      /\ tx' \in TxStates /\ stmt' \in Sqls \cup {""}
      /\ executed' \in Seq([n : 1..MaxRequests, sql : Sqls])
      /\ IsReply(m) => /\ m.val \in Replies
                       /\ delivered' = Append(delivered, m.val)
                       /\ fromBackend' = fromBackend
      /\ ~IsReply(m) => delivered' = delivered
  <2>1. CASE m.type = "p"
    <3>1. /\ delivered' = Append(delivered, m.val)
          /\ fromBackend' = fromBackend \o << >>
          /\ UNCHANGED <<tx, stmt, executed>>
      BY <2>1 DEF BackendReceives, BackendSends, queryVars, m
    <3>2. fromBackend \o << >> = fromBackend
      BY <1>2, ConcatEmptySeq
    <3>3. Good(<< >>)
      BY <3>1
    <3> QED BY <1>2, <1>4, <2>1, <3>1, <3>2, <3>3 DEF IsReply
  <2> DEFINE Ran(n, sql, more) ==
               /\ tx' = TxAfter(tx, sql)
               /\ executed' = IF Runs(tx, sql)
                              THEN Append(executed, [n |-> n, sql |-> sql])
                              ELSE executed
               /\ fromBackend' = fromBackend \o (<<Outcome(n, tx, sql)>> \o more)
               /\ delivered' = delivered /\ stmt' = stmt
  <2>2. ASSUME NEW n \in 1..MaxRequests, NEW sql \in Sqls,
               NEW more \in Seq(BackendMessages),
               \A i \in 1..Len(more) : ~IsAuth(more[i]),
               Ran(n, sql, more)
        PROVE  /\ \E msgs : Good(msgs)
               /\ tx' \in TxStates
               /\ executed' \in Seq([n : 1..MaxRequests, sql : Sqls])
    <3> DEFINE o == Outcome(n, tx, sql)
               ran == [n |-> n, sql |-> sql]
    <3>1. o \in BackendMessages /\ ~IsAuth(o)
      BY OutcomeFacts
    <3>2. fromBackend' = fromBackend \o (<<o>> \o more)
      BY <2>2
    <3> HIDE DEF o
    <3>3. <<o>> \in Seq(BackendMessages) /\ Len(<<o>>) = 1 /\ <<o>>[1] = o
      BY <3>1
    <3>4. Good(<<o>> \o more)
      <4>1. /\ <<o>> \o more \in Seq(BackendMessages)
            /\ Len(<<o>> \o more) = 1 + Len(more) /\ Len(more) \in Nat
            /\ (<<o>> \o more)[1] = o
            /\ \A i \in 1..Len(more) : (<<o>> \o more)[1 + i] = more[i]
        BY <3>3, ConcatFacts
      <4>2. ASSUME NEW i \in 1..Len(<<o>> \o more)
            PROVE  ~IsAuth((<<o>> \o more)[i])
        <5>1. CASE i = 1
          BY <3>1, <4>1, <5>1
        <5>2. CASE i # 1
          <6>1. i - 1 \in 1..Len(more) /\ i = 1 + (i - 1)
            BY <4>1, <5>2
          <6>2. (<<o>> \o more)[1 + (i - 1)] = more[i - 1]
            BY <4>1, <6>1
          <6> QED BY <2>2, <6>1, <6>2
        <5> QED BY <5>1, <5>2
      <4> QED BY <3>2, <4>1, <4>2
    <3>5. tx' \in TxStates
      BY <1>2, <2>2, TxTyped
    <3>6. ran \in [n : 1..MaxRequests, sql : Sqls]
      OBVIOUS
    <3>7. executed' \in Seq([n : 1..MaxRequests, sql : Sqls])
      <4> HIDE DEF ran
      <4>1. executed' \in {executed, Append(executed, ran)}
        BY <2>2 DEF ran
      <4>2. Append(executed, ran) \in Seq([n : 1..MaxRequests, sql : Sqls])
        BY <1>2, <3>6, AppendFacts
      <4> QED BY <1>2, <4>1, <4>2
    <3> HIDE DEF Good
    <3> QED BY <3>4, <3>5, <3>7
  <2>3. CASE m.type = "query"
    <3> DEFINE r == Msg(m.n, "ready", TxAfter(tx, m.val))
    <3>1. Ran(m.n, m.val, <<r>>)
      BY <2>3 DEF BackendReceives, BackendSends, Execute, m
    <3>2. r \in BackendMessages /\ ~IsAuth(r)
      BY <1>2, <1>4, <1>5, <2>3, TxTyped
    <3> HIDE DEF r
    <3>3. <<r>> \in Seq(BackendMessages) /\ \A i \in 1..Len(<<r>>) : ~IsAuth(<<r>>[i])
      BY <3>2
    <3>4. m.n \in 1..MaxRequests /\ m.val \in Sqls
      BY <1>4, <2>3
    <3>5. /\ \E msgs : Good(msgs)
          /\ tx' \in TxStates
          /\ executed' \in Seq([n : 1..MaxRequests, sql : Sqls])
      <4> HIDE DEF Ran, Good
      <4> QED BY <2>2, <3>1, <3>3, <3>4
    <3>6. delivered' = delivered /\ stmt' = stmt
      BY <3>1
    <3> HIDE DEF Good
    <3> QED BY <1>2, <2>3, <3>5, <3>6 DEF IsReply
  <2>4. CASE m.type = "parse"
    <3>1. /\ delivered' = delivered /\ stmt' = m.val
          /\ fromBackend' = fromBackend \o << >>
          /\ UNCHANGED <<tx, executed>>
      BY <2>4 DEF BackendReceives, BackendSends, m
    <3>2. Good(<< >>)
      BY <3>1
    <3> HIDE DEF Good
    <3> QED BY <1>2, <1>4, <2>4, <3>1, <3>2 DEF IsReply
  <2>5. CASE m.type = "execute" /\ stmt # ""
    <3>1. Ran(m.n, stmt, << >>)
      BY <2>5 DEF BackendReceives, BackendSends, Execute, m
    <3>2. << >> \in Seq(BackendMessages) /\ \A i \in 1..Len(<< >>) : ~IsAuth(<< >>[i])
      OBVIOUS
    <3>3. m.n \in 1..MaxRequests /\ stmt \in Sqls
      BY <1>2, <1>4, <2>5
    <3>4. /\ \E msgs : Good(msgs)
          /\ tx' \in TxStates
          /\ executed' \in Seq([n : 1..MaxRequests, sql : Sqls])
      <4> HIDE DEF Ran, Good
      <4> QED BY <2>2, <3>1, <3>2, <3>3
    <3>5. delivered' = delivered /\ stmt' = stmt
      BY <3>1
    <3> HIDE DEF Good
    <3> QED BY <1>2, <2>5, <3>4, <3>5 DEF IsReply
  <2>6. CASE m.type = "execute" /\ stmt = ""
    <3>1. /\ delivered' = delivered /\ stmt' = stmt /\ executed' = executed
          /\ fromBackend' = fromBackend \o <<Msg(m.n, "error", "")>>
          /\ tx' = IF tx = "I" THEN "I" ELSE "E"
      BY <2>6 DEF BackendReceives, BackendSends, m
    <3>2. Msg(m.n, "error", "") \in BackendMessages /\ ~IsAuth(Msg(m.n, "error", ""))
      BY <1>2, <1>4, <1>5, <2>6
    <3>3. Good(<<Msg(m.n, "error", "")>>)
      BY <3>1, <3>2, OneElement
    <3>4. tx' \in TxStates
      BY <3>1 DEF TxStates
    <3> HIDE DEF Good
    <3> QED BY <1>2, <2>6, <3>1, <3>3, <3>4 DEF IsReply
  <2>7. CASE m.type = "sync"
    <3>1. /\ delivered' = delivered /\ UNCHANGED <<tx, stmt, executed>>
          /\ fromBackend' = fromBackend \o <<Msg(m.n, "ready", tx)>>
      BY <2>7 DEF BackendReceives, BackendSends, queryVars, m
    <3>2. Msg(m.n, "ready", tx) \in BackendMessages /\ ~IsAuth(Msg(m.n, "ready", tx))
      BY <1>2, <1>4, <1>5, <2>7
    <3>3. Good(<<Msg(m.n, "ready", tx)>>)
      BY <3>1, <3>2, OneElement
    <3> HIDE DEF Good
    <3> QED BY <1>2, <2>7, <3>1, <3>3 DEF IsReply
  <2> QED BY <1>4, <2>1, <2>3, <2>4, <2>5, <2>6, <2>7
<1>7. fromBackend' \in Seq(BackendMessages) /\ delivered' \in Seq(Replies)
  <2>1. PICK msgs : Good(msgs)
    BY <1>6
  <2>2. fromBackend' \in Seq(BackendMessages)
    BY <1>2, <2>1, ConcatFacts
  <2>3. delivered' = delivered \/ (m.val \in Replies /\ delivered' = Append(delivered, m.val))
    BY <1>6
  <2> QED BY <1>2, <2>2, <2>3, AppendFacts
<1>8. TypeOK'
  <2>1. {txStatus', lastTxStatus', tx'} \subseteq TxStates
    BY <1>1, <1>2, <1>6
  <2> QED BY <1>1, <1>3, <1>6, <1>7, <2>1 DEF TypeOK
<1>9. HeldInv'
  BY <1>1 DEF HeldInv, Blocked, IsAuth
<1> QED BY <1>1, <1>6, <1>8, <1>9 DEF m

-----------------------------------------------------------------------------
(* The exchange *)

AuthInv ==
    /\ TypeOK /\ HeldInv
    /\ StreamInv /\ GrantInv /\ ReplyInv /\ ChannelInv /\ PasswordInv

LEMMA InitAuth == Init => AuthInv
<1> SUFFICES ASSUME Init PROVE AuthInv
  OBVIOUS
<1>1. TypeOK /\ HeldInv
  BY InitTyped
<1>2. /\ sent = << >> /\ replied = 0 /\ toProxy = << >> /\ toBackend = << >>
      /\ fromBackend = << >> /\ received = << >> /\ authTypeCh = << >>
      /\ incPc = "drain" /\ incMsg = NoMsg /\ authType = "none"
      /\ rspPc = "read" /\ asked = 0 /\ delivered = << >>
  BY DEF Init
<1>3. Len(<< >>) = 0 /\ (\A i : i \notin 1..Len(<< >>)) /\ Due(0) = 0
  BY DEF Due
<1>4. StreamInv
  BY <1>2, <1>3 DEF StreamInv, Read
<1>5. GrantInv
  BY <1>2, <1>3 DEF GrantInv
<1>6. ReplyInv
  BY <1>2, <1>3, NoMsgFacts DEF ReplyInv
<1>7. ChannelInv
  BY <1>2, <1>3 DEF ChannelInv, Untaken, Announced
<1>8. PasswordInv
  BY <1>2, <1>3, NoMsgFacts DEF PasswordInv
<1> QED BY <1>1, <1>4, <1>5, <1>6, <1>7, <1>8 DEF AuthInv

\* The facts about replies that every step below starts from.
LEMMA DueKept ==
  ASSUME AuthInv
  PROVE  /\ IsScript(script)
         /\ Due(asked) \in Nat /\ Due(asked) \in {asked - 1, asked}
         /\ Due(replied) \in Nat /\ Due(replied) \in {replied - 1, replied}
         /\ replied < asked => Due(replied) = replied
         /\ asked < Len(script) => Due(asked) = asked
         /\ Due(replied) <= Due(asked)
<1>1. TypeOK /\ replied <= asked
  BY DEF AuthInv, StreamInv
<1>2. IsScript(script)
  BY <1>1, ScriptTyped
<1>3. replied \in 0..Len(script) /\ asked \in 0..Len(script)
  BY <1>1, Numbers
<1>4. /\ Due(asked) \in Nat /\ Due(asked) \in {asked - 1, asked}
      /\ Due(replied) \in Nat /\ Due(replied) \in {replied - 1, replied}
      /\ replied < Len(script) => Due(replied) = replied
      /\ asked < Len(script) => Due(asked) = asked
  BY <1>2, <1>3, DueFacts
<1>5. replied < asked => replied < Len(script)
  BY <1>1, Numbers
<1>6. Due(replied) <= Due(asked)
  <2>1. CASE replied = asked
    BY <1>4, <2>1
  <2>2. CASE replied < asked
    BY <1>1, <1>4, <1>5, <2>2, Numbers
  <2> QED BY <1>1, <2>1, <2>2, Numbers
<1> QED BY <1>2, <1>4, <1>5, <1>6

\* Once there are queries, authentication is over.
LEMMA OverWhenSent ==
  ASSUME AuthInv, sent # << >>
  PROVE  /\ Granted /\ decided /\ asked = Len(script)
         /\ Len(received) > asked
         /\ Len(delivered) = Due(replied)
<1>1. Granted /\ Len(received) > asked
  BY DEF AuthInv, GrantInv
<1>2. Len(delivered) = Due(replied)
  BY DEF AuthInv, ReplyInv
<1> QED BY <1>1, <1>2 DEF Granted

LEMMA ClientRepliesAuth ==
  ASSUME AuthInv, ClientReplies
  PROVE  AuthInv'
<1> DEFINE reply == script[replied + 1].reply
<1>1. /\ replied' = replied + 1
      /\ toProxy' = IF reply = "none" THEN toProxy
                    ELSE Append(toProxy, Msg(0, "p", reply))
      /\ UNCHANGED <<sent, toBackend, fromBackend, received, authTypeCh, incPc,
                     incMsg, authType, rspPc, rspMsg, script, asked, decided,
                     delivered>>
  BY DEF ClientReplies, incVars, rspVars, authVars, queryVars
<1>2. TypeOK /\ HeldInv /\ StreamInv
  BY DEF AuthInv
<1>3. /\ TypeOK' /\ HeldInv' /\ replied + 1 <= asked
      /\ replied + 1 <= Len(received) /\ reply \in Replies \cup {"none"}
  BY <1>2, ClientRepliesTyped
<1>4. /\ Len(received) \in Nat /\ asked \in Nat /\ replied \in Nat
      /\ Len(delivered) \in Nat /\ Len(script) \in Nat /\ asked <= Len(script)
      /\ Len(toProxy) \in Nat
  BY <1>2, Numbers
<1>5. /\ IsScript(script) /\ Due(replied) = replied
      /\ Due(asked) \in Nat /\ Due(asked) \in {asked - 1, asked}
  BY <1>3, <1>4, DueKept
<1>6. Due(replied)' = IF reply = "none" THEN replied ELSE replied + 1
  BY <1>1, <1>4 DEF Due
<1>7. Due(asked)' = Due(asked)
  BY <1>1 DEF Due
<1>8. StreamInv'
  BY <1>1, <1>2, <1>3, <1>4 DEF StreamInv, Read, IsAuth
<1>9. GrantInv'
  <2>1. Granted' = Granted
    BY <1>1, <1>7 DEF Granted
  <2> QED BY <1>1, <2>1 DEF AuthInv, GrantInv, IsReady
<1>10. ASSUME reply # "none"
       PROVE  Len(delivered) = replied /\ sent = << >>
  <2>1. Due(asked) >= replied + 1
    <3>1. CASE replied + 1 = asked
      BY <1>4, <1>10, <3>1 DEF Due
    <3>2. CASE replied + 1 < asked
      BY <1>4, <1>5, <3>2
    <3> QED BY <1>3, <1>4, <3>1, <3>2
  <2>2. Len(delivered) = replied
    BY <1>4, <1>5, <2>1 DEF AuthInv, ReplyInv
  <2>3. ~Granted
    BY <1>4, <1>5, <2>1, <2>2 DEF Granted
  <2> QED BY <2>2, <2>3 DEF AuthInv, GrantInv
<1>11. toProxy \in Seq(FrontendMessages)
  BY <1>2 DEF TypeOK
<1>12. reply # "none" => Msg(0, "p", reply) \in FrontendMessages
  BY <1>3, NewMessages
<1>13. IsReply(Msg(0, "p", reply)) /\ Msg(0, "p", reply).val = reply
  BY DEF IsReply, Msg
<1>14. ReplyInv'
  <2>1. CASE reply = "none"
    <3>1. toProxy' = toProxy /\ Due(replied)' = Due(replied)
      BY <1>1, <1>5, <1>6, <2>1
    <3>2. ReplyInv
      BY DEF AuthInv
    <3> HIDE DEF reply
    <3> QED BY <1>1, <1>7, <3>1, <3>2 DEF ReplyInv, IsReply
  <2>2. CASE reply # "none"
    <3>1. /\ toProxy = << >> /\ toBackend = << >> /\ ~IsReply(incMsg)
          /\ incPc \in {"drain", "receive"} /\ Due(asked) <= Len(delivered) + 1
      BY <1>5, <1>10, <2>2 DEF AuthInv, ReplyInv
    <3>2. toProxy' = Append(<< >>, Msg(0, "p", reply))
      BY <1>1, <2>2, <3>1
    <3>3. Len(toProxy') = 1 /\ IsReply(toProxy'[1])
      <4>1. << >> \in Seq(FrontendMessages) /\ Len(<< >>) = 0
        OBVIOUS
      <4>2. /\ Len(Append(<< >>, Msg(0, "p", reply))) = Len(<< >>) + 1
            /\ Append(<< >>, Msg(0, "p", reply))[Len(<< >>) + 1] = Msg(0, "p", reply)
        BY <1>12, <2>2, <4>1, AppendFacts
      <4> QED BY <1>13, <3>2, <4>1, <4>2
    <3>4. /\ Len(delivered)' = replied /\ Due(replied)' = replied + 1
          /\ sent' = << >>
      BY <1>1, <1>6, <1>10, <2>2
    <3>5. /\ Due(asked)' <= Len(delivered)' + 1
          /\ Len(delivered)' <= Due(replied)' /\ Len(delivered)' # Due(replied)'
      BY <1>1, <1>4, <1>7, <3>1, <3>4
    <3> QED BY <1>1, <3>1, <3>3, <3>4, <3>5 DEF ReplyInv, IsReply
  <2> QED BY <2>1, <2>2
<1>15. ChannelInv'
  <2>1. Untaken' = Untaken
    BY <1>1 DEF Untaken, Announced
  <2>2. asked < Len(script) => toProxy' # << >>
    <3> SUFFICES ASSUME asked < Len(script) PROVE toProxy' # << >>
      OBVIOUS
    <3>1. reply # "none"
      BY <1>3, <1>4, <1>5 DEF IsScript
    <3>2. Len(toProxy') = Len(toProxy) + 1
      BY <1>1, <1>11, <1>12, <3>1, AppendFacts
    <3> QED BY <1>4, <3>2
  <2> QED BY <1>1, <2>1, <2>2 DEF AuthInv, ChannelInv
<1>16. PasswordInv'
  <2> SUFFICES ASSUME script # << >>, script[1].reply = "password"
               PROVE  PasswordInv'
    BY <1>1 DEF PasswordInv
  <2>1. reply = "password"
    <3>1. Len(script) > 0
      BY <1>4, <1>5, EmptyOrNot DEF IsScript
    <3>2. Len(script) = 1
      BY <1>4, <1>5, <3>1 DEF IsScript
    <3>3. replied + 1 = 1
      BY <1>3, <1>4, <3>2
    <3> QED BY <3>3
  <2>2. toProxy' = Append(toProxy, Msg(0, "p", reply))
    BY <1>1, <2>1
  <2>3. \A i \in 1..Len(toProxy') :
            \/ i \in 1..Len(toProxy) /\ toProxy'[i] = toProxy[i]
            \/ toProxy'[i] = Msg(0, "p", reply)
    BY <1>11, <1>12, <2>1, <2>2, AppendFacts
  <2>4. \A i \in 1..Len(toProxy) : IsReply(toProxy[i]) => toProxy[i].val = "password"
    BY DEF AuthInv, PasswordInv
  <2>5. \A i \in 1..Len(toProxy') : IsReply(toProxy'[i]) => toProxy'[i].val = "password"
    BY <1>13, <2>1, <2>3, <2>4
  <2> QED BY <1>1, <2>5 DEF AuthInv, PasswordInv, IsReply, IsAuth
<1> QED BY <1>3, <1>8, <1>9, <1>14, <1>15, <1>16 DEF AuthInv

LEMMA SendAuth ==
  ASSUME AuthInv, NEW sql \in Sqls,
         NEW types \in {<<"query">>, <<"parse", "execute", "sync">>},
         Send(sql, types)
  PROVE  AuthInv'
<1>1. /\ sent' = Append(sent, sql)
      /\ UNCHANGED <<replied, toBackend, fromBackend, received, authTypeCh, incPc,
                     incMsg, authType, rspPc, rspMsg, script, asked, decided,
                     delivered>>
      /\ Ready
  BY DEF Send, incVars, rspVars, authVars, queryVars
<1>2. TypeOK /\ HeldInv
  BY DEF AuthInv
<1>3. /\ TypeOK' /\ HeldInv'
      /\ \E news \in Seq(FrontendMessages) :
             /\ toProxy' = toProxy \o news
             /\ \A i \in 1..Len(news) : ~IsReply(news[i])
  BY <1>2, SendTyped
<1>4. /\ Len(received) \in Nat /\ asked \in Nat /\ replied \in Nat
      /\ Len(delivered) \in Nat /\ Len(script) \in Nat /\ Len(sent) \in Nat
  BY <1>2, Numbers
<1>5. Granted /\ Len(received) > asked
  <2>1. PICK i \in 1..Len(received) : IsReady(received[i])
    BY <1>1 DEF Ready
  <2>2. Granted /\ ~IsAuth(received[i])
    BY <2>1 DEF AuthInv, GrantInv, IsAuth, IsReady
  <2>3. ~(i <= asked)
    BY <2>2 DEF AuthInv, StreamInv
  <2> QED BY <1>4, <2>2, <2>3
<1>6. sent' # << >>
  <2>1. sent \in Seq(Sqls)
    BY <1>2 DEF TypeOK
  <2> QED BY <1>1, <2>1, AppendProperties
<1>7. Due(asked)' = Due(asked) /\ Due(replied)' = Due(replied) /\ Granted' = Granted
  BY <1>1 DEF Due, Granted
<1>8. StreamInv'
  BY <1>1 DEF AuthInv, StreamInv, Read, IsAuth
<1>9. GrantInv'
  BY <1>1, <1>5, <1>7 DEF AuthInv, GrantInv, IsReady
<1>10. Len(delivered) = Due(replied) /\ asked = Len(script)
  <2>1. Len(delivered) = Due(asked) /\ asked = Len(script)
    BY <1>5 DEF Granted
  <2>2. Len(delivered) <= Due(replied)
    BY DEF AuthInv, ReplyInv
  <2> QED BY <1>4, <2>1, <2>2, DueKept
<1>11. \A i \in 1..Len(toProxy') :
           \/ i \in 1..Len(toProxy) /\ toProxy'[i] = toProxy[i]
           \/ ~IsReply(toProxy'[i])
  <2>1. PICK news \in Seq(FrontendMessages) :
             /\ toProxy' = toProxy \o news
             /\ \A i \in 1..Len(news) : ~IsReply(news[i])
    BY <1>3
  <2>2. toProxy \in Seq(FrontendMessages)
    BY <1>2 DEF TypeOK
  <2>3. /\ Len(toProxy) \in Nat /\ Len(news) \in Nat
        /\ Len(toProxy') = Len(toProxy) + Len(news)
        /\ \A i \in 1..Len(toProxy) : toProxy'[i] = toProxy[i]
        /\ \A i \in 1..Len(news) : toProxy'[Len(toProxy) + i] = news[i]
    BY <2>1, <2>2, ConcatFacts
  <2> TAKE i \in 1..Len(toProxy')
  <2>4. CASE i <= Len(toProxy)
    BY <2>3, <2>4
  <2>5. CASE i > Len(toProxy)
    <3>1. i - Len(toProxy) \in 1..Len(news) /\ i = Len(toProxy) + (i - Len(toProxy))
      BY <2>3, <2>5
    <3>2. toProxy'[i] = news[i - Len(toProxy)]
      BY <2>3, <3>1
    <3> QED BY <2>1, <3>1, <3>2
  <2> QED BY <2>3, <2>4, <2>5
<1>12. ReplyInv'
  <2>1. /\ \A i \in 1..Len(toProxy) : ~IsReply(toProxy[i])
        /\ ~IsReply(incMsg)
        /\ \A i \in 1..Len(toBackend) : ~IsReply(toBackend[i])
        /\ Due(asked) <= Len(delivered) + 1 /\ Len(delivered) <= Due(replied)
        /\ incPc \notin {"returned", "closed"}
    BY <1>10 DEF AuthInv, ReplyInv
  <2>2. \A i \in 1..Len(toProxy') : ~IsReply(toProxy'[i])
    BY <1>11, <2>1
  <2> QED BY <1>1, <1>6, <1>7, <1>10, <2>1, <2>2 DEF ReplyInv, IsReply
<1>13. ChannelInv'
  <2>1. Untaken' = Untaken
    BY <1>1 DEF Untaken, Announced
  <2>2. ~(asked < Len(script))
    BY <1>4, <1>10
  <2> QED BY <1>1, <2>1, <2>2 DEF AuthInv, ChannelInv
<1>14. PasswordInv'
  BY <1>1, <1>11 DEF AuthInv, PasswordInv, IsReply, IsAuth
<1> QED BY <1>3, <1>8, <1>9, <1>12, <1>13, <1>14 DEF AuthInv

-----------------------------------------------------------------------------
(* The relay of the client's messages *)

LEMMA IncDrainAuth ==
  ASSUME AuthInv, IncDrain
  PROVE  AuthInv'
<1>1. /\ UNCHANGED <<sent, replied, toProxy, toBackend, fromBackend, received,
                     incMsg, rspPc, rspMsg, script, asked, decided, delivered>>
      /\ incPc = "drain"
      /\ \/ /\ authTypeCh # << >> /\ incPc' = "drain"
            /\ authType' = Head(authTypeCh) /\ authTypeCh' = Tail(authTypeCh)
         \/ /\ authTypeCh = << >> /\ incPc' = "receive"
            /\ authType' = authType /\ authTypeCh' = authTypeCh
  BY DEF IncDrain, IncStep, clientVars, rspVars, authVars, queryVars
<1>2. TypeOK /\ HeldInv
  BY DEF AuthInv
<1>3. TypeOK' /\ HeldInv'
  BY <1>2, IncDrainTyped
<1>4. /\ Len(received) \in Nat /\ asked \in Nat /\ replied \in Nat
      /\ Len(authTypeCh) \in Nat
  BY <1>2, Numbers
<1>5. Due(asked)' = Due(asked) /\ Due(replied)' = Due(replied) /\ Granted' = Granted
  BY <1>1 DEF Due, Granted
<1>6. StreamInv' /\ GrantInv'
  BY <1>1, <1>5 DEF AuthInv, StreamInv, GrantInv, Read, IsAuth, IsReady
<1>7. ReplyInv'
  <2>1. incPc' \in {"drain", "receive"}
    BY <1>1
  <2> QED BY <1>1, <1>5, <2>1 DEF AuthInv, ReplyInv, IsReply
<1>8. authTypeCh \in Seq(AuthTypes)
  BY <1>2 DEF TypeOK
<1>9. ChannelInv'
  <2>1. Announced' = Announced /\ Announced \in Nat /\ Announced >= Len(received)
    BY <1>1, <1>4 DEF Announced
  <2>2. Untaken <= 2 /\ asked <= Len(received) + 1 /\ replied <= Len(received)
    BY DEF AuthInv, ChannelInv, StreamInv
  <2>3. CASE authTypeCh # << >>
    <3>1. Len(authTypeCh') = Len(authTypeCh) - 1 /\ incPc' = "drain"
      BY <1>1, <1>8, <2>3, TailFacts
    <3>2. Untaken' = Untaken - 1 /\ Untaken \in Int
      BY <1>1, <1>4, <2>1, <3>1 DEF Untaken
    <3> QED BY <2>2, <3>1, <3>2 DEF ChannelInv
  <2>4. CASE authTypeCh = << >>
    <3>1. incPc' = "receive" /\ authTypeCh' = authTypeCh /\ Len(authTypeCh) = 0
      BY <1>1, <2>4
    <3>2. Untaken' = Untaken
      BY <1>1, <2>1, <3>1 DEF Untaken
    <3>3. Untaken <= 1 /\ (replied = asked => Untaken = 0) /\ Untaken \in Int
      BY <1>4, <2>1, <2>2, <3>1 DEF Untaken
    <3> QED BY <1>1, <3>1, <3>2, <3>3 DEF ChannelInv
  <2> QED BY <2>3, <2>4
<1>10. PasswordInv'
  <2> SUFFICES ASSUME script # << >>, script[1].reply = "password"
               PROVE  PasswordInv'
    BY <1>1 DEF PasswordInv
  <2>1. /\ authType \in {"Cleartext", "MD5", "none"}
        /\ \A i \in 1..Len(authTypeCh) : authTypeCh[i] \in {"Cleartext", "MD5"}
    BY DEF AuthInv, PasswordInv
  <2>2. /\ authType' \in {"Cleartext", "MD5", "none"}
        /\ \A i \in 1..Len(authTypeCh') : authTypeCh'[i] \in {"Cleartext", "MD5"}
    <3>1. CASE authTypeCh # << >>
      <4>1. /\ Len(authTypeCh') = Len(authTypeCh) - 1 /\ Len(authTypeCh) > 0
            /\ authType' = authTypeCh[1]
            /\ \A i \in 1..(Len(authTypeCh) - 1) : authTypeCh'[i] = authTypeCh[i + 1]
        BY <1>1, <1>8, <3>1, TailFacts
      <4>2. 1 \in 1..Len(authTypeCh)
        BY <1>4, <4>1
      <4>3. \A i \in 1..(Len(authTypeCh) - 1) : i + 1 \in 1..Len(authTypeCh)
        BY <1>4
      <4> QED BY <2>1, <4>1, <4>2, <4>3
    <3>2. CASE authTypeCh = << >>
      BY <1>1, <2>1, <3>2
    <3> QED BY <3>1, <3>2
  <2> QED BY <1>1, <2>2 DEF AuthInv, PasswordInv, IsReply, IsAuth
<1> QED BY <1>3, <1>6, <1>7, <1>9, <1>10 DEF AuthInv

LEMMA IncReceiveAuth ==
  ASSUME AuthInv, IncReceive
  PROVE  AuthInv'
<1> DEFINE m == Head(toProxy)
<1>1. /\ UNCHANGED <<sent, replied, toBackend, fromBackend, received,
                     authTypeCh, authType, rspPc, rspMsg, script, asked, decided,
                     delivered>>
      /\ toProxy' = Tail(toProxy) /\ toProxy # << >>
      /\ incPc = "receive" /\ incPc' \in {"error", "forward"}
  BY IncReceiveDoes
<1>0. PICK d \in Decodings(m) :
          /\ incMsg' = d
          /\ \/ Blocked(d) /\ incPc' = "error"
             \/ ~Blocked(d) /\ incPc' = "forward"
  BY IncReceiveDoes
<1>2. TypeOK /\ HeldInv
  BY DEF AuthInv
<1>3. TypeOK' /\ HeldInv'
  BY <1>2, IncReceiveTyped
<1>4. toProxy \in Seq(FrontendMessages) /\ authType \in AuthTypes \cup {"none"}
  BY <1>2 DEF TypeOK
<1>5. /\ Len(toProxy) \in Nat /\ Len(toProxy) > 0
      /\ Len(toProxy') = Len(toProxy) - 1
      /\ \A i \in 1..(Len(toProxy) - 1) : toProxy'[i] = toProxy[i + 1]
      /\ m = toProxy[1] /\ m \in FrontendMessages
  BY <1>1, <1>4, TailFacts
<1>6. /\ d.type = m.type
      /\ m.type = "p" => d.val \in Decoded(m.val, authType)
  BY <1>4, <1>5, DecodingFacts
<1>7. Due(asked)' = Due(asked) /\ Due(replied)' = Due(replied) /\ Granted' = Granted
  BY <1>1 DEF Due, Granted
<1>8. StreamInv' /\ GrantInv'
  BY <1>1, <1>7 DEF AuthInv, StreamInv, GrantInv, Read, IsAuth, IsReady
<1>9. \A i \in 1..Len(toProxy') : i + 1 \in 1..Len(toProxy) /\ toProxy'[i] = toProxy[i + 1]
  BY <1>5
<1>10. 1 \in 1..Len(toProxy)
  BY <1>5
<1>11. ReplyInv'
  <2>1. CASE Len(delivered) = Due(replied)
    <3>1. /\ \A i \in 1..Len(toProxy) : ~IsReply(toProxy[i])
          /\ \A i \in 1..Len(toBackend) : ~IsReply(toBackend[i])
          /\ sent # << >>
          /\ Due(asked) <= Len(delivered) + 1 /\ Len(delivered) <= Due(replied)
      BY <1>1, <2>1 DEF AuthInv, ReplyInv
    <3>2. \A i \in 1..Len(toProxy') : ~IsReply(toProxy'[i])
      BY <1>9, <3>1
    <3>3. ~IsReply(incMsg')
      BY <1>0, <1>5, <1>6, <1>10, <3>1 DEF IsReply
    <3> HIDE DEF m
    <3> QED BY <1>1, <1>7, <2>1, <3>1, <3>2, <3>3 DEF ReplyInv, IsReply
  <2>2. CASE Len(delivered) # Due(replied)
    <3>1. /\ sent = << >> /\ Len(toProxy) = 1 /\ IsReply(m) /\ toBackend = << >>
          /\ Due(asked) <= Len(delivered) + 1 /\ Len(delivered) <= Due(replied)
      BY <1>1, <1>5, <2>2 DEF AuthInv, ReplyInv
    <3>2. toProxy' = << >>
      <4>1. toProxy' \in Seq(FrontendMessages)
        BY <1>3 DEF TypeOK
      <4>2. Len(toProxy') = 0
        BY <1>5, <3>1
      <4> QED BY <4>1, <4>2, EmptyOrNot
    <3>3. IsReply(incMsg') /\ ~Blocked(d)
      BY <1>0, <1>6, <3>1 DEF IsReply, Blocked
    <3>4. incPc' = "forward"
      BY <1>0, <3>3
    <3> HIDE DEF m
    <3> QED BY <1>1, <1>7, <2>2, <3>1, <3>2, <3>3, <3>4 DEF ReplyInv, IsReply
  <2> QED BY <2>1, <2>2
<1>12. ChannelInv'
  <2>1. Untaken' = Untaken
    BY <1>1 DEF Untaken, Announced
  <2>2. Untaken <= 1 /\ Untaken <= 2
    BY <1>1 DEF AuthInv, ChannelInv
  <2>3. incPc' \notin {"receive", "drain"}
    BY <1>1
  <2> QED BY <2>1, <2>2, <2>3 DEF ChannelInv
<1>13. PasswordInv'
  <2> SUFFICES ASSUME script # << >>, script[1].reply = "password"
               PROVE  PasswordInv'
    BY <1>1 DEF PasswordInv
  <2>1. /\ authType \in {"Cleartext", "MD5", "none"}
        /\ \A i \in 1..Len(toProxy) : IsReply(toProxy[i]) => toProxy[i].val = "password"
    BY DEF AuthInv, PasswordInv
  <2>2. IsReply(incMsg') => incMsg'.val = "password"
    <3> SUFFICES ASSUME IsReply(incMsg') PROVE incMsg'.val = "password"
      OBVIOUS
    <3>1. IsReply(m)
      BY <1>0, <1>6 DEF IsReply
    <3>2. m.val = "password"
      BY <1>5, <1>10, <2>1, <3>1
    <3>3. Decoded("password", authType) = {"password"}
      BY <2>1 DEF Decoded
    <3>4. incMsg'.val \in Decoded(m.val, authType)
      BY <1>0, <1>6, <3>1 DEF IsReply
    <3> QED BY <3>2, <3>3, <3>4
  <2>3. \A i \in 1..Len(toProxy') : IsReply(toProxy'[i]) => toProxy'[i].val = "password"
    BY <1>9, <2>1
  <2> QED BY <1>1, <2>2, <2>3 DEF AuthInv, PasswordInv, IsReply, IsAuth
<1> QED BY <1>3, <1>8, <1>11, <1>12, <1>13 DEF AuthInv

\* A reply that does not decode is lost with the session; a password is none.
LEMMA FailureAuth ==
  ASSUME AuthInv, IncReceiveFails \/ SessionEnds
  PROVE  AuthInv'
<1>1. /\ UNCHANGED <<sent, replied, toBackend, fromBackend, received,
                     authTypeCh, incMsg, authType, rspPc, rspMsg, script, asked,
                     decided, delivered>>
      /\ incPc' \in {"returned", "closed"}
      /\ \/ /\ incPc = "receive" /\ toProxy # << >> /\ toProxy' = Tail(toProxy)
            /\ Head(toProxy).type = "p"
            /\ "error" \in Decoded(Head(toProxy).val, authType)
         \/ incPc = "returned" /\ toProxy' = toProxy
  BY FailureDoes
<1>2. TypeOK /\ HeldInv
  BY DEF AuthInv
<1>3. TypeOK' /\ HeldInv'
  BY <1>2, FailureTyped
<1>4. Due(asked)' = Due(asked) /\ Due(replied)' = Due(replied) /\ Granted' = Granted
  BY <1>1 DEF Due, Granted
<1>5. StreamInv' /\ GrantInv'
  BY <1>1, <1>4 DEF AuthInv, StreamInv, GrantInv, Read, IsAuth, IsReady
<1>6. ChannelInv'
  <2>1. Untaken' = Untaken
    BY <1>1 DEF Untaken, Announced
  <2> QED BY <1>1, <2>1 DEF AuthInv, ChannelInv
<1>7. CASE incPc = "receive"
  <2>1. /\ toProxy # << >> /\ toProxy' = Tail(toProxy)
        /\ Head(toProxy).type = "p"
        /\ "error" \in Decoded(Head(toProxy).val, authType)
    BY <1>1, <1>7
  <2>2. /\ Len(toProxy) \in Nat /\ Len(toProxy) > 0
        /\ Len(toProxy') = Len(toProxy) - 1
        /\ Head(toProxy) = toProxy[1]
    <3>1. toProxy \in Seq(FrontendMessages)
      BY <1>2 DEF TypeOK
    <3> QED BY <2>1, <3>1, TailFacts
  <2>3. 1 \in 1..Len(toProxy) /\ IsReply(toProxy[1])
    BY <2>1, <2>2 DEF IsReply
  <2>4. Len(delivered) # Due(replied)
    BY <2>3 DEF AuthInv, ReplyInv
  <2>5. /\ sent = << >> /\ Len(toProxy) = 1 /\ toBackend = << >>
        /\ ~IsReply(incMsg)
        /\ Due(asked) <= Len(delivered) + 1 /\ Len(delivered) <= Due(replied)
    BY <1>7, <2>1, <2>4 DEF AuthInv, ReplyInv
  <2>6. toProxy' = << >>
    <3>1. toProxy' \in Seq(FrontendMessages)
      BY <1>3 DEF TypeOK
    <3>2. Len(toProxy') = 0
      BY <2>2, <2>5
    <3> QED BY <3>1, <3>2, EmptyOrNot
  <2>7. ReplyInv'
    BY <1>1, <1>4, <2>4, <2>5, <2>6 DEF ReplyInv, IsReply
  <2>8. PasswordInv'
    <3> SUFFICES ASSUME script # << >>, script[1].reply = "password"
                 PROVE  FALSE
      BY <1>1 DEF PasswordInv
    <3>1. /\ authType \in {"Cleartext", "MD5", "none"}
          /\ toProxy[1].val = "password"
      BY <2>3 DEF AuthInv, PasswordInv
    <3>2. Decoded("password", authType) = {"password"}
      BY <3>1 DEF Decoded
    <3> QED BY <2>1, <2>2, <3>1, <3>2
  <2> QED BY <1>3, <1>5, <1>6, <2>7, <2>8 DEF AuthInv
<1>8. CASE incPc = "returned"
  <2>1. toProxy' = toProxy
    BY <1>1, <1>8
  <2>2. ReplyInv'
    <3>1. /\ Len(delivered) # Due(replied) /\ sent = << >>
          /\ toProxy = << >> /\ toBackend = << >> /\ ~IsReply(incMsg)
          /\ Due(asked) <= Len(delivered) + 1 /\ Len(delivered) <= Due(replied)
      BY <1>8 DEF AuthInv, ReplyInv
    <3> QED BY <1>1, <1>4, <2>1, <3>1 DEF ReplyInv, IsReply
  <2>3. PasswordInv'
    BY <1>1, <1>8 DEF AuthInv, PasswordInv
  <2> QED BY <1>3, <1>5, <1>6, <2>2, <2>3 DEF AuthInv
<1> QED BY <1>1, <1>7, <1>8

LEMMA IncForwardAuth ==
  ASSUME AuthInv, IncForward
  PROVE  AuthInv'
<1> DEFINE m == Rewritten(incMsg)
<1>1. /\ UNCHANGED <<sent, replied, toProxy, fromBackend, received, authTypeCh,
                     authType, rspPc, rspMsg, script, asked, decided, delivered>>
      /\ incPc = "forward" /\ incPc' = "drain"
      /\ toBackend' = Append(toBackend, m) /\ incMsg' = NoMsg
  BY DEF IncForward, IncStep, clientVars, rspVars, authVars, queryVars
<1>2. TypeOK /\ HeldInv
  BY DEF AuthInv
<1>3. TypeOK' /\ HeldInv'
  BY <1>2, IncForwardTyped
<1>4. /\ m \in FrontendMessages /\ m.type = incMsg.type
      /\ incMsg.type = "p" => m = incMsg
  BY <1>1, <1>2, RewrittenFacts DEF HeldInv
<1> HIDE DEF m
<1>5. toBackend \in Seq(FrontendMessages)
  BY <1>2 DEF TypeOK
<1>6. /\ Len(toBackend) \in Nat /\ Len(toBackend') = Len(toBackend) + 1
      /\ \A i \in 1..Len(toBackend) : toBackend'[i] = toBackend[i]
      /\ toBackend'[Len(toBackend) + 1] = m
  BY <1>1, <1>4, <1>5, AppendFacts
<1>7. \A i \in 1..Len(toBackend') :
          \/ i \in 1..Len(toBackend) /\ toBackend'[i] = toBackend[i]
          \/ toBackend'[i] = m
  BY <1>6
<1>8. Due(asked)' = Due(asked) /\ Due(replied)' = Due(replied) /\ Granted' = Granted
  BY <1>1 DEF Due, Granted
<1>9. StreamInv' /\ GrantInv'
  BY <1>1, <1>8 DEF AuthInv, StreamInv, GrantInv, Read, IsAuth, IsReady
<1>10. ReplyInv'
  <2>1. CASE Len(delivered) = Due(replied)
    <3>1. /\ \A i \in 1..Len(toProxy) : ~IsReply(toProxy[i])
          /\ \A i \in 1..Len(toBackend) : ~IsReply(toBackend[i])
          /\ sent # << >> /\ ~IsReply(incMsg)
          /\ Due(asked) <= Len(delivered) + 1 /\ Len(delivered) <= Due(replied)
      BY <1>1, <2>1 DEF AuthInv, ReplyInv
    <3>2. \A i \in 1..Len(toBackend') : ~IsReply(toBackend'[i])
      BY <1>4, <1>7, <3>1 DEF IsReply
    <3> QED BY <1>1, <1>8, <2>1, <3>1, <3>2, NoMsgFacts DEF ReplyInv, IsReply
  <2>2. CASE Len(delivered) # Due(replied)
    <3>1. /\ sent = << >> /\ toProxy = << >> /\ toBackend = << >> /\ IsReply(incMsg)
          /\ Due(asked) <= Len(delivered) + 1 /\ Len(delivered) <= Due(replied)
      BY <1>1, <2>2 DEF AuthInv, ReplyInv
    <3>2. Len(toBackend) = 0
      BY <3>1
    <3>3. Len(toBackend') = 1 /\ toBackend'[1] = m /\ IsReply(m)
      BY <1>4, <1>6, <3>1, <3>2 DEF IsReply
    <3> QED BY <1>1, <1>8, <2>2, <3>1, <3>3, NoMsgFacts DEF ReplyInv, IsReply
  <2> QED BY <2>1, <2>2
<1>11. ChannelInv'
  <2>1. Untaken' = Untaken
    BY <1>1 DEF Untaken, Announced
  <2>2. Untaken <= 1 /\ Untaken <= 2
    BY <1>1 DEF AuthInv, ChannelInv
  <2> QED BY <1>1, <2>1, <2>2 DEF ChannelInv
<1>12. PasswordInv'
  <2> SUFFICES ASSUME script # << >>, script[1].reply = "password"
               PROVE  PasswordInv'
    BY <1>1 DEF PasswordInv
  <2>1. /\ IsReply(incMsg) => incMsg.val = "password"
        /\ \A i \in 1..Len(toBackend) :
               IsReply(toBackend[i]) => toBackend[i].val = "password"
    BY DEF AuthInv, PasswordInv
  <2>2. IsReply(m) => m.val = "password"
    BY <1>4, <2>1 DEF IsReply
  <2>3. \A i \in 1..Len(toBackend') :
            IsReply(toBackend'[i]) => toBackend'[i].val = "password"
    BY <1>7, <2>1, <2>2
  <2> QED BY <1>1, <2>3, NoMsgFacts DEF AuthInv, PasswordInv, IsReply, IsAuth
<1> QED BY <1>3, <1>9, <1>10, <1>11, <1>12 DEF AuthInv

LEMMA IncAnswerAuth ==
  ASSUME AuthInv, IncError \/ IncStatus \/ IncReady
  PROVE  AuthInv'
<1>1. TypeOK /\ HeldInv
  BY DEF AuthInv
<1>2. /\ TypeOK' /\ HeldInv'
      /\ incPc \in {"error", "status", "ready"}
      /\ incPc' \in {"drain", "status", "ready"}
      /\ UNCHANGED <<sent, replied, toProxy, toBackend, fromBackend,
                     authTypeCh, incMsg, authType, rspPc, rspMsg, script, asked,
                     decided, delivered>>
      /\ \/ received' = received
         \/ \E m \in BackendMessages : /\ received' = Append(received, m)
                                       /\ m.n # 0 /\ ~IsAuth(m)
  BY <1>1, IncAnswerTyped
<1>3. sent # << >>
  BY <1>2 DEF AuthInv, ReplyInv
<1>4. Granted /\ decided /\ asked = Len(script) /\ Len(received) > asked
      /\ Len(delivered) = Due(replied)
  BY <1>3, OverWhenSent
<1>5. /\ Len(received) \in Nat /\ asked \in Nat /\ Len(fromBackend) \in Nat
      /\ replied \in Nat /\ Len(script) \in Nat
  BY <1>1, Numbers
<1>6. Due(asked)' = Due(asked) /\ Due(replied)' = Due(replied) /\ Granted' = Granted
  BY <1>2 DEF Due, Granted
<1>7. received \in Seq(BackendMessages)
  BY <1>1 DEF TypeOK
<1>8. /\ Len(received') \in Nat /\ Len(received') >= Len(received)
      /\ \A i \in 1..Len(received') :
             \/ i \in 1..Len(received) /\ received'[i] = received[i]
             \/ i > asked /\ ~IsAuth(received'[i])
  <2>1. CASE received' = received
    BY <1>5, <2>1
  <2>2. CASE received' # received
    <3>1. PICK m \in BackendMessages : received' = Append(received, m) /\ ~IsAuth(m)
      BY <1>2, <2>2
    <3>2. /\ Len(received') = Len(received) + 1
          /\ \A i \in 1..Len(received) : received'[i] = received[i]
          /\ received'[Len(received) + 1] = m
      BY <1>7, <3>1, AppendFacts
    <3> QED BY <1>4, <1>5, <3>1, <3>2
  <2> QED BY <2>1, <2>2
<1>9. StreamInv'
  <2>1. StreamInv
    BY DEF AuthInv
  <2>2. \A i \in 1..Len(received') : IsAuth(received'[i]) <=> i <= asked
    BY <1>5, <1>8, <2>1 DEF StreamInv
  <2>3. rspPc # "read" => ~IsAuth(rspMsg) /\ ~(Len(received') + 1 <= asked)
    BY <1>4, <1>5, <1>8, <2>1 DEF StreamInv
  <2>4. /\ Read \in Nat /\ Read > asked /\ Read' \in Nat /\ Read' > asked
    BY <1>2, <1>4, <1>5, <1>8 DEF Read
  <2>5. \A i \in 1..Len(fromBackend) : ~IsAuth(fromBackend[i]) /\ ~(Read' + i <= asked)
    BY <1>5, <2>1, <2>4 DEF StreamInv
  <2>6. /\ asked <= Read' + Len(fromBackend)
        /\ asked <= Len(received') + 1 /\ replied <= Len(received')
    BY <1>4, <1>5, <1>8, <2>1, <2>4 DEF StreamInv
  <2>7. replied <= asked
    BY <2>1 DEF StreamInv
  <2> HIDE DEF Read
  <2> QED BY <1>2, <1>4, <2>2, <2>3, <2>5, <2>6, <2>7 DEF StreamInv, IsAuth
<1>10. GrantInv'
  <2>1. Len(received') > asked
    BY <1>4, <1>5, <1>8
  <2> QED BY <1>2, <1>4, <1>6, <2>1 DEF GrantInv
<1>11. ReplyInv'
  BY <1>2, <1>3, <1>4, <1>6 DEF AuthInv, ReplyInv, IsReply
<1>12. ChannelInv'
  <2>1. ~(asked > Announced) /\ ~(asked > Announced')
    BY <1>2, <1>4, <1>5, <1>8 DEF Announced
  <2>2. Untaken' = Untaken
    BY <1>2, <2>1 DEF Untaken
  <2>3. Untaken <= 2 /\ ~(asked < Len(script))
    BY <1>4, <1>5 DEF AuthInv, ChannelInv
  <2> QED BY <1>2, <2>2, <2>3 DEF ChannelInv
<1>13. PasswordInv'
  BY <1>2 DEF AuthInv, PasswordInv, IsReply, IsAuth
<1> QED BY <1>2, <1>9, <1>10, <1>11, <1>12, <1>13 DEF AuthInv

-----------------------------------------------------------------------------
(* The relay of the backend's messages *)

LEMMA RspReceiveAuth ==
  ASSUME AuthInv, RspReceive
  PROVE  AuthInv'
<1>1. TypeOK /\ HeldInv
  BY DEF AuthInv
<1>2. /\ TypeOK' /\ HeldInv'
      /\ UNCHANGED <<sent, replied, toProxy, toBackend, incPc, incMsg,
                     authType, script, asked, decided, delivered>>
  BY <1>1, RspTyped DEF Rsp
<1>3. /\ fromBackend # << >> /\ rspMsg' = Head(fromBackend)
      /\ fromBackend' = Tail(fromBackend)
      /\ rspPc = "read" /\ rspPc' = IF IsAuth(rspMsg') THEN "send" ELSE "write"
      /\ received' = received /\ authTypeCh' = authTypeCh
  BY DEF RspReceive, RspStep
<1>4. /\ Len(received) \in Nat /\ asked \in Nat /\ Len(fromBackend) \in Nat
      /\ replied \in Nat
  BY <1>1, Numbers
<1>5. /\ Len(fromBackend) > 0 /\ Len(fromBackend') = Len(fromBackend) - 1
      /\ \A i \in 1..(Len(fromBackend) - 1) : fromBackend'[i] = fromBackend[i + 1]
      /\ rspMsg' = fromBackend[1]
  <2>1. fromBackend \in Seq(BackendMessages)
    BY <1>1 DEF TypeOK
  <2> QED BY <1>3, <2>1, TailFacts
<1>6. Due(asked)' = Due(asked) /\ Due(replied)' = Due(replied) /\ Granted' = Granted
  BY <1>2 DEF Due, Granted
<1>7. 1 \in 1..Len(fromBackend) /\ 1..Len(fromBackend') = 1..(Len(fromBackend) - 1)
  BY <1>4, <1>5
<1>8. \A i \in 1..(Len(fromBackend) - 1) : i + 1 \in 1..Len(fromBackend)
  BY <1>4
<1>9. Read = Len(received) /\ Read' = Len(received) + 1
  BY <1>3, <1>4 DEF Read
<1>10. StreamInv /\ (IsAuth(rspMsg') <=> Len(received) + 1 <= asked)
  BY <1>5, <1>7, <1>9 DEF AuthInv, StreamInv
<1>11. StreamInv'
  <2>1. \A i \in 1..(Len(fromBackend) - 1) :
            IsAuth(fromBackend'[i]) <=> Read' + i <= asked
    <3> TAKE i \in 1..(Len(fromBackend) - 1)
    <3>1. IsAuth(fromBackend[i + 1]) <=> Read + (i + 1) <= asked
      BY <1>8, <1>10 DEF StreamInv
    <3>2. Read + (i + 1) = Read' + i
      BY <1>4, <1>9
    <3> QED BY <1>5, <3>1, <3>2
  <2>2. Read' + Len(fromBackend') = Read + Len(fromBackend)
    BY <1>4, <1>5, <1>9
  <2> QED BY <1>2, <1>3, <1>7, <1>10, <2>1, <2>2 DEF StreamInv, IsAuth
<1>12. GrantInv'
  <2>1. \A i \in 1..Len(fromBackend) : IsReady(fromBackend[i]) => Granted
    BY DEF AuthInv, GrantInv
  <2>2. IsReady(rspMsg') => Granted
    BY <1>5, <1>7, <2>1
  <2>3. \A i \in 1..Len(fromBackend') : IsReady(fromBackend'[i]) => Granted
    BY <1>5, <1>7, <1>8, <2>1
  <2> QED BY <1>2, <1>3, <1>6, <2>2, <2>3 DEF AuthInv, GrantInv, IsReady
<1>13. ReplyInv'
  BY <1>2, <1>6 DEF AuthInv, ReplyInv, IsReply
<1>14. ChannelInv'
  <2>1. Untaken' = Untaken
    <3>1. Announced = Len(received)
      BY <1>3, <1>4 DEF Announced
    <3>2. CASE IsAuth(rspMsg')
      <4>1. Announced' = Len(received)
        BY <1>3, <1>4, <3>2 DEF Announced
      <4> QED BY <1>2, <1>3, <3>1, <4>1 DEF Untaken
    <3>3. CASE ~IsAuth(rspMsg')
      <4>1. Announced' = Len(received) + 1 /\ asked <= Len(received)
        BY <1>3, <1>4, <1>10, <3>3 DEF Announced
      <4>2. ~(asked > Announced) /\ ~(asked > Announced')
        BY <1>4, <3>1, <4>1
      <4> QED BY <1>2, <1>3, <4>2 DEF Untaken
    <3> QED BY <3>2, <3>3
  <2> QED BY <1>2, <2>1 DEF AuthInv, ChannelInv
<1>15. PasswordInv'
  <2> SUFFICES ASSUME script # << >>, script[1].reply = "password"
               PROVE  PasswordInv'
    BY <1>2 DEF PasswordInv
  <2>1. \A i \in 1..Len(fromBackend) :
            IsAuth(fromBackend[i]) => fromBackend[i].val \in {"Cleartext", "MD5"}
    BY DEF AuthInv, PasswordInv
  <2>2. rspPc' = "send" => rspMsg'.val \in {"Cleartext", "MD5"}
    BY <1>3, <1>5, <1>7, <2>1
  <2>3. \A i \in 1..Len(fromBackend') :
            IsAuth(fromBackend'[i]) => fromBackend'[i].val \in {"Cleartext", "MD5"}
    BY <1>5, <1>7, <1>8, <2>1
  <2> QED BY <1>2, <1>3, <2>2, <2>3 DEF AuthInv, PasswordInv, IsReply, IsAuth
<1> QED BY <1>2, <1>11, <1>12, <1>13, <1>14, <1>15 DEF AuthInv

LEMMA RspSendAuth ==
  ASSUME AuthInv, RspSend
  PROVE  AuthInv'
<1>1. TypeOK /\ HeldInv
  BY DEF AuthInv
<1>2. /\ TypeOK' /\ HeldInv'
      /\ UNCHANGED <<sent, replied, toProxy, toBackend, incPc, incMsg,
                     authType, script, asked, decided, delivered>>
  BY <1>1, RspTyped DEF Rsp
<1>3. /\ rspPc = "send" /\ rspPc' = "write"
      /\ authTypeCh' = Append(authTypeCh, rspMsg.val)
      /\ UNCHANGED <<fromBackend, received, rspMsg>>
  BY DEF RspSend, RspStep
<1>4. Len(received) \in Nat /\ asked \in Nat /\ Len(authTypeCh) \in Nat
  BY <1>1, Numbers
<1>5. IsAuth(rspMsg) /\ rspMsg.val \in AuthTypes
  BY <1>1, <1>3, BackendFacts DEF HeldInv
<1>6. /\ Len(authTypeCh') = Len(authTypeCh) + 1
      /\ \A i \in 1..Len(authTypeCh) : authTypeCh'[i] = authTypeCh[i]
      /\ authTypeCh'[Len(authTypeCh) + 1] = rspMsg.val
  <2>1. authTypeCh \in Seq(AuthTypes)
    BY <1>1 DEF TypeOK
  <2> QED BY <1>3, <1>5, <2>1, AppendFacts
<1>7. Due(asked)' = Due(asked) /\ Due(replied)' = Due(replied) /\ Granted' = Granted
  BY <1>2 DEF Due, Granted
<1>8. StreamInv' /\ GrantInv'
  <2>1. Read' = Read
    BY <1>3 DEF Read
  <2>2. rspPc # "read" /\ rspPc' # "read"
    BY <1>3
  <2> QED BY <1>2, <1>3, <1>7, <2>1, <2>2 DEF AuthInv, StreamInv, GrantInv, IsAuth, IsReady
<1>9. ReplyInv'
  BY <1>2, <1>7 DEF AuthInv, ReplyInv, IsReply
<1>10. ChannelInv'
  <2>1. Len(received) + 1 <= asked
    BY <1>3, <1>5 DEF AuthInv, StreamInv
  <2>2. Announced = Len(received) /\ Announced' = Len(received) + 1
    BY <1>3, <1>4 DEF Announced
  <2>3. Untaken' = Untaken
    <3>1. /\ Untaken = Len(authTypeCh) + (asked - Len(received))
          /\ asked' = asked
      BY <1>2, <1>4, <2>1, <2>2 DEF Untaken
    <3>2. asked - Announced' = asked - Len(received) - 1 /\ asked >= Announced'
      BY <1>4, <2>1, <2>2
    <3>3. Untaken' = Len(authTypeCh') + (asked - Len(received) - 1)
      BY <1>4, <2>2, <3>1, <3>2 DEF Untaken
    <3> QED BY <1>4, <1>6, <3>1, <3>3
  <2> QED BY <1>2, <2>3 DEF AuthInv, ChannelInv
<1>11. PasswordInv'
  <2> SUFFICES ASSUME script # << >>, script[1].reply = "password"
               PROVE  PasswordInv'
    BY <1>2 DEF PasswordInv
  <2>1. /\ rspMsg.val \in {"Cleartext", "MD5"}
        /\ \A i \in 1..Len(authTypeCh) : authTypeCh[i] \in {"Cleartext", "MD5"}
    BY <1>3 DEF AuthInv, PasswordInv
  <2>2. \A i \in 1..Len(authTypeCh') : authTypeCh'[i] \in {"Cleartext", "MD5"}
    <3>1. \A i \in 1..Len(authTypeCh') : i \in 1..Len(authTypeCh) \/ i = Len(authTypeCh) + 1
      BY <1>4, <1>6
    <3> QED BY <1>6, <2>1, <3>1
  <2> QED BY <1>2, <1>3, <2>2 DEF AuthInv, PasswordInv, IsReply, IsAuth
<1> QED BY <1>2, <1>8, <1>9, <1>10, <1>11 DEF AuthInv

LEMMA RspWriteAuth ==
  ASSUME AuthInv, RspWrite
  PROVE  AuthInv'
<1>1. TypeOK /\ HeldInv
  BY DEF AuthInv
<1>2. /\ TypeOK' /\ HeldInv'
      /\ UNCHANGED <<sent, replied, toProxy, toBackend, incPc, incMsg,
                     authType, script, asked, decided, delivered>>
  BY <1>1, RspTyped DEF Rsp
<1>3. /\ rspPc = "write" /\ rspPc' = "read"
      /\ received' = Append(received, rspMsg)
      /\ UNCHANGED <<fromBackend, authTypeCh>>
  BY DEF RspWrite, RspStep
<1>4. /\ Len(received) \in Nat /\ asked \in Nat /\ replied \in Nat
      /\ Len(fromBackend) \in Nat
  BY <1>1, Numbers
<1>5. /\ Len(received') = Len(received) + 1
      /\ \A i \in 1..Len(received') :
             \/ i \in 1..Len(received) /\ received'[i] = received[i]
             \/ i = Len(received) + 1 /\ received'[i] = rspMsg
  <2>1. received \in Seq(BackendMessages)
    BY <1>1 DEF TypeOK
  <2>2. rspMsg \in BackendMessages
    BY <1>1, <1>3 DEF HeldInv
  <2> QED BY <1>3, <2>1, <2>2, AppendFacts
<1>6. Due(asked)' = Due(asked) /\ Due(replied)' = Due(replied) /\ Granted' = Granted
  BY <1>2 DEF Due, Granted
<1>7. Read' = Read
  BY <1>3, <1>4, <1>5 DEF Read
<1>8. StreamInv'
  <2>1. StreamInv
    BY DEF AuthInv
  <2>2. \A i \in 1..Len(received') : IsAuth(received'[i]) <=> i <= asked
    BY <1>3, <1>5, <2>1 DEF StreamInv
  <2>3. asked <= Len(received') + 1 /\ replied <= Len(received')
    BY <1>4, <1>5, <2>1 DEF StreamInv
  <2> QED BY <1>2, <1>3, <1>7, <2>1, <2>2, <2>3 DEF StreamInv, IsAuth
<1>9. GrantInv'
  <2>1. \A i \in 1..Len(received') : IsReady(received'[i]) => Granted
    BY <1>3, <1>5 DEF AuthInv, GrantInv
  <2>2. sent # << >> => Len(received') > asked
    BY <1>4, <1>5 DEF AuthInv, GrantInv
  <2> QED BY <1>2, <1>3, <1>6, <2>1, <2>2 DEF AuthInv, GrantInv, IsReady
<1>10. ReplyInv'
  BY <1>2, <1>6 DEF AuthInv, ReplyInv, IsReply
<1>11. ChannelInv'
  <2>1. Announced' = Announced
    BY <1>3, <1>4, <1>5 DEF Announced
  <2>2. Untaken' = Untaken
    BY <1>2, <1>3, <2>1 DEF Untaken
  <2> QED BY <1>2, <2>2 DEF AuthInv, ChannelInv
<1>12. PasswordInv'
  BY <1>2, <1>3 DEF AuthInv, PasswordInv, IsReply, IsAuth
<1> QED BY <1>2, <1>8, <1>9, <1>10, <1>11, <1>12 DEF AuthInv

-----------------------------------------------------------------------------
(* The backend *)

LEMMA BackendAsksAuth ==
  ASSUME AuthInv, BackendAsks
  PROVE  AuthInv'
<1>1. TypeOK /\ HeldInv /\ StreamInv
  BY DEF AuthInv
<1>2. /\ TypeOK' /\ HeldInv' /\ ~decided /\ Len(delivered) = Due(asked)
      /\ UNCHANGED <<sent, replied, toProxy, toBackend, received, authTypeCh,
                     incPc, incMsg, authType, rspPc, rspMsg, script, delivered>>
      /\ \/ /\ asked < Len(script) /\ asked' = asked + 1 /\ ~decided'
            /\ fromBackend' =
                   Append(fromBackend, Msg(0, "auth", script[asked + 1].ask))
         \/ /\ asked = Len(script) /\ asked' = asked /\ decided'
            /\ fromBackend' =
                   fromBackend \o <<Msg(0, "ok", ""), Msg(0, "ready", "I")>>
  BY <1>1, BackendAsksTyped
<1>3. /\ Len(received) \in Nat /\ asked \in Nat /\ replied \in Nat
      /\ Len(fromBackend) \in Nat /\ Len(script) \in Nat
      /\ Len(delivered) \in Nat /\ Len(authTypeCh) \in Nat
  BY <1>1, Numbers
<1>4. ~Granted
  BY <1>2 DEF Granted
<1>5. /\ sent = << >>
      /\ \A i \in 1..Len(received) : ~IsReady(received[i])
      /\ rspPc # "read" => ~IsReady(rspMsg)
      /\ \A i \in 1..Len(fromBackend) : ~IsReady(fromBackend[i])
  BY <1>4 DEF AuthInv, GrantInv
<1>6. Read + Len(fromBackend) = asked /\ Read \in Nat /\ Read' = Read
  <2>1. Read + Len(fromBackend) = asked
    BY <1>1, <1>2 DEF StreamInv
  <2>2. Read \in Nat /\ Read' = Read
    <3>1. received' = received /\ rspPc' = rspPc
      BY <1>2
    <3> QED BY <1>3, <3>1 DEF Read
  <2> QED BY <2>1, <2>2
<1>7. Due(replied)' = Due(replied)
  BY <1>2 DEF Due
<1>8. fromBackend \in Seq(BackendMessages)
  BY <1>1 DEF TypeOK
<1>9. CASE asked < Len(script)
  <2> DEFINE e == Msg(0, "auth", script[asked + 1].ask)
  <2>1. asked' = asked + 1 /\ ~decided' /\ fromBackend' = Append(fromBackend, e)
    <3>1. asked # Len(script)
      BY <1>3, <1>9
    <3> QED BY <1>2, <3>1
  <2>2. IsScript(script) /\ script[asked + 1] \in Steps
    <3>1. IsScript(script) /\ asked + 1 \in 1..Len(script)
      BY <1>1, <1>3, <1>9, ScriptTyped
    <3> QED BY <3>1 DEF IsScript
  <2>3. e \in BackendMessages /\ IsAuth(e) /\ ~IsReady(e) /\ e.val = script[asked + 1].ask
    <3>1. script[asked + 1].ask \in AuthTypes
      BY <2>2 DEF Steps
    <3> QED BY <3>1, NewMessages DEF Msg, IsAuth, IsReady
  <2> HIDE DEF e
  <2>4. /\ Len(fromBackend') = Len(fromBackend) + 1
        /\ \A i \in 1..Len(fromBackend') :
               \/ i \in 1..Len(fromBackend) /\ fromBackend'[i] = fromBackend[i]
               \/ i = Len(fromBackend) + 1 /\ fromBackend'[i] = e
    BY <1>8, <2>1, <2>3, AppendFacts
  <2>5. Len(delivered) = asked /\ replied = asked /\ Len(delivered) = Due(replied)
    <3>1. Len(delivered) = asked
      BY <1>2, <1>9, DueKept
    <3>2. Len(delivered) <= Due(replied) /\ Due(replied) \in {replied - 1, replied}
          /\ replied <= asked
      BY <1>1, DueKept DEF AuthInv, ReplyInv, StreamInv
    <3> QED BY <1>3, <3>1, <3>2
  <2>6. /\ Len(received) = asked /\ rspPc = "read" /\ Len(fromBackend) = 0
    BY <1>1, <1>3, <1>6, <2>5 DEF StreamInv, Read
  <2>7. /\ toProxy = << >> /\ toBackend = << >> /\ incPc \in {"drain", "receive"}
        /\ ~IsReply(incMsg)
    BY <1>5, <2>5 DEF AuthInv, ReplyInv
  <2>8. StreamInv'
    <3>1. \A i \in 1..Len(received) : IsAuth(received[i]) <=> i <= asked'
      BY <1>1, <1>3, <2>1, <2>6 DEF StreamInv
    <3>2. \A i \in 1..Len(fromBackend') : IsAuth(fromBackend'[i]) <=> Read + i <= asked'
      BY <1>3, <1>6, <2>1, <2>3, <2>4, <2>6
    <3>3. /\ Read + Len(fromBackend') = asked' /\ asked' <= Len(received) + 1
          /\ replied <= Len(received) /\ replied <= asked'
          /\ asked' <= Read + Len(fromBackend')
      <4>1. asked' = asked + 1 /\ Len(fromBackend') = 1 /\ Read = asked
        BY <1>3, <1>6, <2>1, <2>4, <2>6
      <4>2. Len(received) = asked /\ replied = asked /\ asked \in Nat
        BY <1>3, <2>5, <2>6
      <4> QED BY <4>1, <4>2
    <3> QED BY <1>2, <1>6, <2>6, <3>1, <3>2, <3>3 DEF StreamInv, IsAuth
  <2>9. GrantInv'
    <3>1. \A i \in 1..Len(fromBackend') : ~IsReady(fromBackend'[i])
      BY <1>5, <2>3, <2>4
    <3> QED BY <1>2, <1>5, <3>1 DEF GrantInv, IsReady
  <2>10. ReplyInv'
    <3>1. asked + 1 \in 0..Len(script)
      BY <1>3, <1>9
    <3>2. Due(asked + 1) <= asked + 1
      <4>1. Due(asked + 1) \in {(asked + 1) - 1, asked + 1}
        BY <2>2, <3>1, DueFacts
      <4> HIDE DEF Due
      <4> QED BY <1>3, <4>1
    <3>3. Due(asked)' = Due(asked + 1)
      BY <1>2, <2>1 DEF Due
    <3>4. Due(asked)' <= Len(delivered) + 1
      BY <2>5, <3>2, <3>3
    <3>5. \A i : i \notin 1..Len(<< >>)
      OBVIOUS
    <3>6. Len(delivered) <= Due(replied)
      BY <1>3, <2>5
    <3> QED BY <1>2, <1>5, <1>7, <2>5, <2>7, <3>4, <3>5, <3>6 DEF ReplyInv, IsReply
  <2>11. ChannelInv'
    <3>1. Announced = asked /\ Announced' = asked
      <4>1. received' = received /\ rspPc' = rspPc
        BY <1>2
      <4> QED BY <1>3, <2>6, <4>1 DEF Announced
    <3>2. Untaken = Len(authTypeCh) /\ Untaken' = Len(authTypeCh) + 1
      <4>1. authTypeCh' = authTypeCh /\ asked' = asked + 1
        BY <1>2, <2>1
      <4> QED BY <1>3, <3>1, <4>1 DEF Untaken
    <3>3. (incPc = "receive" => Untaken = 0) /\ (incPc = "drain" => Untaken <= 1)
      BY <1>9, <2>5, <2>7 DEF AuthInv, ChannelInv
    <3>4. Untaken' <= 2 /\ (incPc = "receive" => Untaken' <= 1) /\ replied # asked'
      BY <1>3, <2>1, <2>5, <2>7, <3>2, <3>3
    <3> QED BY <1>2, <2>7, <3>4 DEF ChannelInv
  <2>12. PasswordInv'
    <3> SUFFICES ASSUME script # << >>, script[1].reply = "password"
                 PROVE  PasswordInv'
      BY <1>2 DEF PasswordInv
    <3>1. 1 \in 1..Len(script)
      BY <1>3, <1>9
    <3>2. Len(script) = 1 /\ script[1].ask \in {"Cleartext", "MD5"}
      BY <2>2, <3>1 DEF IsScript
    <3>3. asked + 1 = 1
      BY <1>3, <1>9, <3>2
    <3>4. e.val \in {"Cleartext", "MD5"}
      BY <2>3, <3>2, <3>3
    <3>5. \A i \in 1..Len(fromBackend) :
              IsAuth(fromBackend[i]) => fromBackend[i].val \in {"Cleartext", "MD5"}
      BY DEF AuthInv, PasswordInv
    <3>6. \A i \in 1..Len(fromBackend') :
              IsAuth(fromBackend'[i]) => fromBackend'[i].val \in {"Cleartext", "MD5"}
      BY <2>4, <3>4, <3>5
    <3> QED BY <1>2, <3>6 DEF AuthInv, PasswordInv, IsReply, IsAuth
  <2> QED BY <1>2, <2>8, <2>9, <2>10, <2>11, <2>12 DEF AuthInv
<1>10. CASE asked = Len(script)
  <2> DEFINE d == Msg(0, "ok", "")
             e == Msg(0, "ready", "I")
  <2>1. asked' = asked /\ decided' /\ fromBackend' = fromBackend \o <<d, e>>
    <3>1. ~(asked < Len(script))
      BY <1>3, <1>10
    <3> QED BY <1>2, <3>1
  <2>2. d \in BackendMessages /\ e \in BackendMessages /\ ~IsAuth(d) /\ ~IsAuth(e)
    <3>1. 0 \in 0..MaxRequests
      BY QueryAssumption
    <3> QED BY <3>1, NewMessages DEF Msg, IsAuth, TxStates
  <2> HIDE DEF d, e
  <2>3. /\ Len(fromBackend') = Len(fromBackend) + 2
        /\ \A i \in 1..Len(fromBackend') :
               \/ i \in 1..Len(fromBackend) /\ fromBackend'[i] = fromBackend[i]
               \/ i > Len(fromBackend) /\ ~IsAuth(fromBackend'[i])
    <3>1. /\ <<d, e>> \in Seq(BackendMessages) /\ Len(<<d, e>>) = 2
          /\ \A i \in 1..2 : ~IsAuth(<<d, e>>[i])
      BY <2>2
    <3>2. /\ Len(fromBackend') = Len(fromBackend) + 2
          /\ \A i \in 1..Len(fromBackend) : fromBackend'[i] = fromBackend[i]
          /\ \A i \in 1..2 : fromBackend'[Len(fromBackend) + i] = <<d, e>>[i]
      BY <1>8, <2>1, <3>1, ConcatFacts
    <3>3. \A i \in 1..Len(fromBackend') :
              \/ i \in 1..Len(fromBackend)
              \/ i > Len(fromBackend) /\ i - Len(fromBackend) \in 1..2
                 /\ i = Len(fromBackend) + (i - Len(fromBackend))
      BY <1>3, <3>2
    <3> QED BY <3>1, <3>2, <3>3
  <2>4. Due(asked)' = Due(asked)
    BY <1>2, <2>1 DEF Due
  <2>5. Granted'
    BY <1>2, <1>10, <2>1, <2>4 DEF Granted
  <2>6. StreamInv'
    <3>1. \A i \in 1..Len(fromBackend') : IsAuth(fromBackend'[i]) <=> Read + i <= asked
      BY <1>1, <1>3, <1>6, <2>3 DEF StreamInv
    <3>2. asked <= Read + Len(fromBackend')
      BY <1>3, <1>6, <2>3
    <3> QED BY <1>1, <1>2, <1>6, <2>1, <3>1, <3>2 DEF StreamInv, IsAuth
  <2>7. GrantInv'
    BY <1>2, <1>5, <2>5 DEF GrantInv
  <2>8. ReplyInv'
    BY <1>2, <1>7, <2>4 DEF AuthInv, ReplyInv, IsReply
  <2>9. ChannelInv'
    <3>1. Untaken' = Untaken
      BY <1>2, <2>1 DEF Untaken, Announced
    <3> QED BY <1>2, <2>1, <3>1 DEF AuthInv, ChannelInv
  <2>10. PasswordInv'
    BY <1>2, <2>3 DEF AuthInv, PasswordInv, IsReply, IsAuth
  <2> QED BY <1>2, <2>6, <2>7, <2>8, <2>9, <2>10 DEF AuthInv
<1>11. asked < Len(script) \/ asked = Len(script)
  BY <1>2
<1> QED BY <1>9, <1>10, <1>11

LEMMA BackendRefusesAuth ==
  ASSUME AuthInv, BackendRefuses
  PROVE  AuthInv'
<1> DEFINE e == Msg(0, "refused", "")
<1>1. TypeOK /\ HeldInv /\ StreamInv
  BY DEF AuthInv
<1>2. /\ TypeOK' /\ HeldInv' /\ ~decided /\ decided'
      /\ UNCHANGED <<sent, replied, toProxy, toBackend, received, authTypeCh,
                     incPc, incMsg, authType, rspPc, rspMsg, script, asked,
                     delivered>>
      /\ fromBackend' = Append(fromBackend, e) /\ e \in BackendMessages
  BY <1>1, BackendRefusesTyped
<1>3. ~IsAuth(e) /\ ~IsReady(e)
  BY DEF Msg, IsAuth, IsReady
<1> HIDE DEF e
<1>4. /\ Len(received) \in Nat /\ asked \in Nat /\ Len(fromBackend) \in Nat
  BY <1>1, Numbers
<1>5. /\ Len(fromBackend') = Len(fromBackend) + 1
      /\ \A i \in 1..Len(fromBackend') :
             \/ i \in 1..Len(fromBackend) /\ fromBackend'[i] = fromBackend[i]
             \/ i = Len(fromBackend) + 1 /\ fromBackend'[i] = e
  <2>1. fromBackend \in Seq(BackendMessages)
    BY <1>1 DEF TypeOK
  <2> QED BY <1>2, <2>1, AppendFacts
<1>6. /\ sent = << >>
      /\ \A i \in 1..Len(received) : ~IsReady(received[i])
      /\ rspPc # "read" => ~IsReady(rspMsg)
      /\ \A i \in 1..Len(fromBackend) : ~IsReady(fromBackend[i])
  <2>1. ~Granted
    BY <1>2 DEF Granted
  <2> QED BY <2>1 DEF AuthInv, GrantInv
<1>7. Read \in Nat /\ Read' = Read
  <2>1. received' = received /\ rspPc' = rspPc
    BY <1>2
  <2> QED BY <1>4, <2>1 DEF Read
<1>8. Read + Len(fromBackend) = asked
  BY <1>1, <1>2 DEF StreamInv
<1>9. Due(asked)' = Due(asked) /\ Due(replied)' = Due(replied)
  BY <1>2 DEF Due
<1>10. StreamInv'
  <2>1. \A i \in 1..Len(fromBackend') : IsAuth(fromBackend'[i]) <=> Read + i <= asked
    <3>1. \A i \in 1..Len(fromBackend) : IsAuth(fromBackend[i]) <=> Read + i <= asked
      BY <1>1 DEF StreamInv
    <3>2. ~(Read + (Len(fromBackend) + 1) <= asked)
      BY <1>4, <1>7, <1>8
    <3> QED BY <1>3, <1>5, <3>1, <3>2
  <2>2. asked <= Read + Len(fromBackend')
    BY <1>4, <1>5, <1>7, <1>8
  <2> QED BY <1>1, <1>2, <1>7, <2>1, <2>2 DEF StreamInv, IsAuth
<1>11. GrantInv'
  <2>1. \A i \in 1..Len(fromBackend') : ~IsReady(fromBackend'[i])
    BY <1>3, <1>5, <1>6
  <2> QED BY <1>2, <1>6, <2>1 DEF GrantInv, IsReady
<1>12. ReplyInv'
  BY <1>2, <1>9 DEF AuthInv, ReplyInv, IsReply
<1>13. ChannelInv'
  <2>1. Untaken' = Untaken
    BY <1>2 DEF Untaken, Announced
  <2> QED BY <1>2, <2>1 DEF AuthInv, ChannelInv
<1>14. PasswordInv'
  <2>1. \A i \in 1..Len(fromBackend') :
            \/ i \in 1..Len(fromBackend) /\ fromBackend'[i] = fromBackend[i]
            \/ ~IsAuth(fromBackend'[i])
    BY <1>3, <1>5
  <2> QED BY <1>2, <2>1 DEF AuthInv, PasswordInv, IsReply, IsAuth
<1> QED BY <1>2, <1>10, <1>11, <1>12, <1>13, <1>14 DEF AuthInv

LEMMA BackendReceivesAuth ==
  ASSUME AuthInv, BackendReceives
  PROVE  AuthInv'
<1> DEFINE m == Head(toBackend)
<1>1. TypeOK /\ HeldInv /\ StreamInv
  BY DEF AuthInv
<1>2. /\ TypeOK' /\ HeldInv'
      /\ toBackend # << >> /\ toBackend' = Tail(toBackend)
      /\ UNCHANGED <<sent, replied, toProxy, received, authTypeCh, incPc,
                     incMsg, authType, rspPc, rspMsg, script, asked, decided>>
      /\ IsReply(m) => /\ m.val \in Replies
                       /\ delivered' = Append(delivered, m.val)
                       /\ fromBackend' = fromBackend
      /\ ~IsReply(m) => delivered' = delivered
      /\ \E msgs \in Seq(BackendMessages) :
             /\ fromBackend' = fromBackend \o msgs
             /\ \A i \in 1..Len(msgs) : ~IsAuth(msgs[i])
  BY <1>1, BackendReceivesTyped
<1>3. /\ Len(toBackend) \in Nat /\ Len(toBackend) > 0
      /\ Len(toBackend') = Len(toBackend) - 1
      /\ \A i \in 1..(Len(toBackend) - 1) : toBackend'[i] = toBackend[i + 1]
      /\ m = toBackend[1]
  <2>1. toBackend \in Seq(FrontendMessages)
    BY <1>1 DEF TypeOK
  <2> QED BY <1>2, <2>1, TailFacts
<1>4. 1 \in 1..Len(toBackend)
  BY <1>3
<1> HIDE DEF m
<1>5. /\ Len(received) \in Nat /\ asked \in Nat /\ replied \in Nat
      /\ Len(fromBackend) \in Nat /\ Len(delivered) \in Nat /\ Len(script) \in Nat
  BY <1>1, Numbers
<1>6. Due(asked)' = Due(asked) /\ Due(replied)' = Due(replied)
  BY <1>2 DEF Due
<1>7. Read \in Nat /\ Read' = Read /\ Read >= Len(received)
  <2>1. received' = received /\ rspPc' = rspPc
    BY <1>2
  <2> QED BY <1>5, <2>1 DEF Read
<1>8. \A i \in 1..Len(toBackend') :
          i + 1 \in 1..Len(toBackend) /\ toBackend'[i] = toBackend[i + 1]
  BY <1>3
<1>9. Untaken' = Untaken
  BY <1>2 DEF Untaken, Announced
<1>10. ChannelInv'
  BY <1>2, <1>9 DEF AuthInv, ChannelInv
<1>11. CASE IsReply(m)
  <2>1. Len(delivered) # Due(replied)
    BY <1>3, <1>4, <1>11 DEF AuthInv, ReplyInv
  <2>2. /\ sent = << >> /\ toProxy = << >> /\ Len(toBackend) = 1
        /\ incPc \in {"drain", "receive"} /\ ~IsReply(incMsg)
        /\ Len(delivered) <= Due(replied) /\ Due(asked) <= Len(delivered) + 1
    BY <1>2, <1>3, <1>4, <2>1 DEF AuthInv, ReplyInv
  <2>3. /\ m.val \in Replies /\ delivered' = Append(delivered, m.val)
        /\ fromBackend' = fromBackend
    BY <1>2, <1>11
  <2>4. /\ Len(delivered') = Len(delivered) + 1
        /\ \A i \in 1..Len(delivered') :
               \/ i \in 1..Len(delivered) /\ delivered'[i] = delivered[i]
               \/ delivered'[i] = m.val
    <3>1. delivered \in Seq(Replies)
      BY <1>1 DEF TypeOK
    <3> QED BY <2>3, <3>1, AppendFacts
  <2>5. Len(delivered') = Due(replied) /\ Due(asked) = Due(replied)
    BY <1>5, <2>1, <2>2, <2>4, DueKept
  <2>6. toBackend' = << >>
    <3>1. toBackend' \in Seq(FrontendMessages)
      BY <1>2 DEF TypeOK
    <3>2. Len(toBackend') = 0
      BY <1>3, <2>2
    <3> QED BY <3>1, <3>2, EmptyOrNot
  <2>7. ~Granted
    BY <1>5, <2>1, <2>5 DEF Granted
  <2>8. StreamInv'
    BY <1>1, <1>2, <1>7, <2>3 DEF StreamInv, IsAuth
  <2>9. GrantInv'
    <3>1. /\ \A i \in 1..Len(received) : ~IsReady(received[i])
          /\ rspPc # "read" => ~IsReady(rspMsg)
          /\ \A i \in 1..Len(fromBackend) : ~IsReady(fromBackend[i])
      BY <2>7 DEF AuthInv, GrantInv
    <3> QED BY <1>2, <2>2, <2>3, <3>1 DEF GrantInv, IsReady
  <2>10. ReplyInv'
    <3>1. \A i : i \notin 1..Len(<< >>)
      OBVIOUS
    <3>2. /\ Due(asked)' <= Len(delivered') + 1 /\ Len(delivered') <= Due(replied)'
          /\ Len(delivered') = Due(replied)'
      BY <1>5, <1>6, <2>4, <2>5
    <3>3. /\ sent' = << >> /\ toProxy' = << >> /\ toBackend' = << >>
          /\ incPc' \in {"drain", "receive"} /\ ~IsReply(incMsg')
      BY <1>2, <2>2, <2>6
    <3> QED BY <3>1, <3>2, <3>3 DEF ReplyInv, IsReply
  <2>11. PasswordInv'
    <3> SUFFICES ASSUME script # << >>, script[1].reply = "password"
                 PROVE  PasswordInv'
      BY <1>2 DEF PasswordInv
    <3>1. /\ \A i \in 1..Len(toBackend) :
                 IsReply(toBackend[i]) => toBackend[i].val = "password"
          /\ \A i \in 1..Len(delivered) : delivered[i] = "password"
      BY DEF AuthInv, PasswordInv
    <3>2. m.val = "password"
      BY <1>3, <1>4, <1>11, <3>1
    <3>3. \A i \in 1..Len(delivered') : delivered'[i] = "password"
      BY <2>4, <3>1, <3>2
    <3>4. \A i \in 1..Len(toBackend') :
              IsReply(toBackend'[i]) => toBackend'[i].val = "password"
      BY <1>8, <3>1
    <3> QED BY <1>2, <2>3, <3>3, <3>4 DEF AuthInv, PasswordInv, IsReply, IsAuth
  <2> QED BY <1>2, <1>10, <2>8, <2>9, <2>10, <2>11 DEF AuthInv
<1>12. CASE ~IsReply(m)
  <2>1. Len(delivered) = Due(replied) /\ sent # << >>
    BY <1>2, <1>3, <1>4, <1>12 DEF AuthInv, ReplyInv
  <2>2. Granted /\ decided /\ Len(received) > asked
    BY <2>1, OverWhenSent
  <2>3. delivered' = delivered
    BY <1>2, <1>12
  <2>4. Granted'
    BY <1>2, <1>6, <2>2, <2>3 DEF Granted
  <2>5. /\ Len(fromBackend') \in Nat /\ Len(fromBackend') >= Len(fromBackend)
        /\ \A i \in 1..Len(fromBackend') :
               \/ i \in 1..Len(fromBackend) /\ fromBackend'[i] = fromBackend[i]
               \/ ~IsAuth(fromBackend'[i])
    <3>1. PICK msgs \in Seq(BackendMessages) :
              /\ fromBackend' = fromBackend \o msgs
              /\ \A i \in 1..Len(msgs) : ~IsAuth(msgs[i])
      BY <1>2
    <3>2. fromBackend \in Seq(BackendMessages)
      BY <1>1 DEF TypeOK
    <3>3. /\ Len(msgs) \in Nat
          /\ Len(fromBackend') = Len(fromBackend) + Len(msgs)
          /\ \A i \in 1..Len(fromBackend) : fromBackend'[i] = fromBackend[i]
          /\ \A i \in 1..Len(msgs) : fromBackend'[Len(fromBackend) + i] = msgs[i]
      BY <3>1, <3>2, ConcatFacts
    <3>4. \A i \in 1..Len(fromBackend') :
              \/ i \in 1..Len(fromBackend)
              \/ i - Len(fromBackend) \in 1..Len(msgs)
                 /\ i = Len(fromBackend) + (i - Len(fromBackend))
      BY <1>5, <3>3
    <3>5. Len(fromBackend') \in Nat /\ Len(fromBackend') >= Len(fromBackend)
      BY <1>5, <3>3
    <3> QED BY <3>1, <3>3, <3>4, <3>5
  <2>6. StreamInv'
    <3>1. \A i \in 1..Len(fromBackend) : ~IsAuth(fromBackend[i])
      BY <1>1, <1>5, <1>7, <2>2 DEF StreamInv
    <3>2. \A i \in 1..Len(fromBackend') :
              ~IsAuth(fromBackend'[i]) /\ ~(Read + i <= asked)
      BY <1>5, <1>7, <2>2, <2>5, <3>1
    <3>3. asked <= Read + Len(fromBackend')
      BY <1>5, <1>7, <2>2, <2>5
    <3> QED BY <1>1, <1>2, <1>7, <2>2, <3>2, <3>3 DEF StreamInv, IsAuth
  <2>7. GrantInv'
    BY <1>2, <2>2, <2>4 DEF GrantInv
  <2>8. ReplyInv'
    <3>1. /\ \A i \in 1..Len(toProxy) : ~IsReply(toProxy[i])
          /\ ~IsReply(incMsg)
          /\ \A i \in 1..Len(toBackend) : ~IsReply(toBackend[i])
          /\ Due(asked) <= Len(delivered) + 1 /\ Len(delivered) <= Due(replied)
          /\ incPc \notin {"returned", "closed"}
      BY <2>1 DEF AuthInv, ReplyInv
    <3>2. \A i \in 1..Len(toBackend') : ~IsReply(toBackend'[i])
      BY <1>8, <3>1
    <3> QED BY <1>2, <1>6, <2>1, <2>3, <3>1, <3>2 DEF ReplyInv, IsReply
  <2>9. PasswordInv'
    <3> SUFFICES ASSUME script # << >>, script[1].reply = "password"
                 PROVE  PasswordInv'
      BY <1>2 DEF PasswordInv
    <3>1. \A i \in 1..Len(toBackend) :
              IsReply(toBackend[i]) => toBackend[i].val = "password"
      BY DEF AuthInv, PasswordInv
    <3>2. \A i \in 1..Len(toBackend') :
              IsReply(toBackend'[i]) => toBackend'[i].val = "password"
      BY <1>8, <3>1
    <3> QED BY <1>2, <2>3, <2>5, <3>2 DEF AuthInv, PasswordInv, IsReply, IsAuth
  <2> QED BY <1>2, <1>10, <2>6, <2>7, <2>8, <2>9 DEF AuthInv
<1> QED BY <1>11, <1>12

-----------------------------------------------------------------------------
(* The theorems *)

LEMMA AuthStep == AuthInv /\ [Next]_vars => AuthInv'
<1> SUFFICES ASSUME AuthInv, [Next]_vars PROVE AuthInv'
  OBVIOUS
<1>1. CASE ClientReplies
  BY <1>1, ClientRepliesAuth
<1>2. ASSUME NEW sql \in Sqls, SendQuery(sql) \/ SendBatch(sql)
      PROVE  AuthInv'
  BY <1>2, SendAuth DEF SendQuery, SendBatch
<1>3. CASE Inc \/ SessionEnds
  BY <1>3, IncDrainAuth, IncReceiveAuth, FailureAuth, IncForwardAuth,
     IncAnswerAuth DEF Inc
<1>4. CASE Rsp
  BY <1>4, RspReceiveAuth, RspSendAuth, RspWriteAuth DEF Rsp
<1>5. CASE Backend
  BY <1>5, BackendAsksAuth, BackendRefusesAuth, BackendReceivesAuth DEF Backend
<1>6. CASE UNCHANGED vars
  <2>1. UNCHANGED <<sent, replied, toProxy, toBackend, fromBackend, received,
                    authTypeCh, incPc, incMsg, authType, txStatus, blockedQueries,
                    rspPc, rspMsg, lastTxStatus, script, asked, decided,
                    delivered, tx, stmt, executed>>
    BY <1>6 DEF vars, clientVars, incVars, rspVars, authVars, queryVars
  <2>2. Due(asked)' = Due(asked) /\ Due(replied)' = Due(replied)
        /\ Granted' = Granted /\ Read' = Read /\ Untaken' = Untaken
    BY <2>1 DEF Due, Granted, Read, Untaken, Announced
  <2>3. TypeOK' /\ HeldInv'
    <3>1. TypeOK'
      BY <2>1 DEF AuthInv, TypeOK
    <3>2. HeldInv'
      BY <2>1 DEF AuthInv, HeldInv, Blocked, IsAuth
    <3> QED BY <3>1, <3>2
  <2>4. StreamInv' /\ GrantInv'
    BY <2>1, <2>2 DEF AuthInv, StreamInv, GrantInv, IsAuth, IsReady
  <2>5. ReplyInv' /\ ChannelInv'
    BY <2>1, <2>2 DEF AuthInv, ReplyInv, ChannelInv, IsReply
  <2>6. PasswordInv'
    BY <2>1 DEF AuthInv, PasswordInv, IsReply, IsAuth
  <2> QED BY <2>3, <2>4, <2>5, <2>6 DEF AuthInv
<1> QED BY <1>1, <1>2, <1>3, <1>4, <1>5, <1>6 DEF Next

LEMMA AuthHolds == Spec => []AuthInv
  BY InitAuth, AuthStep, PTL DEF Spec

\* The session's state is well typed, whatever the method, the handler and the
\* number of requests; in particular both relay goroutines only ever act on a
\* message they hold, and authTypeCh never holds more than its capacity.
THEOREM TypeCorrect == Spec => []TypeOK
<1>1. AuthInv => TypeOK
  BY DEF AuthInv
<1> QED BY <1>1, AuthHolds, PTL

\* A password reaches the backend as the client sent it and is never taken for
\* a broken message, in every interleaving of the two relay goroutines
\* (src/proxy/proxy.go, the drain loop of handleIncomingConnection and the
\* sends of handleResponseConnection).
THEOREM PasswordsArriveIntact == Spec => []PasswordIntact
<1>1. AuthInv => PasswordIntact
  <2> SUFFICES ASSUME AuthInv PROVE PasswordIntact
    OBVIOUS
  <2>1. TypeOK /\ replied <= asked /\ Len(delivered) <= Due(replied)
    BY DEF AuthInv, StreamInv, ReplyInv
  <2>2. /\ IsScript(script) /\ Due(replied) \in Nat /\ Due(replied) <= replied
        /\ replied \in Nat /\ asked \in Nat /\ asked <= Len(script)
        /\ Len(script) \in Nat /\ Len(delivered) \in Nat
    BY <2>1, DueKept, Numbers
  <2>3. \A i \in 1..Len(script) :
            script[i].reply = "password" =>
                script # << >> /\ script[1].reply = "password" /\ i = 1
    <3> SUFFICES ASSUME NEW i \in 1..Len(script), script[i].reply = "password"
                 PROVE  script # << >> /\ i = 1
      OBVIOUS
    <3>1. i = 1
      BY <2>2 DEF IsScript
    <3>2. script # << >>
      OBVIOUS
    <3> QED BY <3>1, <3>2
  <2>4. \A i \in 1..Len(delivered) : i \in 1..Len(script)
    BY <2>1, <2>2
  <2>5. ASSUME script # << >>, script[1].reply = "password"
        PROVE  /\ \A i \in 1..Len(delivered) : delivered[i] = "password"
               /\ incPc \notin {"returned", "closed"}
    BY <2>5 DEF AuthInv, PasswordInv
  <2> QED BY <2>3, <2>4, <2>5 DEF PasswordIntact
<1> QED BY <1>1, AuthHolds, PTL

\* With room for two types in authTypeCh (the code makes room for four) the
\* response relay never waits for room, however long the exchange is: the
\* client does not answer a request before it has received it, and the backend
\* does not ask again before it has the answer, for which the incoming relay
\* has emptied the channel.
THEOREM SendsNeverBlock == AuthChCap >= 2 => (Spec => []SendNeverBlocks)
<1> SUFFICES ASSUME AuthChCap >= 2 PROVE Spec => []SendNeverBlocks
  OBVIOUS
<1>1. AuthInv => SendNeverBlocks
  <2> SUFFICES ASSUME AuthInv, rspPc = "send"
               PROVE  Len(authTypeCh) < AuthChCap
    BY DEF SendNeverBlocks
  <2>1. /\ Len(received) \in Nat /\ asked \in Nat /\ Len(authTypeCh) \in Nat
        /\ AuthChCap \in Nat
    BY Numbers, AuthAssumption DEF AuthInv
  <2>2. Len(received) + 1 <= asked /\ Untaken <= 2
    BY DEF AuthInv, HeldInv, StreamInv, ChannelInv
  <2>3. Announced = Len(received)
    BY <2>1 DEF Announced
  <2>4. Untaken = Len(authTypeCh) + (asked - Len(received))
    BY <2>1, <2>2, <2>3 DEF Untaken
  <2> QED BY <2>1, <2>2, <2>4
<1> QED BY <1>1, AuthHolds, PTL
=============================================================================
