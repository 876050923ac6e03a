-------------------------- MODULE RelayAnswersProofs --------------------------
(***************************************************************************)
(* Proofs about the queries of Relay: a client that waits for its answers  *)
(* gets those of the reference, for any handler and any number of          *)
(* requests.                                                               *)
(***************************************************************************)
EXTENDS RelayProofs, SetInduction

\* The client has one request outstanding at most, and sends in extended
\* batches only what the handler lets through.
Waits == Window = 1 /\ \A sql \in Batched : Handler[sql] # "block"

-----------------------------------------------------------------------------
(* The inductive invariant *)

Earlier(requests) == SubSeq(requests, 1, Len(requests) - 1)

Number == Len(sent)
Text == Handler[sent[Len(sent)]]
Prior == RunAll(Earlier(sent))

\* Before the first request the backend has sent messages of number 0 only,
\* the ReadyForQuery after all others.
Before ==
    /\ \A i \in 1..Len(received) :
           /\ received[i].n = 0
           /\ IsReady(received[i]) =>
                  i = Len(received) /\ rspPc = "read" /\ fromBackend = << >>
    /\ rspPc # "read" =>
           /\ rspMsg.n = 0
           /\ IsReady(rspMsg) => rspMsg.val = "I" /\ fromBackend = << >>
    /\ \A i \in 1..Len(fromBackend) :
           /\ fromBackend[i].n = 0
           /\ IsReady(fromBackend[i]) =>
                  fromBackend[i].val = "I" /\ i = Len(fromBackend)
    /\ tx = "I" /\ lastTxStatus = "I" /\ executed = << >>

BeforeInv == sent = << >> => Before

\* The messages rest are under way from the client to the backend, those that
\* inc has not forwarded as it will forward them.
Held == IF incPc = "forward" THEN 1 ELSE 0

RestIs(rest) ==
    /\ Len(rest) = Len(toBackend) + Held + Len(toProxy)
    /\ \A i \in 1..Len(toBackend) : toBackend[i] = rest[i]
    /\ incPc = "forward" => Rewritten(incMsg) = rest[Len(toBackend) + 1]
    /\ \A i \in 1..Len(toProxy) :
           Rewritten(toProxy[i]) = rest[Len(toBackend) + Held + i]

\* Behind the first k messages to the client come the given answers, received,
\* in rsp's hand or under way.
FlowIs(k, answers) ==
    /\ Read + Len(fromBackend) = k + Len(answers)
    /\ \A i \in 1..k : received[i].n = 0
    /\ \A i \in 1..Len(received) : i > k => received[i] = answers[i - k]
    /\ rspPc # "read" => rspMsg = answers[Read - k]
    /\ \A i \in 1..Len(fromBackend) : fromBackend[i] = answers[Read - k + i]

Stages == {"new", "parsed", "run", "error", "status", "ready", "done"}

\* What is under way in each stage of the request number n.
RestsAt(g, n, sql) ==
    CASE g = "new"    -> {<<Msg(n, "query", sql)>>,
                          <<Msg(n, "parse", sql), Msg(n, "execute", ""),
                            Msg(n, "sync", "")>>}
      [] g = "parsed" -> {<<Msg(n, "execute", ""), Msg(n, "sync", "")>>}
      [] g = "run"    -> {<<Msg(n, "sync", "")>>}
      [] g \in {"error", "status", "ready", "done"} -> {<< >>}

Result(p, n, sql) ==
    IF sql = "block" THEN Msg(n, "error", "") ELSE Outcome(n, p.st, sql)

AnswersAt(g, p, n, sql) ==
    CASE g \in {"new", "parsed", "error"} -> p.answers
      [] g \in {"run", "status", "ready"} -> Append(p.answers, Result(p, n, sql))
      [] g = "done" -> AfterRequest(p, n, sql).answers

\* Whether the backend is done with the request.
Ran(g) == g \in {"run", "done"}

ReadyCount == Cardinality({i \in 1..Len(received) : IsReady(received[i])})

StageInv(p, g, rest, n, sql) ==
    /\ RestIs(rest)
    /\ g \in {"error", "status", "ready"} =>
           incPc = g /\ sql = "block" /\ incMsg.n = n /\ incMsg.type = "query"
    /\ incPc \in {"error", "status", "ready"} => g = incPc
    /\ sql = "block" =>
           g \notin {"parsed", "run"} /\ rest \in {<< >>, <<Msg(n, "query", sql)>>}
    /\ g = "parsed" => stmt = sql
    /\ g = "ready" => txStatus = p.st
    /\ tx = IF Ran(g) THEN AfterRequest(p, n, sql).st ELSE p.st
    /\ executed = IF Ran(g) THEN AfterRequest(p, n, sql).ran ELSE p.ran

\* The answers: those to earlier requests have been received, and lastTxStatus
\* is the status of the last ReadyForQuery that rsp has read or inc has sent.
AnswerInv(k, p, g, n, sql) ==
    /\ FlowIs(k, AnswersAt(g, p, n, sql))
    /\ Len(received) >= k + 2 * n - 2
    /\ g \in {"status", "ready"} => Len(received) = k + 2 * n - 1
    /\ lastTxStatus =
           IF Read = k + 2 * n THEN AfterRequest(p, n, sql).st ELSE p.st
    /\ ReadyCount = IF Len(received) = k + 2 * n THEN n + 1 ELSE n

\* Request number n is under way, the answers to all requests begin behind the
\* first k messages, and p is what the requests before it amount to.
UnderWay(k, p, n, sql) ==
    \E g \in Stages : \E rest \in RestsAt(g, n, sql) :
        StageInv(p, g, rest, n, sql) /\ AnswerInv(k, p, g, n, sql)

IsPrior(p, n) ==
    /\ p.st \in TxStates
    /\ p.answers \in Seq(BackendMessages) /\ Len(p.answers) = 2 * n - 2
    /\ p.ran \in Seq([n : 1..MaxRequests, sql : Sqls])

Request(p, n, sql) ==
    /\ n \in 1..MaxRequests
    /\ IsPrior(p, n)
    /\ sql \in Sqls \cup {"block"}

RequestInv ==
    sent # << >> =>
        \E p \in {Prior}, n \in {Number}, sql \in {Text}, k \in 0..Len(received) :
            Request(p, n, sql) /\ UnderWay(k, p, n, sql)

QueryInv == AuthInv /\ BeforeInv /\ RequestInv

-----------------------------------------------------------------------------
(* The reference *)

Start == [st |-> "I", answers |-> << >>, ran |-> << >>]

\* The function that RunAll defines recursively, on 0..len.
IsRun(f, requests, len) ==
    f = [n \in 0..len |->
           IF n = 0 THEN Start
           ELSE AfterRequest(f[n - 1], n, Handler[requests[n]])]

LEMMA RunExists ==
  ASSUME NEW requests, NEW len \in Nat
  PROVE  \E f : IsRun(f, requests, len)
<1> DEFINE Step(f, n) == AfterRequest(f, n, Handler[requests[n]])
           T == {n \in Nat : \E f : IsRun(f, requests, n)}
<1>1. 0 \in T
  <2> DEFINE f == [d \in 0..0 |-> Start]
  <2>1. IsRun(f, requests, 0)
    BY DEF IsRun
  <2> QED BY <2>1
<1>2. ASSUME NEW n \in Nat, n \in T PROVE n + 1 \in T
  <2>1. PICK f : IsRun(f, requests, n)
    BY <1>2
  <2> DEFINE g == [d \in 0..(n + 1) |->
                     IF d = n + 1 THEN Step(f[n], n + 1) ELSE f[d]]
  <2>2. ASSUME NEW d \in 0..(n + 1)
        PROVE  g[d] = IF d = 0 THEN Start ELSE Step(g[d - 1], d)
    <3>1. CASE d = n + 1
      <4>1. g[d] = Step(f[n], d) /\ g[d - 1] = f[n] /\ d # 0
        BY <3>1
      <4> QED BY <4>1
    <3>2. CASE d # n + 1
      <4>1. d \in 0..n /\ g[d] = f[d]
        BY <3>2
      <4>2. d # 0 => d - 1 \in 0..(n + 1) /\ d - 1 # n + 1 /\ g[d - 1] = f[d - 1]
        BY <3>2
      <4>3. f[d] = IF d = 0 THEN Start ELSE Step(f[d - 1], d)
        BY <2>1, <4>1 DEF IsRun
      <4> QED BY <4>1, <4>2, <4>3
    <3> QED BY <3>1, <3>2
  <2>3. IsRun(g, requests, n + 1)
    BY <2>2 DEF IsRun
  <2> QED BY <2>3
<1> HIDE DEF T
<1>3. len \in T
  BY <1>1, <1>2, NatSetInduction
<1> QED BY <1>3 DEF T

SameUpTo(s, t, j) == \A i \in 1..j : s[i] = t[i]

\* A run depends on the requests before it only.
LEMMA RunsAgree ==
  ASSUME NEW s, NEW t, NEW j \in Nat, SameUpTo(s, t, j),
         NEW f, NEW g, IsRun(f, s, j), IsRun(g, t, j + 1)
  PROVE  f[j] = g[j]
<1> DEFINE k == j + 1
<1>0. k \in Nat /\ j <= k
  OBVIOUS
<1> DEFINE T == {n \in Nat : n <= j => f[n] = g[n]}
<1>1. /\ \A n \in 0..j : f[n] = IF n = 0 THEN Start
                                ELSE AfterRequest(f[n - 1], n, Handler[s[n]])
      /\ \A n \in 0..k : g[n] = IF n = 0 THEN Start
                                ELSE AfterRequest(g[n - 1], n, Handler[t[n]])
  BY DEF IsRun
<1> HIDE DEF k
<1>2. 0 \in T
  <2>1. 0 \in 0..j /\ 0 \in 0..k
    BY <1>0
  <2> QED BY <1>1, <2>1
<1>3. ASSUME NEW n \in Nat, n \in T PROVE n + 1 \in T
  <2> SUFFICES ASSUME n + 1 <= j PROVE f[n + 1] = g[n + 1]
    OBVIOUS
  <2>1. /\ n + 1 \in 0..j /\ n + 1 \in 0..k /\ n + 1 \in 1..j /\ n + 1 # 0
        /\ (n + 1) - 1 = n /\ n <= j
    BY <1>0
  <2>2. f[n] = g[n]
    BY <1>3, <2>1
  <2>3. f[n + 1] = AfterRequest(f[n], n + 1, Handler[s[n + 1]])
    BY <1>1, <2>1
  <2>4. g[n + 1] = AfterRequest(g[n], n + 1, Handler[t[n + 1]])
    BY <1>1, <2>1
  <2>5. s[n + 1] = t[n + 1]
    BY <2>1 DEF SameUpTo
  <2> QED BY <2>2, <2>3, <2>4, <2>5
<1> HIDE DEF T
<1>4. j \in T
  BY <1>2, <1>3, NatSetInduction
<1> QED BY <1>4 DEF T

LEMMA RunAllIs ==
  ASSUME NEW requests \in Seq(Sqls)
  PROVE  \E f : /\ IsRun(f, requests, Len(requests))
                /\ RunAll(requests) = f[Len(requests)]
<1> DEFINE F == CHOOSE f : IsRun(f, requests, Len(requests))
<1>1. RunAll(requests) = F[Len(requests)]
  BY DEF RunAll, IsRun, Start
<1>2. IsRun(F, requests, Len(requests))
  <2>1. Len(requests) \in Nat
    OBVIOUS
  <2> QED BY <2>1, RunExists
<1> QED BY <1>1, <1>2

\* The reference runs the requests one after the other.
LEMMA RunAllSteps ==
  /\ RunAll(<< >>) = Start
  /\ \A s \in Seq(Sqls), sql \in Sqls :
         /\ RunAll(Append(s, sql)) =
                AfterRequest(RunAll(s), Len(s) + 1, Handler[sql])
         /\ Earlier(Append(s, sql)) = s
<1>1. RunAll(<< >>) = Start
  <2>1. << >> \in Seq(Sqls) /\ Len(<< >>) = 0 /\ 0 \in 0..0
    OBVIOUS
  <2>2. PICK f : IsRun(f, << >>, 0) /\ RunAll(<< >>) = f[0]
    BY <2>1, RunAllIs
  <2> QED BY <2>1, <2>2 DEF IsRun
<1>2. ASSUME NEW s \in Seq(Sqls), NEW sql \in Sqls
      PROVE  /\ RunAll(Append(s, sql)) =
                    AfterRequest(RunAll(s), Len(s) + 1, Handler[sql])
             /\ Earlier(Append(s, sql)) = s
  <2> DEFINE t == Append(s, sql)
  <2>1. /\ t \in Seq(Sqls) /\ Len(t) = Len(s) + 1 /\ Len(s) \in Nat
        /\ \A i \in 1..Len(s) : t[i] = s[i]
        /\ t[Len(s) + 1] = sql
    BY AppendFacts
  <2> HIDE DEF t
  <2>2. PICK f : IsRun(f, s, Len(s)) /\ RunAll(s) = f[Len(s)]
    BY RunAllIs
  <2>3. PICK g : IsRun(g, t, Len(s) + 1) /\ RunAll(t) = g[Len(s) + 1]
    BY <2>1, RunAllIs
  <2>4. f[Len(s)] = g[Len(s)]
    <3>1. SameUpTo(s, t, Len(s))
      BY <2>1 DEF SameUpTo
    <3>2. Len(s) \in Nat /\ IsRun(f, s, Len(s)) /\ IsRun(g, t, Len(s) + 1)
      BY <2>1, <2>2, <2>3
    <3> QED BY <3>1, <3>2, RunsAgree
  <2>5. /\ Len(s) + 1 \in 0..(Len(s) + 1) /\ Len(s) + 1 # 0
        /\ (Len(s) + 1) - 1 = Len(s)
    BY <2>1
  <2>6. g[Len(s) + 1] = AfterRequest(g[Len(s)], Len(s) + 1, Handler[t[Len(s) + 1]])
    BY <2>3, <2>5 DEF IsRun
  <2>7. Earlier(t) = s
    <3>1. Earlier(t) = SubSeq(t, 1, Len(s))
      BY <2>1 DEF Earlier
    <3> QED BY <2>1, <3>1
  <2> QED BY <2>1, <2>2, <2>3, <2>4, <2>6, <2>7 DEF t
<1> QED BY <1>1, <1>2

-----------------------------------------------------------------------------
(* One request after the others *)

LEMMA AfterFacts ==
  ASSUME NEW p, NEW n \in 1..MaxRequests, IsPrior(p, n),
         NEW sql \in Sqls \cup {"block"}
  PROVE  /\ IsPrior(AfterRequest(p, n, sql), n + 1)
         /\ Result(p, n, sql) \in BackendMessages
         /\ ~IsReady(Result(p, n, sql))
         /\ AfterRequest(p, n, sql).answers =
                p.answers \o <<Result(p, n, sql),
                               Msg(n, "ready", AfterRequest(p, n, sql).st)>>
         /\ sql = "block" => /\ AfterRequest(p, n, sql).st = p.st
                             /\ AfterRequest(p, n, sql).ran = p.ran
                             /\ Result(p, n, sql) = Msg(n, "error", "")
         /\ sql # "block" =>
                /\ sql \in Sqls
                /\ AfterRequest(p, n, sql).st = TxAfter(p.st, sql)
                /\ AfterRequest(p, n, sql).ran =
                       IF Runs(p.st, sql)
                       THEN Append(p.ran, [n |-> n, sql |-> sql]) ELSE p.ran
                /\ Result(p, n, sql) = Outcome(n, p.st, sql)
<1> DEFINE a == AfterRequest(p, n, sql)
           r == Result(p, n, sql)
<1>1. /\ a.st = IF sql = "block" THEN p.st ELSE TxAfter(p.st, sql)
      /\ a.answers = p.answers \o <<r, Msg(n, "ready", a.st)>>
      /\ a.ran = IF sql # "block" /\ Runs(p.st, sql)
                 THEN Append(p.ran, [n |-> n, sql |-> sql]) ELSE p.ran
  BY DEF AfterRequest, Result
<1>2. sql # "block" => sql \in Sqls
  OBVIOUS
<1>3. r = IF sql = "block" THEN Msg(n, "error", "") ELSE Outcome(n, p.st, sql)
  BY DEF Result
<1>4. /\ p.st \in TxStates /\ p.answers \in Seq(BackendMessages)
      /\ Len(p.answers) = 2 * n - 2
      /\ p.ran \in Seq([n : 1..MaxRequests, sql : Sqls])
  BY DEF IsPrior
<1>5. n \in Nat /\ n \in 0..MaxRequests
  BY QueryAssumption
<1>6. r \in BackendMessages
  BY <1>3, <1>5, OutcomeFacts, NewMessages
<1>7. ~IsReady(r)
  <2>1. \A t \in {"complete", "error"} : ~IsReady(Msg(n, t, ""))
    BY DEF IsReady, Msg
  <2>2. ~IsReady(Outcome(n, p.st, sql))
    BY <2>1 DEF Outcome
  <2> QED BY <1>3, <2>1, <2>2
<1>8. a.st \in TxStates
  BY <1>1, <1>2, <1>4, TxTyped
<1>9. a.answers \in Seq(BackendMessages) /\ Len(a.answers) = 2 * (n + 1) - 2
  <2> DEFINE z == Msg(n, "ready", a.st)
  <2>1. z \in BackendMessages
    BY <1>5, <1>8, NewMessages
  <2> HIDE DEF a, r, z
  <2>2. <<r, z>> \in Seq(BackendMessages) /\ Len(<<r, z>>) = 2
    BY <1>6, <2>1
  <2>3. a.answers = p.answers \o <<r, z>>
    BY <1>1 DEF z
  <2> QED BY <1>4, <1>5, <2>2, <2>3, ConcatFacts
<1>10. a.ran \in Seq([n : 1..MaxRequests, sql : Sqls])
  <2>1. CASE sql # "block" /\ Runs(p.st, sql)
    <3>1. [n |-> n, sql |-> sql] \in [n : 1..MaxRequests, sql : Sqls]
      BY <1>2, <2>1
    <3>2. a.ran = Append(p.ran, [n |-> n, sql |-> sql])
      BY <1>1, <2>1
    <3> QED BY <1>4, <3>1, <3>2, AppendFacts
  <2>2. CASE ~(sql # "block" /\ Runs(p.st, sql))
    BY <1>1, <1>4, <2>2
  <2> QED BY <2>1, <2>2
<1>11. IsPrior(a, n + 1)
  BY <1>8, <1>9, <1>10 DEF IsPrior
<1> HIDE DEF a, r
<1>12. /\ sql = "block" => a.st = p.st /\ a.ran = p.ran /\ r = Msg(n, "error", "")
       /\ sql # "block" => /\ a.st = TxAfter(p.st, sql)
                           /\ a.ran = IF Runs(p.st, sql)
                                      THEN Append(p.ran, [n |-> n, sql |-> sql])
                                      ELSE p.ran
                           /\ r = Outcome(n, p.st, sql)
  BY <1>1, <1>3
<1> QED BY <1>1, <1>2, <1>6, <1>7, <1>11, <1>12 DEF a, r

AnswerCount(g, n) ==
    CASE g \in {"new", "parsed", "error"} -> 2 * n - 2
      [] g \in {"run", "status", "ready"} -> 2 * n - 1
      [] g = "done" -> 2 * n

\* The answers in each stage are a prefix of those at its end.
LEMMA StageAnswers ==
  ASSUME NEW p, NEW n \in 1..MaxRequests, IsPrior(p, n),
         NEW sql \in Sqls \cup {"block"}, NEW g \in Stages
  PROVE  LET a == AnswersAt(g, p, n, sql)
             all == AfterRequest(p, n, sql).answers
         IN  /\ a \in Seq(BackendMessages)
             /\ Len(a) = AnswerCount(g, n)
             /\ Len(a) >= 2 * n - 1 => a[2 * n - 1] = Result(p, n, sql)
             /\ Len(a) = 2 * n =>
                    a[2 * n] = Msg(n, "ready", AfterRequest(p, n, sql).st)
             /\ all \in Seq(BackendMessages) /\ Len(all) = 2 * n
             /\ \A i \in 1..Len(a) : a[i] = all[i]
<1> DEFINE a == AnswersAt(g, p, n, sql)
           all == AfterRequest(p, n, sql).answers
           r == Result(p, n, sql)
           z == Msg(n, "ready", AfterRequest(p, n, sql).st)
<1>1. /\ p.answers \in Seq(BackendMessages) /\ Len(p.answers) = 2 * n - 2
      /\ n \in Nat /\ n \in 0..MaxRequests
  BY QueryAssumption DEF IsPrior
<1>2. r \in BackendMessages /\ z \in BackendMessages /\ all = p.answers \o <<r, z>>
  BY <1>1, AfterFacts, NewMessages DEF IsPrior
<1>3. /\ g \in {"new", "parsed", "error"} => a = p.answers
      /\ g \in {"run", "status", "ready"} => a = Append(p.answers, r)
      /\ g = "done" => a = all
  BY DEF AnswersAt
<1>4. \/ g \in {"new", "parsed", "error"}
      \/ g \in {"run", "status", "ready"}
      \/ g = "done"
  BY DEF Stages
<1> HIDE DEF a, all, r, z
<1>5. /\ all \in Seq(BackendMessages) /\ Len(all) = 2 * n
      /\ \A i \in 1..(2 * n - 2) : all[i] = p.answers[i]
      /\ all[2 * n - 1] = r /\ all[2 * n] = z
  <2> DEFINE rz == <<r, z>>
  <2>1. /\ rz \in Seq(BackendMessages) /\ Len(rz) = 2
        /\ rz[1] = r /\ rz[2] = z /\ 1 \in 1..2 /\ 2 \in 1..2
        /\ all = p.answers \o rz
    BY <1>2
  <2> HIDE DEF rz
  <2>2. /\ all \in Seq(BackendMessages) /\ Len(all) = Len(p.answers) + 2
        /\ \A i \in 1..Len(p.answers) : all[i] = p.answers[i]
        /\ all[Len(p.answers) + 1] = r /\ all[Len(p.answers) + 2] = z
    <3>0. p.answers \in Seq(BackendMessages) /\ rz \in Seq(BackendMessages)
      BY <1>1, <2>1
    <3>1. /\ p.answers \o rz \in Seq(BackendMessages)
          /\ Len(p.answers \o rz) = Len(p.answers) + Len(rz)
          /\ \A i \in 1..Len(p.answers) : (p.answers \o rz)[i] = p.answers[i]
          /\ \A i \in 1..Len(rz) : (p.answers \o rz)[Len(p.answers) + i] = rz[i]
      BY <3>0, ConcatFacts
    <3>2. /\ all[Len(p.answers) + 1] = rz[1]
          /\ all[Len(p.answers) + 2] = rz[2]
      BY <2>1, <3>1
    <3> QED BY <2>1, <3>1, <3>2
  <2>3. Len(p.answers) + 1 = 2 * n - 1 /\ Len(p.answers) + 2 = 2 * n
    BY <1>1
  <2> QED BY <1>1, <2>2, <2>3
<1>6. CASE g \in {"new", "parsed", "error"}
  <2>1. a = p.answers
    BY <1>3, <1>6
  <2>2. ~(Len(a) >= 2 * n - 1) /\ Len(a) # 2 * n
    BY <1>1, <2>1
  <2> QED BY <1>1, <1>5, <1>6, <2>1, <2>2 DEF a, all, AnswerCount
<1>7. CASE g \in {"run", "status", "ready"}
  <2>1. a = Append(p.answers, r)
    BY <1>3, <1>7
  <2>2. /\ a \in Seq(BackendMessages) /\ Len(a) = 2 * n - 1
        /\ \A i \in 1..(2 * n - 2) : a[i] = p.answers[i]
        /\ a[2 * n - 1] = r
    <3>1. /\ a \in Seq(BackendMessages) /\ Len(a) = Len(p.answers) + 1
          /\ \A i \in 1..Len(p.answers) : a[i] = p.answers[i]
          /\ a[Len(p.answers) + 1] = r
      BY <1>1, <1>2, <2>1, AppendFacts
    <3>2. Len(p.answers) + 1 = 2 * n - 1
      BY <1>1
    <3> QED BY <1>1, <3>1, <3>2
  <2>3. \A i \in 1..(2 * n - 1) : i \in 1..(2 * n - 2) \/ i = 2 * n - 1
    BY <1>1
  <2>4. \A i \in 1..Len(a) : a[i] = all[i]
    BY <1>5, <2>2, <2>3
  <2>5. Len(a) # 2 * n
    BY <1>1, <2>2
  <2> QED BY <1>5, <1>7, <2>2, <2>4, <2>5 DEF a, all, r, AnswerCount
<1>8. CASE g = "done"
  <2>1. a = all
    BY <1>3, <1>8
  <2> QED BY <1>5, <1>8, <2>1 DEF a, all, r, z, AnswerCount
<1> QED BY <1>4, <1>6, <1>7, <1>8

-----------------------------------------------------------------------------
(* Answers on their way *)

LEMMA ReadFacts ==
  ASSUME TypeOK, NEW k \in Nat, NEW a \in Seq(BackendMessages), FlowIs(k, a),
         k <= Len(received)
  PROVE  /\ Len(received) \in Nat /\ Len(fromBackend) \in Nat /\ Len(a) \in Nat
         /\ Read \in Nat /\ Read <= k + Len(a)
         /\ rspPc = "read" => Read = Len(received)
         /\ rspPc # "read" => Read = Len(received) + 1 /\ Read - k \in 1..Len(a)
         /\ \A i \in 1..Len(received) : i > k => i - k \in 1..Len(a)
         /\ \A i \in 1..Len(fromBackend) : Read - k + i \in 1..Len(a)
<1>1. Len(received) \in Nat /\ Len(fromBackend) \in Nat /\ Len(a) \in Nat
  BY Numbers
<1>2. /\ rspPc = "read" => Read = Len(received)
      /\ rspPc # "read" => Read = Len(received) + 1
  BY <1>1 DEF Read
<1>3. Read \in Nat /\ Read >= Len(received)
  BY <1>1, <1>2
<1>4. Read + Len(fromBackend) = k + Len(a)
  BY DEF FlowIs
<1>5. Read <= k + Len(a)
  BY <1>1, <1>3, <1>4
<1>6. rspPc # "read" => Read - k \in 1..Len(a)
  BY <1>1, <1>2, <1>5
<1>7. \A i \in 1..Len(received) : i > k => i - k \in 1..Len(a)
  BY <1>1, <1>3, <1>5
<1>8. \A i \in 1..Len(fromBackend) : Read - k + i \in 1..Len(a)
  BY <1>1, <1>3, <1>4
<1> QED BY <1>1, <1>2, <1>3, <1>5, <1>6, <1>7, <1>8

\* The backend sends more.
LEMMA FlowExtended ==
  ASSUME TypeOK, NEW k \in Nat, NEW a \in Seq(BackendMessages), FlowIs(k, a),
         k <= Len(received),
         NEW more \in Seq(BackendMessages), fromBackend' = fromBackend \o more,
         UNCHANGED <<received, rspPc, rspMsg>>
  PROVE  FlowIs(k, a \o more)' /\ Read' = Read
<1> DEFINE b == a \o more
<1>1. /\ Len(received) \in Nat /\ Len(fromBackend) \in Nat /\ Len(a) \in Nat
      /\ Read \in Nat /\ Read <= k + Len(a)
      /\ rspPc # "read" => Read - k \in 1..Len(a)
      /\ \A i \in 1..Len(received) : i > k => i - k \in 1..Len(a)
      /\ \A i \in 1..Len(fromBackend) : Read - k + i \in 1..Len(a)
  BY ReadFacts
<1>2. /\ Len(more) \in Nat /\ Len(b) = Len(a) + Len(more)
      /\ \A i \in 1..Len(a) : b[i] = a[i]
      /\ \A i \in 1..Len(more) : b[Len(a) + i] = more[i]
  BY ConcatFacts
<1>3. /\ Len(fromBackend') = Len(fromBackend) + Len(more)
      /\ \A i \in 1..Len(fromBackend) : fromBackend'[i] = fromBackend[i]
      /\ \A i \in 1..Len(more) : fromBackend'[Len(fromBackend) + i] = more[i]
  <2>1. fromBackend \in Seq(BackendMessages)
    BY DEF TypeOK
  <2> QED BY <2>1, ConcatFacts
<1>4. Read' = Read
  BY DEF Read
<1>5. /\ Read + Len(fromBackend) = k + Len(a)
      /\ \A i \in 1..k : received[i].n = 0
      /\ \A i \in 1..Len(received) : i > k => received[i] = a[i - k]
      /\ rspPc # "read" => rspMsg = a[Read - k]
      /\ \A i \in 1..Len(fromBackend) : fromBackend[i] = a[Read - k + i]
  BY DEF FlowIs
<1> HIDE DEF b
<1>6. Read' + Len(fromBackend') = k + Len(b)
  <2> DEFINE r == Read  f == Len(fromBackend)  l == Len(a)  m == Len(more)
  <2>1. /\ r \in Nat /\ f \in Nat /\ l \in Nat /\ m \in Nat /\ r + f = k + l
        /\ Len(b) = l + m /\ Len(fromBackend') = f + m /\ Read' = r
    BY <1>1, <1>2, <1>3, <1>4, <1>5
  <2> HIDE DEF r, f, l, m
  <2>2. r + (f + m) = k + (l + m)
    BY <2>1
  <2> QED BY <2>1, <2>2
<1>7. \A i \in 1..Len(received) : i > k => received[i] = b[i - k]
  BY <1>1, <1>2, <1>5
<1>8. rspPc # "read" => rspMsg = b[Read - k]
  BY <1>1, <1>2, <1>5
<1>9. ASSUME NEW i \in 1..Len(fromBackend') PROVE fromBackend'[i] = b[Read - k + i]
  <2>1. CASE i \in 1..Len(fromBackend)
    BY <1>1, <1>2, <1>3, <1>5, <2>1
  <2>2. CASE i \notin 1..Len(fromBackend)
    <3>1. /\ i - Len(fromBackend) \in 1..Len(more)
          /\ i = Len(fromBackend) + (i - Len(fromBackend))
      BY <1>1, <1>2, <1>3, <2>2
    <3>2. fromBackend'[i] = more[i - Len(fromBackend)]
      BY <1>3, <3>1
    <3>3. b[Len(a) + (i - Len(fromBackend))] = more[i - Len(fromBackend)]
      BY <1>2, <3>1
    <3>4. Read - k + i = Len(a) + (i - Len(fromBackend))
      <4> DEFINE r == Read  f == Len(fromBackend)  l == Len(a)
      <4>1. r \in Nat /\ f \in Nat /\ l \in Nat /\ r + f = k + l
        BY <1>1, <1>5
      <4> HIDE DEF r, f, l
      <4>2. r - k + i = l + (i - f)
        BY <4>1
      <4> QED BY <4>2 DEF r, f, l
    <3> QED BY <3>2, <3>3, <3>4
  <2> QED BY <2>1, <2>2
<1>10. FlowIs(k, b)'
  <2>1. \A i \in 1..Len(fromBackend') : fromBackend'[i] = b[Read - k + i]
    BY <1>9
  <2> QED BY <1>4, <1>5, <1>6, <1>7, <1>8, <2>1 DEF FlowIs
<1> QED BY <1>4, <1>10 DEF b

\* inc answers when no answer is under way.
LEMMA FlowAnswered ==
  ASSUME TypeOK, NEW k \in Nat, NEW a \in Seq(BackendMessages), FlowIs(k, a),
         Len(received) = k + Len(a), NEW e \in BackendMessages,
         received' = Append(received, e), UNCHANGED <<fromBackend, rspPc, rspMsg>>
  PROVE  /\ FlowIs(k, Append(a, e))'
         /\ Read = Len(received) /\ Read' = Len(received) + 1
<1> DEFINE b == Append(a, e)
<1>1. Len(a) \in Nat /\ k <= Len(received)
  <2>1. Len(a) \in Nat
    OBVIOUS
  <2> QED BY <2>1
<1>2. /\ Len(received) \in Nat /\ Len(fromBackend) \in Nat
      /\ Read \in Nat /\ Read <= k + Len(a)
      /\ rspPc = "read" => Read = Len(received)
      /\ rspPc # "read" => Read = Len(received) + 1
      /\ \A i \in 1..Len(received) : i > k => i - k \in 1..Len(a)
  BY <1>1, ReadFacts
<1>3. /\ Len(b) = Len(a) + 1
      /\ \A i \in 1..Len(a) : b[i] = a[i]
      /\ b[Len(a) + 1] = e
  BY AppendFacts
<1>4. /\ Len(received') = Len(received) + 1
      /\ \A i \in 1..Len(received) : received'[i] = received[i]
      /\ received'[Len(received) + 1] = e
  <2> DEFINE r == Append(received, e)
  <2>1. received \in Seq(BackendMessages) /\ e \in BackendMessages
    BY DEF TypeOK
  <2>2. /\ Len(r) = Len(received) + 1
        /\ \A i \in 1..Len(received) : r[i] = received[i]
        /\ r[Len(received) + 1] = e
    BY ONLY <2>1, AppendFacts
  <2> HIDE DEF r
  <2>3. received' = r
    BY DEF r
  <2> QED BY <2>2, <2>3
<1>5. /\ Read + Len(fromBackend) = k + Len(a)
      /\ \A i \in 1..k : received[i].n = 0
      /\ \A i \in 1..Len(received) : i > k => received[i] = a[i - k]
  BY DEF FlowIs
<1>6. rspPc = "read" /\ Read = Len(received)
  BY <1>1, <1>2
<1>7. Read' = Len(received) + 1
  BY <1>2, <1>4, <1>6 DEF Read
<1>8. Len(fromBackend) = 0
  BY <1>1, <1>2, <1>5, <1>6
<1> HIDE DEF b
<1>9. Read' + Len(fromBackend') = k + Len(b)
  BY <1>1, <1>2, <1>3, <1>7, <1>8
<1>10. \A i \in 1..k : received'[i].n = 0
  BY <1>1, <1>2, <1>4, <1>5
<1>11. ASSUME NEW i \in 1..Len(received'), i > k PROVE received'[i] = b[i - k]
  <2>1. CASE i \in 1..Len(received)
    BY <1>2, <1>3, <1>4, <1>5, <1>11, <2>1
  <2>2. CASE i \notin 1..Len(received)
    <3>1. i = Len(received) + 1 /\ i - k = Len(a) + 1
      BY <1>1, <1>2, <1>4, <2>2
    <3> QED BY <1>3, <1>4, <3>1
  <2> QED BY <2>1, <2>2
<1>12. FlowIs(k, b)'
  <2>1. \A i \in 1..Len(received') : i > k => received'[i] = b[i - k]
    BY <1>11
  <2>2. rspPc' = "read"
    BY <1>6
  <2>3. \A i : i \notin 1..Len(fromBackend')
    BY <1>8
  <2> QED BY <1>9, <1>10, <2>1, <2>2, <2>3 DEF FlowIs
<1> QED BY <1>6, <1>7, <1>12 DEF b

\* rsp reads the next answer, and writes it.
LEMMA FlowReceived ==
  ASSUME TypeOK, NEW k \in Nat, NEW a \in Seq(BackendMessages), FlowIs(k, a),
         k <= Len(received), fromBackend # << >>, rspPc = "read",
         fromBackend' = Tail(fromBackend), rspMsg' = Head(fromBackend),
         rspPc' # "read", received' = received
  PROVE  /\ FlowIs(k, a)' /\ Read = Len(received) /\ Read' = Read + 1
         /\ Read' - k \in 1..Len(a) /\ rspMsg' = a[Read' - k]
<1>1. /\ Len(received) \in Nat /\ Len(fromBackend) \in Nat /\ Len(a) \in Nat
      /\ Read \in Nat /\ Read = Len(received)
      /\ \A i \in 1..Len(fromBackend) : Read - k + i \in 1..Len(a)
  BY ReadFacts
<1>2. /\ Len(fromBackend) > 0 /\ Len(fromBackend') = Len(fromBackend) - 1
      /\ \A i \in 1..(Len(fromBackend) - 1) : fromBackend'[i] = fromBackend[i + 1]
      /\ rspMsg' = fromBackend[1]
  <2>1. fromBackend \in Seq(BackendMessages)
    BY DEF TypeOK
  <2> QED BY <2>1, TailFacts
<1>3. Read' = Read + 1
  BY <1>1 DEF Read
<1>4. /\ Read + Len(fromBackend) = k + Len(a)
      /\ \A i \in 1..k : received[i].n = 0
      /\ \A i \in 1..Len(received) : i > k => received[i] = a[i - k]
      /\ \A i \in 1..Len(fromBackend) : fromBackend[i] = a[Read - k + i]
  BY DEF FlowIs
<1>5. Read' + Len(fromBackend') = k + Len(a)
  BY <1>1, <1>2, <1>3, <1>4
<1>6. Read' - k \in 1..Len(a) /\ rspMsg' = a[Read' - k]
  <2>1. 1 \in 1..Len(fromBackend) /\ Read' - k = Read - k + 1
    BY <1>1, <1>2, <1>3
  <2> QED BY <1>1, <1>2, <1>4, <2>1
<1>7. \A i \in 1..Len(fromBackend') : fromBackend'[i] = a[Read' - k + i]
  <2> SUFFICES ASSUME NEW i \in 1..Len(fromBackend')
               PROVE  fromBackend'[i] = a[Read' - k + i]
    OBVIOUS
  <2>1. /\ i \in 1..(Len(fromBackend) - 1) /\ i + 1 \in 1..Len(fromBackend)
        /\ Read' - k + i = Read - k + (i + 1)
    BY <1>1, <1>2, <1>3
  <2> QED BY <1>2, <1>4, <2>1
<1>8. FlowIs(k, a)'
  BY <1>4, <1>5, <1>6, <1>7 DEF FlowIs
<1> QED BY <1>1, <1>3, <1>6, <1>8

LEMMA FlowWritten ==
  ASSUME TypeOK, NEW k \in Nat, NEW a \in Seq(BackendMessages), FlowIs(k, a),
         k <= Len(received), rspPc # "read", rspPc' = "read",
         rspMsg \in BackendMessages,
         received' = Append(received, rspMsg), fromBackend' = fromBackend
  PROVE  /\ FlowIs(k, a)' /\ Read = Len(received) + 1 /\ Read' = Read
         /\ Read - k \in 1..Len(a) /\ rspMsg = a[Read - k]
<1>1. /\ Len(received) \in Nat /\ Len(fromBackend) \in Nat /\ Len(a) \in Nat
      /\ Read \in Nat /\ Read = Len(received) + 1 /\ Read - k \in 1..Len(a)
  BY ReadFacts
<1>2. /\ Len(received') = Len(received) + 1
      /\ \A i \in 1..Len(received) : received'[i] = received[i]
      /\ received'[Len(received) + 1] = rspMsg
  <2>1. received \in Seq(BackendMessages)
    BY DEF TypeOK
  <2> QED BY <2>1, AppendFacts
<1>3. Read' = Read
  BY <1>1, <1>2 DEF Read
<1>4. /\ Read + Len(fromBackend) = k + Len(a)
      /\ \A i \in 1..k : received[i].n = 0
      /\ \A i \in 1..Len(received) : i > k => received[i] = a[i - k]
      /\ rspMsg = a[Read - k]
      /\ \A i \in 1..Len(fromBackend) : fromBackend[i] = a[Read - k + i]
  BY DEF FlowIs
<1>5. \A i \in 1..k : received'[i].n = 0
  BY <1>1, <1>2, <1>4
<1>6. \A i \in 1..Len(received') : i > k => received'[i] = a[i - k]
  <2> SUFFICES ASSUME NEW i \in 1..Len(received'), i > k
               PROVE  received'[i] = a[i - k]
    OBVIOUS
  <2>1. i \in 1..Len(received) \/ i = Read
    BY <1>1, <1>2
  <2>2. received'[Read] = a[Read - k]
    BY <1>1, <1>2, <1>4
  <2> QED BY <1>2, <1>4, <2>1, <2>2
<1>7. FlowIs(k, a)'
  BY <1>3, <1>4, <1>5, <1>6 DEF FlowIs
<1> QED BY <1>1, <1>3, <1>4, <1>7

\* One more message to the client.
LEMMA CountAppend ==
  ASSUME TypeOK, NEW e \in BackendMessages, received' = Append(received, e)
  PROVE  /\ Len(received) \in Nat /\ Len(received') = Len(received) + 1
         /\ ReadyCount \in Nat
         /\ ReadyCount' = IF IsReady(e) THEN ReadyCount + 1 ELSE ReadyCount
<1> DEFINE R == {i \in 1..Len(received) : IsReady(received[i])}
           Q == {i \in 1..Len(received') : IsReady(received'[i])}
<1>1. received \in Seq(BackendMessages)
  BY DEF TypeOK
<1>2. /\ Len(received) \in Nat /\ Len(received') = Len(received) + 1
      /\ \A i \in 1..Len(received) : received'[i] = received[i]
      /\ received'[Len(received) + 1] = e
  BY <1>1, AppendFacts
<1>3. IsFiniteSet(R)
  <2>1. IsFiniteSet(1..Len(received))
    BY <1>2, FS_Interval
  <2> QED BY <2>1, FS_Subset
<1>4. Len(received) + 1 \notin R
  BY <1>2
<1>5. Q = IF IsReady(e) THEN R \cup {Len(received) + 1} ELSE R
  BY <1>2
<1>6. ReadyCount = Cardinality(R) /\ ReadyCount' = Cardinality(Q)
  BY DEF ReadyCount, IsReady
<1> HIDE DEF R, Q
<1>7. Cardinality(R) \in Nat
  BY <1>3, FS_CardinalityType
<1>8. Cardinality(R \cup {Len(received) + 1}) = Cardinality(R) + 1
  BY <1>3, <1>4, FS_AddElement
<1> QED BY <1>2, <1>5, <1>6, <1>7, <1>8

-----------------------------------------------------------------------------
(* Messages on their way to the backend *)

\* The messages of a request that are left in each stage.
RestShape(g, rest, n, sql) ==
    /\ g = "new" => \/ rest = <<Msg(n, "query", sql)>>
                    \/ rest = <<Msg(n, "parse", sql), Msg(n, "execute", ""),
                                Msg(n, "sync", "")>>
    /\ g = "parsed" => rest = <<Msg(n, "execute", ""), Msg(n, "sync", "")>>
    /\ g = "run" => rest = <<Msg(n, "sync", "")>>
    /\ g \in {"error", "status", "ready", "done"} => rest = << >>

AreOf(rest, n, sql) ==
    \A i \in 1..Len(rest) :
        /\ rest[i].n = n
        /\ rest[i].type \in {"query", "parse", "execute", "sync"}
        /\ rest[i].type \in {"query", "parse"} => rest[i].val = sql

LEMMA RestFacts ==
  ASSUME NEW n, NEW sql, NEW g \in Stages, NEW rest \in RestsAt(g, n, sql)
  PROVE  RestShape(g, rest, n, sql) /\ AreOf(rest, n, sql)
<1>1. RestShape(g, rest, n, sql)
  BY DEF RestsAt, RestShape
<1>2. \/ rest = <<Msg(n, "query", sql)>>
      \/ rest = <<Msg(n, "parse", sql), Msg(n, "execute", ""), Msg(n, "sync", "")>>
      \/ rest = <<Msg(n, "execute", ""), Msg(n, "sync", "")>>
      \/ rest = <<Msg(n, "sync", "")>>
      \/ rest = << >>
  BY <1>1 DEF Stages, RestShape
<1>3. AreOf(rest, n, sql)
  <2> DEFINE q == Msg(n, "query", sql)  p == Msg(n, "parse", sql)
             e == Msg(n, "execute", "")  s == Msg(n, "sync", "")
  <2>1. \A m \in {q, p, e, s} :
            /\ m.n = n
            /\ m.type \in {"query", "parse", "execute", "sync"}
            /\ m.type \in {"query", "parse"} => m.val = sql
    <3>1. /\ q.n = n /\ q.type = "query" /\ q.val = sql
          /\ p.n = n /\ p.type = "parse" /\ p.val = sql
          /\ e.n = n /\ e.type = "execute" /\ s.n = n /\ s.type = "sync"
      BY DEF Msg
    <3> HIDE DEF q, p, e, s
    <3> QED BY <3>1
  <2> HIDE DEF q, p, e, s
  <2>2. \/ rest = <<q>> \/ rest = <<p, e, s>> \/ rest = <<e, s>>
        \/ rest = <<s>> \/ rest = << >>
    BY <1>2 DEF q, p, e, s
  <2>3. \A i \in 1..Len(rest) : rest[i] \in {q, p, e, s}
    BY <2>2
  <2> QED BY <2>1, <2>3 DEF AreOf
<1> QED BY <1>1, <1>3

\* The next message for the backend, which inc has forwarded already.
LEMMA RestArrives ==
  ASSUME TypeOK, NEW rest, RestIs(rest), toBackend # << >>,
         NEW next, Len(next) = Len(rest) - 1,
         \A i \in 1..Len(next) : next[i] = rest[i + 1],
         toBackend' = Tail(toBackend), UNCHANGED <<toProxy, incPc, incMsg>>
  PROVE  RestIs(next)' /\ Head(toBackend) = rest[1] /\ Len(rest) > 0
<1>1. /\ Len(toBackend) \in Nat /\ Len(toBackend) > 0
      /\ Len(toBackend') = Len(toBackend) - 1
      /\ \A i \in 1..(Len(toBackend) - 1) : toBackend'[i] = toBackend[i + 1]
      /\ Head(toBackend) = toBackend[1]
  <2>1. toBackend \in Seq(FrontendMessages)
    BY DEF TypeOK
  <2> QED BY <2>1, TailFacts
<1>2. /\ Len(rest) = Len(toBackend) + Held + Len(toProxy)
      /\ \A i \in 1..Len(toBackend) : toBackend[i] = rest[i]
      /\ incPc = "forward" => Rewritten(incMsg) = rest[Len(toBackend) + 1]
      /\ \A i \in 1..Len(toProxy) :
             Rewritten(toProxy[i]) = rest[Len(toBackend) + Held + i]
  BY DEF RestIs
<1>3. /\ Len(toProxy) \in Nat /\ Held \in Nat /\ Held' = Held
      /\ incPc = "forward" => Held = 1
  BY Numbers DEF Held
<1>4. Len(next) = Len(toBackend') + Held + Len(toProxy)
  BY <1>1, <1>2, <1>3
<1>5. \A i \in 1..Len(toBackend') : toBackend'[i] = next[i]
  <2> SUFFICES ASSUME NEW i \in 1..Len(toBackend') PROVE toBackend'[i] = next[i]
    OBVIOUS
  <2>1. /\ i \in 1..(Len(toBackend) - 1) /\ i + 1 \in 1..Len(toBackend)
        /\ i \in 1..Len(next)
    BY <1>1, <1>3, <1>4
  <2> QED BY <1>1, <1>2, <2>1
<1>6. incPc = "forward" => Rewritten(incMsg) = next[Len(toBackend') + 1]
  <2> SUFFICES ASSUME incPc = "forward"
               PROVE  Rewritten(incMsg) = next[Len(toBackend') + 1]
    OBVIOUS
  <2>1. /\ Len(toBackend') + 1 \in 1..Len(next)
        /\ (Len(toBackend') + 1) + 1 = Len(toBackend) + 1
    BY <1>1, <1>3, <1>4
  <2> QED BY <1>2, <2>1
<1>7. \A i \in 1..Len(toProxy) :
          Rewritten(toProxy[i]) = next[Len(toBackend') + Held + i]
  <2> SUFFICES ASSUME NEW i \in 1..Len(toProxy)
               PROVE  Rewritten(toProxy[i]) = next[Len(toBackend') + Held + i]
    OBVIOUS
  <2>1. /\ Len(toBackend') + Held + i \in 1..Len(next)
        /\ (Len(toBackend') + Held + i) + 1 = Len(toBackend) + Held + i
    BY <1>1, <1>3, <1>4
  <2> QED BY <1>2, <2>1
<1>8. RestIs(next)'
  <2>1. \A m : Rewritten(m)' = Rewritten(m)
    BY DEF Rewritten
  <2> QED BY <1>3, <1>4, <1>5, <1>6, <1>7, <2>1 DEF RestIs, Rewritten
<1>9. Head(toBackend) = rest[1]
  <2>1. 1 \in 1..Len(toBackend)
    BY <1>1
  <2> QED BY <1>1, <1>2, <2>1
<1>10. Len(rest) > 0
  BY <1>1, <1>2, <1>3
<1> QED BY <1>8, <1>9, <1>10

\* inc takes a message that it is going to forward, and forwards it.
LEMMA RestTaken ==
  ASSUME TypeOK, NEW rest, RestIs(rest), toProxy # << >>,
         toProxy' = Tail(toProxy), incMsg' = Head(toProxy),
         incPc # "forward", incPc' = "forward", toBackend' = toBackend
  PROVE  RestIs(rest)'
<1>1. /\ Len(toProxy) \in Nat /\ Len(toProxy) > 0
      /\ Len(toProxy') = Len(toProxy) - 1
      /\ \A i \in 1..(Len(toProxy) - 1) : toProxy'[i] = toProxy[i + 1]
      /\ Head(toProxy) = toProxy[1]
  <2>1. toProxy \in Seq(FrontendMessages)
    BY DEF TypeOK
  <2> QED BY <2>1, TailFacts
<1>2. Len(toBackend) \in Nat /\ Held = 0 /\ Held' = 1
  BY Numbers DEF Held
<1>3. /\ Len(rest) = Len(toBackend) + Len(toProxy)
      /\ \A i \in 1..Len(toBackend) : toBackend[i] = rest[i]
      /\ \A i \in 1..Len(toProxy) : Rewritten(toProxy[i]) = rest[Len(toBackend) + i]
  BY <1>1, <1>2 DEF RestIs
<1>4. Rewritten(incMsg') = rest[Len(toBackend) + 1]
  <2>1. 1 \in 1..Len(toProxy)
    BY <1>1
  <2> QED BY <1>1, <1>3, <2>1
<1>5. \A i \in 1..Len(toProxy') :
          Rewritten(toProxy'[i]) = rest[Len(toBackend) + 1 + i]
  <2> SUFFICES ASSUME NEW i \in 1..Len(toProxy')
               PROVE  Rewritten(toProxy'[i]) = rest[Len(toBackend) + 1 + i]
    OBVIOUS
  <2>1. /\ i \in 1..(Len(toProxy) - 1) /\ i + 1 \in 1..Len(toProxy)
        /\ Len(toBackend) + 1 + i = Len(toBackend) + (i + 1)
    BY <1>1, <1>2
  <2> QED BY <1>1, <1>3, <2>1
<1>6. Len(rest) = Len(toBackend') + Held' + Len(toProxy')
  BY <1>1, <1>2, <1>3
<1> QED BY <1>2, <1>3, <1>4, <1>5, <1>6 DEF RestIs, Rewritten

LEMMA RestForwarded ==
  ASSUME TypeOK, NEW rest, RestIs(rest), incPc = "forward", incPc' # "forward",
         Rewritten(incMsg) \in FrontendMessages,
         toBackend' = Append(toBackend, Rewritten(incMsg)), toProxy' = toProxy
  PROVE  RestIs(rest)'
<1>1. /\ Len(toBackend) \in Nat /\ Len(toBackend') = Len(toBackend) + 1
      /\ \A i \in 1..Len(toBackend) : toBackend'[i] = toBackend[i]
      /\ toBackend'[Len(toBackend) + 1] = Rewritten(incMsg)
  <2>1. toBackend \in Seq(FrontendMessages)
    BY DEF TypeOK
  <2> QED BY <2>1, AppendFacts
<1>2. Len(toProxy) \in Nat /\ Held = 1 /\ Held' = 0
  BY Numbers DEF Held
<1>3. /\ Len(rest) = Len(toBackend) + 1 + Len(toProxy)
      /\ \A i \in 1..Len(toBackend) : toBackend[i] = rest[i]
      /\ Rewritten(incMsg) = rest[Len(toBackend) + 1]
      /\ \A i \in 1..Len(toProxy) :
             Rewritten(toProxy[i]) = rest[Len(toBackend) + 1 + i]
  BY <1>2 DEF RestIs
<1>4. Len(rest) = Len(toBackend') + Held' + Len(toProxy')
  BY <1>1, <1>2, <1>3
<1>5. \A i \in 1..Len(toBackend') : toBackend'[i] = rest[i]
  <2> SUFFICES ASSUME NEW i \in 1..Len(toBackend') PROVE toBackend'[i] = rest[i]
    OBVIOUS
  <2>1. i \in 1..Len(toBackend) \/ i = Len(toBackend) + 1
    BY <1>1
  <2> QED BY <1>1, <1>3, <2>1
<1>6. \A i \in 1..Len(toProxy') :
          Rewritten(toProxy'[i]) = rest[Len(toBackend') + Held' + i]
  <2>1. Len(toBackend') + Held' = Len(toBackend) + 1
    BY <1>1, <1>2
  <2> QED BY <1>3, <2>1
<1> QED BY <1>4, <1>5, <1>6 DEF RestIs, Rewritten

-----------------------------------------------------------------------------
(* The steps of a request *)

LEMMA StageCounts ==
  ASSUME NEW p, NEW n, NEW sql, Request(p, n, sql), NEW g \in Stages
  PROVE  /\ AnswersAt(g, p, n, sql) \in Seq(BackendMessages)
         /\ Len(AnswersAt(g, p, n, sql)) = AnswerCount(g, n)
  BY StageAnswers DEF Request

\* How far the answers have got in each stage.
LEMMA AnswersRead ==
  ASSUME TypeOK, NEW k \in Nat, NEW p, NEW n, NEW sql, Request(p, n, sql),
         NEW g \in Stages, AnswerInv(k, p, g, n, sql)
  PROVE  /\ n \in Nat /\ k <= Len(received) /\ Len(received) \in Nat
         /\ Read \in Nat /\ Len(received) >= k + 2 * n - 2
         /\ Read >= Len(received)
         /\ Read + Len(fromBackend) = k + Len(AnswersAt(g, p, n, sql))
         /\ Len(fromBackend) \in Nat
         /\ AnswersAt(g, p, n, sql) \in Seq(BackendMessages)
         /\ FlowIs(k, AnswersAt(g, p, n, sql))
<1>1. n \in Nat /\ n >= 1 /\ n \in 1..MaxRequests
  BY QueryAssumption DEF Request
<1>2. Len(received) \in Nat /\ Len(fromBackend) \in Nat
  BY Numbers
<1>3. Len(received) >= k + 2 * n - 2 /\ FlowIs(k, AnswersAt(g, p, n, sql))
  BY DEF AnswerInv
<1>4. AnswersAt(g, p, n, sql) \in Seq(BackendMessages)
  BY StageAnswers DEF Request
<1>5. k <= Len(received)
  BY <1>1, <1>2, <1>3
<1>6. Read \in Nat /\ Read >= Len(received)
  BY <1>2 DEF Read
<1>7. Read + Len(fromBackend) = k + Len(AnswersAt(g, p, n, sql))
  BY <1>3 DEF FlowIs
<1> QED BY <1>1, <1>2, <1>3, <1>4, <1>5, <1>6, <1>7

\* A step that only moves inc between its drain loop and Receive.
LEMMA UnderWayKept ==
  ASSUME NEW k, NEW p, NEW n, NEW sql, UnderWay(k, p, n, sql),
         UNCHANGED <<toProxy, toBackend, incMsg, txStatus, tx, stmt, executed,
                     received, rspPc, rspMsg, fromBackend, lastTxStatus>>,
         incPc' = incPc \/ {incPc, incPc'} \subseteq {"drain", "receive"}
  PROVE  UnderWay(k, p, n, sql)'
<1>0. PICK g \in Stages : \E rest \in RestsAt(g, n, sql) :
          StageInv(p, g, rest, n, sql) /\ AnswerInv(k, p, g, n, sql)
  BY DEF UnderWay
<1>1. PICK rest \in RestsAt(g, n, sql) :
          StageInv(p, g, rest, n, sql) /\ AnswerInv(k, p, g, n, sql)
  BY <1>0
<1>2. Held' = Held /\ Read' = Read
  BY DEF Held, Read
<1>3. ReadyCount' = ReadyCount
  BY DEF ReadyCount, IsReady
<1>4. RestIs(rest)'
  BY <1>1, <1>2 DEF StageInv, RestIs, Rewritten
<1>5. StageInv(p, g, rest, n, sql)'
  BY <1>1, <1>4 DEF StageInv
<1>6. FlowIs(k, AnswersAt(g, p, n, sql))'
  BY <1>1, <1>2 DEF AnswerInv, FlowIs
<1>7. AnswerInv(k, p, g, n, sql)'
  BY <1>1, <1>2, <1>3, <1>6 DEF AnswerInv
<1> QED BY <1>5, <1>7 DEF UnderWay

\* No authentication reply is under way any more.
LEMMA NoReplies ==
  ASSUME AuthInv, sent # << >>
  PROVE  /\ \A i \in 1..Len(toProxy) : ~IsReply(toProxy[i])
         /\ ~IsReply(incMsg)
         /\ \A i \in 1..Len(toBackend) : ~IsReply(toBackend[i])
         /\ rspPc # "send" /\ decided
         /\ incPc \notin {"returned", "closed"}
<1>1. Len(delivered) = Due(replied) /\ Len(received) > asked /\ decided
  BY OverWhenSent
<1>2. rspPc = "send" => Len(received) + 1 <= asked
  BY DEF AuthInv, HeldInv, StreamInv
<1>3. Len(received) \in Nat /\ asked \in Nat
  BY Numbers DEF AuthInv
<1>4. rspPc # "send"
  BY <1>1, <1>2, <1>3
<1> QED BY <1>1, <1>4 DEF AuthInv, ReplyInv

LEMMA ClientRepliesUnderWay ==
  ASSUME AuthInv, AuthInv', sent # << >>, NEW k, NEW p, NEW n, NEW sql,
         UnderWay(k, p, n, sql), ClientReplies
  PROVE  UnderWay(k, p, n, sql)' /\ sent' = sent
<1> DEFINE reply == script[replied + 1].reply
<1>1. /\ UNCHANGED <<sent, toBackend, incPc, incMsg, txStatus, tx, stmt, executed,
                     received, rspPc, rspMsg, fromBackend, lastTxStatus>>
      /\ toProxy' = IF reply = "none" THEN toProxy
                    ELSE Append(toProxy, Msg(0, "p", reply))
  BY DEF ClientReplies, incVars, rspVars, queryVars
<1>2. toProxy' = toProxy
  <2> SUFFICES ASSUME reply # "none" PROVE FALSE
    BY <1>1
  <2> HIDE DEF reply
  <2> DEFINE m == Msg(0, "p", reply)
  <2>1. toProxy' = Append(toProxy, m) /\ toProxy' \in Seq(FrontendMessages)
        /\ toProxy \in Seq(FrontendMessages)
    BY <1>1 DEF AuthInv, TypeOK
  <2>2. IsReply(m)
    BY DEF IsReply, Msg
  <2> HIDE DEF m
  <2>3. Len(toProxy) \in Nat /\ Len(toProxy') = Len(toProxy) + 1
        /\ toProxy'[Len(toProxy) + 1] = m
    BY <2>1
  <2>4. Len(toProxy) + 1 \in 1..Len(toProxy')
    BY <2>3
  <2>5. sent' # << >>
    BY <1>1
  <2>6. \A i \in 1..Len(toProxy') : ~IsReply(toProxy'[i])
    <3>1. Len(delivered') = Due(replied)'
      BY <2>5 DEF AuthInv, ReplyInv
    <3> QED BY <3>1 DEF AuthInv, ReplyInv, IsReply
  <2> QED BY <2>2, <2>3, <2>4, <2>6
<1> QED BY <1>1, <1>2, UnderWayKept

LEMMA IncDrainUnderWay ==
  ASSUME NEW k, NEW p, NEW n, NEW sql, UnderWay(k, p, n, sql), IncDrain
  PROVE  UnderWay(k, p, n, sql)'
<1>1. /\ UNCHANGED <<toProxy, toBackend, incMsg, txStatus, tx, stmt, executed,
                     received, rspPc, rspMsg, fromBackend, lastTxStatus>>
      /\ incPc = "drain" /\ incPc' \in {"drain", "receive"}
  BY DEF IncDrain, IncStep, clientVars, rspVars, authVars, queryVars
<1> QED BY <1>1, UnderWayKept

\* A step that sends the client nothing.
LEMMA AnswersKept ==
  ASSUME NEW k, NEW p, NEW g, NEW n, NEW sql, AnswerInv(k, p, g, n, sql),
         UNCHANGED <<received, rspPc, rspMsg, fromBackend, lastTxStatus>>,
         NEW h, AnswersAt(h, p, n, sql) = AnswersAt(g, p, n, sql),
         h \in {"status", "ready"} => g \in {"status", "ready"}
  PROVE  AnswerInv(k, p, h, n, sql)'
<1>1. Read' = Read
  BY DEF Read
<1>2. ReadyCount' = ReadyCount
  BY DEF ReadyCount, IsReady
<1>3. FlowIs(k, AnswersAt(h, p, n, sql))'
  BY <1>1 DEF AnswerInv, FlowIs
<1> QED BY <1>1, <1>2, <1>3 DEF AnswerInv

LEMMA IncReceiveUnderWay ==
  ASSUME AuthInv, sent # << >>, NEW k \in Nat, NEW p, NEW n, NEW sql,
         Request(p, n, sql), UnderWay(k, p, n, sql), IncReceive
  PROVE  UnderWay(k, p, n, sql)'
<1> DEFINE m == Head(toProxy)
<1>1. /\ UNCHANGED <<toBackend, txStatus, tx, stmt, executed, received, rspPc,
                     rspMsg, fromBackend, lastTxStatus>>
      /\ toProxy # << >> /\ toProxy' = Tail(toProxy)
      /\ incPc = "receive"
  BY IncReceiveDoes
<1>0. PICK d \in Decodings(m) :
          /\ incMsg' = d
          /\ \/ Blocked(d) /\ incPc' = "error"
             \/ ~Blocked(d) /\ incPc' = "forward"
  BY IncReceiveDoes
<1>2. TypeOK
  BY DEF AuthInv
<1>3. /\ Len(toProxy) \in Nat /\ Len(toProxy) > 0
      /\ Len(toProxy') = Len(toProxy) - 1 /\ toProxy' \in Seq(FrontendMessages)
      /\ m = toProxy[1] /\ m \in FrontendMessages
  <2>1. toProxy \in Seq(FrontendMessages)
    BY <1>2 DEF TypeOK
  <2> QED BY <1>1, <2>1, TailFacts
<1>4. 1 \in 1..Len(toProxy)
  BY <1>3
<1> HIDE DEF m
<1>5. ~IsReply(m)
  BY <1>3, <1>4, NoReplies
<1>6. d = m
  BY <1>5 DEF Decodings, IsReply
<1>7. PICK g \in Stages : \E rest \in RestsAt(g, n, sql) :
          StageInv(p, g, rest, n, sql) /\ AnswerInv(k, p, g, n, sql)
  BY DEF UnderWay
<1>8. PICK rest \in RestsAt(g, n, sql) :
          StageInv(p, g, rest, n, sql) /\ AnswerInv(k, p, g, n, sql)
  BY <1>7
<1>9. RestIs(rest) /\ g \notin {"error", "status", "ready"}
  BY <1>1, <1>8 DEF StageInv
<1>10. CASE ~Blocked(m)
  <2>1. incPc' = "forward" /\ incMsg' = m
    BY <1>0, <1>6, <1>10
  <2>2. RestIs(rest)'
    BY <1>1, <1>2, <1>9, <2>1, RestTaken DEF m
  <2>3. StageInv(p, g, rest, n, sql)'
    BY <1>1, <1>8, <1>9, <2>1, <2>2 DEF StageInv
  <2>4. AnswerInv(k, p, g, n, sql)'
    BY <1>1, <1>8, AnswersKept
  <2> QED BY <2>3, <2>4 DEF UnderWay
<1>11. CASE Blocked(m)
  <2>1. incPc' = "error" /\ incMsg' = m
    BY <1>0, <1>6, <1>11
  <2>2. /\ Len(rest) = Len(toBackend) + Len(toProxy)
        /\ Rewritten(m) = rest[Len(toBackend) + 1]
        /\ Len(toBackend) \in Nat
    <3>1. Held = 0 /\ Len(toBackend) \in Nat
      BY <1>1, <1>2, Numbers DEF Held
    <3> QED BY <1>3, <1>4, <1>9, <3>1 DEF RestIs
  <2>3. Rewritten(m).type = m.type /\ Rewritten(m).val = "block"
        /\ Rewritten(m).n = m.n /\ m.type \in {"query", "parse"}
    <3>1. m.type \in {"query", "parse"} /\ Handler[m.val] = "block"
      BY <1>11 DEF Blocked
    <3>2. m = Msg(m.n, m.type, m.val)
      BY <1>3, FrontendFacts
    <3> QED BY <3>1, <3>2 DEF Rewritten, Msg
  <2>4. Len(toBackend) + 1 \in 1..Len(rest)
    BY <1>3, <2>2
  <2>5. sql = "block" /\ m.n = n
    <3>1. AreOf(rest, n, sql)
      BY RestFacts
    <3> QED BY <2>2, <2>3, <2>4, <3>1 DEF AreOf
  <2>6. rest = <<Msg(n, "query", sql)>>
    <3>1. rest \in {<< >>, <<Msg(n, "query", sql)>>}
      BY <1>8, <2>5 DEF StageInv
    <3>2. rest # << >>
      BY <2>4
    <3> QED BY <3>1, <3>2
  <2>7. Len(rest) = 1 /\ rest[1] = Msg(n, "query", sql)
    BY <2>6
  <2>8. Len(toBackend) = 0 /\ Len(toProxy) = 1
    <3> DEFINE b == Len(toBackend)  t == Len(toProxy)
    <3>1. b \in Nat /\ t \in Nat /\ t > 0 /\ b + t = 1
      BY <1>3, <2>2, <2>7
    <3> HIDE DEF b, t
    <3>2. b = 0 /\ t = 1
      BY <3>1
    <3> QED BY <3>2 DEF b, t
  <2>9. m.type = "query"
    <3>1. Rewritten(m) = Msg(n, "query", sql)
      BY <2>2, <2>7, <2>8
    <3> QED BY <2>3, <3>1 DEF Msg
  <2>10. g = "new"
    <3>1. rest # << >> /\ rest # <<Msg(n, "sync", "")>>
          /\ rest # <<Msg(n, "execute", ""), Msg(n, "sync", "")>>
      <4>1. Msg(n, "query", sql) # Msg(n, "sync", "")
        BY DEF Msg
      <4> QED BY <2>6, <4>1
    <3>2. RestShape(g, rest, n, sql)
      BY RestFacts
    <3> QED BY <3>1, <3>2 DEF Stages, RestShape
  <2>11. RestIs(<< >>)'
    <3>1. Held' = 0 /\ Len(toBackend') = 0 /\ Len(toProxy') = 0
          /\ incPc' # "forward"
      BY <1>1, <1>3, <2>1, <2>8 DEF Held
    <3> QED BY <3>1 DEF RestIs
  <2>12. StageInv(p, "error", << >>, n, sql)'
    <3>1. /\ tx = p.st /\ executed = p.ran
      BY <1>8, <2>10 DEF StageInv, Ran
    <3> QED BY <1>1, <2>1, <2>5, <2>9, <2>11, <3>1 DEF StageInv, Ran
  <2>13. AnswerInv(k, p, "error", n, sql)'
    <3>1. AnswersAt("error", p, n, sql) = AnswersAt(g, p, n, sql)
      BY <2>10 DEF AnswersAt
    <3> QED BY <1>1, <1>8, <3>1, AnswersKept
  <2>14. "error" \in Stages /\ << >> \in RestsAt("error", n, sql)
    BY DEF Stages, RestsAt
  <2> QED BY <2>12, <2>13, <2>14 DEF UnderWay
<1> QED BY <1>10, <1>11

LEMMA IncForwardUnderWay ==
  ASSUME AuthInv, NEW k, NEW p, NEW n, NEW sql, UnderWay(k, p, n, sql), IncForward
  PROVE  UnderWay(k, p, n, sql)'
<1>1. /\ UNCHANGED <<toProxy, txStatus, tx, stmt, executed, received, rspPc,
                     rspMsg, fromBackend, lastTxStatus>>
      /\ toBackend' = Append(toBackend, Rewritten(incMsg))
      /\ incPc = "forward" /\ incPc' = "drain"
  BY DEF IncForward, IncStep, clientVars, rspVars, authVars, queryVars
<1>2. TypeOK /\ Rewritten(incMsg) \in FrontendMessages
  BY <1>1, RewrittenFacts DEF AuthInv, HeldInv
<1>3. PICK g \in Stages : \E rest \in RestsAt(g, n, sql) :
          StageInv(p, g, rest, n, sql) /\ AnswerInv(k, p, g, n, sql)
  BY DEF UnderWay
<1>4. PICK rest \in RestsAt(g, n, sql) :
          StageInv(p, g, rest, n, sql) /\ AnswerInv(k, p, g, n, sql)
  BY <1>3
<1>5. RestIs(rest) /\ g \notin {"error", "status", "ready"}
  BY <1>1, <1>4 DEF StageInv
<1>6. RestIs(rest)'
  BY <1>1, <1>2, <1>5, RestForwarded
<1>7. StageInv(p, g, rest, n, sql)'
  BY <1>1, <1>4, <1>5, <1>6 DEF StageInv
<1>8. AnswerInv(k, p, g, n, sql)'
  BY <1>1, <1>4, AnswersKept
<1> QED BY <1>7, <1>8 DEF UnderWay

LEMMA RestStays ==
  ASSUME NEW rest, RestIs(rest), UNCHANGED <<toProxy, toBackend>>,
         incPc # "forward", incPc' # "forward"
  PROVE  RestIs(rest)'
<1>1. Held' = Held
  BY DEF Held
<1> QED BY <1>1 DEF RestIs, Rewritten

\* inc answers a blocked request, in three steps.
LEMMA IncErrorUnderWay ==
  ASSUME AuthInv, NEW k \in Nat, NEW p, NEW n, NEW sql,
         Request(p, n, sql), UnderWay(k, p, n, sql), IncError
  PROVE  UnderWay(k, p, n, sql)'
<1>1. /\ UNCHANGED <<toProxy, toBackend, incMsg, txStatus, tx, stmt, executed,
                     rspPc, rspMsg, fromBackend, lastTxStatus>>
      /\ received' = Append(received, Msg(incMsg.n, "error", ""))
      /\ incPc = "error"
      /\ incPc' = IF incMsg.type = "query" THEN "status" ELSE "drain"
  BY DEF IncError, IncStep, IncAnswer, clientVars, rspVars, authVars, queryVars
<1>2. TypeOK
  BY DEF AuthInv
<1>3. PICK g \in Stages : \E rest \in RestsAt(g, n, sql) :
          StageInv(p, g, rest, n, sql) /\ AnswerInv(k, p, g, n, sql)
  BY DEF UnderWay
<1>4. PICK rest \in RestsAt(g, n, sql) :
          StageInv(p, g, rest, n, sql) /\ AnswerInv(k, p, g, n, sql)
  BY <1>3
<1>5. /\ g = "error" /\ sql = "block" /\ incMsg.n = n /\ incMsg.type = "query"
      /\ RestIs(rest) /\ tx = p.st /\ executed = p.ran
  BY <1>1, <1>4 DEF StageInv, Ran
<1>6. rest = << >>
  <2>1. RestShape(g, rest, n, sql)
    BY RestFacts
  <2> QED BY <1>5, <2>1 DEF RestShape
<1> DEFINE e == Msg(n, "error", "")
           a == AnswersAt("error", p, n, sql)
           b == AnswersAt("status", p, n, sql)
<1>7. received' = Append(received, e) /\ incPc' = "status"
  BY <1>1, <1>5
<1>8. Result(p, n, sql) = e /\ e \in BackendMessages /\ ~IsReady(e)
  <2>1. n \in 1..MaxRequests /\ IsPrior(p, n) /\ sql \in Sqls \cup {"block"}
    BY DEF Request
  <2>2. /\ Result(p, n, sql) \in BackendMessages /\ ~IsReady(Result(p, n, sql))
        /\ sql = "block" => Result(p, n, sql) = e
    BY <2>1, AfterFacts
  <2> QED BY <1>5, <2>2
<1>9. b = Append(a, e)
  BY <1>8 DEF AnswersAt
<1>10. Len(a) = 2 * n - 2 /\ a \in Seq(BackendMessages)
  <2>1. "error" \in Stages
    BY DEF Stages
  <2> QED BY <2>1, StageCounts DEF AnswerCount
<1>11. AnswerInv(k, p, "error", n, sql)
  BY <1>4, <1>5
<1> HIDE DEF a, b, e
<1>12. /\ n \in Nat /\ k <= Len(received) /\ Len(received) \in Nat /\ Read \in Nat
       /\ Len(received) >= k + 2 * n - 2 /\ Read >= Len(received)
       /\ Read + Len(fromBackend) = k + Len(a) /\ Len(fromBackend) \in Nat
       /\ FlowIs(k, a)
  <2>1. "error" \in Stages
    BY DEF Stages
  <2> QED BY <1>2, <1>11, <2>1, AnswersRead DEF a
<1>13. Len(received) = k + 2 * n - 2
  BY <1>10, <1>12
<1>14. Len(received) = k + Len(a)
  BY <1>10, <1>12, <1>13
<1>15. FlowIs(k, b)' /\ Read = Len(received) /\ Read' = Len(received) + 1
  BY <1>1, <1>2, <1>7, <1>8, <1>9, <1>10, <1>12, <1>14, FlowAnswered
<1>16. /\ Len(received') = Len(received) + 1 /\ ReadyCount' = ReadyCount
  BY <1>2, <1>7, <1>8, CountAppend
<1>17. /\ Len(received') >= k + 2 * n - 2 /\ Len(received') = k + 2 * n - 1
       /\ Read # k + 2 * n /\ Read' # k + 2 * n
       /\ Len(received) # k + 2 * n /\ Len(received') # k + 2 * n
  BY <1>12, <1>13, <1>15, <1>16
<1>18. lastTxStatus = p.st /\ ReadyCount = n
  BY <1>11, <1>17 DEF AnswerInv
<1>19. AnswerInv(k, p, "status", n, sql)'
  BY <1>1, <1>15, <1>16, <1>17, <1>18 DEF AnswerInv, b
<1>20. RestIs(<< >>)'
  BY <1>1, <1>5, <1>6, <1>7, RestStays
<1>21. StageInv(p, "status", << >>, n, sql)'
  BY <1>1, <1>5, <1>7, <1>20 DEF StageInv, Ran
<1>22. "status" \in Stages /\ << >> \in RestsAt("status", n, sql)
  BY DEF Stages, RestsAt
<1> QED BY <1>19, <1>21, <1>22 DEF UnderWay

LEMMA IncStatusUnderWay ==
  ASSUME AuthInv, NEW k \in Nat, NEW p, NEW n, NEW sql,
         Request(p, n, sql), UnderWay(k, p, n, sql), IncStatus
  PROVE  UnderWay(k, p, n, sql)'
<1>1. /\ UNCHANGED <<toProxy, toBackend, incMsg, tx, stmt, executed, received,
                     rspPc, rspMsg, fromBackend, lastTxStatus>>
      /\ incPc = "status" /\ incPc' = "ready" /\ txStatus' = lastTxStatus
  BY DEF IncStatus, IncStep, clientVars, rspVars, authVars, queryVars
<1>2. TypeOK
  BY DEF AuthInv
<1>3. PICK g \in Stages : \E rest \in RestsAt(g, n, sql) :
          StageInv(p, g, rest, n, sql) /\ AnswerInv(k, p, g, n, sql)
  BY DEF UnderWay
<1>4. PICK rest \in RestsAt(g, n, sql) :
          StageInv(p, g, rest, n, sql) /\ AnswerInv(k, p, g, n, sql)
  BY <1>3
<1>5. /\ g = "status" /\ sql = "block" /\ incMsg.n = n /\ incMsg.type = "query"
      /\ RestIs(rest) /\ tx = p.st /\ executed = p.ran
  BY <1>1, <1>4 DEF StageInv, Ran
<1>6. rest = << >>
  <2>1. RestShape(g, rest, n, sql)
    BY RestFacts
  <2> QED BY <1>5, <2>1 DEF RestShape
<1>7. lastTxStatus = p.st
  <2> DEFINE a == AnswersAt("status", p, n, sql)
  <2>1. "status" \in Stages
    BY DEF Stages
  <2>2. Len(a) = 2 * n - 1
    BY <2>1, StageCounts DEF AnswerCount
  <2>3. /\ n \in Nat /\ Read \in Nat /\ Len(fromBackend) \in Nat
        /\ Read + Len(fromBackend) = k + Len(a)
    BY <1>2, <1>4, <1>5, <2>1, AnswersRead
  <2> HIDE DEF a
  <2>4. Read # k + 2 * n
    BY <2>2, <2>3
  <2> QED BY <1>4, <2>4 DEF AnswerInv
<1>8. AnswerInv(k, p, "ready", n, sql)'
  <2>1. AnswersAt("ready", p, n, sql) = AnswersAt(g, p, n, sql)
    BY <1>5 DEF AnswersAt
  <2> QED BY <1>1, <1>4, <1>5, <2>1, AnswersKept
<1>9. RestIs(<< >>)'
  BY <1>1, <1>5, <1>6, RestStays
<1>10. StageInv(p, "ready", << >>, n, sql)'
  BY <1>1, <1>5, <1>7, <1>9 DEF StageInv, Ran
<1>11. "ready" \in Stages /\ << >> \in RestsAt("ready", n, sql)
  BY DEF Stages, RestsAt
<1> QED BY <1>8, <1>10, <1>11 DEF UnderWay

LEMMA IncReadyUnderWay ==
  ASSUME AuthInv, NEW k \in Nat, NEW p, NEW n, NEW sql,
         Request(p, n, sql), UnderWay(k, p, n, sql), IncReady
  PROVE  UnderWay(k, p, n, sql)'
<1>1. /\ UNCHANGED <<toProxy, toBackend, incMsg, txStatus, tx, stmt, executed,
                     rspPc, rspMsg, fromBackend, lastTxStatus>>
      /\ received' = Append(received, Msg(incMsg.n, "ready", txStatus))
      /\ incPc = "ready" /\ incPc' = "drain"
  BY DEF IncReady, IncStep, IncAnswer, clientVars, rspVars, authVars, queryVars
<1>2. TypeOK
  BY DEF AuthInv
<1>3. PICK g \in Stages : \E rest \in RestsAt(g, n, sql) :
          StageInv(p, g, rest, n, sql) /\ AnswerInv(k, p, g, n, sql)
  BY DEF UnderWay
<1>4. PICK rest \in RestsAt(g, n, sql) :
          StageInv(p, g, rest, n, sql) /\ AnswerInv(k, p, g, n, sql)
  BY <1>3
<1>5. /\ g = "ready" /\ sql = "block" /\ incMsg.n = n /\ txStatus = p.st
      /\ RestIs(rest) /\ tx = p.st /\ executed = p.ran
  BY <1>1, <1>4 DEF StageInv, Ran
<1>6. rest = << >>
  <2>1. RestShape(g, rest, n, sql)
    BY RestFacts
  <2> QED BY <1>5, <2>1 DEF RestShape
<1> DEFINE e == Msg(n, "ready", p.st)
           a == AnswersAt("ready", p, n, sql)
           b == AnswersAt("done", p, n, sql)
<1>7. received' = Append(received, e)
  BY <1>1, <1>5
<1>8. /\ AfterRequest(p, n, sql).st = p.st /\ AfterRequest(p, n, sql).ran = p.ran
      /\ IsReady(e) /\ e \in BackendMessages
  <2>1. IsReady(e)
    BY DEF IsReady, Msg
  <2>2. n \in 0..MaxRequests /\ p.st \in TxStates
    BY QueryAssumption DEF Request, IsPrior
  <2> QED BY <1>5, <2>1, <2>2, AfterFacts, NewMessages DEF Request
<1>9. b = Append(a, e)
  <2>1. a = Append(p.answers, Result(p, n, sql))
    BY DEF AnswersAt
  <2>2. b = p.answers \o <<Result(p, n, sql), e>>
    BY <1>8, AfterFacts DEF AnswersAt, Request
  <2>3. p.answers \in Seq(BackendMessages) /\ Result(p, n, sql) \in BackendMessages
    BY AfterFacts DEF Request, IsPrior
  <2> HIDE DEF a, b, e
  <2> QED BY <1>8, <2>1, <2>2, <2>3
<1>10. Len(a) = 2 * n - 1 /\ a \in Seq(BackendMessages)
  <2>1. "ready" \in Stages
    BY DEF Stages
  <2> QED BY <2>1, StageCounts DEF AnswerCount
<1>11. AnswerInv(k, p, "ready", n, sql)
  BY <1>4, <1>5
<1> HIDE DEF a, b, e
<1>12. /\ n \in Nat /\ k <= Len(received) /\ Len(received) \in Nat
       /\ FlowIs(k, a)
  <2>1. "ready" \in Stages
    BY DEF Stages
  <2> QED BY <1>2, <1>11, <2>1, AnswersRead DEF a
<1>13. Len(received) = k + 2 * n - 1
  BY <1>11 DEF AnswerInv
<1>14. Len(received) = k + Len(a)
  BY <1>10, <1>12, <1>13
<1>15. FlowIs(k, b)' /\ Read = Len(received) /\ Read' = Len(received) + 1
  BY <1>1, <1>2, <1>7, <1>8, <1>9, <1>10, <1>12, <1>14, FlowAnswered
<1>16. Len(received') = Len(received) + 1 /\ ReadyCount' = ReadyCount + 1
  BY <1>2, <1>7, <1>8, CountAppend
<1>17. /\ Len(received') >= k + 2 * n - 2
       /\ Read # k + 2 * n /\ Read' = k + 2 * n
       /\ Len(received) # k + 2 * n /\ Len(received') = k + 2 * n
  BY <1>12, <1>13, <1>15, <1>16
<1>18. lastTxStatus = p.st /\ ReadyCount = n
  BY <1>11, <1>17 DEF AnswerInv
<1>19. AnswerInv(k, p, "done", n, sql)'
  BY <1>1, <1>8, <1>15, <1>16, <1>17, <1>18 DEF AnswerInv, b
<1>20. RestIs(<< >>)'
  BY <1>1, <1>5, <1>6, RestStays
<1>21. StageInv(p, "done", << >>, n, sql)'
  BY <1>1, <1>5, <1>8, <1>20 DEF StageInv, Ran
<1>22. "done" \in Stages /\ << >> \in RestsAt("done", n, sql)
  BY DEF Stages, RestsAt
<1> QED BY <1>19, <1>21, <1>22 DEF UnderWay

\* The last two answers are the result and the ReadyForQuery.
LEMMA LastAnswers ==
  ASSUME NEW k \in Nat, NEW p, NEW n, NEW sql, Request(p, n, sql), NEW g \in Stages,
         NEW r \in Nat, r >= k + 2 * n - 1,
         r - k \in 1..Len(AnswersAt(g, p, n, sql))
  PROVE  LET m == AnswersAt(g, p, n, sql)[r - k] IN
         \/ r = k + 2 * n - 1 /\ ~IsReady(m)
         \/ /\ r = k + 2 * n /\ IsReady(m)
            /\ m.val = AfterRequest(p, n, sql).st
<1> DEFINE a == AnswersAt(g, p, n, sql)
           st == AfterRequest(p, n, sql).st
<1>1. n \in 1..MaxRequests /\ IsPrior(p, n) /\ sql \in Sqls \cup {"block"}
  BY DEF Request
<1>2. n \in Nat /\ n >= 1
  BY <1>1, QueryAssumption
<1>3. /\ Len(a) >= 2 * n - 1 => a[2 * n - 1] = Result(p, n, sql)
      /\ Len(a) = 2 * n => a[2 * n] = Msg(n, "ready", st)
  BY <1>1, StageAnswers
<1>4. ~IsReady(Result(p, n, sql))
  BY <1>1, AfterFacts
<1>5. IsReady(Msg(n, "ready", st)) /\ Msg(n, "ready", st).val = st
  BY DEF IsReady, Msg
<1>6. Len(a) \in Nat /\ Len(a) <= 2 * n
  <2>1. Len(a) = AnswerCount(g, n) /\ a \in Seq(BackendMessages)
    BY StageCounts
  <2>2. AnswerCount(g, n) <= 2 * n
    BY <1>2 DEF AnswerCount, Stages
  <2> HIDE DEF a
  <2> QED BY <2>1, <2>2
<1> HIDE DEF a, st
<1>7. \/ r = k + 2 * n - 1 /\ r - k = 2 * n - 1 /\ Len(a) >= 2 * n - 1
      \/ r = k + 2 * n /\ r - k = 2 * n /\ Len(a) = 2 * n
  <2>1. r - k \in 1..Len(a)
    BY DEF a
  <2> QED BY <1>2, <1>6, <2>1
<1>8. \/ r = k + 2 * n - 1 /\ ~IsReady(a[r - k])
      \/ r = k + 2 * n /\ IsReady(a[r - k]) /\ a[r - k].val = st
  BY <1>3, <1>4, <1>5, <1>7
<1> QED BY <1>8 DEF a, st

LEMMA RspReceiveUnderWay ==
  ASSUME AuthInv, NEW k \in Nat, NEW p, NEW n, NEW sql,
         Request(p, n, sql), UnderWay(k, p, n, sql), RspReceive
  PROVE  UnderWay(k, p, n, sql)'
<1>1. /\ UNCHANGED <<toProxy, toBackend, incPc, incMsg, txStatus, tx, stmt,
                     executed, received>>
      /\ fromBackend # << >> /\ rspMsg' = Head(fromBackend)
      /\ fromBackend' = Tail(fromBackend)
      /\ lastTxStatus' = IF IsReady(rspMsg') THEN rspMsg'.val ELSE lastTxStatus
      /\ rspPc = "read" /\ rspPc' # "read"
  BY DEF RspReceive, RspStep, clientVars, incVars, authVars, queryVars
<1>2. TypeOK
  BY DEF AuthInv
<1>3. PICK g \in Stages : \E rest \in RestsAt(g, n, sql) :
          StageInv(p, g, rest, n, sql) /\ AnswerInv(k, p, g, n, sql)
  BY DEF UnderWay
<1>4. PICK rest \in RestsAt(g, n, sql) :
          StageInv(p, g, rest, n, sql) /\ AnswerInv(k, p, g, n, sql)
  BY <1>3
<1> DEFINE a == AnswersAt(g, p, n, sql)
           st == AfterRequest(p, n, sql).st
<1>5. /\ n \in Nat /\ k <= Len(received) /\ Len(received) \in Nat
      /\ Len(received) >= k + 2 * n - 2
      /\ a \in Seq(BackendMessages) /\ FlowIs(k, a)
  BY <1>2, <1>4, AnswersRead
<1>6. /\ FlowIs(k, a)' /\ Read = Len(received) /\ Read' = Read + 1
      /\ Read' - k \in 1..Len(a) /\ rspMsg' = a[Read' - k]
  <2> HIDE DEF a
  <2> QED BY <1>1, <1>2, <1>5, FlowReceived
<1>7. Read' \in Nat /\ Read' >= k + 2 * n - 1
  BY <1>5, <1>6
<1>8. \/ Read' = k + 2 * n - 1 /\ ~IsReady(rspMsg')
      \/ Read' = k + 2 * n /\ IsReady(rspMsg') /\ rspMsg'.val = st
  BY <1>6, <1>7, LastAnswers
<1> HIDE DEF a, st
<1>9. lastTxStatus' = IF Read' = k + 2 * n THEN st ELSE p.st
  <2>1. CASE Read' = k + 2 * n
    <3>1. IsReady(rspMsg') /\ rspMsg'.val = st
      BY <1>5, <1>8, <2>1
    <3> QED BY <1>1, <2>1, <3>1
  <2>2. CASE Read' # k + 2 * n
    <3>1. ~IsReady(rspMsg') /\ Read # k + 2 * n
      BY <1>5, <1>6, <1>8, <2>2
    <3>2. lastTxStatus = p.st
      BY <1>4, <3>1 DEF AnswerInv
    <3> QED BY <1>1, <2>2, <3>1, <3>2
  <2> QED BY <2>1, <2>2
<1>10. ReadyCount' = ReadyCount
  BY <1>1 DEF ReadyCount, IsReady
<1>11. AnswerInv(k, p, g, n, sql)'
  BY <1>1, <1>4, <1>6, <1>9, <1>10 DEF AnswerInv, a, st
<1>12. StageInv(p, g, rest, n, sql)'
  <2>1. RestIs(rest)'
    BY <1>1, <1>4 DEF StageInv, RestIs, Held, Rewritten
  <2> QED BY <1>1, <1>4, <2>1 DEF StageInv
<1> QED BY <1>11, <1>12 DEF UnderWay

LEMMA RspWriteUnderWay ==
  ASSUME AuthInv, NEW k \in Nat, NEW p, NEW n, NEW sql,
         Request(p, n, sql), UnderWay(k, p, n, sql), RspWrite
  PROVE  UnderWay(k, p, n, sql)'
<1>1. /\ UNCHANGED <<toProxy, toBackend, incPc, incMsg, txStatus, tx, stmt,
                     executed, fromBackend, lastTxStatus>>
      /\ received' = Append(received, rspMsg)
      /\ rspPc # "read" /\ rspPc' = "read"
  BY DEF RspWrite, RspStep, clientVars, incVars, authVars, queryVars
<1>2. TypeOK /\ rspMsg \in BackendMessages
  BY <1>1 DEF AuthInv, HeldInv
<1>3. PICK g \in Stages : \E rest \in RestsAt(g, n, sql) :
          StageInv(p, g, rest, n, sql) /\ AnswerInv(k, p, g, n, sql)
  BY DEF UnderWay
<1>4. PICK rest \in RestsAt(g, n, sql) :
          StageInv(p, g, rest, n, sql) /\ AnswerInv(k, p, g, n, sql)
  BY <1>3
<1> DEFINE a == AnswersAt(g, p, n, sql)
           st == AfterRequest(p, n, sql).st
<1>5. /\ n \in Nat /\ k <= Len(received) /\ Len(received) \in Nat
      /\ Len(received) >= k + 2 * n - 2
      /\ a \in Seq(BackendMessages) /\ FlowIs(k, a)
  BY <1>2, <1>4, AnswersRead
<1>6. /\ FlowIs(k, a)' /\ Read = Len(received) + 1 /\ Read' = Read
      /\ Read - k \in 1..Len(a) /\ rspMsg = a[Read - k]
  <2> HIDE DEF a
  <2> QED BY <1>1, <1>2, <1>5, FlowWritten
<1>7. Read \in Nat /\ Read >= k + 2 * n - 1
  BY <1>5, <1>6
<1>8. \/ Read = k + 2 * n - 1 /\ ~IsReady(rspMsg)
      \/ Read = k + 2 * n /\ IsReady(rspMsg)
  BY <1>6, <1>7, LastAnswers
<1>9. /\ Len(received') = Len(received) + 1 /\ ReadyCount \in Nat
      /\ ReadyCount' = IF IsReady(rspMsg) THEN ReadyCount + 1 ELSE ReadyCount
  BY <1>1, <1>2, CountAppend
<1>10. g \notin {"status", "ready"}
  <2> SUFFICES ASSUME g \in {"status", "ready"} PROVE FALSE
    OBVIOUS
  <2>1. Len(received) = k + 2 * n - 1
    BY <1>4 DEF AnswerInv
  <2>2. Len(a) = 2 * n - 1
    BY StageCounts DEF AnswerCount
  <2> HIDE DEF a
  <2> QED BY <1>5, <1>6, <2>1, <2>2
<1> HIDE DEF a, st
<1>11. ReadyCount' = IF Len(received') = k + 2 * n THEN n + 1 ELSE n
  <2>1. Len(received) # k + 2 * n
    BY <1>5, <1>6, <1>8
  <2>2. ReadyCount = n
    BY <1>4, <2>1 DEF AnswerInv
  <2>3. Len(received') = k + 2 * n <=> IsReady(rspMsg)
    BY <1>5, <1>6, <1>8, <1>9
  <2> QED BY <1>9, <2>2, <2>3
<1>12. Len(received') >= k + 2 * n - 2
  BY <1>5, <1>9
<1>13. AnswerInv(k, p, g, n, sql)'
  BY <1>1, <1>4, <1>6, <1>10, <1>11, <1>12 DEF AnswerInv, a
<1>14. StageInv(p, g, rest, n, sql)'
  <2>1. RestIs(rest)'
    BY <1>1, <1>4 DEF StageInv, RestIs, Held, Rewritten
  <2> QED BY <1>1, <1>4, <2>1 DEF StageInv
<1> QED BY <1>13, <1>14 DEF UnderWay

\* The backend deals with the next message and goes from stage g to stage h.
LEMMA BackendAdvances ==
  ASSUME AuthInv, NEW k \in Nat, NEW p, NEW n, NEW sql, Request(p, n, sql),
         sql # "block",
         NEW g \in Stages, NEW rest \in RestsAt(g, n, sql),
         StageInv(p, g, rest, n, sql), AnswerInv(k, p, g, n, sql),
         toBackend # << >>, toBackend' = Tail(toBackend),
         UNCHANGED <<toProxy, incPc, incMsg, txStatus, received, rspPc, rspMsg,
                     lastTxStatus>>,
         NEW h \in Stages \ {"error", "status", "ready"},
         NEW next \in RestsAt(h, n, sql), Len(next) = Len(rest) - 1,
         \A i \in 1..Len(next) : next[i] = rest[i + 1],
         NEW more \in Seq(BackendMessages), fromBackend' = fromBackend \o more,
         AnswersAt(h, p, n, sql) = AnswersAt(g, p, n, sql) \o more,
         h = "parsed" => stmt' = sql,
         tx' = IF Ran(h) THEN AfterRequest(p, n, sql).st ELSE p.st,
         executed' = IF Ran(h) THEN AfterRequest(p, n, sql).ran ELSE p.ran
  PROVE  UnderWay(k, p, n, sql)'
<1> DEFINE a == AnswersAt(g, p, n, sql)
           b == AnswersAt(h, p, n, sql)
<1>1. TypeOK
  BY DEF AuthInv
<1>2. RestIs(rest)
  BY DEF StageInv
<1>3. RestIs(next)' /\ Len(rest) > 0
  BY <1>1, <1>2, RestArrives
<1>4. g \notin {"error", "status", "ready"} /\ incPc \notin {"error", "status", "ready"}
  BY DEF StageInv
<1>5. StageInv(p, h, next, n, sql)'
  BY <1>3, <1>4 DEF StageInv
<1>6. k <= Len(received) /\ a \in Seq(BackendMessages) /\ FlowIs(k, a)
  BY <1>1, AnswersRead
<1>7. FlowIs(k, b)' /\ Read' = Read
  <2>1. b = a \o more
    OBVIOUS
  <2> HIDE DEF a, b
  <2> QED BY <1>1, <1>6, <2>1, FlowExtended
<1>8. ReadyCount' = ReadyCount
  BY DEF ReadyCount, IsReady
<1>9. AnswerInv(k, p, h, n, sql)'
  <2>1. /\ Len(received) >= k + 2 * n - 2
        /\ lastTxStatus =
               IF Read = k + 2 * n THEN AfterRequest(p, n, sql).st ELSE p.st
        /\ ReadyCount = IF Len(received) = k + 2 * n THEN n + 1 ELSE n
    BY DEF AnswerInv
  <2> QED BY <1>7, <1>8, <2>1 DEF AnswerInv
<1> QED BY <1>5, <1>9 DEF UnderWay

LEMMA Concats ==
  ASSUME NEW S, NEW s \in Seq(S), NEW x \in S, NEW y \in S
  PROVE  /\ s \o << >> = s
         /\ s \o <<x, y>> = Append(s, x) \o <<y>>
         /\ <<x>> \o <<y>> = <<x, y>>
<1>1. s \o << >> = s
  OBVIOUS
<1>2. s \o <<x, y>> = Append(s, x) \o <<y>>
  <2> DEFINE l == s \o <<x, y>>  r == Append(s, x) \o <<y>>
  <2>1. l \in Seq(S) /\ r \in Seq(S) /\ Len(l) = Len(r)
    OBVIOUS
  <2>2. \A i \in 1..Len(l) : l[i] = r[i]
    OBVIOUS
  <2> HIDE DEF l, r
  <2>3. l = r
    BY <2>1, <2>2, SeqEqual
  <2> QED BY <2>3 DEF l, r
<1>3. <<x>> \o <<y>> = <<x, y>>
  <2> DEFINE l == <<x>> \o <<y>>  r == <<x, y>>
  <2>1. l \in Seq(S) /\ r \in Seq(S) /\ Len(l) = Len(r)
    OBVIOUS
  <2>2. \A i \in 1..Len(l) : l[i] = r[i]
    OBVIOUS
  <2> HIDE DEF l, r
  <2>3. l = r
    BY <2>1, <2>2, SeqEqual
  <2> QED BY <2>3 DEF l, r
<1> QED BY <1>1, <1>2, <1>3

\* The next message tells the stage.
LEMMA FirstMessage ==
  ASSUME NEW n, NEW sql, NEW g \in Stages, NEW rest, RestShape(g, rest, n, sql),
         1 \in 1..Len(rest)
  PROVE  \/ /\ g = "new" /\ rest[1].type = "query"
            /\ rest = <<Msg(n, "query", sql)>>
         \/ /\ g = "new" /\ rest[1].type = "parse"
            /\ rest = <<Msg(n, "parse", sql), Msg(n, "execute", ""),
                        Msg(n, "sync", "")>>
         \/ /\ g = "parsed" /\ rest[1].type = "execute"
            /\ rest = <<Msg(n, "execute", ""), Msg(n, "sync", "")>>
         \/ /\ g = "run" /\ rest[1].type = "sync"
            /\ rest = <<Msg(n, "sync", "")>>
<1> DEFINE q == Msg(n, "query", sql)  p == Msg(n, "parse", sql)
           e == Msg(n, "execute", "")  s == Msg(n, "sync", "")
<1>1. /\ q.type = "query" /\ p.type = "parse" /\ e.type = "execute"
      /\ s.type = "sync"
  BY DEF Msg
<1> HIDE DEF q, p, e, s
<1>2. \/ g = "new" /\ rest = <<q>>
      \/ g = "new" /\ rest = <<p, e, s>>
      \/ g = "parsed" /\ rest = <<e, s>>
      \/ g = "run" /\ rest = <<s>>
      \/ rest = << >>
  BY DEF RestShape, Stages, q, p, e, s
<1>3. \/ g = "new" /\ rest = <<q>> /\ rest[1] = q
      \/ g = "new" /\ rest = <<p, e, s>> /\ rest[1] = p
      \/ g = "parsed" /\ rest = <<e, s>> /\ rest[1] = e
      \/ g = "run" /\ rest = <<s>> /\ rest[1] = s
  BY <1>2
<1>4. \/ g = "new" /\ rest = <<q>> /\ rest[1].type = "query"
      \/ g = "new" /\ rest = <<p, e, s>> /\ rest[1].type = "parse"
      \/ g = "parsed" /\ rest = <<e, s>> /\ rest[1].type = "execute"
      \/ g = "run" /\ rest = <<s>> /\ rest[1].type = "sync"
  BY <1>1, <1>3
<1> QED BY <1>4 DEF q, p, e, s

LEMMA BackendReceivesUnderWay ==
  ASSUME AuthInv, sent # << >>, NEW k \in Nat, NEW p, NEW n, NEW sql,
         Request(p, n, sql), UnderWay(k, p, n, sql), BackendReceives
  PROVE  UnderWay(k, p, n, sql)'
<1> DEFINE m == Head(toBackend)
           after == AfterRequest(p, n, sql)
           res == Outcome(n, p.st, sql)
           z == Msg(n, "ready", after.st)
<1>1. TypeOK /\ HeldInv
  BY DEF AuthInv
<1>2. /\ toBackend # << >> /\ toBackend' = Tail(toBackend)
      /\ UNCHANGED <<toProxy, incPc, incMsg, txStatus, received, rspPc, rspMsg,
                     lastTxStatus>>
  BY <1>1, BackendReceivesTyped
<1>3. PICK g \in Stages : \E rest \in RestsAt(g, n, sql) :
          StageInv(p, g, rest, n, sql) /\ AnswerInv(k, p, g, n, sql)
  BY DEF UnderWay
<1>4. PICK rest \in RestsAt(g, n, sql) :
          StageInv(p, g, rest, n, sql) /\ AnswerInv(k, p, g, n, sql)
  BY <1>3
<1>5. /\ Len(toBackend) \in Nat /\ Len(toBackend) > 0 /\ m = toBackend[1]
      /\ m \in FrontendMessages
  <2>1. toBackend \in Seq(FrontendMessages)
    BY <1>1 DEF TypeOK
  <2> QED BY <1>2, <2>1, TailFacts
<1>6. m = rest[1] /\ 1 \in 1..Len(rest)
  <2>1. /\ Len(rest) = Len(toBackend) + Held + Len(toProxy)
        /\ \A i \in 1..Len(toBackend) : toBackend[i] = rest[i]
    BY <1>4 DEF StageInv, RestIs
  <2>2. Held \in Nat /\ Len(toProxy) \in Nat
    BY <1>1, Numbers DEF Held
  <2>3. 1 \in 1..Len(toBackend) /\ 1 \in 1..Len(rest)
    BY <1>5, <2>1, <2>2
  <2> QED BY <1>5, <2>1, <2>3
<1>7. m.n = n /\ (m.type \in {"query", "parse"} => m.val = sql)
      /\ m.type \in {"query", "parse", "execute", "sync"}
  <2>1. AreOf(rest, n, sql)
    BY RestFacts
  <2> QED BY <1>6, <2>1 DEF AreOf
<1>8. RestShape(g, rest, n, sql)
  BY RestFacts
<1>9. sql # "block"
  <2> SUFFICES ASSUME sql = "block" PROVE FALSE
    OBVIOUS
  <2>1. rest = <<Msg(n, "query", sql)>>
    <3>1. rest \in {<< >>, <<Msg(n, "query", sql)>>}
      BY <1>4 DEF StageInv
    <3>2. rest # << >>
      BY <1>6
    <3> QED BY <3>1, <3>2
  <2>2. m.type = "query" /\ m.val = "block"
    BY <1>6, <2>1 DEF Msg
  <2>3. m.val \in Sqls
    BY <1>5, <2>2, FrontendFacts
  <2> QED BY <2>2, <2>3 DEF Sqls
<1>10. /\ sql \in Sqls /\ after.st = TxAfter(p.st, sql)
       /\ after.ran = IF Runs(p.st, sql)
                      THEN Append(p.ran, [n |-> n, sql |-> sql]) ELSE p.ran
       /\ Result(p, n, sql) = res /\ res \in BackendMessages
       /\ after.answers = p.answers \o <<res, z>>
       /\ p.answers \in Seq(BackendMessages) /\ z \in BackendMessages
  <2>1. /\ n \in 1..MaxRequests /\ IsPrior(p, n) /\ sql \in Sqls \cup {"block"}
        /\ n \in 0..MaxRequests
    BY QueryAssumption DEF Request
  <2>2. sql \in Sqls
    BY <1>9, <2>1
  <2>3. after.st \in TxStates
    BY <2>1, AfterFacts DEF IsPrior
  <2>4. z \in BackendMessages
    BY <2>1, <2>3, NewMessages
  <2>5. p.answers \in Seq(BackendMessages)
    BY <2>1 DEF IsPrior
  <2>6. /\ after.st = TxAfter(p.st, sql)
        /\ after.ran = IF Runs(p.st, sql)
                       THEN Append(p.ran, [n |-> n, sql |-> sql]) ELSE p.ran
        /\ Result(p, n, sql) = res /\ Result(p, n, sql) \in BackendMessages
        /\ after.answers = p.answers \o <<Result(p, n, sql), z>>
    BY <1>9, <2>1, AfterFacts
  <2> QED BY <2>2, <2>4, <2>5, <2>6
<1>11. /\ g \in {"new", "parsed"} => tx = p.st /\ executed = p.ran
       /\ g = "run" => tx = after.st /\ executed = after.ran
       /\ g = "parsed" => stmt = sql
  BY <1>4 DEF StageInv, Ran
<1> HIDE DEF m, after, res, z
<1>12. CASE m.type = "query"
  <2>1. g = "new" /\ rest = <<Msg(n, "query", sql)>>
    BY <1>6, <1>8, <1>12, FirstMessage
  <2>2. /\ fromBackend' = fromBackend \o
               (<<Outcome(n, tx, sql)>> \o <<Msg(n, "ready", TxAfter(tx, sql))>>)
        /\ tx' = TxAfter(tx, sql)
        /\ executed' = IF Runs(tx, sql)
                       THEN Append(executed, [n |-> n, sql |-> sql])
                       ELSE executed
    BY <1>7, <1>12 DEF BackendReceives, Execute, BackendSends, m
  <2>3. /\ fromBackend' = fromBackend \o <<res, z>>
        /\ tx' = after.st /\ executed' = after.ran
    <3>1. tx = p.st /\ executed = p.ran
      BY <1>11, <2>1
    <3>2. <<res>> \o <<z>> = <<res, z>>
      BY <1>10, Concats
    <3>3. Outcome(n, tx, sql) = res /\ Msg(n, "ready", TxAfter(tx, sql)) = z
      BY <1>10, <3>1 DEF res, z
    <3> QED BY <1>10, <2>2, <3>1, <3>2, <3>3
  <2>4. <<res, z>> \in Seq(BackendMessages)
    BY <1>10
  <2>5. AnswersAt("done", p, n, sql) = AnswersAt(g, p, n, sql) \o <<res, z>>
    BY <1>10, <2>1 DEF AnswersAt, after
  <2>6. << >> \in RestsAt("done", n, sql) /\ "done" \in Stages \ {"error", "status", "ready"}
    BY DEF RestsAt, Stages
  <2>7. Len(<< >>) = Len(rest) - 1 /\ \A i \in 1..Len(<< >>) : << >>[i] = rest[i + 1]
    BY <2>1
  <2>8. /\ tx' = IF Ran("done") THEN AfterRequest(p, n, sql).st ELSE p.st
        /\ executed' = IF Ran("done") THEN AfterRequest(p, n, sql).ran ELSE p.ran
    BY <2>3 DEF Ran, after
  <2> DEFINE next == << >>  h == "done"  more == <<res, z>>
  <2>9. /\ next \in RestsAt(h, n, sql) /\ h \in Stages \ {"error", "status", "ready"}
        /\ Len(next) = Len(rest) - 1 /\ \A i \in 1..Len(next) : next[i] = rest[i + 1]
        /\ more \in Seq(BackendMessages) /\ fromBackend' = fromBackend \o more
        /\ AnswersAt(h, p, n, sql) = AnswersAt(g, p, n, sql) \o more
        /\ tx' = IF Ran(h) THEN AfterRequest(p, n, sql).st ELSE p.st
        /\ executed' = IF Ran(h) THEN AfterRequest(p, n, sql).ran ELSE p.ran
        /\ h # "parsed"
    BY <2>3, <2>4, <2>5, <2>6, <2>7, <2>8
  <2> HIDE DEF next, h, more
  <2> QED BY <1>2, <1>4, <1>9, <2>9, BackendAdvances
<1>13. CASE m.type = "parse"
  <2> DEFINE next == <<Msg(n, "execute", ""), Msg(n, "sync", "")>>
             h == "parsed"  more == << >>
  <2>1. /\ g = "new"
        /\ rest = <<Msg(n, "parse", sql), Msg(n, "execute", ""), Msg(n, "sync", "")>>
    BY <1>6, <1>8, <1>13, FirstMessage
  <2>2. /\ fromBackend' = fromBackend \o << >>
        /\ stmt' = sql /\ tx' = tx /\ executed' = executed
    BY <1>7, <1>13 DEF BackendReceives, BackendSends, m
  <2>3. /\ next \in RestsAt(h, n, sql) /\ h \in Stages \ {"error", "status", "ready"}
        /\ Len(next) = Len(rest) - 1 /\ \A i \in 1..Len(next) : next[i] = rest[i + 1]
    <3>1. /\ next \in RestsAt(h, n, sql)
          /\ h \in Stages \ {"error", "status", "ready"}
      BY DEF RestsAt, Stages
    <3>2. Len(next) = 2 /\ Len(rest) = 3 /\ next[1] = rest[2] /\ next[2] = rest[3]
      BY <2>1
    <3> HIDE DEF next, h
    <3> QED BY <3>1, <3>2
  <2>4. /\ more \in Seq(BackendMessages)
        /\ AnswersAt(h, p, n, sql) = AnswersAt(g, p, n, sql) \o more
    <3>1. AnswersAt(h, p, n, sql) = p.answers /\ AnswersAt(g, p, n, sql) = p.answers
      BY <2>1 DEF AnswersAt
    <3>2. p.answers \o more = p.answers /\ more \in Seq(BackendMessages)
      BY <1>10
    <3> HIDE DEF h, more
    <3> QED BY <3>1, <3>2
  <2>5. /\ tx' = IF Ran(h) THEN AfterRequest(p, n, sql).st ELSE p.st
        /\ executed' = IF Ran(h) THEN AfterRequest(p, n, sql).ran ELSE p.ran
    BY <1>11, <2>1, <2>2 DEF Ran
  <2>6. fromBackend' = fromBackend \o more
    BY <2>2
  <2> HIDE DEF next, h, more
  <2> QED BY <1>2, <1>4, <1>9, <2>2, <2>3, <2>4, <2>5, <2>6, BackendAdvances
<1>14. CASE m.type = "execute"
  <2> DEFINE next == <<Msg(n, "sync", "")>>
             h == "run"  more == <<res>>
  <2>1. g = "parsed" /\ rest = <<Msg(n, "execute", ""), Msg(n, "sync", "")>>
    BY <1>6, <1>8, <1>14, FirstMessage
  <2>2. stmt = sql /\ stmt # "" /\ tx = p.st /\ executed = p.ran
    BY <1>10, <1>11, <2>1 DEF Sqls
  <2>3. /\ fromBackend' = fromBackend \o (<<Outcome(n, tx, sql)>> \o << >>)
        /\ tx' = TxAfter(tx, sql)
        /\ executed' = IF Runs(tx, sql)
                       THEN Append(executed, [n |-> n, sql |-> sql])
                       ELSE executed
    BY <1>7, <1>14, <2>2 DEF BackendReceives, Execute, BackendSends, m
  <2>4. /\ fromBackend' = fromBackend \o <<res>>
        /\ tx' = after.st /\ executed' = after.ran
    <3>1. Outcome(n, tx, sql) = res
      BY <2>2 DEF res
    <3>2. <<res>> \o << >> = <<res>>
      BY <1>10
    <3> QED BY <1>10, <2>2, <2>3, <3>1, <3>2
  <2>5. /\ next \in RestsAt(h, n, sql) /\ h \in Stages \ {"error", "status", "ready"}
        /\ Len(next) = Len(rest) - 1 /\ \A i \in 1..Len(next) : next[i] = rest[i + 1]
    <3>1. /\ next \in RestsAt(h, n, sql)
          /\ h \in Stages \ {"error", "status", "ready"}
      BY DEF RestsAt, Stages
    <3>2. Len(next) = 1 /\ Len(rest) = 2 /\ next[1] = rest[2]
      BY <2>1
    <3> HIDE DEF next, h
    <3> QED BY <3>1, <3>2
  <2>6. /\ more \in Seq(BackendMessages)
        /\ AnswersAt(h, p, n, sql) = AnswersAt(g, p, n, sql) \o more
    <3>1. AnswersAt(h, p, n, sql) = Append(p.answers, res)
      BY <1>10 DEF AnswersAt
    <3>2. AnswersAt(g, p, n, sql) = p.answers
      BY <2>1 DEF AnswersAt
    <3>3. more \in Seq(BackendMessages) /\ Append(p.answers, res) = p.answers \o more
      BY <1>10
    <3> HIDE DEF h, more
    <3> QED BY <3>1, <3>2, <3>3
  <2>7. /\ tx' = IF Ran(h) THEN AfterRequest(p, n, sql).st ELSE p.st
        /\ executed' = IF Ran(h) THEN AfterRequest(p, n, sql).ran ELSE p.ran
        /\ h # "parsed"
    BY <2>4 DEF Ran, after
  <2>8. fromBackend' = fromBackend \o more
    BY <2>4
  <2> HIDE DEF next, h, more
  <2> QED BY <1>2, <1>4, <1>9, <2>5, <2>6, <2>7, <2>8, BackendAdvances
<1>15. CASE m.type = "sync"
  <2> DEFINE next == << >>  h == "done"  more == <<z>>
  <2>1. g = "run" /\ rest = <<Msg(n, "sync", "")>>
    BY <1>6, <1>8, <1>15, FirstMessage
  <2>2. /\ fromBackend' = fromBackend \o <<Msg(n, "ready", tx)>>
        /\ tx' = tx /\ executed' = executed
    BY <1>7, <1>15 DEF BackendReceives, BackendSends, queryVars, m
  <2>3. fromBackend' = fromBackend \o <<z>> /\ tx' = after.st /\ executed' = after.ran
    BY <1>11, <2>1, <2>2 DEF z
  <2>4. /\ next \in RestsAt(h, n, sql) /\ h \in Stages \ {"error", "status", "ready"}
        /\ Len(next) = Len(rest) - 1 /\ \A i \in 1..Len(next) : next[i] = rest[i + 1]
    <3>1. /\ next \in RestsAt(h, n, sql)
          /\ h \in Stages \ {"error", "status", "ready"}
      BY DEF RestsAt, Stages
    <3>2. Len(next) = 0 /\ Len(rest) = 1
      BY <2>1
    <3> HIDE DEF next, h
    <3> QED BY <3>1, <3>2
  <2>5. /\ more \in Seq(BackendMessages)
        /\ AnswersAt(h, p, n, sql) = AnswersAt(g, p, n, sql) \o more
    <3>1. AnswersAt(h, p, n, sql) = p.answers \o <<res, z>>
      BY <1>10 DEF AnswersAt, after
    <3>2. AnswersAt(g, p, n, sql) = Append(p.answers, res)
      BY <1>10, <2>1 DEF AnswersAt
    <3>3. /\ more \in Seq(BackendMessages)
          /\ p.answers \o <<res, z>> = Append(p.answers, res) \o more
      <4>1. /\ p.answers \in Seq(BackendMessages) /\ res \in BackendMessages
            /\ z \in BackendMessages
        BY <1>10
      <4>2. more \in Seq(BackendMessages)
        BY <4>1
      <4>3. p.answers \o <<res, z>> = Append(p.answers, res) \o <<z>>
        <5> DEFINE pa == p.answers
        <5>1. pa \in Seq(BackendMessages)
          BY <4>1
        <5> HIDE DEF pa, res, z
        <5>2. res \in BackendMessages /\ z \in BackendMessages
          BY <4>1
        <5>3. pa \o <<res, z>> = Append(pa, res) \o <<z>>
          BY ONLY <5>1, <5>2, Concats
        <5> QED BY <5>3 DEF pa
      <4> QED BY <4>2, <4>3
    <3> HIDE DEF h, more
    <3> QED BY <3>1, <3>2, <3>3
  <2>6. /\ tx' = IF Ran(h) THEN AfterRequest(p, n, sql).st ELSE p.st
        /\ executed' = IF Ran(h) THEN AfterRequest(p, n, sql).ran ELSE p.ran
        /\ h # "parsed"
    BY <2>3 DEF Ran, after
  <2>7. fromBackend' = fromBackend \o more
    BY <2>3
  <2> HIDE DEF next, h, more
  <2> QED BY <1>2, <1>4, <1>9, <2>4, <2>5, <2>6, <2>7, BackendAdvances
<1> QED BY <1>7, <1>12, <1>13, <1>14, <1>15

-----------------------------------------------------------------------------
(* A new request *)

LEMMA SentMessages ==
  ASSUME TypeOK, toProxy = << >>, NEW sql \in Sqls,
         NEW types \in {<<"query">>, <<"parse", "execute", "sync">>},
         Send(sql, types)
  PROVE  LET n == Len(sent) + 1 IN
         /\ n \in 1..MaxRequests
         /\ types = <<"query">> =>
                Len(toProxy') = 1 /\ toProxy'[1] = Msg(n, "query", sql)
         /\ types # <<"query">> =>
                /\ Len(toProxy') = 3 /\ toProxy'[1] = Msg(n, "parse", sql)
                /\ toProxy'[2] = Msg(n, "execute", "")
                /\ toProxy'[3] = Msg(n, "sync", "")
<1> DEFINE n == Len(sent) + 1
           Carries(t) == IF t \in {"query", "parse"} THEN sql ELSE ""
           news == [i \in 1..Len(types) |-> Msg(n, types[i], Carries(types[i]))]
<1>1. toProxy' = << >> \o news
  BY DEF Send
<1>2. n \in 1..MaxRequests
  <2>1. Len(sent) \in Nat /\ MaxRequests \in Nat /\ Len(sent) < MaxRequests
    BY Numbers, QueryAssumption DEF Send
  <2> QED BY <2>1
<1>3. /\ Carries("query") = sql /\ Carries("parse") = sql
      /\ Carries("execute") = "" /\ Carries("sync") = ""
  OBVIOUS
<1> HIDE DEF n, Carries
<1>4. \A t \in {"query", "parse", "execute", "sync"} :
          Msg(n, t, Carries(t)) \in FrontendMessages
  BY <1>2, <1>3, NewMessages
<1>5. /\ Len(types) \in Nat
      /\ \A i \in 1..Len(types) : types[i] \in {"query", "parse", "execute", "sync"}
  <2>1. CASE types = <<"query">>
    BY <2>1
  <2>2. CASE types = <<"parse", "execute", "sync">>
    BY <2>2
  <2> QED BY <2>1, <2>2
<1>6. news \in [1..Len(types) -> FrontendMessages]
  BY <1>4, <1>5
<1>7. news \in Seq(FrontendMessages) /\ Len(news) = Len(types)
  BY <1>5, <1>6, FunctionSeq
<1>8. \A i \in 1..Len(types) : news[i] = Msg(n, types[i], Carries(types[i]))
  OBVIOUS
<1> HIDE DEF news
<1>9. /\ Len(toProxy') = Len(types)
      /\ \A i \in 1..Len(types) : toProxy'[i] = Msg(n, types[i], Carries(types[i]))
  <2>1. << >> \in Seq(FrontendMessages) /\ Len(<< >>) = 0
    OBVIOUS
  <2>2. << >> \o news = news
    BY <1>7
  <2> QED BY <1>1, <1>7, <1>8, <2>2
<1>10. CASE types = <<"query">>
  <2>1. Len(types) = 1 /\ types[1] = "query" /\ 1 \in 1..1
    BY <1>10
  <2> QED BY <1>2, <1>3, <1>9, <1>10, <2>1 DEF n
<1>11. CASE types = <<"parse", "execute", "sync">>
  <2>1. /\ Len(types) = 3 /\ types[1] = "parse" /\ types[2] = "execute"
        /\ types[3] = "sync" /\ types # <<"query">>
        /\ 1 \in 1..3 /\ 2 \in 1..3 /\ 3 \in 1..3
    BY <1>11
  <2> QED BY <1>2, <1>3, <1>9, <2>1 DEF n
<1> QED BY <1>10, <1>11

\* Every earlier request has been answered, and nothing is under way.
Idle(k, p, n) ==
    /\ toProxy = << >> /\ toBackend = << >> /\ incPc \in {"drain", "receive"}
    /\ FlowIs(k, p.answers) /\ Len(received) = k + 2 * n - 2
    /\ lastTxStatus = p.st /\ tx = p.st /\ executed = p.ran
    /\ ReadyCount = n

LEMMA SendStarts ==
  ASSUME TypeOK, Waits, NEW k \in Nat, NEW p, NEW sql \in Sqls,
         NEW n, n = Len(sent) + 1, IsPrior(p, n), Idle(k, p, n),
         NEW types \in {<<"query">>, <<"parse", "execute", "sync">>},
         types # <<"query">> => sql \in Batched, Send(sql, types)
  PROVE  UnderWay(k, p, n, Handler[sql])'
<1> DEFINE text == Handler[sql]
           q == Msg(n, "query", text)  b == Msg(n, "parse", text)
           e == Msg(n, "execute", "")  s == Msg(n, "sync", "")
           rest == IF types = <<"query">> THEN <<q>> ELSE <<b, e, s>>
<1>1. UNCHANGED <<toBackend, incPc, incMsg, txStatus, tx, stmt, executed,
                  received, rspPc, rspMsg, fromBackend, lastTxStatus>>
  BY DEF Send, incVars, rspVars, authVars, queryVars
<1>2. toProxy = << >> /\ toBackend = << >> /\ incPc \in {"drain", "receive"}
  BY DEF Idle
<1>3. /\ n \in 1..MaxRequests
      /\ types = <<"query">> =>
             Len(toProxy') = 1 /\ toProxy'[1] = Msg(n, "query", sql)
      /\ types # <<"query">> =>
             /\ Len(toProxy') = 3 /\ toProxy'[1] = Msg(n, "parse", sql)
             /\ toProxy'[2] = Msg(n, "execute", "")
             /\ toProxy'[3] = Msg(n, "sync", "")
  BY <1>2, SentMessages
<1>4. /\ Rewritten(Msg(n, "query", sql)) = q
      /\ Rewritten(Msg(n, "parse", sql)) = b
      /\ Rewritten(e) = e /\ Rewritten(s) = s
  BY DEF Rewritten, Msg
<1>5. rest \in RestsAt("new", n, text)
  BY DEF RestsAt
<1>6. text = "block" => rest = <<Msg(n, "query", text)>>
  BY DEF Waits
<1>7. /\ Len(rest) = Len(toProxy')
      /\ \A i \in 1..Len(toProxy') : Rewritten(toProxy'[i]) = rest[i]
  <2> HIDE DEF q, b
  <2>1. CASE types = <<"query">>
    <3>1. rest = <<q>>
      BY <2>1
    <3>2. Len(rest) = 1 /\ rest[1] = q
      BY <3>1
    <3>3. \A i \in 1..1 : i = 1
      OBVIOUS
    <3> HIDE DEF rest
    <3> QED BY <1>3, <1>4, <2>1, <3>2, <3>3
  <2>2. CASE types # <<"query">>
    <3>1. rest = <<b, e, s>>
      BY <2>2
    <3>2. Len(rest) = 3 /\ rest[1] = b /\ rest[2] = e /\ rest[3] = s
      <4> HIDE DEF e, s, rest
      <4> QED BY <3>1
    <3>3. \A i \in 1..3 : i = 1 \/ i = 2 \/ i = 3
      OBVIOUS
    <3> HIDE DEF rest
    <3> QED BY <1>3, <1>4, <2>2, <3>2, <3>3
  <2> QED BY <2>1, <2>2
<1> HIDE DEF rest, text
<1>8. RestIs(rest)'
  <2>1. Held' = 0 /\ Len(toBackend') = 0 /\ incPc' # "forward"
    BY <1>1, <1>2 DEF Held
  <2>2. Len(toProxy') \in Nat
    <3>1. Len(toProxy') = 1 \/ Len(toProxy') = 3
      BY <1>3
    <3> QED BY <3>1
  <2>3. /\ Len(rest) = Len(toBackend') + Held' + Len(toProxy')
        /\ \A i \in 1..Len(toProxy') : Len(toBackend') + Held' + i = i
    BY <1>7, <2>1, <2>2
  <2> QED BY <1>7, <2>1, <2>3 DEF RestIs, Rewritten
<1>9. StageInv(p, "new", rest, n, text)'
  <2>1. tx = p.st /\ executed = p.ran
    BY DEF Idle
  <2> QED BY <1>1, <1>2, <1>6, <1>8, <2>1 DEF StageInv, Ran
<1>10. AnswerInv(k, p, "new", n, text)'
  <2>1. AnswersAt("new", p, n, text) = p.answers
    BY DEF AnswersAt
  <2>2. /\ FlowIs(k, p.answers) /\ Len(received) = k + 2 * n - 2
        /\ lastTxStatus = p.st /\ ReadyCount = n
    BY DEF Idle
  <2>3. Read' = Read /\ ReadyCount' = ReadyCount
    BY <1>1 DEF Read, ReadyCount, IsReady
  <2>4. FlowIs(k, p.answers)'
    BY <1>1, <2>2, <2>3 DEF FlowIs
  <2>5. /\ n \in Nat /\ Len(received) \in Nat /\ Len(fromBackend) \in Nat
        /\ Read \in Nat /\ Len(p.answers) = 2 * n - 2
        /\ Read + Len(fromBackend) = k + Len(p.answers)
    <3>1. n \in Nat
      BY Numbers
    <3> QED BY <2>2, <3>1, Numbers DEF Read, IsPrior, FlowIs
  <2>6. /\ Len(received) >= k + 2 * n - 2 /\ Len(received) # k + 2 * n
        /\ Read # k + 2 * n
    BY <2>2, <2>5
  <2> QED BY <1>1, <2>1, <2>2, <2>3, <2>4, <2>6 DEF AnswerInv
<1>11. "new" \in Stages
  BY DEF Stages
<1>12. UnderWay(k, p, n, text)'
  BY <1>5, <1>9, <1>10, <1>11 DEF UnderWay
<1> QED BY <1>12 DEF text

LEMMA SplitLast ==
  ASSUME NEW s \in Seq(Sqls), s # << >>
  PROVE  /\ Len(s) \in Nat /\ Len(s) >= 1 /\ s[Len(s)] \in Sqls
         /\ RunAll(s) = AfterRequest(RunAll(Earlier(s)), Len(s), Handler[s[Len(s)]])
<1> DEFINE l == s[Len(s)]
<1>1. Len(s) \in Nat /\ Len(s) >= 1 /\ l \in Sqls
  <2>1. Len(s) \in Nat /\ Len(s) # 0
    BY EmptyOrNot
  <2>2. Len(s) \in 1..Len(s)
    BY <2>1
  <2> QED BY <2>1, <2>2
<1>2. /\ Earlier(s) \in Seq(Sqls) /\ Len(Earlier(s)) = Len(s) - 1
      /\ \A i \in 1..(Len(s) - 1) : Earlier(s)[i] = s[i]
  <2> DEFINE k == Len(s) - 1
  <2>1. 1 \in 1..(Len(s) + 1) /\ k \in 0..Len(s) /\ k \in Nat
    BY <1>1
  <2>2. k < Len(s) + 1
    BY <1>1
  <2> HIDE DEF k
  <2>3. /\ SubSeq(s, 1, k) \in Seq(Sqls)
        /\ Len(SubSeq(s, 1, k)) = IF 1 <= k THEN k - 1 + 1 ELSE 0
        /\ \A i \in 1..(k - 1 + 1) : SubSeq(s, 1, k)[i] = s[1 + i - 1]
    BY <2>1, SubSeqProperties
  <2>4. Len(SubSeq(s, 1, k)) = k /\ \A i \in 1..k : SubSeq(s, 1, k)[i] = s[i]
    <3>1. k - 1 + 1 = k
      BY <2>1
    <3>2. \A i \in 1..k : 1 + i - 1 = i
      BY <2>1
    <3>3. ~(1 <= k) => k = 0
      BY <2>1
    <3> QED BY <2>3, <3>1, <3>2, <3>3
  <2> QED BY <2>3, <2>4 DEF Earlier, k
<1>3. s = Append(Earlier(s), l)
  <2> DEFINE r == Append(Earlier(s), l)
  <2> HIDE DEF l
  <2>1. /\ r \in Seq(Sqls) /\ Len(r) = Len(s)
        /\ \A i \in 1..(Len(s) - 1) : r[i] = s[i]
        /\ r[Len(s)] = l
    BY <1>1, <1>2, AppendFacts
  <2>2. \A i \in 1..Len(s) : i \in 1..(Len(s) - 1) \/ i = Len(s)
    BY <1>1
  <2> HIDE DEF r
  <2>3. \A i \in 1..Len(s) : s[i] = r[i]
    BY <2>1, <2>2 DEF l
  <2>4. s = r
    BY <2>1, <2>3, SeqEqual
  <2> QED BY <2>4 DEF r
<1>4. Len(Earlier(s)) + 1 = Len(s)
  BY <1>1, <1>2
<1> HIDE DEF l
<1>5. RunAll(Append(Earlier(s), l)) =
          AfterRequest(RunAll(Earlier(s)), Len(Earlier(s)) + 1, Handler[l])
  BY <1>1, <1>2, RunAllSteps
<1>6. RunAll(s) = AfterRequest(RunAll(Earlier(s)), Len(s), Handler[l])
  BY <1>3, <1>4, <1>5
<1> QED BY <1>1, <1>6 DEF l

\* When the client has seen the ReadyForQuery of its last request, that
\* request is done with.
LEMMA IdleWhenAnswered ==
  ASSUME TypeOK, NEW k \in Nat, NEW p, NEW n, NEW sql, Request(p, n, sql),
         UnderWay(k, p, n, sql), ReadyCount > n,
         incPc \notin {"returned", "closed"}
  PROVE  Idle(k, AfterRequest(p, n, sql), n + 1)
<1>1. PICK g \in Stages : \E rest \in RestsAt(g, n, sql) :
          StageInv(p, g, rest, n, sql) /\ AnswerInv(k, p, g, n, sql)
  BY DEF UnderWay
<1>2. PICK rest \in RestsAt(g, n, sql) :
          StageInv(p, g, rest, n, sql) /\ AnswerInv(k, p, g, n, sql)
  BY <1>1
<1> DEFINE a == AnswersAt(g, p, n, sql)
<1>3. /\ n \in Nat /\ Len(received) \in Nat /\ Read \in Nat
      /\ Read >= Len(received) /\ Len(fromBackend) \in Nat
      /\ Read + Len(fromBackend) = k + Len(a) /\ FlowIs(k, a)
  BY <1>2, AnswersRead
<1>4. Len(received) = k + 2 * n
  <2>1. Len(received) # k + 2 * n => ReadyCount = n
    BY <1>2 DEF AnswerInv
  <2> QED BY <1>3, <2>1
<1>5. ReadyCount = n + 1
  BY <1>2, <1>4 DEF AnswerInv
<1>6. Len(a) = AnswerCount(g, n)
  BY StageCounts
<1> HIDE DEF a
<1>7. g = "done"
  <2>1. Len(a) >= 2 * n
    BY <1>3, <1>4, <1>6
  <2>2. AnswerCount(g, n) >= 2 * n
    BY <1>6, <2>1
  <2> QED BY <1>3, <2>2 DEF AnswerCount, Stages
<1>8. Read = k + 2 * n
  <2>1. Len(a) = 2 * n
    BY <1>6, <1>7 DEF AnswerCount
  <2> QED BY <1>3, <1>4, <2>1
<1>9. FlowIs(k, AfterRequest(p, n, sql).answers)
  BY <1>3, <1>7 DEF a, AnswersAt
<1>10. rest = << >>
  BY <1>7, RestFacts DEF RestShape
<1>11. toProxy = << >> /\ toBackend = << >> /\ incPc # "forward"
  <2>1. 0 = Len(toBackend) + Held + Len(toProxy)
    BY <1>2, <1>10 DEF StageInv, RestIs
  <2>2. Len(toBackend) \in Nat /\ Len(toProxy) \in Nat /\ Held \in {0, 1}
    BY Numbers DEF Held
  <2>3. Len(toBackend) = 0 /\ Len(toProxy) = 0 /\ Held = 0
    BY <2>1, <2>2
  <2>4. toBackend \in Seq(FrontendMessages) /\ toProxy \in Seq(FrontendMessages)
    BY DEF TypeOK
  <2>5. toBackend = << >> /\ toProxy = << >>
    BY <2>3, <2>4, EmptyOrNot
  <2> QED BY <2>3, <2>5 DEF Held
<1>12. incPc \in {"drain", "receive"}
  <2>1. incPc \notin {"error", "status", "ready"}
    BY <1>2, <1>7 DEF StageInv
  <2> QED BY <1>11, <2>1 DEF TypeOK
<1>13. tx = AfterRequest(p, n, sql).st /\ executed = AfterRequest(p, n, sql).ran
  BY <1>2, <1>7 DEF StageInv, Ran
<1>14. lastTxStatus = AfterRequest(p, n, sql).st
  BY <1>2, <1>8 DEF AnswerInv
<1>15. k + 2 * n = k + 2 * (n + 1) - 2
  BY <1>3
<1> QED BY <1>4, <1>5, <1>9, <1>11, <1>12, <1>13, <1>14, <1>15 DEF Idle

\* Before the first request.
LEMMA IdleAtFirst ==
  ASSUME AuthInv, BeforeInv, sent = << >>, Ready
  PROVE  Idle(Len(received), Start, 1) /\ Len(received) \in Nat
<1> DEFINE k == Len(received)
<1>1. TypeOK /\ k \in Nat
  BY Numbers DEF AuthInv
<1>2. /\ \A i \in 1..Len(received) :
             /\ received[i].n = 0
             /\ IsReady(received[i]) =>
                    i = Len(received) /\ rspPc = "read" /\ fromBackend = << >>
      /\ tx = "I" /\ lastTxStatus = "I" /\ executed = << >>
  BY DEF BeforeInv, Before
<1>3. PICK i \in 1..Len(received) : IsReady(received[i])
  BY DEF Ready
<1>4. i = Len(received) /\ rspPc = "read" /\ fromBackend = << >>
  BY <1>2, <1>3
<1>5. Granted /\ Len(delivered) = Due(asked)
  BY <1>3 DEF AuthInv, GrantInv, Granted
<1>6. Len(delivered) = Due(replied)
  <2>1. Len(delivered) <= Due(replied)
    BY DEF AuthInv, ReplyInv
  <2>2. Due(replied) <= Due(asked) /\ Due(replied) \in Nat /\ Due(asked) \in Nat
    BY DueKept
  <2> QED BY <1>5, <2>1, <2>2
<1>7. toProxy = << >> /\ toBackend = << >> /\ incPc \in {"drain", "receive"}
  BY <1>6 DEF AuthInv, ReplyInv
<1>8. FlowIs(k, << >>)
  <2>1. Len(<< >>) = 0 /\ Len(fromBackend) = 0 /\ Read = k
    BY <1>4 DEF Read
  <2>2. /\ \A j \in 1..Len(received) : ~(j > k)
        /\ \A j : j \notin 1..Len(fromBackend)
        /\ Read + Len(fromBackend) = k + Len(<< >>)
    BY <1>1, <2>1
  <2> QED BY <1>2, <1>4, <2>2 DEF FlowIs
<1>9. ReadyCount = 1
  <2>1. {j \in 1..Len(received) : IsReady(received[j])} = {Len(received)}
    BY <1>2, <1>3, <1>4
  <2> QED BY <2>1, FS_Singleton DEF ReadyCount
<1>10. Start.st = "I" /\ Start.answers = << >> /\ Start.ran = << >>
  BY DEF Start
<1>11. k = k + 2 * 1 - 2
  BY <1>1
<1> QED BY <1>1, <1>2, <1>7, <1>8, <1>9, <1>10, <1>11 DEF Idle

LEMMA StartPrior == IsPrior(Start, 1)
<1>1. Start.st = "I" /\ Start.answers = << >> /\ Start.ran = << >>
  BY DEF Start
<1>2. << >> \in Seq(BackendMessages) /\ Len(<< >>) = 2 * 1 - 2
  OBVIOUS
<1>3. << >> \in Seq([n : 1..MaxRequests, sql : Sqls])
  OBVIOUS
<1> QED BY <1>1, <1>2, <1>3 DEF IsPrior, TxStates

LEMMA TheRequest ==
  ASSUME AuthInv, RequestInv, sent # << >>
  PROVE  /\ \E k \in Nat :
                k <= Len(received) /\ UnderWay(k, Prior, Number, Text)
         /\ Request(Prior, Number, Text)
         /\ Reference = AfterRequest(Prior, Number, Text)
         /\ Number = Len(sent) /\ Len(sent) \in Nat
<1>1. sent \in Seq(Sqls) /\ Len(received) \in Nat
  BY Numbers DEF AuthInv, TypeOK
<1>2. /\ Len(sent) \in Nat
      /\ RunAll(sent) = AfterRequest(RunAll(Earlier(sent)), Len(sent),
                                     Handler[sent[Len(sent)]])
  BY <1>1, SplitLast
<1>3. PICK k \in 0..Len(received) :
          Request(Prior, Number, Text) /\ UnderWay(k, Prior, Number, Text)
  BY DEF RequestInv
<1>4. k \in Nat /\ k <= Len(received)
  BY <1>1
<1>5. Reference = AfterRequest(Prior, Number, Text) /\ Number = Len(sent)
  BY <1>2 DEF Reference, Prior, Number, Text
<1> QED BY <1>2, <1>3, <1>4, <1>5

LEMMA SendRequest ==
  ASSUME QueryInv, Waits, NEW sql \in Sqls,
         NEW types \in {<<"query">>, <<"parse", "execute", "sync">>},
         types # <<"query">> => sql \in Batched, Send(sql, types)
  PROVE  RequestInv' /\ sent' # << >>
<1> DEFINE n == Len(sent) + 1
<1>1. AuthInv /\ BeforeInv /\ RequestInv /\ TypeOK
  BY DEF QueryInv, AuthInv
<1>2. /\ sent \in Seq(Sqls) /\ Len(sent) \in Nat
  BY <1>1, Numbers DEF TypeOK
<1>3. /\ sent' = Append(sent, sql) /\ Ready /\ Outstanding < Window
      /\ Len(sent) < MaxRequests /\ received' = received
  BY DEF Send
<1>4. /\ Len(sent') = n /\ sent'[n] = sql /\ sent' # << >>
      /\ n \in 1..MaxRequests /\ n \in Nat
  <2>1. MaxRequests \in Nat
    BY QueryAssumption
  <2>2. Len(sent') = n /\ sent'[n] = sql
    BY <1>2, <1>3, AppendFacts
  <2>3. sent' # << >>
    BY <1>2, <1>3
  <2> QED BY <1>2, <1>3, <2>1, <2>2, <2>3
<1>5. Prior' = RunAll(sent) /\ Number' = n /\ Text' = Handler[sql]
  <2>1. Earlier(sent') = sent
    BY <1>2, <1>3, RunAllSteps
  <2>2. Prior' = RunAll(Earlier(sent'))
    BY DEF Prior, RunAll, Earlier, AfterRequest
  <2>3. Number' = n
    BY <1>4 DEF Number
  <2>4. Text' = Handler[sql]
    BY <1>4 DEF Text
  <2> QED BY <2>1, <2>2, <2>3, <2>4
<1>6. Outstanding = n - ReadyCount /\ ReadyCount \in Nat
  <2> DEFINE R == {i \in 1..Len(received) : IsReady(received[i])}
             c == Cardinality(R)
  <2>1. Outstanding = Len(sent) + 1 - c
    BY DEF Outstanding
  <2>2. ReadyCount = c
    BY DEF ReadyCount
  <2>3. c \in Nat
    <3>1. IsFiniteSet(1..Len(received))
      <4>1. Len(received) \in Nat
        BY <1>1, Numbers
      <4> QED BY <4>1, FS_Interval
    <3>2. IsFiniteSet(R)
      BY <3>1, FS_Subset
    <3> QED BY <3>2, FS_CardinalityType
  <2> HIDE DEF c
  <2> QED BY <1>2, <2>1, <2>2, <2>3
<1>7. Window = 1
  BY DEF Waits
<1>8. PICK k \in Nat : IsPrior(RunAll(sent), n) /\ Idle(k, RunAll(sent), n)
                       /\ k <= Len(received)
  <2>1. CASE sent = << >>
    <3>1. Idle(Len(received), Start, 1) /\ Len(received) \in Nat
      BY <1>1, <1>3, <2>1, IdleAtFirst
    <3>2. RunAll(sent) = Start /\ n = 1
      BY <2>1, RunAllSteps
    <3>3. Len(received) <= Len(received)
      BY <3>1
    <3> QED BY <3>1, <3>2, <3>3, StartPrior
  <2>2. CASE sent # << >>
    <3>1. /\ Request(Prior, Number, Text)
          /\ RunAll(sent) = AfterRequest(Prior, Number, Text)
          /\ Number = Len(sent)
      BY <1>1, <2>2, TheRequest DEF Reference
    <3>2. PICK k \in Nat : k <= Len(received) /\ UnderWay(k, Prior, Number, Text)
      BY <1>1, <2>2, TheRequest
    <3>3. ReadyCount \in Nat
      BY <1>6
    <3>4. ReadyCount > Len(sent)
      BY <1>2, <1>3, <1>6, <1>7, <3>3
    <3>5. Idle(k, RunAll(sent), n)
      <4>1. incPc \notin {"returned", "closed"}
        BY <1>1, <2>2, NoReplies
      <4>2. ReadyCount > Number
        BY <3>1, <3>4
      <4>3. Idle(k, AfterRequest(Prior, Number, Text), Number + 1)
        BY <1>1, <3>1, <3>2, <4>1, <4>2, IdleWhenAnswered
      <4> QED BY <3>1, <4>3
    <3>6. IsPrior(RunAll(sent), n)
      <4>1. IsPrior(AfterRequest(Prior, Number, Text), Number + 1)
        BY <3>1, AfterFacts DEF Request
      <4> QED BY <3>1, <4>1
    <3> QED BY <3>2, <3>5, <3>6
  <2> QED BY <2>1, <2>2
<1>9. PICK p : p = RunAll(sent)
  OBVIOUS
<1>10. PICK m : m = n
  OBVIOUS
<1> HIDE DEF n
<1>11. UnderWay(k, p, m, Handler[sql])'
  <2>1. m = Len(sent) + 1
    BY <1>10 DEF n
  <2> QED BY <1>1, <1>8, <1>9, <1>10, <2>1, SendStarts
<1>12. Request(p, m, Handler[sql])
  <2>1. Handler[sql] \in Sqls \cup {"block"}
    BY QueryAssumption
  <2> QED BY <1>4, <1>8, <1>9, <1>10, <2>1 DEF Request
<1>13. /\ p \in {Prior'} /\ m \in {Number'} /\ Handler[sql] \in {Text'}
       /\ k \in 0..Len(received')
  <2>1. Len(received) \in Nat
    BY <1>1, Numbers
  <2>2. k \in 0..Len(received')
    BY <1>3, <1>8, <2>1
  <2> QED BY <1>5, <1>9, <1>10, <2>2
<1>14. RequestInv'
  <2> DEFINE t == Handler[sql]
  <2>1. /\ t \in {Text'} /\ Request(p, m, t) /\ UnderWay(k, p, m, t)'
    BY <1>11, <1>12, <1>13
  <2>2. Request(p, m, t)'
    BY <2>1 DEF Request, IsPrior
  <2> HIDE DEF t
  <2> QED BY <1>13, <2>1, <2>2 DEF RequestInv
<1> QED BY <1>4, <1>14

-----------------------------------------------------------------------------
(* Before the first request *)

LEMMA BeforeKept ==
  ASSUME Before, UNCHANGED <<received, rspPc, rspMsg, fromBackend, lastTxStatus,
                             tx, executed>>
  PROVE  Before'
  BY DEF Before, IsReady

LEMMA RspReceiveBefore ==
  ASSUME AuthInv, Before, RspReceive
  PROVE  Before'
<1>1. /\ UNCHANGED <<received, tx, executed>>
      /\ fromBackend # << >> /\ rspMsg' = Head(fromBackend)
      /\ fromBackend' = Tail(fromBackend)
      /\ lastTxStatus' = IF IsReady(rspMsg') THEN rspMsg'.val ELSE lastTxStatus
      /\ rspPc = "read" /\ rspPc' # "read"
  BY DEF RspReceive, RspStep, queryVars
<1>2. /\ fromBackend' \in Seq(BackendMessages)
      /\ Len(fromBackend) \in Nat /\ Len(fromBackend) > 0
      /\ Len(fromBackend') = Len(fromBackend) - 1
      /\ \A i \in 1..(Len(fromBackend) - 1) : fromBackend'[i] = fromBackend[i + 1]
      /\ rspMsg' = fromBackend[1]
  <2>1. fromBackend \in Seq(BackendMessages)
    BY DEF AuthInv, TypeOK
  <2> QED BY <1>1, <2>1, TailFacts
<1>3. \A i \in 1..Len(fromBackend) :
          /\ fromBackend[i].n = 0
          /\ IsReady(fromBackend[i]) =>
                 fromBackend[i].val = "I" /\ i = Len(fromBackend)
  BY DEF Before
<1>4. \A i \in 1..Len(received) : received[i].n = 0 /\ ~IsReady(received[i])
  BY <1>1 DEF Before
<1>5. 1 \in 1..Len(fromBackend)
  BY <1>2
<1>6. /\ rspMsg'.n = 0
      /\ IsReady(rspMsg') => rspMsg'.val = "I" /\ fromBackend' = << >>
  <2>1. IsReady(rspMsg') => rspMsg'.val = "I" /\ 1 = Len(fromBackend)
    BY <1>2, <1>3, <1>5
  <2>2. 1 = Len(fromBackend) => fromBackend' = << >>
    <3>1. 1 = Len(fromBackend) => Len(fromBackend') = 0
      <4> DEFINE f == Len(fromBackend)
      <4>1. Len(fromBackend') = f - 1
        BY <1>2
      <4> HIDE DEF f
      <4>2. 1 = f => Len(fromBackend') = 0
        BY <4>1
      <4> QED BY <4>2 DEF f
    <3> QED BY <1>2, <3>1, EmptyOrNot
  <2> QED BY <1>2, <1>3, <1>5, <2>1, <2>2
<1>7. \A i \in 1..Len(fromBackend') :
          /\ fromBackend'[i].n = 0
          /\ IsReady(fromBackend'[i]) =>
                 fromBackend'[i].val = "I" /\ i = Len(fromBackend')
  <2> SUFFICES ASSUME NEW i \in 1..Len(fromBackend')
               PROVE  /\ fromBackend'[i].n = 0
                      /\ IsReady(fromBackend'[i]) =>
                             fromBackend'[i].val = "I" /\ i = Len(fromBackend')
    OBVIOUS
  <2>1. /\ i + 1 \in 1..Len(fromBackend) /\ fromBackend'[i] = fromBackend[i + 1]
        /\ i + 1 = Len(fromBackend) => i = Len(fromBackend')
    BY <1>2
  <2> QED BY <1>3, <2>1
<1>8. lastTxStatus' = "I" /\ tx = "I" /\ executed = << >>
  BY <1>1, <1>6 DEF Before
<1> QED BY <1>1, <1>4, <1>6, <1>7, <1>8 DEF Before, IsReady

LEMMA RspSendBefore ==
  ASSUME AuthInv, Before, RspSend
  PROVE  Before'
<1>1. /\ UNCHANGED <<received, rspMsg, fromBackend, lastTxStatus, tx, executed>>
      /\ rspPc = "send" /\ rspPc' = "write"
  BY DEF RspSend, RspStep, queryVars
<1>2. \A i \in 1..Len(received) : received[i].n = 0 /\ ~IsReady(received[i])
  BY <1>1 DEF Before
<1> QED BY <1>1, <1>2 DEF Before, IsReady

LEMMA RspWriteBefore ==
  ASSUME AuthInv, Before, RspWrite
  PROVE  Before'
<1>1. /\ UNCHANGED <<fromBackend, lastTxStatus, tx, executed>>
      /\ received' = Append(received, rspMsg)
      /\ rspPc # "read" /\ rspPc' = "read"
  BY DEF RspWrite, RspStep, queryVars
<1>2. /\ Len(received) \in Nat /\ Len(received') = Len(received) + 1
      /\ \A i \in 1..Len(received) : received'[i] = received[i]
      /\ received'[Len(received) + 1] = rspMsg
  <2>1. received \in Seq(BackendMessages) /\ rspMsg \in BackendMessages
    BY <1>1 DEF AuthInv, TypeOK, HeldInv
  <2> QED BY <1>1, <2>1, AppendFacts
<1>3. \A i \in 1..Len(received) : received[i].n = 0 /\ ~IsReady(received[i])
  BY <1>1 DEF Before
<1>4. rspMsg.n = 0 /\ (IsReady(rspMsg) => fromBackend = << >>)
  BY <1>1 DEF Before
<1>5. \A i \in 1..Len(received') :
          /\ received'[i].n = 0
          /\ IsReady(received'[i]) =>
                 i = Len(received') /\ rspPc' = "read" /\ fromBackend' = << >>
  <2> SUFFICES ASSUME NEW i \in 1..Len(received')
               PROVE  /\ received'[i].n = 0
                      /\ IsReady(received'[i]) =>
                             /\ i = Len(received') /\ rspPc' = "read"
                             /\ fromBackend' = << >>
    OBVIOUS
  <2>1. i \in 1..Len(received) \/ i = Len(received) + 1
    BY <1>2
  <2> QED BY <1>1, <1>2, <1>3, <1>4, <2>1
<1>6. /\ \A i \in 1..Len(fromBackend) :
             /\ fromBackend[i].n = 0
             /\ IsReady(fromBackend[i]) =>
                    fromBackend[i].val = "I" /\ i = Len(fromBackend)
      /\ tx = "I" /\ lastTxStatus = "I" /\ executed = << >>
  BY DEF Before
<1> QED BY <1>1, <1>5, <1>6 DEF Before, IsReady

\* The backend sends messages of number 0, a ReadyForQuery after the others.
LEMMA BackendSendsBefore ==
  ASSUME AuthInv, Before, ~decided,
         UNCHANGED <<received, rspPc, rspMsg, lastTxStatus, tx, executed>>,
         NEW more \in Seq(BackendMessages), fromBackend' = fromBackend \o more,
         \A i \in 1..Len(more) :
             /\ more[i].n = 0
             /\ IsReady(more[i]) => more[i].val = "I" /\ i = Len(more)
  PROVE  Before'
<1>1. /\ \A i \in 1..Len(received) : ~IsReady(received[i])
      /\ rspPc # "read" => ~IsReady(rspMsg)
      /\ \A i \in 1..Len(fromBackend) : ~IsReady(fromBackend[i])
  BY DEF AuthInv, GrantInv, Granted
<1>2. /\ \A i \in 1..Len(received) : received[i].n = 0
      /\ rspPc # "read" => rspMsg.n = 0
      /\ \A i \in 1..Len(fromBackend) : fromBackend[i].n = 0
      /\ tx = "I" /\ lastTxStatus = "I" /\ executed = << >>
  BY DEF Before
<1>3. /\ Len(fromBackend) \in Nat /\ Len(more) \in Nat
      /\ Len(fromBackend') = Len(fromBackend) + Len(more)
      /\ \A i \in 1..Len(fromBackend) : fromBackend'[i] = fromBackend[i]
      /\ \A i \in 1..Len(more) : fromBackend'[Len(fromBackend) + i] = more[i]
  <2>1. fromBackend \in Seq(BackendMessages)
    BY DEF AuthInv, TypeOK
  <2> QED BY <2>1, ConcatFacts
<1>4. \A i \in 1..Len(fromBackend') :
          /\ fromBackend'[i].n = 0
          /\ IsReady(fromBackend'[i]) =>
                 fromBackend'[i].val = "I" /\ i = Len(fromBackend')
  <2> SUFFICES ASSUME NEW i \in 1..Len(fromBackend')
               PROVE  /\ fromBackend'[i].n = 0
                      /\ IsReady(fromBackend'[i]) =>
                             fromBackend'[i].val = "I" /\ i = Len(fromBackend')
    OBVIOUS
  <2>1. CASE i \in 1..Len(fromBackend)
    BY <1>1, <1>2, <1>3, <2>1
  <2>2. CASE i \notin 1..Len(fromBackend)
    <3> DEFINE f == Len(fromBackend)  l == Len(more)  j == i - f
    <3>1. f \in Nat /\ l \in Nat /\ i \in 1..(f + l) /\ i \notin 1..f
      BY <1>3, <2>2
    <3>2. Len(fromBackend') = f + l
          /\ \A d \in 1..l : fromBackend'[f + d] = more[d]
      BY <1>3
    <3> HIDE DEF f, l
    <3>3. j \in 1..l /\ i = f + j
      BY <3>1
    <3>4. j = l => i = f + l
      BY <3>3
    <3> HIDE DEF j
    <3>5. /\ more[j].n = 0
          /\ IsReady(more[j]) => more[j].val = "I" /\ j = l
      BY <3>3 DEF l
    <3> QED BY <3>2, <3>3, <3>4, <3>5
  <2> QED BY <2>1, <2>2
<1> QED BY <1>1, <1>2, <1>4 DEF Before, IsReady

LEMMA BackendBefore ==
  ASSUME AuthInv, Before, sent = << >>, Backend
  PROVE  Before'
<1>1. TypeOK /\ HeldInv
  BY DEF AuthInv
<1>2. CASE BackendAsks
  <2>1. /\ ~decided
        /\ UNCHANGED <<received, rspPc, rspMsg, lastTxStatus, tx, executed>>
        /\ \/ /\ asked < Len(script)
              /\ fromBackend' =
                     Append(fromBackend, Msg(0, "auth", script[asked + 1].ask))
           \/ fromBackend' =
                  fromBackend \o <<Msg(0, "ok", ""), Msg(0, "ready", "I")>>
    BY <1>1, <1>2, BackendAsksTyped
  <2>2. CASE asked < Len(script)
             /\ fromBackend' =
                    Append(fromBackend, Msg(0, "auth", script[asked + 1].ask))
    <3> DEFINE e == Msg(0, "auth", script[asked + 1].ask)
    <3>1. e.n = 0 /\ ~IsReady(e)
      BY DEF Msg, IsReady
    <3>2. e \in BackendMessages
      <4>1. /\ script \in Seq(Steps) /\ asked \in Nat /\ Len(script) \in Nat
        BY <1>1, ScriptTyped DEF IsScript
      <4>2. asked + 1 \in 1..Len(script)
        BY <2>2, <4>1
      <4>3. script[asked + 1].ask \in AuthTypes
        <5>1. script[asked + 1] \in Steps
          BY <4>1, <4>2
        <5> QED BY <5>1 DEF Steps
      <4> QED BY <4>3, NewMessages
    <3> HIDE DEF e
    <3>3. fromBackend' = fromBackend \o <<e>>
      <4>1. fromBackend \in Seq(BackendMessages)
        BY <1>1 DEF TypeOK
      <4> QED BY <2>2, <3>2, <4>1 DEF e
    <3>4. <<e>> \in Seq(BackendMessages) /\ \A i \in 1..Len(<<e>>) : <<e>>[i] = e
      BY <3>2, OneElement
    <3> DEFINE more == <<e>>
    <3>5. /\ more \in Seq(BackendMessages) /\ fromBackend' = fromBackend \o more
          /\ \A i \in 1..Len(more) : more[i].n = 0 /\ ~IsReady(more[i])
      BY <3>1, <3>3, <3>4
    <3> HIDE DEF more
    <3> QED BY <2>1, <3>5, BackendSendsBefore
  <2>3. CASE fromBackend' = fromBackend \o <<Msg(0, "ok", ""), Msg(0, "ready", "I")>>
    <3> DEFINE x == Msg(0, "ok", "")  y == Msg(0, "ready", "I")  more == <<x, y>>
    <3>1. x.n = 0 /\ y.n = 0 /\ ~IsReady(x) /\ y.val = "I"
      BY DEF Msg, IsReady
    <3>2. x \in BackendMessages /\ y \in BackendMessages
      <4>1. 0 \in 0..MaxRequests /\ "I" \in TxStates
        BY QueryAssumption DEF TxStates
      <4> QED BY <4>1, NewMessages
    <3> HIDE DEF x, y
    <3>3. /\ more \in Seq(BackendMessages) /\ Len(more) = 2
          /\ more[1] = x /\ more[2] = y
      BY <3>2
    <3>4. fromBackend' = fromBackend \o more
      BY <2>3 DEF x, y
    <3> HIDE DEF more
    <3>5. \A i \in 1..Len(more) :
              /\ more[i].n = 0
              /\ IsReady(more[i]) => more[i].val = "I" /\ i = Len(more)
      <4>1. \A i \in 1..Len(more) : i = 1 \/ i = 2
        BY <3>3
      <4> QED BY <3>1, <3>3, <4>1
    <3> QED BY <2>1, <3>3, <3>4, <3>5, BackendSendsBefore
  <2> QED BY <2>1, <2>2, <2>3
<1>3. CASE BackendRefuses
  <2> DEFINE e == Msg(0, "refused", "")
  <2>1. /\ ~decided
        /\ UNCHANGED <<received, rspPc, rspMsg, lastTxStatus, tx, executed>>
        /\ fromBackend' = Append(fromBackend, e) /\ e \in BackendMessages
    BY <1>1, <1>3, BackendRefusesTyped
  <2>2. e.n = 0 /\ ~IsReady(e)
    BY DEF Msg, IsReady
  <2> HIDE DEF e
  <2>3. fromBackend' = fromBackend \o <<e>>
    <3>1. fromBackend \in Seq(BackendMessages)
      BY <1>1 DEF TypeOK
    <3> QED BY <2>1, <3>1
  <2>4. <<e>> \in Seq(BackendMessages) /\ \A i \in 1..Len(<<e>>) : <<e>>[i] = e
    BY <2>1, OneElement
  <2> DEFINE more == <<e>>
  <2>5. /\ more \in Seq(BackendMessages) /\ fromBackend' = fromBackend \o more
        /\ \A i \in 1..Len(more) : more[i].n = 0 /\ ~IsReady(more[i])
    BY <2>2, <2>3, <2>4
  <2> HIDE DEF more
  <2> QED BY <2>1, <2>5, BackendSendsBefore
<1>4. CASE BackendReceives
  <2>1. /\ toBackend # << >>
        /\ UNCHANGED <<received, rspPc, rspMsg, lastTxStatus>>
        /\ IsReply(Head(toBackend)) => fromBackend' = fromBackend
    BY <1>1, <1>4, BackendReceivesTyped
  <2>2. IsReply(Head(toBackend))
    <3>1. toBackend \in Seq(FrontendMessages)
      BY <1>1 DEF TypeOK
    <3>2. Head(toBackend) = toBackend[1]
      BY <2>1, <3>1, TailFacts
    <3>3. IsReply(toBackend[1])
      BY <2>1 DEF AuthInv, ReplyInv
    <3> QED BY <3>2, <3>3
  <2>3. tx' = tx /\ executed' = executed
    BY <1>4, <2>2 DEF BackendReceives, queryVars, IsReply
  <2> QED BY <2>1, <2>2, <2>3, BeforeKept
<1> QED BY <1>2, <1>3, <1>4 DEF Backend

-----------------------------------------------------------------------------
(* The steps *)

\* A request that stays under way is the last one that was sent.
LEMMA RequestKept ==
  ASSUME NEW k \in Nat, NEW p, NEW n, NEW sql, p = Prior, n = Number, sql = Text,
         Request(p, n, sql), UnderWay(k, p, n, sql)', sent' = sent,
         Len(received') \in Nat
  PROVE  RequestInv'
<1>1. PICK g \in Stages : \E rest \in RestsAt(g, n, sql) :
          (StageInv(p, g, rest, n, sql) /\ AnswerInv(k, p, g, n, sql))'
  BY DEF UnderWay
<1>2. AnswerInv(k, p, g, n, sql)'
  BY <1>1
<1>3. Len(received') >= k + 2 * n - 2
  BY <1>2 DEF AnswerInv
<1>4. n \in Nat /\ n >= 1
  BY QueryAssumption DEF Request
<1>5. k \in 0..Len(received')
  BY <1>3, <1>4
<1>6. p = Prior' /\ n = Number' /\ sql = Text'
  BY DEF Prior, Number, Text
<1>7. Request(p, n, sql)'
  BY DEF Request, IsPrior
<1> QED BY <1>5, <1>6, <1>7 DEF RequestInv

LEMMA IncUnderWay ==
  ASSUME AuthInv, sent # << >>, NEW k \in Nat, NEW p, NEW n, NEW sql,
         Request(p, n, sql), UnderWay(k, p, n, sql), Inc
  PROVE  UnderWay(k, p, n, sql)' /\ sent' = sent
<1>1. CASE IncDrain
  <2>1. sent' = sent
    BY <1>1 DEF IncDrain, IncStep, clientVars
  <2> QED BY <1>1, <2>1, IncDrainUnderWay
<1>2. CASE IncReceive
  <2>1. sent' = sent
    BY <1>2 DEF IncReceive, IncStep, clientVars
  <2> QED BY <1>2, <2>1, IncReceiveUnderWay
<1>3. CASE IncForward
  <2>1. sent' = sent
    BY <1>3 DEF IncForward, IncStep, clientVars
  <2> QED BY <1>3, <2>1, IncForwardUnderWay
<1>4. CASE IncError
  <2>1. sent' = sent
    BY <1>4 DEF IncError, IncStep, clientVars
  <2> QED BY <1>4, <2>1, IncErrorUnderWay
<1>5. CASE IncStatus
  <2>1. sent' = sent
    BY <1>5 DEF IncStatus, IncStep, clientVars
  <2> QED BY <1>5, <2>1, IncStatusUnderWay
<1>6. CASE IncReady
  <2>1. sent' = sent
    BY <1>6 DEF IncReady, IncStep, clientVars
  <2> QED BY <1>6, <2>1, IncReadyUnderWay
<1>7. CASE IncReceiveFails
  \* There is no reply left to fail on.
  <2>1. /\ toProxy # << >> /\ IsReply(Head(toProxy))
        /\ toProxy \in Seq(FrontendMessages)
    BY <1>7 DEF IncReceiveFails, IsReply, AuthInv, TypeOK
  <2>2. Len(toProxy) \in Nat /\ Len(toProxy) > 0 /\ Head(toProxy) = toProxy[1]
    BY <2>1, TailFacts
  <2> QED BY <2>1, <2>2, NoReplies
<1> QED BY <1>1, <1>2, <1>3, <1>4, <1>5, <1>6, <1>7 DEF Inc

\* With a request under way there are no authentication requests left to relay.
LEMMA RspUnderWay ==
  ASSUME AuthInv, sent # << >>, NEW k \in Nat, NEW p, NEW n, NEW sql,
         Request(p, n, sql), UnderWay(k, p, n, sql), Rsp
  PROVE  UnderWay(k, p, n, sql)' /\ sent' = sent
<1>1. CASE RspReceive
  <2>1. sent' = sent
    BY <1>1 DEF RspReceive, RspStep, clientVars
  <2> QED BY <1>1, <2>1, RspReceiveUnderWay
<1>2. CASE RspSend
  <2>1. rspPc = "send"
    BY <1>2 DEF RspSend, RspStep
  <2> QED BY <2>1, NoReplies
<1>3. CASE RspWrite
  <2>1. sent' = sent
    BY <1>3 DEF RspWrite, RspStep, clientVars
  <2> QED BY <1>3, <2>1, RspWriteUnderWay
<1> QED BY <1>1, <1>2, <1>3 DEF Rsp

LEMMA BackendUnderWay ==
  ASSUME AuthInv, sent # << >>, NEW k \in Nat, NEW p, NEW n, NEW sql,
         Request(p, n, sql), UnderWay(k, p, n, sql), Backend
  PROVE  UnderWay(k, p, n, sql)' /\ sent' = sent
<1>1. BackendReceives
  <2>1. decided
    BY NoReplies
  <2> QED BY <2>1 DEF Backend, BackendAsks, BackendRefuses
<1>2. sent' = sent
  BY <1>1, BackendReceivesTyped DEF AuthInv
<1> QED BY <1>1, <1>2, BackendReceivesUnderWay

\* Before the first request the handler has nothing to block.
LEMMA OtherBefore ==
  ASSUME AuthInv, Before, sent = << >>,
         ClientReplies \/ Inc \/ Rsp \/ SessionEnds \/ Backend
  PROVE  Before' /\ sent' = sent
<1>1. TypeOK
  BY DEF AuthInv
<1>2. CASE ClientReplies
  <2>1. UNCHANGED <<sent, received, rspPc, rspMsg, fromBackend, lastTxStatus, tx,
                    executed>>
    BY <1>2 DEF ClientReplies, rspVars, queryVars
  <2> QED BY <2>1, BeforeKept
<1>3. CASE Inc \/ SessionEnds
  <2>1. incPc \in {"drain", "receive", "forward", "returned", "closed"}
    BY DEF AuthInv, ReplyInv
  <2>2. IncDrain \/ IncReceive \/ IncReceiveFails \/ IncForward \/ SessionEnds
    BY <1>3, <2>1 DEF Inc, IncError, IncStatus, IncReady, IncStep
  <2>3. UNCHANGED <<sent, received, rspPc, rspMsg, fromBackend, lastTxStatus, tx,
                    executed>>
    BY <2>2 DEF IncDrain, IncReceive, IncReceiveFails, IncForward, SessionEnds,
                IncStep, clientVars, rspVars, queryVars
  <2> QED BY <2>3, BeforeKept
<1>4. CASE Rsp
  <2>1. sent' = sent
    BY <1>4 DEF Rsp, RspReceive, RspSend, RspWrite, RspStep, clientVars
  <2> QED BY <1>4, <2>1, RspReceiveBefore, RspSendBefore, RspWriteBefore DEF Rsp
<1>5. CASE Backend
  <2>1. sent' = sent
    BY <1>1, <1>5, BackendAsksTyped, BackendRefusesTyped, BackendReceivesTyped
    DEF Backend, AuthInv
  <2> QED BY <1>5, <2>1, BackendBefore
<1> QED BY <1>2, <1>3, <1>4, <1>5

LEMMA QueryStep == Waits /\ QueryInv /\ [Next]_vars => QueryInv'
<1> SUFFICES ASSUME Waits, QueryInv, [Next]_vars PROVE QueryInv'
  OBVIOUS
<1>1. AuthInv /\ BeforeInv /\ RequestInv /\ AuthInv'
  BY AuthStep DEF QueryInv
<1>2. ASSUME NEW sql \in Sqls, SendQuery(sql) \/ SendBatch(sql)
      PROVE  QueryInv'
  <2>1. PICK types \in {<<"query">>, <<"parse", "execute", "sync">>} :
            Send(sql, types) /\ (types # <<"query">> => sql \in Batched)
    BY <1>2 DEF SendQuery, SendBatch
  <2>2. RequestInv' /\ sent' # << >>
    BY <2>1, SendRequest
  <2> QED BY <1>1, <2>2 DEF QueryInv, BeforeInv
<1>3. ASSUME ClientReplies \/ Inc \/ Rsp \/ SessionEnds \/ Backend PROVE QueryInv'
  <2>1. CASE sent = << >>
    <3>1. Before' /\ sent' = << >>
      BY <1>1, <1>3, <2>1, OtherBefore DEF BeforeInv
    <3> QED BY <1>1, <3>1 DEF QueryInv, BeforeInv, RequestInv
  <2>2. CASE sent # << >>
    <3>1. PICK p, n, sql : p = Prior /\ n = Number /\ sql = Text
      OBVIOUS
    <3>2. PICK k \in Nat : UnderWay(k, p, n, sql)
      BY <1>1, <2>2, <3>1, TheRequest
    <3>3. Request(p, n, sql)
      BY <1>1, <2>2, <3>1, TheRequest
    <3>4. UnderWay(k, p, n, sql)' /\ sent' = sent
      <4>1. CASE ClientReplies
        BY <1>1, <2>2, <3>2, <4>1, ClientRepliesUnderWay
      <4>2. CASE Inc
        BY <1>1, <2>2, <3>2, <3>3, <4>2, IncUnderWay
      <4>3. CASE Rsp
        BY <1>1, <2>2, <3>2, <3>3, <4>3, RspUnderWay
      <4>4. CASE Backend
        BY <1>1, <2>2, <3>2, <3>3, <4>4, BackendUnderWay
      <4>5. ~SessionEnds
        BY <1>1, <2>2, NoReplies DEF SessionEnds, IncStep
      <4> QED BY <1>3, <4>1, <4>2, <4>3, <4>4, <4>5
    <3>5. Len(received') \in Nat
      <4>1. received' \in Seq(BackendMessages)
        BY <1>1 DEF AuthInv, TypeOK
      <4> QED BY <4>1
    <3>6. RequestInv'
      BY <3>1, <3>3, <3>4, <3>5, RequestKept
    <3> QED BY <1>1, <2>2, <3>4, <3>6 DEF QueryInv, BeforeInv
  <2> QED BY <2>1, <2>2
<1>4. CASE UNCHANGED vars
  <2>1. UNCHANGED <<sent, toProxy, toBackend, fromBackend, received, incPc, incMsg,
                    txStatus, rspPc, rspMsg, lastTxStatus, tx, stmt, executed>>
    BY <1>4 DEF vars, clientVars, incVars, rspVars, queryVars
  <2>2. BeforeInv'
    BY <1>1, <2>1, BeforeKept DEF BeforeInv
  <2>3. CASE sent = << >>
    BY <1>1, <2>1, <2>2, <2>3 DEF QueryInv, RequestInv
  <2>4. CASE sent # << >>
    <3>1. PICK p, n, sql : p = Prior /\ n = Number /\ sql = Text
      OBVIOUS
    <3>2. PICK k \in Nat : UnderWay(k, p, n, sql)
      BY <1>1, <2>4, <3>1, TheRequest
    <3>3. Request(p, n, sql)
      BY <1>1, <2>4, <3>1, TheRequest
    <3>4. UnderWay(k, p, n, sql)'
      BY <2>1, <3>2, UnderWayKept
    <3>5. Len(received') \in Nat
      <4>1. received' \in Seq(BackendMessages)
        BY <1>1 DEF AuthInv, TypeOK
      <4> QED BY <4>1
    <3>6. RequestInv'
      BY <2>1, <3>1, <3>3, <3>4, <3>5, RequestKept
    <3> QED BY <1>1, <2>2, <3>6 DEF QueryInv
  <2> QED BY <2>3, <2>4
<1> QED BY <1>2, <1>3, <1>4 DEF Next

LEMMA InitQuery == Init => QueryInv
<1> SUFFICES ASSUME Init PROVE QueryInv
  OBVIOUS
<1>1. AuthInv
  BY InitAuth
<1>2. /\ sent = << >> /\ received = << >> /\ fromBackend = << >> /\ rspPc = "read"
      /\ tx = "I" /\ lastTxStatus = "I" /\ executed = << >>
  BY DEF Init
<1>3. \A i : i \notin 1..Len(<< >>)
  OBVIOUS
<1>4. Before
  BY <1>2, <1>3 DEF Before
<1> QED BY <1>1, <1>2, <1>4 DEF QueryInv, BeforeInv, RequestInv

LEMMA QueryHolds == Waits => (Spec => []QueryInv)
<1> SUFFICES ASSUME Waits PROVE Spec => []QueryInv
  OBVIOUS
<1>1. QueryInv /\ [Next]_vars => QueryInv'
  BY QueryStep
<1> QED BY <1>1, InitQuery, PTL DEF Spec

-----------------------------------------------------------------------------
(* The theorems *)

LEMMA PartOf ==
  ASSUME NEW S, NEW s \in Seq(S), NEW m \in Nat, NEW n \in Nat, m <= n, n <= Len(s)
  PROVE  /\ SubSeq(s, m + 1, n) \in Seq(S) /\ Len(SubSeq(s, m + 1, n)) = n - m
         /\ \A i \in 1..(n - m) : SubSeq(s, m + 1, n)[i] = s[m + i]
<1> DEFINE l == Len(s)
<1>0. l \in Nat /\ n <= l
  OBVIOUS
<1> DEFINE a == m + 1
<1>1. a \in Int /\ n \in Int /\ a >= 1
  OBVIOUS
<1>2. \A i \in a..n : s[i] \in S
  <2>1. ASSUME NEW i \in a..n PROVE i \in 1..l
    <3> HIDE DEF l
    <3> QED BY <1>0, <1>1
  <2> QED BY <2>1
<1>3. n - a + 1 = n - m /\ (a <= n \/ n - m = 0)
  OBVIOUS
<1>4. \A i \in 1..(n - m) : a + i - 1 = m + i
  OBVIOUS
<1> HIDE DEF a
<1>5. /\ SubSeq(s, a, n) \in Seq(S)
      /\ Len(SubSeq(s, a, n)) = IF a <= n THEN n - a + 1 ELSE 0
      /\ \A i \in 1..(n - a + 1) : SubSeq(s, a, n)[i] = s[a + i - 1]
  BY <1>1, <1>2, SubSeqProperties
<1>6. /\ SubSeq(s, a, n) \in Seq(S) /\ Len(SubSeq(s, a, n)) = n - m
      /\ \A i \in 1..(n - m) : SubSeq(s, a, n)[i] = s[m + i]
  BY <1>3, <1>4, <1>5
<1> QED BY <1>6 DEF a

LEMMA PrefixIf ==
  ASSUME NEW S, NEW s \in Seq(S), NEW t \in Seq(S), Len(s) <= Len(t),
         \A i \in 1..Len(s) : s[i] = t[i]
  PROVE  IsPrefix(s, t)
<1> DEFINE l == Len(s)
<1>1. l \in Nat /\ 0 \in Nat /\ 0 <= l /\ l <= Len(s) /\ l <= Len(t)
  OBVIOUS
<1>2. l - 0 = l /\ 0 + 1 = 1 /\ \A i \in 1..l : 0 + i = i
  BY <1>1
<1> HIDE DEF l
<1>3. /\ SubSeq(s, 0 + 1, l) \in Seq(S) /\ Len(SubSeq(s, 0 + 1, l)) = l - 0
      /\ \A i \in 1..(l - 0) : SubSeq(s, 0 + 1, l)[i] = s[0 + i]
  BY <1>1, PartOf
<1>4. /\ SubSeq(t, 0 + 1, l) \in Seq(S) /\ Len(SubSeq(t, 0 + 1, l)) = l - 0
      /\ \A i \in 1..(l - 0) : SubSeq(t, 0 + 1, l)[i] = t[0 + i]
  BY <1>1, PartOf
<1> DEFINE u == SubSeq(s, 1, l)  v == SubSeq(t, 1, l)
<1>5. /\ u \in Seq(S) /\ v \in Seq(S) /\ Len(u) = Len(v)
      /\ \A i \in 1..Len(u) : u[i] = v[i]
  BY <1>2, <1>3, <1>4 DEF l
<1> HIDE DEF u, v
<1>6. u = v
  BY <1>5, SeqEqual
<1> QED BY <1>1, <1>6 DEF IsPrefix, u, v, l

\* What has arrived behind the first k messages is a prefix of the reference's
\* answers.
LEMMA FlowTransparent ==
  ASSUME AuthInv, NEW k \in Nat, k <= Len(received),
         NEW a \in Seq(BackendMessages), FlowIs(k, a),
         Reference.answers \in Seq(BackendMessages),
         Len(a) <= Len(Reference.answers),
         \A i \in 1..Len(a) : a[i] = Reference.answers[i]
  PROVE  AnswersTransparent
<1> DEFINE all == Reference.answers
           l == Len(received)
           part == SubSeq(received, k + 1, l)
<1>1. TypeOK /\ received \in Seq(BackendMessages) /\ l \in Nat
  <2>1. TypeOK /\ received \in Seq(BackendMessages)
    BY DEF AuthInv, TypeOK
  <2> QED BY <2>1, Numbers
<1>2. /\ Len(a) \in Nat /\ Read \in Nat /\ Read <= k + Len(a)
      /\ \A i \in 1..l : i > k => i - k \in 1..Len(a)
  BY <1>1, ReadFacts
<1>3. /\ \A i \in 1..k : received[i].n = 0
      /\ \A i \in 1..l : i > k => received[i] = a[i - k]
  BY DEF FlowIs
<1>4. Read >= l
  BY <1>1 DEF Read
<1>5. k <= l /\ l <= Len(received)
  BY <1>1
<1>6. /\ part \in Seq(BackendMessages) /\ Len(part) = l - k
      /\ \A i \in 1..(l - k) : part[i] = received[k + i]
  <2> HIDE DEF l
  <2> QED BY <1>1, <1>5, PartOf
<1>7. all \in Seq(BackendMessages) /\ Len(a) <= Len(all) /\ Len(all) \in Nat
  OBVIOUS
<1> HIDE DEF part, all
<1>8. Len(part) <= Len(all)
  <2> HIDE DEF l
  <2> QED BY <1>1, <1>2, <1>4, <1>5, <1>6, <1>7
<1>9. ASSUME NEW i \in 1..Len(part) PROVE part[i] = all[i]
  <2> HIDE DEF l
  <2>1. i \in 1..(l - k)
    BY <1>6
  <2>2. k + i \in 1..l /\ k + i > k /\ (k + i) - k = i
    BY <1>1, <2>1
  <2>3. i \in 1..Len(a)
    BY <1>2, <2>2
  <2>4. part[i] = received[k + i]
    BY <1>6, <2>1
  <2>5. received[k + i] = a[i]
    BY <1>3, <2>2
  <2> QED BY <2>3, <2>4, <2>5 DEF all
<1>10. IsPrefix(part, all)
  BY <1>6, <1>7, <1>8, <1>9, PrefixIf
<1>11. k \in 0..l
  BY <1>1
<1> QED BY <1>3, <1>10, <1>11 DEF AnswersTransparent, part, all

\* A client that waits for each answer receives the answers of the reference
\* in its order and with its transaction statuses, whatever the handler blocks
\* or rewrites, and although handleIncomingConnection answers blocked
\* statements with the status that handleResponseConnection recorded
\* (src/proxy/proxy.go, lastTxStatus).
THEOREM AnswersAreTransparent == Waits => (Spec => []AnswersTransparent)
<1> SUFFICES ASSUME Waits PROVE Spec => []AnswersTransparent
  OBVIOUS
<1>1. QueryInv => AnswersTransparent
  <2> SUFFICES ASSUME QueryInv PROVE AnswersTransparent
    OBVIOUS
  <2>1. AuthInv /\ TypeOK /\ BeforeInv /\ RequestInv /\ Len(received) \in Nat
    BY Numbers DEF QueryInv, AuthInv
  <2>2. CASE sent = << >>
    <3>1. Reference.answers = << >>
      BY <2>2, RunAllSteps DEF Reference, Start
    <3>2. \A i \in 1..Len(received) : received[i].n = 0
      BY <2>1, <2>2 DEF BeforeInv, Before
    <3> DEFINE l == Len(received)  part == SubSeq(received, l + 1, l)
    <3>3. l \in 0..l /\ l \in Nat /\ l <= Len(received) /\ l - l = 0
      BY <2>1
    <3>4. part \in Seq(BackendMessages) /\ Len(part) = 0
      <4>1. received \in Seq(BackendMessages)
        BY <2>1 DEF TypeOK
      <4>2. /\ SubSeq(received, l + 1, l) \in Seq(BackendMessages)
            /\ Len(SubSeq(received, l + 1, l)) = l - l
        <5> HIDE DEF l
        <5> QED BY <3>3, <4>1, PartOf
      <4> QED BY <3>3, <4>2
    <3> HIDE DEF part
    <3>5. IsPrefix(part, << >>)
      <4>1. /\ << >> \in Seq(BackendMessages) /\ Len(part) <= Len(<< >>)
            /\ \A i : i \notin 1..Len(part)
        BY <3>4
      <4> QED BY <3>4, <4>1, PrefixIf
    <3> QED BY <3>1, <3>2, <3>3, <3>5 DEF AnswersTransparent, part
  <2>3. CASE sent # << >>
    <3>1. PICK p, n, sql : p = Prior /\ n = Number /\ sql = Text
      OBVIOUS
    <3>2. PICK k \in Nat : k <= Len(received) /\ UnderWay(k, p, n, sql)
      BY <2>1, <2>3, <3>1, TheRequest
    <3>3. Request(p, n, sql) /\ Reference = AfterRequest(p, n, sql)
      BY <2>1, <2>3, <3>1, TheRequest
    <3>4. PICK g \in Stages : AnswerInv(k, p, g, n, sql)
      BY <3>2 DEF UnderWay
    <3> DEFINE a == AnswersAt(g, p, n, sql)
    <3>5. a \in Seq(BackendMessages) /\ FlowIs(k, a)
      BY <2>1, <3>3, <3>4, AnswersRead
    <3>6. /\ Len(a) = AnswerCount(g, n)
          /\ Reference.answers \in Seq(BackendMessages)
          /\ Len(Reference.answers) = 2 * n
          /\ \A i \in 1..Len(a) : a[i] = Reference.answers[i]
      BY <3>3, StageAnswers DEF Request
    <3> HIDE DEF a
    <3>7. Len(a) <= Len(Reference.answers)
      <4>1. n \in Nat
        BY <3>3, QueryAssumption DEF Request
      <4>2. AnswerCount(g, n) <= 2 * n
        BY <4>1 DEF AnswerCount, Stages
      <4> QED BY <3>6, <4>2
    <3> QED BY <2>1, <3>2, <3>5, <3>6, <3>7, FlowTransparent
  <2> QED BY <2>2, <2>3
<1> QED BY <1>1, QueryHolds, PTL

\* The backend runs, for a client that waits for each answer, exactly the
\* statements the handler allowed, as it rewrote them, once each and in the
\* client's order (src/proxy/proxy.go, applyFrontendHandler).
THEOREM OnlyAllowedRuns == Waits => (Spec => []OnlyAllowedExecuted)
<1> SUFFICES ASSUME Waits PROVE Spec => []OnlyAllowedExecuted
  OBVIOUS
<1>1. QueryInv => OnlyAllowedExecuted
  <2> SUFFICES ASSUME QueryInv PROVE OnlyAllowedExecuted
    OBVIOUS
  <2> DEFINE E == [n : 1..MaxRequests, sql : Sqls]
  <2>1. AuthInv /\ TypeOK /\ BeforeInv /\ RequestInv
    BY DEF QueryInv, AuthInv
  <2>2. executed \in Seq(E)
    BY <2>1 DEF TypeOK
  <2> HIDE DEF E
  <2>3. CASE sent = << >>
    <3>1. executed = Reference.ran
      <4>1. Reference.ran = << >>
        BY <2>3, RunAllSteps DEF Reference, Start
      <4> QED BY <2>1, <2>3, <4>1 DEF BeforeInv, Before
    <3>2. Len(executed) <= Len(executed)
      BY <2>2
    <3> QED BY <2>2, <3>1, <3>2, PrefixIf DEF OnlyAllowedExecuted
  <2>4. CASE sent # << >>
    <3>1. PICK p, n, sql : p = Prior /\ n = Number /\ sql = Text
      OBVIOUS
    <3>2. PICK k \in Nat : UnderWay(k, p, n, sql)
      BY <2>1, <2>4, <3>1, TheRequest
    <3>3. Request(p, n, sql) /\ Reference = AfterRequest(p, n, sql)
      BY <2>1, <2>4, <3>1, TheRequest
    <3>4. executed = p.ran \/ executed = Reference.ran
      BY <3>2, <3>3 DEF UnderWay, StageInv
    <3>5. /\ p.ran \in Seq(E)
          /\ \/ Reference.ran = p.ran
             \/ sql \in Sqls /\ Reference.ran = Append(p.ran, [n |-> n, sql |-> sql])
      BY <3>3, AfterFacts DEF Request, IsPrior, E
    <3>6. CASE executed = Reference.ran
      <4>1. Len(executed) <= Len(executed)
        BY <2>2
      <4> QED BY <2>2, <3>6, <4>1, PrefixIf DEF OnlyAllowedExecuted
    <3>7. CASE sql \in Sqls /\ executed = p.ran
               /\ Reference.ran = Append(p.ran, [n |-> n, sql |-> sql])
      <4> DEFINE e == [n |-> n, sql |-> sql]
      <4>1. e \in E
        BY <3>3, <3>7 DEF Request, E
      <4> HIDE DEF e
      <4> DEFINE t == Append(executed, e)
      <4>2. /\ t \in Seq(E) /\ Len(t) = Len(executed) + 1
            /\ \A i \in 1..Len(executed) : executed[i] = t[i]
        BY <2>2, <4>1, AppendFacts
      <4>3. Len(executed) <= Len(t)
        <5>1. Len(executed) \in Nat
          BY <2>2
        <5> HIDE DEF t
        <5> QED BY <4>2, <5>1
      <4>4. Reference.ran = t
        BY <3>7 DEF e
      <4> HIDE DEF t
      <4> QED BY <2>2, <4>2, <4>3, <4>4, PrefixIf DEF OnlyAllowedExecuted
    <3> QED BY <3>4, <3>5, <3>6, <3>7
  <2> QED BY <2>3, <2>4
<1> QED BY <1>1, QueryHolds, PTL
=============================================================================
