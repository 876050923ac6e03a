# pgproxy in TLA+

A verification project for pgproxy, a PostgreSQL proxy in Go that relays client
sessions to configured backends, filters their SQL, and forwards cancel
requests. Paths below are relative to the repository (`src/`). `PROJECT.json`
maps every definition to the lines it models.

## 1. Inventory

| Component | State | Operations | Talks to |
|---|---|---|---|
| Server (`proxy/proxy.go` `Start`, `service`, `serviceStartup`, `stop`) | listener, `stopping`, WaitGroup, `sessions` map, `Metrics` | accept, refuse by address or limit, start a session, tear it down, stop: drain, force-close, wait | sessions through shared map, counters and closed sockets |
| Session relay (`handleIncomingConnection`, `handleResponseConnection`) | two goroutines, two connections, `errsig`, `lconnMutex`, `lastTxStatus`, `authTypeCh` | relay, block, rewrite, terminate, fail | client, backend, handler, each other |
| Cancel registry (`cancelRegistry`, `registeredKey`, `forwardCancelRequest`) | process-wide map from (pid, secret) to backend | store on BackendKeyData, delete on teardown, look up and forward | response relay, teardown, cancel sessions |
| Listener (`getListener`, `removeStaleUnixSocket`) | a path in the file system | inherit a listener, or stat, dial, remove, listen; close | other pgproxy processes, systemd |
| Query filter (`parser/filter.go`) | atomic pointer to `FilterConfig` | `Filter`, `UpdateConfig` | sessions, main loop, libpg_query |
| Process (`cli/cli.go`, `cli/utils.go`, `proxy/options.go`) | signal channels of capacity 1, the configuration file, the options of `Start` | boot, wait, reload on SIGHUP, shut down | operator, filter, server |
| Startup negotiation, backend connection (`proxy/auth.go`) | the client and backend connections, a decoder with read-ahead | SSL/GSS answers, TLS upgrade, routing, database rewrite, dial, backend TLS | client, backend, ACL, `stop` |
| ACL (`proxy/acl.go`) | compiled CIDRs, users, databases | three checks | server, session |
| Metrics (`proxy/metrics.go`) | six counters | add, load, snapshot; periodic log | server, sessions |

What is hard here: a session is three goroutines and a fourth (stop) closes
sockets under them; admission is a check and an increment in one goroutine and
a decrement in others; the two relays share the client connection and a status
byte; a registry entry is written by one goroutine and removed by another; the
socket path and the configuration file are shared with other processes; a
connection changes its type, its decoder and its owner while it is negotiated. The
`hazards` of `PROJECT.json` list each place, with the properties aimed at it.

What makes each component correct:

* Server: the cap bounds sessions and backend connections; every accepted
  connection is accounted for; stop misses no session, leaves nothing behind
  and returns; a client that is gone or idle gives its slot back.
* Relay: a blocked statement looks to the client like an error from the
  backend, with the right transaction status and in its turn, and runs nothing;
  what the handler rewrites is what runs; every request is answered; an
  authentication reply reaches the backend as the client sent it.
* Registry: a cancel request reaches only the backend that issued its key; a
  key works while its session lasts and is gone afterwards.
* Listener: a live socket and a foreign file are left alone, except by a start
  that a dial misled; a restart after a crash succeeds.
* Startup: after a TLS upgrade only what came through TLS counts; a backend is
  reached only as the access control list permits and as the sections of the
  file say; one that answers the SSLRequest with 'S' gets the startup message
  through TLS, after the verification that is configured; a refusal is told on
  the channel the client listens on; nobody waits on a broken client.
* Filter and process: a verdict follows the documented rules under one
  configuration; no SIGHUP is lost; a failed reload changes nothing; the proxy
  serves with the protection it is configured with or not at all (a client CA
  without a certificate is the exception); SIGTERM reaches the shutdown.
* Metrics: the counters add up; a snapshot should show one moment.

## 2. Modules

| Module | Models | Read it as |
|---|---|---|
| `Admission` | the promise of `Start` about slots and shutdown | abstract specification |
| `Server` | `Start`, `stop`, `service`, `serviceStartup`, `connectBackend`, both relay loops by what they block on | one action per step between two shared accesses |
| `ServerProofs` | theorems about `Server` | |
| `CancelRegistry`, `CancelRegistryProofs` | the registry, its writers and `forwardCancelRequest` | |
| `Acl` | `compileACL` and the three checks; the documented rule as reference | operators only |
| `Startup`, `StartupProofs` | one connection from `Accept` to the relay: `readStartupMessage`, `service`, `serviceStartup`, `connectBackend` | uses `Acl` where the code does |
| `Relay`, `RelayProofs`, `RelayAnswersProofs` | one session from then on, message by message: authentication, then queries | checked against a sequential reference |
| `UnixSocket`, `UnixSocketProofs` | `getListener`, several processes and one path | |
| `FilterRules` | `FilterConfig`, the rules of `Filter`, the tree walk; the documented rules as reference | operators only |
| `FilterReload`, `FilterReloadProofs` | a process: `run` from boot to exit, `readConfig`, `buildStartOptions`, signals, with `Filter` calls beside it | uses `FilterRules` |
| `MetricsLog` | the counters, who adds to them, the log of snapshots | |
| `SetInduction` | induction over the natural numbers for a set, used by the proofs | |
| `MC*` | instances for TLC | |

Correspondence of the main pieces:

* `Server`. `acc` and `cur` are the accept goroutine and the connection it
  holds; `sessions`, `wg`, `active`, `total`, ... are the variables of the same
  names. `svc[c]`, `inc[c]`, `rsp[c]` say where the service goroutine and the
  two relays of connection `c` are; `lconn`, `rconn` are the sockets (`eof`: the
  peer closed, `closed`: the proxy did). The deferred calls of a session are the
  separate actions `CloseClient`, `DeleteSession`, `DecActive`, `ServiceDone`,
  in the order Go runs them. `sync.Map.Range` visits entries one by one
  (`ForceClose`), every one that was there when it began and was not deleted
  (`unvisited`), possibly others; `late` remembers the sessions stored once it
  had begun. `DrainTimeout` waits for the accept goroutine to be gone: the code
  has no such condition, it is the assumption that nobody is held up for the
  five seconds of `drainTimeout`, and `"accept" \in Stalls` lifts it. A failed
  `Accept` before stop changes nothing and is left out. A message is reduced to
  what it makes the relay do: forward, reply to the client (blocked), or
  terminate. `Stalls` names the places where a backend may block a goroutine for
  ever, and whether the accept goroutine may be held up.
* `CancelRegistry`. `StoreKey` and `RememberKey` are separate steps, as are
  `LoadKey` and `DeleteKey`. `Fresh` (external) is what PostgreSQL guarantees of
  its keys: no process id comes twice with the same secret. The same process id
  may come again, from another backend or from the same one, for a new session.
* `Startup`. A packet has a type and the channel (`via`) it was sent through.
  `wire` is what the client has sent and nobody has read, `buf` the read-ahead of
  pgproto3's decoder; `Fill` takes any part of `wire`. `conn` is the local variable
  of `readStartupMessage`, `lconn` the field that `stop` reads. `Upgrade` and
  `StartRelay` replace the decoder, and what was in `buf` is `lost`. A patient
  client waits for the answer to each packet, an eager one does not.
  `ForceCloseTorn` is the outcome of the data race on `p.lconn`: the interface
  value is two words, and a stop that reads one old and one new word crashes the
  process. `peer` is whoever takes the call at the backend's address: a
  certificate, and an answer to the SSLRequest. `rconn` is the connection with its
  `tls.Config` (`tls`, none for a plain one) and whether its handshake is
  `complete`, `got` the startup message the backend received and the channel it
  came through. `SSLAnswered` makes the `tls.Conn`, which shakes hands inside its
  first write (`BackendHandshake`), before anything of the write goes out
  (`Forward`). What crypto/tls verifies under a `tls.Config` is `Accepts`
  (external). Waiting for a backend that does not answer is the subject of `Server`.
* `Acl`. An address is its family and its bits, an entry of the list a prefix, a
  bare address or something that does not parse.
* `Relay`. `Handler` maps SQL to SQL or `"block"`. A request carries a number,
  so that answers to equal requests can be told apart. `Decoded` (external) is
  what pgproto3 may make of a `'p'` message under an authentication type, and
  encodes again: the reply, another one (`mangled`), or a decoding error, after
  which `handleIncomingConnection` calls `p.err` and returns (`IncReceiveFails`)
  and the session is closed (`SessionEnds`). The backend (external) keeps a
  transaction status and the unnamed statement. `Reference` runs the requests
  one after the other (`RunAll`, `AfterRequest`). Terminate, broken connections
  and the idle timeout are in `Server`.
* `UnixSocket`. `path` is nothing, a file that is no socket, a socket on which
  systemd listens, or the process whose socket it is. `Overlap` says whether two
  processes may be starting at the same time, `Slow` which live listeners may fail
  to answer the dial in time (a timeout, a full backlog): the code takes every
  dial error for a stale socket. Stat, remove and listen may also fail for
  other reasons (`ioerror`). Two history variables name those who act on a wrong
  belief: `misled` are the starts about to remove a socket whose listener lives,
  `robbed` the processes that lost their path to them, directly or when a robbed
  one stopped and unlinked it.
* `FilterRules`/`FilterReload`. A query is its parse result: statements with a
  signature and a tree. `Filter` takes one step per statement. `current[c]`
  collects the configurations in force during a call. The file has versions;
  `hupVersion` is the version at the last SIGHUP and `readVersion` the newest
  one read; `read` is dropped once it has been used. The server section of a
  file holds, for every setting, whether it is absent, usable or not. `main` is
  where `run` is: `stat` and `decode` are `readConfig`, in the boot and in a
  reload, told apart by `Booting`; `options`, `listen` and `metrics` complete
  the boot; `booted` remembers its file.
* `MetricsLog`. Every counter is an atomic; a snapshot loads one per step.
  `instants` collects the values of all counters since it began.

Operators whose comment starts with "Mutant" are defective variants of the
definition that follows them. They are part of no specification; each is
substituted for the original to see that a property notices the defect.

## 3. Runs

| Run | Instance | Shows |
|---|---|---|
| `server_safety` | 3 connections, cap 1, one refused by address, all backend stalls, the accept goroutine may be held up | `TypeOK`, `CapRespected`, `MetricsLedger`, `ForceCloseComplete`, `StopClean`, and `AdmissionKept` (refinement of `Admission`) |
| `server_live` | 2 connections, cap 2, one refused at startup, no stalls, fair | `ForceCloseComplete` for a Range over two sessions, `StopTerminates`, `SlotReleased`, `RelayGoroutinesExit`, `IdleRelayReleased` |
| `server_stop` (violation) | 1 connection, backends may stall | stop may wait for ever |
| `cancel_registry` | 2 sessions, 2 cancels, 2 backends, 2 pids, 2 secrets | `CancelReachesIssuer`, `ToldKeyUsable`, `ToldKeyDeleted` |
| `cancel_orphan` (violation) | 1 session | an entry may outlive its session |
| `startup` | 3 packets; 3 addresses, 5 lists, 3 TLS modes, 5 identities, 4 databases, 4 certificates, 2 answers to the SSLRequest; fair | `ChannelKept`, `NothingLost`, `BackendAsPermitted`, `StartupOnlyToVerified`, `RefusalTold`, `StartupEnds` |
| `relay` | every authentication method, GSS in 1 or 6 rounds, then 3 requests, window 1, one SQL blocked, one rewritten, batches of what is allowed, fair | `PasswordIntact`, `SendNeverBlocks`, `AuthenticationEnds`, `AnswersTransparent`, `OnlyAllowedExecuted`, `RequestsAnswered` |
| `query_extended` (violation) | batches of everything | a blocked Parse makes the previous statement run |
| `auth_scram` (violation) | SCRAM | the first SASL reply is decoded as a password |
| `socket_restart` | 3 processes, one of them with an inherited listener, 6 starts that may overlap, slow listeners, file-system errors, fair | `LiveSocketKept`, `ForeignFileKept`, `RestartSucceeds` |
| `process` | 12 files, 2 edits, any signals, one caller and 3 queries, fair | `VerdictSound` across reloads, `NoReloadLost`, `ServedAsConfigured`, `DiesOnlyOfMetrics`, `ReloadTakesEffect`, `ExitTakesEffect` |
| `metrics_snapshot` (violation) | 2 connections, 1 tick | a snapshot may mix moments |

`MCFilterReload` also has the assumption `RulesAgree`, which TLC evaluates in the
run `process`: the code's rules (`StmtPasses`, `ParseErrorPasses`, with the tree
walk) agree with the documented ones (`Permits`) on 16 statements, nested ones
among them, under the default rules with each switch flipped, every use of the
signature lists and every other rule.

Why the bounds are enough. With one slot, three connections give the check of a
newcomer racing the end of a session, followed by another newcomer, and a
refusal in between, and a session stored after the Range of stop began. Two
concurrent sessions are the least for which Range can miss one of those it
should visit (`server_live`). Two sessions with two backends that may share a
process id contain every confusion of two keys, and a process id that comes
again with another secret. Three packets are a negotiation request, a second one
or a startup message, and what follows it: the least that can be read ahead
across an upgrade and across the start of the relay. The lists, addresses and
databases of `MCStartup` contain an entry that matches, one that differs in a
bit and one of the other family, and a database for each way to be verified; the
answers 'S' and 'N' stand for all, since the code asks only whether it is 'S'.
Three requests reach begin, failed, blocked, and begin, blocked, commit: the
transaction status has three values. Six GSS rounds exceed the capacity of the
channel. Six starts of three processes contain a crash in every step, followed
by two restarts, and two processes that start side by side on what a third left.
Two edits are a bad file and a good one, or one before and one during a reload.
The theorems of section 4 remove the bounds where it matters most.

`CHECK_DEADLOCK FALSE` is set where the modelled activity ends: a connection, a
session's requests, the bounded number of starts, the two cancel requests, the
bounded number of connections of `MetricsLog`. `Server` and `FilterReload` have an
explicit `Finished` step instead, so that deadlock is checked there.

Fairness. `Server`: a goroutine that can run does (the Go scheduler); a dial
ends (`backendDialTimeout`); `time.After` fires; a read or write on a broken or
closed connection returns; with an idle timeout the read deadline fires. Nothing
is assumed of clients. A backend answers the SSLRequest, reads, and closes after
a Terminate unless `Stalls` says otherwise: `server_live` assumes it and
`server_stop` does not. Both have no accept goroutine that is held up.
`Startup`: while the client connection is broken or closed, the session's
goroutine goes on; nothing is assumed of a client that is there. `Relay`: both
relays run, the service goroutine that `p.err` wakes closes the connections, the
backend answers, and the client answers authentication requests. `UnixSocket`: a
starting process goes on. `FilterReload`: the main goroutine runs up to its call
of `stop`, which is not assumed to return (`server_stop` shows that it may not),
so that `ExitTakesEffect` ends at that call; and a SIGTERM that is ready at the
select again and again is taken (strong fairness: Go's select chooses among
ready cases at random); nothing is assumed of operators and callers, who may
send SIGHUPs for ever.

## 4. Proofs

All theorems are checked by TLAPS, for every value of the constants.

* `ServerProofs`: `TypeCorrect`, `CapHolds`, `StopIsClean`, `ForceCloseHolds`,
  `AdmissionHolds`, `LedgerHolds`, from `Invariance` (`Spec => []Inv`). None of
  the properties is inductive. `Inv` adds: where the connection in the accept
  goroutine's hand is in its life (`HandInv`); `active` and `wg` as
  cardinalities of sets of connections by program counter (`CountInv`), which is
  what makes the cap and the WaitGroup reasoning go through for any number of
  connections; at the moment a connection has passed the check there is still
  room (`CapInv`); how sockets and map entries follow the service goroutine
  (`SocketInv`); what the phases of stop imply for the accept goroutine
  (`StopInv`), and that every open client connection the Range has not closed is
  in `unvisited`, was stored late, or is still in the accept goroutine's hand,
  which accepts no other after it (`RangeInv`). `ForceCloseHolds` assumes
  nothing on timing: the exception it leaves, one session stored late, is what
  an accept goroutine that is held up between `Accept` and `sessions.Store`
  produces. `LedgerHolds` needs `LedgerInv` besides: `connectErrors` counts
  connections that have left the backend dial, so it cannot run ahead of the
  sessions.
* `CancelRegistryProofs`: `TypeCorrect`, `CancelSafe`, `KeyUsable`,
  `KeyDeleted`. The invariant says that every entry of the registry belongs to
  the session that was issued the key, and that a key being looked up or
  forwarded was issued by the backend it is sent to.
* `UnixSocketProofs`: `ForeignFileSafe` and `LiveSocketSafe` for overlapping starts
  and slow listeners, from the fact that a process about to remove a socket with a
  live listener is in `misled` (`MisledInv`) and that nobody gets past the mode
  check (`ForeignInv`). `PathLeadsToServer` assumes `Overlap = FALSE` and
  `Slow = {}` and has no exception: a single starting process's failed dial stays
  true until it removes the file, and nobody is misled or robbed (`AloneInv`).
* `FilterReloadProofs`: `RulesMatch` says of every tree and configuration that
  the walk of `Filter` accepts a statement exactly when the documented rules
  (`StmtPermitted`) do. The walk is a recursive function over the node numbers;
  `WalkExists` and `WalkVisitsAll` are inductions over them, by
  `SetInduction!NatSetInduction`, which takes a set where the library's induction
  theorems take an operator. `VerdictsSound` rests on it and on two invariants:
  what a reload has read and not yet installed (`ReadInv`), and for every call
  under way a configuration in force during the call under which all statements
  so far pass (`CallInv`). It assumes that queries are parse results
  (`QueriesAssumption`). `ReloadNotLost`, from the fact that after a read either
  the version read is recent enough or a signal is pending. `ServesAsConfigured`
  and `DiesOnlyOfMetricsHolds`, for every configuration file, from `BootInv`: the
  options in use are those of the file of the boot, `buildStartOptions` had no
  objection to it (a `TLSClientCA` it never looks at is the stated exception), and
  until the wait loop is reached it is the last file read.
* `StartupProofs` proves every invariant of `Startup`. `AclAgrees`: the compiled
  list and its three checks, made at two places, are together the documented
  rule (`Permitted`), for every list over addresses of any width.
  `RoutedAsPermitted` and `VerifiedFirst` follow with `RouteInv`, which carries
  the outcome of each check from the step that made it to the steps that rely on
  it: for `VerifiedFirst`, from the answer to the connection and its
  `tls.Config`, from there to the completed handshake, and to the write;
  `RefusalsTold` with `ToldInv`, which knows for every place of the handler
  which rules the connection has passed; `LossBounded` with `PatientInv`, that a
  waiting client has at most one packet on its way and none when a decoder is
  replaced. `ChannelHolds`, for any number of packets and any read-ahead.
  `ChannelKept` speaks of what was acted on; the invariant adds what is still on
  its way: once `conn` is TLS the client speaks TLS, and every packet in `wire`
  and in the decoder's buffer came through it (`TLSInv`). It begins to hold in
  the handshake because nothing has been received or relayed by then
  (`EarlyInv`), the wire is empty and the decoder is a new one.

* `RelayProofs`: `TypeCorrect`, `PasswordsArriveIntact`, `SendsNeverBlock`, for
  GSS exchanges of any length. The invariant numbers the backend's messages: the
  first `asked` of them are the authentication requests, wherever they are
  (`StreamInv`); at most one reply is under way, and it is in exactly one place
  (`ReplyInv`); there are queries only after access was granted on all replies
  (`GrantInv`); and inc has emptied `authTypeCh` since the last reply but one, so
  that at most two announcements are outstanding, those rsp has still to make
  included (`ChannelInv`). `SendsNeverBlock` therefore assumes `AuthChCap >= 2`;
  the code has 4. With a capacity of 1 the send can block.
* `RelayAnswersProofs`: `AnswersAreTransparent` and `OnlyAllowedRuns`, for every
  handler and any number of requests. Both assume `Waits`: the client has one
  request outstanding at most (`Window = 1`), and its batches hold only what the
  handler lets through. Neither can be dropped: section 5 says what goes wrong
  without each. The invariant follows the last request (`RequestInv`): it is in
  one of seven stages (`UnderWay`), which say what is still on its way to the
  backend, wherever it is and as inc will forward it (`RestIs`), what the backend
  has run, and which answers have been given. These continue the answers that
  earlier requests got in the reference, through the backend's stream, rsp's hand
  and the client (`FlowIs`), although inc adds its own at the client's end: when
  it does, nothing is left between the backend and the client. `lastTxStatus`
  is the reference's status after the last ReadyForQuery that rsp has read, and
  a synthetic one repeats it (`AnswerInv`). Before the first request the backend
  has sent messages of number 0 only (`BeforeInv`). The reference is a recursive
  function of the requests; that it takes one request after the other
  (`RunAllSteps`) is an induction by `SetInduction!NatSetInduction`.

Assumptions on constants are named in the modules that declare them and are
evaluated by TLC in the runs.

Every invariant and action property of the passing runs is the subject of a
theorem. Only model-checked: everything under fairness, since liveness and
`ENABLED` are beyond the prover.

## 5. Disagreements between code and documentation

Shown by a run, with the quoted lines in `PROJECT.json`: stop may not return
(`server_stop`), registry entries may leak (`cancel_orphan`), a blocked Parse
makes another statement run (`query_extended`), the first SASL reply is decoded
under the wrong type (`auth_scram`), and a snapshot of the metrics is not one of a
point in time (`metrics_snapshot`).

Met while modelling, without a run of their own:

* `IdleTimeout` sets no deadline before the relay starts (`proxy.go:389`), while
  README.md:159 speaks of any session; `IdleRelayReleased` is stated for the
  relay only.
* `RejectedByACL` counts refusals by address only (`proxy.go:438-447` against
  `metrics.go:22`).
* With two queries outstanding the status of a synthetic ReadyForQuery may be
  stale (`proxy.go:557`): `AnswersTransparent` fails for `Window = 2`.
* A live socket can be stolen (`proxy.go:277-283`), against the comment at
  `proxy.go:261`: any error of the 200 ms dial, a timeout or a full backlog of a
  live listener included, counts as stale, and of two processes that start at the
  same time after a crash one may remove what the other has just bound.
  `LiveSocketKept` says that nothing else takes a socket, and
  `PathLeadsToServer` that nothing does without these two.
* `TLSClientCA` without `TLSCert` and `TLSKey` is ignored without a word, also when
  the file cannot be read (`utils.go:79`), while `pgproxy.conf:12` says "Require
  clients to present a certificate" and `utils_test.go:157` that a malformed
  section is "a configuration error rather than a silently-ignored one".
  `ServedAsConfigured` states it as the exception.
* An accept goroutine that is held up for `drainTimeout` between `Accept` and
  `sessions.Store` stores a session that the force-close of `proxy.go:190` has
  passed by; stop then waits for it like for any other. `ForceCloseComplete` bounds
  them to one.
* A reply to an authentication request that does not decode under the type in
  force, as may follow from the finding of `auth_scram`, ends the session
  (`proxy.go:535-545`): `AuthenticationEnds` counts it as an end.
* `p.lconn` is written by the session (`proxy.go:390`) and read by stop
  (`proxy.go:196`) without synchronisation. Closing the value that has just been
  replaced is harmless (`StartupEnds`); a torn read is not, and `Startup` reaches
  the state `crashed`.
* `MetricsLogInterval` is parsed after `Start` has told systemd READY=1
  (`cli.go:101`), and "0s" parses and makes `time.NewTicker` panic: the one way in
  which a process that is ready dies of its configuration (`DiesOnlyOfMetrics`).
* Every answer to the SSLRequest but 'S' is taken for 'N', an 'E' (a server that
  knows no SSL) included (`auth.go:213`). With 'N' the startup message goes out in
  the clear even where a `TLSRootCert` is configured; `StartupOnlyToVerified` is
  about backends that answer 'S'.
* An address with an IPv6 zone does not parse as an IP and passes `checkAddr` like
  the peer of a unix socket (`acl.go:86`).
* A client that sends a password or a query behind its startup message without
  waiting may lose it when the relay's own decoder takes over (`proxy.go:512`):
  `NothingLost` says that no other client does.
* `stop` does not wait for the relay goroutines, so the process may exit in the
  middle of a call of `Filter`.
* The warning "EVERY statement will be blocked" (`filter.go:152`) ignores
  `signature_audit_mode`, under which nothing is blocked by its signature.

## 6. Not modelled

* Contents of messages beyond the above, TLS itself, log lines, the start banner,
  flags, systemd notifications, `chmod` of the socket, TCP listeners.
* COPY, Describe, Bind parameters, named statements in `Relay`.
* TLS within TLS: a client that repeats its SSLRequest after the upgrade is not
  enumerated in `Startup`.
* `redactSecrets`, the text of normalized signatures, libpg_query itself.
* `ContextHandler` and `ConnInfo`: the handler that is called instead, with the
  user and database that `Startup` has in `msg`.
* The entry point and the examples, which only call `cli.Main` and `proxy.Start`.

## 7. Plan

Done: all components of section 1 except what section 6 lists.

Next: `Relay` with named statements and Bind.
