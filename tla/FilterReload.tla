---------------------------- MODULE FilterReload ----------------------------
(***************************************************************************)
(* A pgproxy process while an operator edits its configuration file and    *)
(* sends it signals:                                                       *)
(*   - the main goroutine boots, waits for SIGHUP and SIGTERM, reloads the *)
(*     filter rules and shuts down (run in src/cli/cli.go, readConfig,     *)
(*     buildStartOptions and reloadFilterConfig in src/cli/utils.go,       *)
(*     Start in src/proxy/proxy.go up to its accept goroutine);            *)
(*   - sessions call Handler, hence Filter, at the same time               *)
(*     (src/parser/filter.go).                                             *)
(* Filter takes one step per statement, so a reload can fall between two   *)
(* statements of a query.                                                  *)
(***************************************************************************)
EXTENDS FilterRules, Integers

CONSTANTS
    Callers,       \* goroutines that call Handler
    Queries,       \* what a client may send (see FilterRules)
    Files,         \* what the configuration file may hold
    MaxEdits,      \* bound on the edits of the file
    Nil            \* no configuration yet

(***************************************************************************)
(* A file has a state, a [Filter] section, which lists the keys that are   *)
(* set, and a server section, the keys of [ServerConfig] and [ACL].  A     *)
(* value is "" where it is not set and "bad" where it cannot be used: an   *)
(* unreadable file, an entry or a duration that does not parse.  "zero" is *)
(* a duration that parses and is not positive.                             *)
(***************************************************************************)
FileStates == {"missing", "bad toml", "no databases", "good"}

ServerSections ==
    [cert : {"", "pem", "bad"}, key : {"", "pem", "bad"},
     ca : {"", "pem", "bad"}, acl : {"", "list", "bad"}, max : Int,
     idle : {"", "5m", "zero", "bad"}, metrics : {"", "1m", "zero", "bad"}]

ASSUME FilesAssumption ==
    /\ \A f \in Files : f.state \in FileStates /\ f.server \in ServerSections
    /\ MaxEdits \in Nat

ASSUME QueriesAssumption ==
    Queries \subseteq [parses : BOOLEAN, stmts : Seq(Statements)]

GoodFiles == {f \in Files : f.state = "good"}

\* What readConfig returns for a good file.
ProxyConfig(f) == [filter |-> DecodeFilter(f.section), server |-> f.server]

\* The configurations that some version of the file stands for.
ProxyConfigs == {ProxyConfig(f) : f \in GoodFiles}
Configs == {DecodeFilter(f.section) : f \in GoodFiles}

VARIABLES
    file,        \* the configuration file
    version,     \* its edits so far
    chReload,    \* a SIGHUP waits in the channel of capacity 1
    chExit,      \* SIGTERM: "none", "sent" or "taken"
    main,        \* where the main goroutine is
    read,        \* the configuration readConfig returned, while it is used
    opts,        \* the options of Start, Nil before it
    config,      \* QueryFilter.config, Nil before NewQueryFilter
    listening,   \* Start has its listener, and has told systemd READY=1
    pc,          \* where each caller is in Filter
    query,       \* the query it filters
    cfg,         \* the configuration it loaded
    next,        \* the statement it looks at
    verdict,     \* Filter's result
    \* History variables.
    booted,      \* the server section the process was started with
    current,     \* the configurations in force during a caller's call
    hupVersion,  \* the version of the file at the last SIGHUP
    readVersion  \* the newest version a finished read has seen

fileVars == <<file, version>>
signalVars == <<chReload, chExit, hupVersion>>
bootVars == <<opts, listening, booted>>
mainVars == <<main, read, config, readVersion, bootVars>>
callVars == <<pc, query, cfg, next, verdict>>
vars == <<fileVars, signalVars, mainVars, callVars, current>>

NoQuery == [parses |-> TRUE, stmts |-> << >>]

\* Main has registered its two channels and calls run.
Init ==
    /\ file \in Files
    /\ version = 0
    /\ chReload = FALSE
    /\ chExit = "none"
    /\ main = "stat"
    /\ read = Nil
    /\ opts = Nil
    /\ config = Nil
    /\ listening = FALSE
    /\ pc = [c \in Callers |-> "idle"]
    /\ query = [c \in Callers |-> NoQuery]
    /\ cfg = [c \in Callers |-> Nil]
    /\ next = [c \in Callers |-> 1]
    /\ verdict = [c \in Callers |-> FALSE]
    /\ booted = Nil
    /\ current = [c \in Callers |-> {}]
    /\ hupVersion = 0
    /\ readVersion = 0

\* The process has neither exited nor died.
Alive == main \notin {"exited", "failed"}

-----------------------------------------------------------------------------
(* The operator *)

\* The operator replaces the file, with a good one or not.
EditFile(f) ==
    /\ version < MaxEdits
    /\ file' = f
    /\ version' = version + 1
    /\ UNCHANGED <<signalVars, mainVars, callVars, current>>

\* Mutant: the channel has no buffer, so that a signal is lost unless the
\* loop is waiting for it.
SighupUnbuffered ==
    /\ Alive
    /\ chReload' = (main = "wait")
    /\ hupVersion' = version
    /\ UNCHANGED <<chExit, fileVars, mainVars, callVars, current>>

\* signal.Notify never blocks: a SIGHUP is put into the channel, or dropped
\* when one is already there.
Sighup ==
    /\ Alive
    /\ chReload' = TRUE
    /\ hupVersion' = version
    /\ UNCHANGED <<chExit, fileVars, mainVars, callVars, current>>

Sigterm ==
    /\ Alive /\ chExit = "none"
    /\ chExit' = "sent"
    /\ UNCHANGED <<chReload, hupVersion, fileVars, mainVars, callVars,
                   current>>

-----------------------------------------------------------------------------
(* run: the boot *)

\* A step of the main goroutine that takes nothing from a channel.
MainStep(from, to) ==
    /\ main = from
    /\ main' = to
    /\ UNCHANGED <<fileVars, signalVars, callVars>>

\* Mutant: TLS is set up only when both files are named.
WantsTLSBoth(s) == s.cert # "" /\ s.key # ""

WantsTLS(s) == s.cert # "" \/ s.key # ""

\* LoadX509KeyPair and, with a client CA, the pool of its certificates.
NewFrontendTLSConfigFails(s) == "pem" # s.cert \/ "pem" # s.key \/ s.ca = "bad"

buildStartOptionsFails(s) ==
    (WantsTLS(s) /\ NewFrontendTLSConfigFails(s)) \/ s.idle = "bad"

\* What the options of Start set.
startConfig ==
    [tls : {"off", "server", "mutual"}, acl : {"", "list", "bad"},
     maxConnections : Nat, idleTimeout : {"none", "5m"}]

\* WithTLS, WithACL, WithMaxConnections and WithIdleTimeout; what is not set
\* is the zero value of startConfig.
buildStartOptions(s) ==
    [tls |-> IF ~WantsTLS(s) THEN "off"
             ELSE IF s.ca = "" THEN "server" ELSE "mutual",
     acl |-> s.acl,
     maxConnections |-> IF s.max > 0 THEN s.max ELSE 0,
     idleTimeout |-> IF s.idle \in {"", "zero"} THEN "none" ELSE s.idle]

BuildOptionsFails ==
    /\ main = "options" /\ buildStartOptionsFails(read.server)
    /\ MainStep("options", "failed")
    /\ UNCHANGED <<read, config, readVersion, bootVars, current>>

\* The options are built and the filter is made.
BuildOptions ==
    /\ main = "options" /\ ~buildStartOptionsFails(read.server)
    /\ MainStep("options", "listen")
    /\ opts' = buildStartOptions(read.server)
    /\ config' = read.filter
    /\ UNCHANGED <<read, readVersion, listening, booted, current>>

\* compileACL or getListener fails.
StartFails ==
    /\ MainStep("listen", "failed")
    /\ UNCHANGED <<read, config, readVersion, bootVars, current>>

Start ==
    /\ main = "listen" /\ opts.acl # "bad"
    /\ MainStep("listen", "metrics")
    /\ listening' = TRUE
    /\ UNCHANGED <<read, config, readVersion, opts, booted, current>>

\* The periodic log of metrics is set up when the proxy already serves:
\* ParseDuration may fail, and NewTicker panics unless the interval is
\* positive.
StartMetricsLogFails ==
    /\ main = "metrics" /\ read.server.metrics \in {"bad", "zero"}
    /\ MainStep("metrics", "failed")
    /\ listening' = FALSE
    /\ UNCHANGED <<read, config, readVersion, opts, booted, current>>

StartMetricsLog ==
    /\ main = "metrics" /\ read.server.metrics \notin {"bad", "zero"}
    /\ MainStep("metrics", "wait")
    /\ read' = Nil
    /\ UNCHANGED <<config, readVersion, bootVars, current>>

Boot ==
    \/ BuildOptions \/ BuildOptionsFails \/ Start \/ StartFails
    \/ StartMetricsLog \/ StartMetricsLogFails

-----------------------------------------------------------------------------
(* run: the wait loop and the shutdown *)

\* select takes either ready channel.
ReceiveExit ==
    /\ main = "wait" /\ chExit = "sent"
    /\ chExit' = "taken"
    /\ main' = "stopping"
    /\ UNCHANGED <<chReload, hupVersion, read, config, readVersion, bootVars,
                   fileVars, callVars, current>>

ReceiveReload ==
    /\ main = "wait" /\ chReload
    /\ chReload' = FALSE
    /\ main' = "stat"
    /\ UNCHANGED <<chExit, hupVersion, read, config, readVersion, bootVars,
                   fileVars, callVars, current>>

\* stop returns (see Server); it does not wait for the relay goroutines, so
\* that the process may exit during a call of Filter.
StopReturns ==
    /\ MainStep("stopping", "exited")
    /\ listening' = FALSE
    /\ UNCHANGED <<read, config, readVersion, opts, booted, current>>

\* readConfig is called before Start, or from the wait loop.
Booting == ~listening

\* Mutant: an error ends the process in a reload, too.
ReloadFailsFatally == main' = "failed" /\ UNCHANGED <<read, config>>

\* Mutant: an error is met by another attempt.
ReloadFailsRetry ==
    main' = (IF Booting THEN "failed" ELSE "stat") /\ UNCHANGED <<read, config>>

\* Mutant: the configuration is stored in spite of the error, as far as
\* readConfig had filled it.
ReloadFailsHalfway ==
    /\ main' = IF Booting THEN "failed" ELSE "wait"
    /\ config' = [DefaultFilterConfig EXCEPT !.on_parse_error = "undecoded"]
    /\ UNCHANGED read

\* readConfig returned an error: fatal in the boot; the wait loop logs it and
\* goes on.
ReloadFails ==
    main' = (IF Booting THEN "failed" ELSE "wait") /\ UNCHANGED <<read, config>>

readConfigStat ==
    /\ main = "stat"
    /\ \/ file.state = "missing" /\ ReloadFails /\ readVersion' = version
       \/ /\ file.state # "missing"
          /\ main' = "decode"
          /\ UNCHANGED <<read, config, readVersion>>
    /\ UNCHANGED <<bootVars, current, fileVars, signalVars, callVars>>

\* DecodeFile opens the file anew: it may have changed since the Stat.
readConfigDecode ==
    /\ main = "decode"
    /\ readVersion' = version
    /\ \/ file.state # "good" /\ ReloadFails /\ UNCHANGED booted
       \/ /\ file.state = "good"
          /\ read' = ProxyConfig(file)
          /\ booted' = IF Booting THEN file.server ELSE booted
          /\ main' = IF Booting THEN "options" ELSE "store"
          /\ UNCHANGED config
    /\ UNCHANGED <<opts, listening, current, fileVars, signalVars, callVars>>

\* Mutant: the new rules are read and dropped.
NewRulesDropped == config

NewRules == read.filter

UpdateConfig ==
    /\ MainStep("store", "wait")
    /\ config' = NewRules
    /\ read' = Nil
    /\ current' = [c \in Callers |->
                      IF pc[c] = "idle" THEN current[c]
                      ELSE current[c] \cup {NewRules}]
    /\ UNCHANGED <<readVersion, bootVars>>

readConfig == readConfigStat \/ readConfigDecode

run == readConfig \/ Boot \/ ReceiveExit \/ ReceiveReload \/ UpdateConfig
           \/ StopReturns

-----------------------------------------------------------------------------
(* Handler and Filter, called for the queries of a session *)

Return(c, v) ==
    /\ pc' = [pc EXCEPT ![c] = "done"]
    /\ verdict' = [verdict EXCEPT ![c] = v]

\* A query arrives: Filter loads the configuration, once.
FilterCall(c, q) ==
    /\ listening /\ pc[c] = "idle"
    /\ pc' = [pc EXCEPT ![c] = "parse"]
    /\ query' = [query EXCEPT ![c] = q]
    /\ cfg' = [cfg EXCEPT ![c] = config]
    /\ current' = [current EXCEPT ![c] = {config}]
    /\ UNCHANGED <<next, verdict, fileVars, signalVars, mainVars>>

\* Mutant: every iteration looks at the configuration in force.
InUseLive(c) == config

\* The configuration a call goes by is the one it loaded.
InUse(c) == cfg[c]

FilterParse(c) ==
    /\ pc[c] = "parse"
    /\ \/ /\ ~query[c].parses
          /\ Return(c, ParseErrorPasses(InUse(c)))
          /\ UNCHANGED next
       \/ /\ query[c].parses
          /\ pc' = [pc EXCEPT ![c] = "loop"]
          /\ next' = [next EXCEPT ![c] = 1]
          /\ UNCHANGED verdict
    /\ UNCHANGED <<query, cfg, current, fileVars, signalVars, mainVars>>

\* One iteration of the loop over the statements, or its end.
FilterStmt(c) ==
    /\ pc[c] = "loop"
    /\ \/ /\ next[c] > Len(query[c].stmts)
          /\ Return(c, TRUE)
          /\ UNCHANGED next
       \/ /\ next[c] <= Len(query[c].stmts)
          /\ \/ /\ StmtPasses(InUse(c), query[c].stmts[next[c]])
                /\ next' = [next EXCEPT ![c] = @ + 1]
                /\ UNCHANGED <<pc, verdict>>
             \/ /\ ~StmtPasses(InUse(c), query[c].stmts[next[c]])
                /\ Return(c, FALSE)
                /\ UNCHANGED next
    /\ UNCHANGED <<query, cfg, current, fileVars, signalVars, mainVars>>

\* Handler turns the verdict into the query or an error, and the session
\* goes on to its next query; the locals of the call are gone.
HandlerReturns(c) ==
    /\ pc[c] = "done"
    /\ pc' = [pc EXCEPT ![c] = "idle"]
    /\ query' = [query EXCEPT ![c] = NoQuery]
    /\ next' = [next EXCEPT ![c] = 1]
    /\ verdict' = [verdict EXCEPT ![c] = FALSE]
    /\ UNCHANGED <<cfg, current, fileVars, signalVars, mainVars>>

Handler(c) ==
    \/ \E q \in Queries : FilterCall(c, q)
    \/ FilterParse(c) \/ FilterStmt(c) \/ HandlerReturns(c)

-----------------------------------------------------------------------------
\* Nothing happens any more when the process is gone.
Finished == ~Alive /\ UNCHANGED vars

Next ==
    \/ \E f \in Files : Alive /\ EditFile(f)
    \/ Sighup \/ Sigterm
    \/ run
    \/ \E c \in Callers : Alive /\ Handler(c)
    \/ Finished

Spec == Init /\ [][Next]_vars

\* The main goroutine is scheduled, and neither the read of the file nor the
\* swap of the pointer waits for a session.  stop does, without a bound, so
\* that it need not return (see Server).  Go's select chooses among ready
\* channels at random, so SIGTERM is not passed over for ever.
FairSpec == Spec /\ WF_vars(main # "stopping" /\ run) /\ SF_vars(ReceiveExit)

-----------------------------------------------------------------------------
(* Properties *)

\* The configuration in force, and every one a call goes by, is what some
\* version of the file says in full: a reload that fails leaves no default
\* or half-decoded rules behind.
TypeOK ==
    /\ file \in Files
    /\ version \in 0..MaxEdits
    /\ chReload \in BOOLEAN
    /\ chExit \in {"none", "sent", "taken"}
    /\ main \in {"stat", "decode", "options", "listen", "metrics", "wait",
                 "store", "stopping", "exited", "failed"}
    /\ read \in ProxyConfigs \cup {Nil}
    /\ opts \in startConfig \cup {Nil}
    /\ config \in Configs \cup {Nil}
    /\ listening \in BOOLEAN
    /\ pc \in [Callers -> {"idle", "parse", "loop", "done"}]
    /\ query \in [Callers -> Queries \cup {NoQuery}]
    /\ cfg \in [Callers -> Configs \cup {Nil}]
    /\ \A c \in Callers : pc[c] # "idle" => cfg[c] \in Configs
    /\ next \in [Callers -> Nat]
    /\ verdict \in [Callers -> BOOLEAN]
    /\ current \in [Callers -> SUBSET Configs]
    /\ hupVersion \in 0..version
    /\ readVersion \in 0..version

\* Filter's verdict on a query is what the documented rules give under one
\* configuration that was in force during the call: a reload between two
\* statements cannot let through a query that neither the old nor the new
\* rules permit, and a call that starts after the reload goes by the new
\* rules.
VerdictSound ==
    \A c \in Callers :
        pc[c] = "done" =>
            \E k \in current[c] : verdict[c] = Permits(k, query[c])

\* A SIGHUP that was dropped because one was pending is not missed: when the
\* loop is back at its select and nothing is pending, it has read the file
\* as it was at the last SIGHUP, or a later version.
NoReloadLost ==
    main = "wait" /\ ~chReload => readVersion >= hupVersion

\* While the proxy serves, it does so with the protection that the file it
\* was started with asks for, whatever files were read since.  A certificate,
\* key, access control list or idle timeout that cannot be used stops the boot,
\* and is not left out; a limit or timeout that is not positive is none.  A
\* client CA alone is left out: without a certificate and a key there is no
\* TLS, whatever TLSClientCA says and whether it can be read or not; with them
\* clients need a certificate exactly when there is a client CA, and one that
\* cannot be used stops the boot.
ServedAsConfigured ==
    listening =>
        /\ "bad" \notin {booted.cert, booted.key, booted.acl, booted.idle}
        /\ IF booted.cert = "" /\ booted.key = ""
           THEN opts.tls = "off"
           ELSE /\ booted.cert = "pem" /\ booted.key = "pem"
                /\ booted.ca # "bad"
                /\ opts.tls = IF booted.ca = "pem" THEN "mutual" ELSE "server"
        /\ opts.acl = booted.acl
        /\ opts.maxConnections = IF booted.max > 0 THEN booted.max ELSE 0
        /\ opts.idleTimeout = IF booted.idle = "5m" THEN "5m" ELSE "none"

\* A process that has become ready dies of one thing only, an interval for
\* the log of metrics that is looked at too late: no edit, signal or failed
\* reload ends it.
DiesOnlyOfMetrics ==
    [][listening /\ main' = "failed" => booted.metrics \in {"bad", "zero"}]_vars

\* A SIGHUP takes effect: when one is sent for a good file that is left
\* alone, its rules come to be in force unless the process is told to exit or
\* did not get through its boot, whatever reloads failed before.
ReloadTakesEffect ==
    \A rules \in Configs :
        LET asked == file.state = "good" /\ DecodeFilter(file.section) = rules
        IN  (asked /\ hupVersion = version /\ version > 0)
                ~> (config = rules \/ ~asked \/ chExit # "none"
                        \/ main = "failed")

\* SIGTERM brings run to its call of stop, or finds a process that dies in its
\* boot: whether it comes during the boot or a reload, among any number of
\* SIGHUPs and with any file on the disk.
ExitTakesEffect == chExit = "sent" ~> main = "stopping" \/ ~Alive
=============================================================================
