----------------------------- MODULE MetricsLog -----------------------------
(***************************************************************************)
(* The counters of src/proxy/metrics.go, the places of Start and of a      *)
(* session that count, and the goroutine that logs a snapshot at every     *)
(* tick (logMetricsPeriodically in src/cli/cli.go).  Every counter is an   *)
(* atomic of its own; a snapshot loads them one after the other.           *)
(***************************************************************************)
EXTENDS Naturals, Sequences

CONSTANTS
    MaxConns,     \* bound on the accepted connections
    MaxTicks      \* bound on the ticks of the log

\* The fields of MetricsSnapshot, in the order in which they are loaded.
Fields == <<"TotalConnections", "ActiveConnections", "RejectedByACL",
            "RejectedByMaxConnections", "BlockedQueries",
            "BackendConnectErrors">>

Counters == {Fields[i] : i \in DOMAIN Fields}

VARIABLES
    metrics,    \* the value of every counter
    inHand,     \* the accept goroutine has counted a connection and decides
    logger,     \* where the goroutine of the log is
    loaded,     \* the fields it has loaded
    ticks,      \* ticks so far
    done,       \* stopMetricsLog has closed done
    \* History variable.
    instants    \* the values of all counters since the snapshot was begun

vars == <<metrics, inHand, logger, loaded, ticks, done, instants>>

Init ==
    /\ metrics = [f \in Counters |-> 0]
    /\ inHand = FALSE
    /\ logger = "select"
    /\ loaded = << >>
    /\ ticks = 0
    /\ done = FALSE
    /\ instants = {}

-----------------------------------------------------------------------------
(* The accept goroutine and the sessions *)

\* The addXxx methods.
Set(counter, n) ==
    /\ metrics' = [metrics EXCEPT ![counter] = n]
    /\ instants' = IF logger = "load" THEN instants \cup {metrics'}
                   ELSE instants
    /\ UNCHANGED <<logger, loaded, ticks, done>>

Add(counter) == Set(counter, metrics[counter] + 1)

Accept ==
    /\ ~inHand /\ metrics["TotalConnections"] < MaxConns
    /\ Add("TotalConnections")
    /\ inHand' = TRUE

Decide ==
    /\ inHand
    /\ \E outcome \in {"RejectedByACL", "RejectedByMaxConnections",
                       "ActiveConnections"} : Add(outcome)
    /\ inHand' = FALSE

\* A session that cannot reach its backend, or whose statement is blocked;
\* one of each is enough here.
SessionCounts ==
    /\ metrics["ActiveConnections"] > 0
    /\ \E c \in {"BackendConnectErrors", "BlockedQueries"} :
           metrics[c] = 0 /\ Add(c)
    /\ UNCHANGED inHand

SessionEnds ==
    /\ metrics["ActiveConnections"] > 0
    /\ Set("ActiveConnections", metrics["ActiveConnections"] - 1)
    /\ UNCHANGED inHand

-----------------------------------------------------------------------------
(* The log *)

Tick ==
    /\ logger = "select" /\ ticks < MaxTicks
    /\ logger' = "load"
    /\ loaded' = << >>
    /\ ticks' = ticks + 1
    /\ instants' = {metrics}
    /\ UNCHANGED <<metrics, inHand, done>>

Snapshot ==
    /\ logger = "load"
    /\ loaded' = Append(loaded, metrics[Fields[Len(loaded) + 1]])
    /\ logger' = IF Len(loaded') = Len(Fields) THEN "log" ELSE "load"
    /\ UNCHANGED <<metrics, inHand, ticks, done, instants>>

Log ==
    /\ logger = "log"
    /\ logger' = "select"
    /\ UNCHANGED <<metrics, inHand, loaded, ticks, done, instants>>

stopMetricsLog ==
    /\ ~done
    /\ done' = TRUE
    /\ UNCHANGED <<metrics, inHand, logger, loaded, ticks, instants>>

LoggerReturns ==
    /\ logger = "select" /\ done
    /\ logger' = "returned"
    /\ UNCHANGED <<metrics, inHand, loaded, ticks, done, instants>>

logMetricsPeriodically == Tick \/ Snapshot \/ Log \/ LoggerReturns

Next ==
    \/ Accept \/ Decide \/ SessionCounts \/ SessionEnds
    \/ logMetricsPeriodically \/ stopMetricsLog

Spec == Init /\ [][Next]_vars

-----------------------------------------------------------------------------
\* What metrics.go says of Snapshot: the values that are logged were the
\* values of the counters at one point in time during the call.
SnapshotPointInTime ==
    logger = "log" =>
        \E m \in instants : loaded = [i \in DOMAIN Fields |-> m[Fields[i]]]
=============================================================================
