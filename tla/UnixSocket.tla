----------------------------- MODULE UnixSocket -----------------------------
(***************************************************************************)
(* How a pgproxy process takes possession of its unix socket path          *)
(* (getListener and removeStaleUnixSocket in proxy/proxy.go), how it gives *)
(* it back, and what a crash leaves behind.  The file system has one path, *)
(* and every process is configured with it; some are started by systemd    *)
(* with a listener that they inherit.  Each system call on the path is a   *)
(* step of its own: what it saw may be stale when the next one runs, and it *)
(* may fail.                                                               *)
(***************************************************************************)
EXTENDS Naturals, FiniteSets

CONSTANTS
    Procs,         \* pgproxy processes configured with the same ProxyAddr
    Activated,     \* those that systemd passes a listening socket
    Overlap,       \* TRUE: one process may start while another is starting
    Slow,          \* listeners that may leave a dial unanswered for 200 ms
    Existing,      \* what the path may hold before the first start
    Nothing,       \* no file at the path
    OtherFile,     \* a file that is not a socket
    Systemd,       \* a socket on which systemd listens
    MaxStarts      \* bound on the number of starts

ASSUME SocketAssumption ==
    /\ Procs \cap {Nothing, OtherFile, Systemd} = {}
    /\ Nothing # OtherFile /\ Nothing # Systemd /\ OtherFile # Systemd
    /\ Existing \subseteq {Nothing, OtherFile, Systemd}
    /\ Overlap \in BOOLEAN
    /\ Slow \subseteq Procs \cup {Systemd}
    /\ MaxStarts \in Nat

VARIABLES
    path,      \* what is there: one of Existing, or a process's socket
    pc,        \* where each process is in getListener
    starts,    \* starts so far
    misled,    \* history: processes about to remove a socket as stale though
               \* its listener lives and was too slow to answer them, or though
               \* somebody has bound the path since they dialled
    robbed     \* history: live processes that lost their path to one of those

history == <<misled, robbed>>
vars == <<path, pc, starts, history>>

\* The processes between the entry of getListener and its return.
Starting ==
    {p \in Procs :
        pc[p] \in {"activation", "stat", "dial", "remove", "listen"}}

\* The processes that serve on a socket they have bound to the path, and
\* those that serve on an inherited one.
Serving == {p \in Procs : pc[p] = "serving"}
Inheriting == {p \in Procs : pc[p] = "inherited"}

Init ==
    /\ path \in Existing
    /\ pc = [p \in Procs |-> "off"]
    /\ starts = 0
    /\ misled = {} /\ robbed = {}

-----------------------------------------------------------------------------
Goto(p, l) == pc' = [pc EXCEPT ![p] = l]

\* The service manager starts (or restarts) p, which enters getListener.
Start(p) ==
    /\ pc[p] \in {"off", "failed", "ioerror"}
    /\ Overlap \/ Starting = {}
    /\ starts < MaxStarts
    /\ starts' = starts + 1
    /\ Goto(p, "activation")
    /\ UNCHANGED <<path, history>>

\* activation.Listeners: an inherited listener is used, and ProxyAddr is not
\* looked at.
Activation(p) ==
    /\ pc[p] = "activation"
    /\ Goto(p, IF p \in Activated THEN "inherited" ELSE "stat")
    /\ UNCHANGED <<path, starts, history>>

\* Mutant: the mode bits are not looked at.
StatAnyFile(p) ==
    /\ pc[p] = "stat"
    /\ Goto(p, IF path = Nothing THEN "listen" ELSE "dial")
    /\ UNCHANGED <<path, starts, history>>

\* os.Stat: nothing there is nothing to clean up; a file that is not a
\* socket, and any other error, make getListener fail.
Stat(p) ==
    /\ pc[p] = "stat"
    /\ \/ Goto(p, CASE path = Nothing   -> "listen"
                    [] path = OtherFile -> "failed"
                    [] OTHER            -> "dial")
       \/ Goto(p, "ioerror")
    /\ UNCHANGED <<path, starts, history>>

\* The sockets at the path on which somebody listens.
Live == Serving \cup {Systemd}

\* Mutant: the dial's answer is not looked at.
DialIgnored(p) ==
    /\ pc[p] = "dial"
    /\ Goto(p, "remove")
    /\ UNCHANGED <<path, starts, history>>

\* net.DialTimeout: a listener answers, and getListener fails.  Any error is
\* taken for a stale socket: that nobody listens any more, but also that a
\* live listener has no room in its backlog or does not answer in time.
Dial(p) ==
    /\ pc[p] = "dial"
    /\ \/ /\ path \in Live
          /\ Goto(p, "failed")
          /\ UNCHANGED misled
       \/ /\ path \notin Live \/ path \in Slow
          /\ Goto(p, "remove")
          /\ misled' = IF path \in Live THEN misled \cup {p} ELSE misled
    /\ UNCHANGED <<path, starts, robbed>>

\* Mutant: the stale file is not removed.
RemoveForgotten(p) ==
    /\ pc[p] = "remove"
    /\ Goto(p, "listen")
    /\ misled' = misled \ {p}
    /\ UNCHANGED <<path, starts, robbed>>

\* The processes whose socket is at the path and taken away by p; a thief for
\* whose deed no cause is known is no excuse.
Victims(p, causes) == IF p \in causes THEN {path} \cap Serving ELSE {}

\* os.Remove takes a path, not the file that was dialled; finding nothing to
\* remove is not an error, and other errors make getListener fail.
Remove(p) ==
    /\ pc[p] = "remove"
    /\ \/ /\ path' = Nothing
          /\ robbed' = robbed \cup Victims(p, misled)
          /\ Goto(p, "listen")
       \/ /\ Goto(p, "ioerror")
          /\ UNCHANGED <<path, robbed>>
    /\ misled' = misled \ {p}
    /\ UNCHANGED starts

\* net.Listen binds the path unless something is there, or fails for another
\* reason; the chmod that follows changes nothing that is modelled.
Listen(p) ==
    /\ pc[p] = "listen"
    /\ \/ /\ path = Nothing
          /\ path' = p
          /\ Goto(p, "serving")
          /\ misled' = misled \cup {q \in Procs : pc[q] = "remove"}
       \/ /\ path # Nothing
          /\ Goto(p, "failed")
          /\ UNCHANGED <<path, misled>>
       \/ /\ Goto(p, "ioerror")
          /\ UNCHANGED <<path, misled>>
    /\ UNCHANGED <<starts, robbed>>

\* stop closes the listener, which unlinks the path it was bound to, whatever
\* is there by now.
CloseListener(p) ==
    /\ pc[p] = "serving"
    /\ path' = Nothing
    /\ robbed' = (robbed \cup Victims(p, robbed)) \ {p}
    /\ Goto(p, "off")
    /\ UNCHANGED <<starts, misled>>

\* An inherited listener unlinks nothing when it is closed.
CloseInherited(p) ==
    /\ pc[p] = "inherited"
    /\ Goto(p, "off")
    /\ UNCHANGED <<path, starts, history>>

\* A process that dies leaves the file behind, in whatever step it was.
Crash(p) ==
    /\ p \in Serving \cup Inheriting \cup Starting
    /\ Goto(p, "off")
    /\ misled' = misled \ {p} /\ robbed' = robbed \ {p}
    /\ UNCHANGED <<path, starts>>

removeStaleUnixSocket(p) == Stat(p) \/ Dial(p) \/ Remove(p)

getListener(p) == Activation(p) \/ removeStaleUnixSocket(p) \/ Listen(p)

Next == \E p \in Procs :
            \/ Start(p) \/ getListener(p)
            \/ CloseListener(p) \/ CloseInherited(p) \/ Crash(p)

Spec == Init /\ [][Next]_vars

\* A process that is starting runs on: none of its calls waits for anyone
\* (the dial has a timeout).
FairSpec == Spec /\ \A p \in Procs : WF_vars(getListener(p))

-----------------------------------------------------------------------------
(* Properties *)

\* The path of a process that is serving leads to that process (the promise in
\* the comment of removeStaleUnixSocket), with one way out: a start that
\* dialled a live listener in vain, or that dialled before the other bound the
\* path, removes the socket as stale.  A process that lost its path like that
\* unlinks the path of the next one when it stops.  Nothing else takes the
\* socket of a live process.
LiveSocketKept ==
    \A p \in Serving : path = p \/ p \in robbed

\* A file that is not a socket is never removed or replaced, and a socket that
\* systemd listens on only by a start whose dial systemd left unanswered: the
\* mode check and the dial come before every call that changes the path.
ForeignFileKept ==
    [][(path \in {OtherFile, Systemd} /\ path' # path) =>
           path = Systemd /\ misled # {}]_vars

\* After a crash the path comes back into service: when a process starts while
\* nobody serves on it, somebody comes to, whatever socket file a dead process
\* left and whoever else is starting, unless the process dies itself, meets a
\* file-system error or finds something foreign in the way.  One that inherits
\* its listener is in nobody's way and has nobody in its way.
RestartSucceeds ==
    \A p \in Procs :
        (/\ pc[p] = "activation"
         /\ p \notin Activated =>
                Serving = {} /\ path \notin {OtherFile, Systemd})
            ~> (\/ pc[p] \in {"inherited", "off", "ioerror"}
                \/ p \notin Activated /\ Serving # {})
=============================================================================
