------------------------------- MODULE Startup -------------------------------
(***************************************************************************)
(* The start of one session: from the accepted connection through the SSL  *)
(* and GSS negotiation with the client, the access control list, the choice*)
(* of a backend and the TLS connection to it, to the relay (service and    *)
(* serviceStartup in src/proxy/proxy.go, src/proxy/auth.go).  stop may     *)
(* force-close the client connection at any moment.                        *)
(*                                                                         *)
(* pgproto3's decoder reads ahead: what it has read beyond the packet it   *)
(* returns stays in its buffer, and is gone when the code replaces the     *)
(* decoder by a new one.                                                   *)
(***************************************************************************)
EXTENDS Acl

CONSTANTS
    Acls,        \* values of WithACL that compile
    Addrs,       \* addresses of clients
    TLSModes,    \* WithTLS: "off", "server" or "mutual" (client certificates)
    Identities,  \* the user and database of a startup message
    dbs,         \* the [DB.*] sections, by database name
    Certs,       \* certificates of backends
    Answers,     \* bytes that backends answer an SSLRequest with
    MaxPackets   \* bound on the packets of the client

DBConfig ==
    [addr : [form : {"path", "unix:path", "host:port"}, name : STRING,
             host : STRING],
     dbname : STRING, tlsrootcert : STRING, tlsservername : STRING]

ASSUME StartupAssumption ==
    /\ \A a \in Acls : compiles(a) /\ (a # Nil => ACL(a) /\ compileACL(a) # Nil)
    /\ Addrs \subseteq IPs \cup {Nil}
    /\ \A db \in DOMAIN dbs : dbs[db] \in DBConfig
    /\ TLSModes \subseteq {"off", "server", "mutual"}
    /\ MaxPackets \in Nat

VARIABLES
    env,       \* the options of Start that matter here, and the client
    client,    \* what the client does next
    secure,    \* the client speaks TLS
    sent,      \* packets it has sent
    wire,      \* packets on their way to the proxy
    svc,       \* where the session's goroutine is
    conn,      \* the local conn of readStartupMessage, "plain" or "tls"
    lconn,     \* p.lconn, which stop closes
    buf,       \* the decoder's read-ahead
    msg,       \* the message readStartupMessage returned
    peer,      \* who answers at the address of the backend
    rconn,     \* the backend connection
    got,       \* the startup message the backend received
    relayed,   \* packets relayed to the backend
    told,      \* the FATAL error written to the client
    forced,    \* stop has closed the client connection
    \* History variable.
    lost       \* packets that were in the buffer of a discarded decoder

clientVars == <<client, secure, sent>>
connVars == <<conn, lconn, buf, lost>>
backendVars == <<peer, rconn, got, relayed>>
vars == <<env, clientVars, wire, svc, connVars, msg, backendVars, told, forced>>

Negotiation == [type : {"ssl", "gss"}, via : {"plain", "tls"}]
Startups == {[type |-> "startup", via |-> v, user |-> i.user, db |-> i.db] :
                v \in {"plain", "tls"}, i \in Identities}
Others == [type : {"cancel", "junk", "data"}, via : {"plain", "tls"}]

\* Whoever listens at a backend's address: the certificate it can prove to be
\* its own and the byte with which it answers an SSLRequest.
Peers == [cert : Certs, answer : Answers]

\* A tls.Config; one without root certificates skips the verification.
TLSConfigs == [serverName : STRING, roots : STRING]

\* A backend connection (a tls.Conn where it has a tls.Config; complete once
\* its handshake is), and what was sent through it.
BackendConns ==
    [target : [network : {"unix", "tcp"}, addr : STRING],
     tls : TLSConfigs \cup {Nil}, complete : BOOLEAN]
Forwarded ==
    [startup : [user : {i.user : i \in Identities},
                database : STRING \cup {i.db : i \in Identities}],
     via : {"plain", "tls"}]

ClientStates == {"talk", "await", "handshake", "started", "session", "gone"}
SvcStates == {"accepted", "receive", "handshake", "assign", "cancel", "check",
              "dial", "ssl", "forward", "relay", "relaying", "close", "over",
              "crashed"}
Codes == {"28000", "42501", "3D000", "08006"}

ASSUME NilAssumption ==
    /\ Nil \notin Negotiation \cup Startups \cup Others
    /\ Nil \notin Peers \cup TLSConfigs \cup BackendConns
    /\ Nil \notin Forwarded
    /\ Nil \notin Codes

Init ==
    /\ env \in [acl : Acls, tls : TLSModes, addr : Addrs,
                patient : BOOLEAN, cert : BOOLEAN]
    /\ env.tls # "mutual" => env.cert
    /\ client = "talk" /\ secure = FALSE /\ sent = 0
    /\ wire = << >>
    /\ svc = "accepted"
    /\ conn = "plain" /\ lconn = "plain" /\ buf = << >> /\ lost = {}
    /\ msg = Nil
    /\ peer = Nil /\ rconn = Nil /\ got = Nil /\ relayed = {}
    /\ told = Nil
    /\ forced = FALSE

-----------------------------------------------------------------------------
(* The client *)

ClientStep ==
    UNCHANGED <<env, secure, svc, connVars, msg, backendVars, told, forced>>

\* A patient client waits for the answer to each packet; others do not.
MaySend(states) ==
    client \in states \cup (IF env.patient THEN {} ELSE {"await"})

SendPacket(p, next) ==
    /\ sent < MaxPackets
    /\ wire' = Append(wire, p)
    /\ sent' = sent + 1
    /\ client' = next
    /\ ClientStep

Via == IF secure THEN "tls" ELSE "plain"

\* An SSLRequest is not repeated within TLS.
ClientNegotiates ==
    /\ MaySend({"talk"})
    /\ \E p \in Negotiation :
           p.via = Via /\ (p.type = "ssl" => ~secure) /\ SendPacket(p, "await")

ClientStarts ==
    /\ MaySend({"talk"})
    /\ \E p \in Startups \cup Others :
           p.via = Via /\ p.type # "data" /\ SendPacket(p, "started")

\* What follows the startup message: a password, a query.
ClientTalks ==
    /\ client \in {"session"} \cup (IF env.patient THEN {} ELSE {"started"})
    /\ SendPacket([type |-> "data", via |-> Via], client)

ClientLeaves ==
    /\ client # "gone"
    /\ client' = "gone"
    /\ ClientStep /\ UNCHANGED <<sent, wire>>

-----------------------------------------------------------------------------
(* The accept goroutine and readStartupMessage *)

Step(from, to) ==
    /\ svc = from
    /\ svc' = to
    /\ UNCHANGED env

\* A step that only moves on.
Goto(from, to) ==
    /\ Step(from, to)
    /\ UNCHANGED <<clientVars, wire, connVars, msg, backendVars, told, forced>>

\* Start's goroutine checks the address before anything is read.
AcceptConn ==
    \/ checkAddr(compileACL(env.acl), env.addr) /\ Goto("accepted", "receive")
    \/ /\ ~checkAddr(compileACL(env.acl), env.addr)
       /\ Step("accepted", "over")
       /\ told' = [via |-> "plain", code |-> "28000"]
       /\ UNCHANGED <<clientVars, wire, connVars, msg, backendVars, forced>>

\* A step of the loop in readStartupMessage.
LoopStep(from, to) ==
    /\ Step(from, to)
    /\ UNCHANGED <<sent, lconn, backendVars, told, forced>>

\* The decoder reads what there is, at least one packet.
Fill ==
    /\ buf = << >> /\ ~forced
    /\ \E k \in 1..Len(wire) :
           /\ buf' = SubSeq(wire, 1, k)
           /\ wire' = SubSeq(wire, k + 1, Len(wire))
    /\ LoopStep("receive", "receive")
    /\ UNCHANGED <<client, secure, conn, lost, msg>>

Received(type) == buf # << >> /\ Head(buf).type = type

Packets(seq) == {seq[i] : i \in DOMAIN seq}

\* The client sees the byte 'N' or 'S'.  One that did not wait for an 'S' has
\* to begin again.
SeesAnswer(next) ==
    client' = IF client = "await" \/ (client = "started" /\ next = "handshake")
              THEN next ELSE client

\* Mutant: every request is followed by a new decoder.
DenyAfresh(type) ==
    /\ Received(type) /\ ~forced
    /\ LoopStep("receive", "receive")
    /\ buf' = << >>
    /\ lost' = lost \cup Packets(Tail(buf))
    /\ SeesAnswer("talk")
    /\ UNCHANGED <<secure, wire, conn, msg>>

Deny(type) ==
    /\ Received(type) /\ ~forced
    /\ LoopStep("receive", "receive")
    /\ buf' = Tail(buf)
    /\ SeesAnswer("talk")
    /\ UNCHANGED <<secure, wire, conn, lost, msg>>

DenySSL == env.tls = "off" /\ Deny("ssl")

DenyGSS == Deny("gss")

AcceptSSL ==
    /\ env.tls # "off" /\ Received("ssl") /\ ~forced
    /\ LoopStep("receive", "handshake")
    /\ buf' = Tail(buf)
    /\ SeesAnswer("handshake")
    /\ UNCHANGED <<secure, wire, conn, lost, msg>>

\* Mutant: the decoder of the plain connection is kept.
UpgradeKeepingDecoder == conn' = "tls" /\ UNCHANGED <<buf, lost>>

\* conn and the decoder are replaced; the read-ahead goes with the decoder.
Upgrade ==
    /\ conn' = "tls"
    /\ buf' = << >>
    /\ lost' = lost \cup Packets(buf)

\* tls.Server reads from the connection, not from the decoder: bytes that
\* are no TLS record make the handshake fail.
HandshakeOk ==
    /\ client = "handshake" /\ wire = << >> /\ ~forced
    /\ env.tls = "mutual" => env.cert
    /\ LoopStep("handshake", "receive")
    /\ Upgrade
    /\ client' = "talk" /\ secure' = TRUE
    /\ UNCHANGED <<wire, msg>>

Broken == client = "gone" \/ forced

\* A peer that is gone, bytes that are no TLS, or a handshake that one side
\* refuses.
HandshakeFails ==
    /\ Broken \/ wire # << >> \/ client = "handshake"
    /\ Goto("handshake", "assign")

NothingComes == forced \/ (wire = << >> /\ client = "gone")

\* Mutant: a failed read is tried again.
ReceiveFailsRetry == buf = << >> /\ NothingComes /\ Goto("receive", "receive")

\* A read error, a packet that is none of the four, or an answer that cannot
\* be written: the connection so far is returned with the error.
ReceiveFails ==
    /\ \/ buf = << >> /\ NothingComes
       \/ Received("junk")
       \/ (Received("ssl") \/ Received("gss")) /\ Broken
    /\ Goto("receive", "assign")

ReceiveMessage ==
    /\ Received("startup") \/ Received("cancel")
    /\ LoopStep("receive", "assign")
    /\ msg' = Head(buf)
    /\ buf' = Tail(buf)
    /\ UNCHANGED <<client, secure, wire, conn, lost>>

readStartupMessage ==
    \/ Fill \/ DenySSL \/ DenyGSS \/ AcceptSSL
    \/ HandshakeOk \/ HandshakeFails
    \/ ReceiveFails \/ ReceiveMessage

-----------------------------------------------------------------------------
(* service and serviceStartup *)

\* Mutant: the connection readStartupMessage returns is ignored.
AssignConnIgnored == lconn' = lconn

\* p.lconn = conn, also after an error.
AssignConn == lconn' = conn

service ==
    /\ Step("assign", IF msg = Nil THEN "close"
                      ELSE IF msg.type = "cancel" THEN "cancel" ELSE "check")
    /\ AssignConn
    /\ UNCHANGED <<clientVars, wire, conn, buf, lost, msg, backendVars, told,
                   forced>>

\* What a CancelRequest does is the subject of CancelRegistry.
forwardCancelRequest == Goto("cancel", "close")

\* A step of serviceStartup; writeError writes to p.lconn.
StartupStep(from, to, error) ==
    /\ Step(from, to)
    /\ told' = IF error = Nil THEN told ELSE [via |-> lconn, code |-> error]
    /\ UNCHANGED <<clientVars, wire, conn, lconn, msg, relayed, forced>>

Refuse(code) ==
    /\ StartupStep("check", "close", code)
    /\ UNCHANGED <<buf, lost, peer, rconn, got>>

DatabaseAllowed == checkDatabase(compileACL(env.acl), msg.db)
UserAllowed == checkUser(compileACL(env.acl), msg.user)

RefuseDatabase == svc = "check" /\ ~DatabaseAllowed /\ Refuse("42501")

RefuseUser ==
    svc = "check" /\ DatabaseAllowed /\ ~UserAllowed /\ Refuse("42501")

UnknownDatabase ==
    /\ svc = "check" /\ DatabaseAllowed /\ UserAllowed
    /\ msg.db \notin DOMAIN dbs
    /\ Refuse("3D000")

LookUpDatabase ==
    /\ svc = "check" /\ DatabaseAllowed /\ UserAllowed
    /\ msg.db \in DOMAIN dbs
    /\ Goto("check", "dial")

dbConf == dbs[msg.db]

\* "/path" and "unix:/path" are unix sockets, anything else is host:port.
targetFor(addr) ==
    [network |-> IF addr.form \in {"path", "unix:path"} THEN "unix" ELSE "tcp",
     addr |-> addr.name]

\* The name a certificate is checked against: host is what SplitHostPort
\* makes of the address, or the address where it has no port.
serverName(db) ==
    IF db.tlsservername # "" THEN db.tlsservername ELSE db.addr.host

backendTLSConfig(db) ==
    [serverName |-> serverName(db), roots |-> db.tlsrootcert]

\* What crypto/tls makes of a certificate: without root certificates it is not
\* verified (InsecureSkipVerify).
Accepts(conf, cert) ==
    conf.roots # "" => cert.issuer = conf.roots /\ cert.name = conf.serverName

\* All parameters but the database are passed on as they are.
rewriteStartupMessage(sm, db) ==
    [user |-> sm.user,
     database |-> IF db.dbname # "" THEN db.dbname ELSE sm.db]

\* connectBackend dials and sends the SSLRequest; p is who takes the call.
Dial(p) ==
    /\ StartupStep("dial", "ssl", Nil)
    /\ peer' = p
    /\ rconn' = [target |-> targetFor(dbConf.addr), tls |-> Nil,
                 complete |-> FALSE]
    /\ UNCHANGED <<buf, lost, got>>

\* Mutant: the tls.Conn is assigned to a conn of the inner block.
SSLAnsweredShadowed ==
    /\ svc = "ssl" /\ StartupStep("ssl", "forward", Nil)
    /\ peer.answer = "S" => dbConf.tlsrootcert # "unusable"
    /\ UNCHANGED <<buf, lost, peer, rconn, got>>

\* An 'S' is answered with a tls.Conn, which has not spoken yet; any other byte
\* leaves the connection as it is.
SSLAnswered ==
    /\ svc = "ssl" /\ StartupStep("ssl", "forward", Nil)
    /\ peer.answer = "S" => dbConf.tlsrootcert # "unusable"
    /\ rconn' = [rconn EXCEPT !.tls = IF peer.answer = "S"
                                      THEN backendTLSConfig(dbConf) ELSE Nil]
    /\ UNCHANGED <<buf, lost, peer, got>>

\* The write of the startup message finds that the handshake is still to be
\* made.
BackendHandshake ==
    /\ svc = "forward" /\ rconn.tls # Nil /\ ~rconn.complete
    /\ Accepts(rconn.tls, peer.cert)
    /\ rconn' = [rconn EXCEPT !.complete = TRUE]
    /\ StartupStep("forward", "forward", Nil)
    /\ UNCHANGED <<buf, lost, peer, got>>

Forward ==
    /\ svc = "forward" /\ rconn.tls # Nil => rconn.complete
    /\ StartupStep("forward", "relay", Nil)
    /\ got' = [startup |-> rewriteStartupMessage(msg, dbConf),
               via |-> IF rconn.tls = Nil THEN "plain" ELSE "tls"]
    /\ UNCHANGED <<buf, lost, peer, rconn>>

\* The dial, the SSLRequest or its answer, backendTLSConfig, the handshake or
\* the write fails; connectBackend closes what it opened.
ConnectFails ==
    /\ \E from \in {"dial", "ssl", "forward"} :
           StartupStep(from, "close", "08006")
    /\ rconn' = Nil
    /\ UNCHANGED <<buf, lost, peer, got>>

connectBackend ==
    \/ \E p \in Peers : Dial(p)
    \/ SSLAnswered \/ BackendHandshake \/ Forward \/ ConnectFails

\* The relay goroutines start, with a decoder of their own.
StartRelay ==
    /\ StartupStep("relay", "relaying", Nil)
    /\ buf' = << >>
    /\ lost' = lost \cup Packets(buf)
    /\ UNCHANGED <<peer, rconn, got>>

\* The first answer of the backend reaches the client.
RelayAnswer ==
    /\ svc = "relaying" /\ client = "started"
    /\ client' = "session"
    /\ ClientStep /\ UNCHANGED <<sent, wire>>

RelayData ==
    /\ svc = "relaying" /\ wire # << >> /\ ~forced
    /\ relayed' = relayed \cup {Head(wire)}
    /\ wire' = Tail(wire)
    /\ UNCHANGED <<env, clientVars, svc, connVars, msg, peer, rconn, got, told,
                   forced>>

\* One relay failed: the client left, stop closed it, or the backend closed.
SessionEnds ==
    /\ StartupStep("relaying", "close", Nil)
    /\ rconn' = Nil
    /\ UNCHANGED <<buf, lost, peer, got>>

\* The deferred p.lconn.Close().
CloseClient == Goto("close", "over")

serviceStartup ==
    \/ RefuseDatabase \/ RefuseUser \/ UnknownDatabase \/ LookUpDatabase
    \/ connectBackend \/ StartRelay \/ SessionEnds

\* stop closes what p.lconn denotes at that moment: before AssignConn the
\* plain connection, which carries the TLS connection as well.
ForceClose ==
    /\ svc \notin {"accepted", "over", "crashed"} /\ ~forced
    /\ forced' = TRUE
    /\ UNCHANGED <<env, clientVars, wire, svc, connVars, msg, backendVars, told>>

\* The interface value p.lconn is two words, written in AssignConn without a
\* lock: a stop that reads one old and one new word calls Close of one type
\* on a value of the other.
ForceCloseTorn == lconn # conn /\ ~forced /\ Goto("assign", "crashed")

-----------------------------------------------------------------------------
Client == ClientNegotiates \/ ClientStarts \/ ClientTalks \/ ClientLeaves

Session ==
    \/ AcceptConn \/ readStartupMessage \/ service \/ forwardCancelRequest
    \/ serviceStartup \/ CloseClient

Next ==
    \/ Client \/ Session \/ RelayAnswer \/ RelayData
    \/ ForceClose \/ ForceCloseTorn

Spec == Init /\ [][Next]_vars

\* On a broken client connection nothing the goroutine does with it blocks;
\* the dial has a deadline, and backends are taken to answer the SSLRequest
\* or to close (Server has the runs without that assumption).
FairSpec == Spec /\ WF_vars(Broken /\ Session)

-----------------------------------------------------------------------------
(* Properties *)

TypeOK ==
    /\ client \in ClientStates /\ secure \in BOOLEAN
    /\ sent \in 0..MaxPackets
    /\ {wire, buf} \subseteq Seq(Negotiation \cup Startups \cup Others)
    /\ svc \in SvcStates
    /\ {conn, lconn} \subseteq {"plain", "tls"}
    /\ svc \notin {"receive", "handshake", "assign", "crashed"} => lconn = conn
    /\ msg \in Negotiation \cup Startups \cup Others \cup {Nil}
    /\ svc \in {"check", "dial", "ssl", "forward", "relay", "relaying"} =>
           msg \in Startups
    /\ peer \in Peers \cup {Nil}
    /\ rconn \in BackendConns \cup {Nil}
    /\ got \in Forwarded \cup {Nil}
    /\ (svc \in {"ssl", "forward", "relay", "relaying"}) = (rconn # Nil)
    /\ told # Nil => told.via \in {"plain", "tls"} /\ told.code \in Codes
    /\ forced \in BOOLEAN
    /\ lost \subseteq Negotiation \cup Startups \cup Others

\* Once the client's SSLRequest is accepted, only what comes through TLS is
\* acted on: neither a startup message nor data that was sent in the clear
\* behind the SSLRequest, and read ahead by the decoder, is taken for the
\* client's.
ChannelKept ==
    conn = "tls" =>
        /\ msg # Nil => msg.via = "tls"
        /\ \A p \in relayed : p.via = "tls"

\* A client that waits for the answers loses nothing to a decoder that is
\* replaced; one that does not loses only what it sent in the clear before a
\* TLS handshake, or behind a startup message before the relay began.
NothingLost ==
    /\ env.patient => lost = {}
    /\ lost # {} => conn = "tls" \/ got # Nil

\* A backend that is reached is the one configured for the database that the
\* access control list permits to this user at this address, and it sees the
\* user and database the client asked for, under the backend's own name.
BackendAsPermitted ==
    /\ rconn # Nil =>
           /\ Permitted(env.acl, env.addr, msg.user, msg.db)
           /\ msg.db \in DOMAIN dbs
           /\ rconn.target.addr = dbs[msg.db].addr.name
           /\ (rconn.target.network = "tcp") <=>
                  (dbs[msg.db].addr.form = "host:port")
    /\ got # Nil =>
           /\ got.startup.user = msg.user
           /\ got.startup.database \in {msg.db, dbs[msg.db].dbname}
           /\ (got.startup.database = msg.db) <=>
                  (dbs[msg.db].dbname \in {"", msg.db})

\* A backend that answered the SSLRequest with 'S' got the startup message
\* through TLS, and where a TLSRootCert is configured for the database it is one
\* with a certificate of that root for TLSServerName, or for the host of Addr
\* where there is none: the answer, the tls.Config, the handshake and the write
\* belong together, though the handshake is only made inside the write.
StartupOnlyToVerified ==
    got # Nil /\ peer.answer = "S" =>
        /\ got.via = "tls"
        /\ LET db == dbs[msg.db] IN
           db.tlsrootcert # "" =>
               /\ peer.cert.issuer = db.tlsrootcert
               /\ peer.cert.name = IF db.tlsservername = "" THEN db.addr.host
                                   ELSE db.tlsservername

\* A connection that is turned away is told why, by the error that belongs
\* to the first rule it breaks, and on the channel it listens on.
RefusalTold ==
    svc = "over" /\ got = Nil =>
        IF ~checkAddr(compileACL(env.acl), env.addr)
        THEN told = [via |-> "plain", code |-> "28000"]
        ELSE msg # Nil /\ msg.type = "startup" =>
             told = [via |-> Via,
                     code |-> IF ~Permitted(env.acl, env.addr, msg.user, msg.db)
                              THEN "42501"
                              ELSE IF msg.db \notin DOMAIN dbs THEN "3D000"
                              ELSE "08006"]

\* A session whose client connection is lost or closed by stop ends, wherever
\* the negotiation stands: also when stop closed the connection that was in
\* p.lconn before the TLS upgrade.
StartupEnds == Broken ~> svc \in {"over", "crashed"}
=============================================================================
