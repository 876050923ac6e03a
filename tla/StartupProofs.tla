---------------------------- MODULE StartupProofs ----------------------------
(***************************************************************************)
(* Proofs about Startup, for any number of packets, any clients, access    *)
(* control lists, databases and certificates.                              *)
(***************************************************************************)
EXTENDS Startup, TLAPS

Packet == Negotiation \cup Startups \cup Others

AllTLS(seq) == \A i \in 1..Len(seq) : seq[i].via = "tls"

Types ==
    /\ wire \in Seq(Packet)
    /\ buf \in Seq(Packet)

\* Before readStartupMessage returns there is no message and no relay.
EarlyInv ==
    svc \in {"accepted", "receive", "handshake"} => msg = Nil /\ relayed = {}

\* The client speaks TLS from the moment the connection is upgraded, and
\* nothing that it sent before is left anywhere.
TLSInv ==
    conn = "tls" =>
        /\ secure
        /\ AllTLS(wire)
        /\ AllTLS(buf)
        /\ msg # Nil => msg.via = "tls"
        /\ \A p \in relayed : p.via = "tls"

Inv == Types /\ EarlyInv /\ TLSInv

-----------------------------------------------------------------------------
LEMMA InitInv == Init => Inv
  BY DEF Init, Inv, Types, EarlyInv, TLSInv

LEMMA ClientInv == Inv /\ Client => Inv'
<1> SUFFICES ASSUME Inv, Client PROVE Inv'
  OBVIOUS
<1>1. ASSUME NEW p \in Packet, NEW next, p.via = Via, SendPacket(p, next)
      PROVE  Inv'
  <2>1. wire' = Append(wire, p)
    BY <1>1 DEF SendPacket
  <2>2. UNCHANGED <<secure, svc, conn, buf, msg, relayed>>
    BY <1>1 DEF SendPacket, ClientStep, connVars, backendVars
  <2>3. Types'
    BY <2>1, <2>2 DEF Inv, Types
  <2>4. EarlyInv'
    BY <2>2 DEF Inv, EarlyInv
  <2>5. conn = "tls" => AllTLS(wire')
    <3> SUFFICES ASSUME conn = "tls" PROVE AllTLS(wire')
      OBVIOUS
    <3>1. p.via = "tls" /\ AllTLS(wire) /\ wire \in Seq(Packet)
      BY <1>1 DEF Via, Inv, TLSInv, Types
    <3> QED BY <2>1, <3>1 DEF AllTLS
  <2>6. TLSInv'
    BY <2>2, <2>5 DEF Inv, TLSInv, AllTLS
  <2> QED BY <2>3, <2>4, <2>6 DEF Inv
<1>2. CASE ClientNegotiates
  BY <1>1, <1>2 DEF ClientNegotiates, Packet
<1>3. CASE ClientStarts
  BY <1>1, <1>3 DEF ClientStarts, Packet
<1>4. CASE ClientTalks
  <2>1. [type |-> "data", via |-> Via] \in Packet
    BY DEF Packet, Others, Via
  <2> QED BY <1>1, <1>4, <2>1 DEF ClientTalks
<1>5. CASE ClientLeaves
  BY <1>5 DEF ClientLeaves, ClientStep, connVars, backendVars, Inv, Types,
              EarlyInv, TLSInv
<1> QED BY <1>2, <1>3, <1>4, <1>5 DEF Client

\* A step that leaves the packets, the message and the connection alone and
\* does not go back to the beginning.
LEMMA QuietInv ==
  ASSUME Inv, UNCHANGED <<wire, buf, conn, msg, relayed, secure>>,
         svc' \in {"accepted", "receive", "handshake"} =>
             svc \in {"accepted", "receive", "handshake"}
  PROVE  Inv'
  BY DEF Inv, Types, EarlyInv, TLSInv, AllTLS

\* A step that takes packets off the front of the wire or the decoder's buffer
\* and puts none of another channel in their place.
LEMMA TakeInv ==
  ASSUME Inv, wire' \in Seq(Packet), buf' \in Seq(Packet),
         conn = "tls" => AllTLS(wire') /\ AllTLS(buf'),
         UNCHANGED <<conn, msg, relayed, secure, svc>>
  PROVE  Inv'
  BY DEF Inv, Types, EarlyInv, TLSInv, AllTLS

LEMMA TailTLS ==
  ASSUME NEW seq \in Seq(Packet), seq # << >>
  PROVE  /\ Tail(seq) \in Seq(Packet)
         /\ Head(seq) \in Packet
         /\ AllTLS(seq) => AllTLS(Tail(seq)) /\ Head(seq).via = "tls"
<1>1. Len(seq) \in Nat /\ Len(seq) > 0 /\ Head(seq) = seq[1]
  OBVIOUS
<1>2. /\ Len(Tail(seq)) = Len(seq) - 1
      /\ \A i \in 1..Len(Tail(seq)) : Tail(seq)[i] = seq[i + 1]
  OBVIOUS
<1> QED BY <1>1, <1>2 DEF AllTLS

LEMMA FillInv == Inv /\ Fill => Inv'
<1> SUFFICES ASSUME Inv, Fill PROVE Inv'
  OBVIOUS
<1>1. PICK k \in 1..Len(wire) : /\ buf' = SubSeq(wire, 1, k)
                                /\ wire' = SubSeq(wire, k + 1, Len(wire))
  BY DEF Fill
<1>2. UNCHANGED <<conn, msg, relayed, secure, svc>>
  BY DEF Fill, LoopStep, Step, backendVars
<1>3. wire \in Seq(Packet) /\ Len(wire) \in Nat
  BY DEF Inv, Types
<1>4. buf' \in Seq(Packet) /\ wire' \in Seq(Packet)
  BY <1>1, <1>3
<1>5. /\ Len(buf') = k /\ \A i \in 1..k : buf'[i] = wire[i]
      /\ Len(wire') = Len(wire) - k
      /\ \A i \in 1..(Len(wire) - k) : wire'[i] = wire[k + i]
  BY <1>1, <1>3
<1>6. conn = "tls" => AllTLS(wire') /\ AllTLS(buf')
  <2> SUFFICES ASSUME conn = "tls" PROVE AllTLS(wire') /\ AllTLS(buf')
    OBVIOUS
  <2>1. \A i \in 1..Len(wire) : wire[i].via = "tls"
    BY DEF Inv, TLSInv, AllTLS
  <2>2. \A i \in 1..k : i \in 1..Len(wire)
    BY <1>3
  <2>3. \A i \in 1..(Len(wire) - k) : k + i \in 1..Len(wire)
    BY <1>3
  <2>4. AllTLS(buf')
    BY <1>5, <2>1, <2>2 DEF AllTLS
  <2>5. AllTLS(wire')
    BY <1>5, <2>1, <2>3 DEF AllTLS
  <2> QED BY <2>4, <2>5
<1> QED BY <1>2, <1>4, <1>6, TakeInv

LEMMA readStartupMessageInv == Inv /\ readStartupMessage => Inv'
<1> SUFFICES ASSUME Inv, readStartupMessage PROVE Inv'
  OBVIOUS
<1>1. ASSUME buf # << >>
      PROVE  /\ Tail(buf) \in Seq(Packet) /\ Head(buf) \in Packet
             /\ conn = "tls" => AllTLS(Tail(buf)) /\ Head(buf).via = "tls"
  BY <1>1, TailTLS DEF Inv, Types, TLSInv
<1>2. ASSUME NEW type, Deny(type) PROVE Inv'
  <2>1. buf' = Tail(buf) /\ buf # << >>
    BY <1>2 DEF Deny, Received
  <2>2. UNCHANGED <<wire, conn, msg, relayed, secure, svc>>
    BY <1>2 DEF Deny, LoopStep, Step, backendVars
  <2>3. AllTLS(wire) => AllTLS(wire')
    BY <2>2 DEF AllTLS
  <2>4. AllTLS(Tail(buf)) => AllTLS(buf')
    BY <2>1 DEF AllTLS
  <2> QED BY <1>1, <2>1, <2>2, <2>3, <2>4, TakeInv DEF Inv, Types, TLSInv
<1>3. CASE AcceptSSL
  <2>1. buf' = Tail(buf) /\ buf # << >> /\ svc = "receive"
    BY <1>3 DEF AcceptSSL, Received, LoopStep, Step
  <2>2. UNCHANGED <<wire, conn, msg, relayed, secure>>
    BY <1>3 DEF AcceptSSL, LoopStep, Step, backendVars
  <2>3. Types' /\ EarlyInv'
    BY <1>1, <2>1, <2>2 DEF Inv, Types, EarlyInv
  <2>4. TLSInv'
    BY <1>1, <2>1, <2>2 DEF Inv, TLSInv, AllTLS
  <2> QED BY <2>3, <2>4 DEF Inv
<1>4. CASE HandshakeOk
  \* Nothing has been read or relayed yet, and nothing is on its way.
  <2>1. /\ wire = << >> /\ wire' = << >> /\ buf' = << >>
        /\ secure' /\ svc = "handshake"
        /\ UNCHANGED <<msg, relayed>>
    BY <1>4 DEF HandshakeOk, Upgrade, LoopStep, Step, backendVars
  <2>2. msg' = Nil /\ relayed' = {}
    BY <2>1 DEF Inv, EarlyInv
  <2> QED BY <2>1, <2>2 DEF Inv, Types, EarlyInv, TLSInv, AllTLS
<1>5. CASE HandshakeFails
  BY <1>5, QuietInv DEF HandshakeFails, Goto, Step, clientVars, connVars,
                        backendVars
<1>6. CASE ReceiveFails
  BY <1>6, QuietInv DEF ReceiveFails, Goto, Step, clientVars, connVars,
                        backendVars
<1>7. CASE ReceiveMessage
  <2>1. buf # << >> /\ buf' = Tail(buf) /\ msg' = Head(buf) /\ svc' = "assign"
    BY <1>7 DEF ReceiveMessage, Received, LoopStep, Step
  <2>2. UNCHANGED <<wire, conn, relayed, secure>>
    BY <1>7 DEF ReceiveMessage, LoopStep, backendVars
  <2>3. Types' /\ EarlyInv'
    BY <1>1, <2>1, <2>2 DEF Inv, Types, EarlyInv
  <2>4. TLSInv'
    BY <1>1, <2>1, <2>2 DEF Inv, TLSInv, AllTLS
  <2> QED BY <2>3, <2>4 DEF Inv
<1> QED BY <1>2, <1>3, <1>4, <1>5, <1>6, <1>7, FillInv
        DEF readStartupMessage, DenySSL, DenyGSS

LEMMA serviceStartupInv == Inv /\ serviceStartup => Inv'
<1> SUFFICES ASSUME Inv, serviceStartup PROVE Inv'
  OBVIOUS
<1>1. ASSUME NEW from, NEW to, NEW error, StartupStep(from, to, error),
             to \notin {"accepted", "receive", "handshake"},
             UNCHANGED buf
      PROVE  Inv'
  BY <1>1, QuietInv DEF StartupStep, Step, clientVars
<1>2. CASE RefuseDatabase \/ RefuseUser \/ UnknownDatabase
  BY <1>1, <1>2 DEF RefuseDatabase, RefuseUser, UnknownDatabase, Refuse
<1>3. CASE LookUpDatabase
  BY <1>3, QuietInv DEF LookUpDatabase, Goto, Step, clientVars, connVars,
                        backendVars
<1>4. CASE connectBackend
  BY <1>1, <1>4 DEF connectBackend, Dial, SSLAnswered, BackendHandshake,
              Forward, ConnectFails
<1>5. CASE StartRelay
  <2>1. /\ buf' = << >> /\ svc' = "relaying"
        /\ UNCHANGED <<wire, conn, msg, relayed, secure>>
    BY <1>5 DEF StartRelay, StartupStep, Step, clientVars
  <2> QED BY <2>1 DEF Inv, Types, EarlyInv, TLSInv, AllTLS
<1>6. CASE SessionEnds
  BY <1>1, <1>6 DEF SessionEnds
<1> QED BY <1>2, <1>3, <1>4, <1>5, <1>6 DEF serviceStartup

LEMMA RelayDataInv == Inv /\ RelayData => Inv'
<1> SUFFICES ASSUME Inv, RelayData PROVE Inv'
  OBVIOUS
<1>1. /\ wire # << >> /\ wire' = Tail(wire) /\ svc = "relaying"
      /\ relayed' = relayed \cup {Head(wire)}
      /\ UNCHANGED <<svc, conn, buf, msg, secure>>
  BY DEF RelayData, clientVars, connVars
<1>2. /\ Tail(wire) \in Seq(Packet)
      /\ conn = "tls" => AllTLS(Tail(wire)) /\ Head(wire).via = "tls"
  BY <1>1, TailTLS DEF Inv, Types, TLSInv
<1>3. Types' /\ EarlyInv'
  BY <1>1, <1>2 DEF Inv, Types, EarlyInv
<1>4. TLSInv'
  BY <1>1, <1>2 DEF Inv, TLSInv, AllTLS
<1> QED BY <1>3, <1>4 DEF Inv

LEMMA NextInv == Inv /\ [Next]_vars => Inv'
<1> SUFFICES ASSUME Inv, [Next]_vars PROVE Inv'
  OBVIOUS
<1>1. ASSUME NEW from, NEW to, Goto(from, to),
             to \in {"accepted", "receive", "handshake"} =>
                 from \in {"accepted", "receive", "handshake"}
      PROVE  Inv'
  BY <1>1, QuietInv DEF Goto, Step, clientVars, connVars, backendVars
<1>2. CASE AcceptConn
  <2>1. CASE Goto("accepted", "receive")
    BY <1>1, <2>1
  <2>2. CASE /\ Step("accepted", "over")
             /\ UNCHANGED <<clientVars, wire, connVars, msg, backendVars, forced>>
    BY <2>2, QuietInv DEF Step, clientVars, connVars, backendVars
  <2> QED BY <1>2, <2>1, <2>2 DEF AcceptConn
<1>3. CASE service
  <2>1. svc' \notin {"accepted", "receive", "handshake"}
    BY <1>3 DEF service, Step
  <2> QED BY <1>3, <2>1, QuietInv DEF service, clientVars, backendVars
<1>4. CASE forwardCancelRequest \/ CloseClient \/ ForceCloseTorn
  BY <1>1, <1>4 DEF forwardCancelRequest, CloseClient, ForceCloseTorn
<1>5. CASE RelayAnswer
  BY <1>5, QuietInv DEF RelayAnswer, ClientStep, connVars, backendVars
<1>6. CASE ForceClose
  BY <1>6, QuietInv DEF ForceClose, clientVars, connVars, backendVars
<1>7. CASE UNCHANGED vars
  BY <1>7, QuietInv DEF vars, clientVars, connVars, backendVars
<1> QED BY <1>2, <1>3, <1>4, <1>5, <1>6, <1>7, ClientInv,
           readStartupMessageInv, serviceStartupInv, RelayDataInv
        DEF Next, Session

-----------------------------------------------------------------------------
\* Once readStartupMessage has upgraded a connection to TLS, no startup
\* message and no relayed packet comes from the clear, however many packets
\* the client sends ahead and however far the decoder reads.
THEOREM ChannelHolds == Spec => []ChannelKept
<1>1. Inv => ChannelKept
  BY DEF Inv, TLSInv, ChannelKept
<1> QED BY <1>1, InitInv, NextInv, PTL DEF Spec

-----------------------------------------------------------------------------
(* The access control list *)

LEMMA PrefixesAgree ==
  ASSUME NEW s \in Seq({0, 1}), NEW t \in Seq({0, 1}), NEW n \in Nat,
         n <= Len(s), n <= Len(t)
  PROVE  (SubSeq(s, 1, n) = SubSeq(t, 1, n)) <=> \A i \in 1..n : s[i] = t[i]
<1>1. /\ SubSeq(s, 1, n) \in Seq({0, 1}) /\ Len(SubSeq(s, 1, n)) = n
      /\ \A i \in 1..n : SubSeq(s, 1, n)[i] = s[i]
  OBVIOUS
<1>2. /\ SubSeq(t, 1, n) \in Seq({0, 1}) /\ Len(SubSeq(t, 1, n)) = n
      /\ \A i \in 1..n : SubSeq(t, 1, n)[i] = t[i]
  OBVIOUS
<1> QED BY <1>1, <1>2

\* The network compileACL makes of an entry.
NetOf(e) ==
    IF e.form = "cidr" THEN [ip |-> e.ip, len |-> e.len] ELSE bareNet(e.ip)

\* net.IPNet.Contains agrees with the documented meaning of an entry.
LEMMA ContainsAgrees ==
  ASSUME NEW e, e.form \in {"cidr", "bare"}, e.ip \in IPs,
         e.form = "cidr" => e.len \in 0..Width[e.ip.fam], NEW ip \in IPs
  PROVE  InRange(e, ip) <=> Contains(NetOf(e), ip)
<1> SUFFICES ASSUME e.ip.fam = ip.fam
             PROVE  InRange(e, ip) <=> Contains(NetOf(e), ip)
  BY DEF InRange, Contains, NetOf, bareNet
<1> DEFINE n == IF e.form = "bare" THEN Width[ip.fam] ELSE e.len
<1>1. /\ e.ip.bits \in Seq({0, 1}) /\ ip.bits \in Seq({0, 1})
      /\ Len(e.ip.bits) = Width[ip.fam] /\ Len(ip.bits) = Width[ip.fam]
      /\ Width[ip.fam] \in Nat
  BY WidthAssumption DEF IPs
<1>2. n \in Nat /\ n <= Width[ip.fam]
  BY <1>1
<1>3. NetOf(e).ip = e.ip /\ NetOf(e).len = n
  BY DEF NetOf, bareNet
<1>4. InRange(e, ip) <=> SubSeq(e.ip.bits, 1, n) = SubSeq(ip.bits, 1, n)
  BY DEF InRange
<1>5. Contains(NetOf(e), ip) <=> \A i \in 1..n : e.ip.bits[i] = ip.bits[i]
  BY <1>3 DEF Contains
<1> HIDE DEF n
<1> QED BY <1>1, <1>2, <1>4, <1>5, PrefixesAgree

\* The compiled list and its three checks, made at two places of the code, are
\* together the documented rule.
THEOREM AclAgrees ==
  ASSUME NEW acl \in Acls, NEW addr \in Addrs, NEW user, NEW database
  PROVE  Permitted(acl, addr, user, database) <=>
             /\ checkAddr(compileACL(acl), addr)
             /\ checkUser(compileACL(acl), user)
             /\ checkDatabase(compileACL(acl), database)
<1>1. CASE acl = Nil
  BY <1>1 DEF Permitted, checkAddr, checkUser, checkDatabase, compileACL
<1>2. CASE acl # Nil
  <2> DEFINE c == compileACL(acl)
  <2>1. /\ compiles(acl) /\ ACL(acl) /\ c # Nil
        /\ addr # Nil => addr \in IPs
    BY <1>2, StartupAssumption
  <2>2. /\ c.cidrs = {NetOf(e) : e \in acl.allowed_cidrs}
        /\ c.allowedUsers = allowed(acl.allowed_users)
        /\ c.allowedDatabases = allowed(acl.allowed_databases)
    BY <1>2 DEF compileACL, NetOf
  <2> HIDE DEF c
  <2>3. checkUser(c, user) <=>
            (acl.allowed_users # {} => user \in acl.allowed_users)
    BY <2>1, <2>2 DEF checkUser, allowed, ACL
  <2>4. checkDatabase(c, database) <=>
            (acl.allowed_databases # {} => database \in acl.allowed_databases)
    BY <2>1, <2>2 DEF checkDatabase, allowed, ACL
  <2>5. ASSUME addr # Nil
        PROVE  \A e \in acl.allowed_cidrs :
                   InRange(e, addr) <=> Contains(NetOf(e), addr)
    BY <1>2, <2>1, <2>5, ContainsAgrees DEF compiles, ACL
  <2>6. checkAddr(c, addr) <=>
            ((acl.allowed_cidrs # {} /\ addr # Nil) =>
                 \E e \in acl.allowed_cidrs : InRange(e, addr))
    <3>1. c.cidrs = {} <=> acl.allowed_cidrs = {}
      BY <2>2
    <3>2. ASSUME addr # Nil
          PROVE  (\E net \in c.cidrs : Contains(net, addr)) <=>
                     \E e \in acl.allowed_cidrs : InRange(e, addr)
      BY <2>2, <2>5, <3>2
    <3> QED BY <2>1, <3>1, <3>2 DEF checkAddr
  <2> QED BY <1>2, <2>3, <2>4, <2>6 DEF Permitted, c
<1> QED BY <1>1, <1>2

-----------------------------------------------------------------------------
(* Types *)

\* Where serviceStartup has found the backend of the database.
Routed == {"dial", "ssl", "forward", "relay", "relaying"}

\* readStartupMessage returns a startup message or a CancelRequest, and a
\* backend is only sought for a database that is configured.
MsgInv ==
    /\ msg # Nil => msg.type \in {"startup", "cancel"}
    /\ svc \in Routed => msg.db \in DOMAIN dbs

LEMMA InitTypes == Init => TypeOK /\ MsgInv
<1> SUFFICES ASSUME Init PROVE TypeOK /\ MsgInv
  OBVIOUS
<1>1. /\ {wire, buf} \subseteq Seq(Negotiation \cup Startups \cup Others)
      /\ sent \in 0..MaxPackets
  BY StartupAssumption DEF Init
<1>2. (svc \in {"ssl", "forward", "relay", "relaying"}) = (rconn # Nil)
  BY DEF Init
<1> QED BY <1>1, <1>2 DEF Init, TypeOK, MsgInv, Routed, ClientStates, SvcStates

\* A packet of type "startup" is a startup message.
LEMMA StartupPacket ==
  ASSUME NEW p \in Packet, p.type \notin {"ssl", "gss", "cancel", "junk", "data"}
  PROVE  p \in Startups
  BY DEF Packet, Negotiation, Others

\* Steps that leave the session alone.
LEMMA ClientTypes ==
  ASSUME TypeOK, MsgInv, Inv', Client \/ RelayAnswer
  PROVE  TypeOK' /\ MsgInv'
<1>1. UNCHANGED <<secure, svc, conn, lconn, buf, lost, msg, peer, rconn, got,
                  told, forced>>
  BY DEF Client, ClientNegotiates, ClientStarts, ClientTalks, ClientLeaves,
         RelayAnswer, SendPacket, ClientStep, connVars, backendVars
<1>2. client' \in ClientStates
  BY DEF Client, ClientNegotiates, ClientStarts, ClientTalks, ClientLeaves,
         RelayAnswer, SendPacket, TypeOK, ClientStates
<1>3. sent' \in 0..MaxPackets
  BY StartupAssumption
     DEF Client, ClientNegotiates, ClientStarts, ClientTalks, ClientLeaves,
         RelayAnswer, SendPacket, TypeOK
<1>4. ({wire, buf} \subseteq Seq(Negotiation \cup Startups \cup Others))'
  BY DEF Inv, Types, Packet
<1> QED BY <1>1, <1>2, <1>3, <1>4 DEF TypeOK, MsgInv, Routed

\* The steps of readStartupMessage: no backend and no error yet.
LEMMA readTypes ==
  ASSUME TypeOK, MsgInv, Inv, Inv', readStartupMessage
  PROVE  TypeOK' /\ MsgInv'
<1>1. ({wire, buf} \subseteq Seq(Negotiation \cup Startups \cup Others))'
  BY DEF Inv, Types, Packet
<1>2. /\ svc \in {"receive", "handshake"}
      /\ svc' \in {"receive", "handshake", "assign"}
      /\ UNCHANGED <<sent, lconn, peer, rconn, got, told, forced>>
  BY DEF readStartupMessage, Fill, DenySSL, DenyGSS, Deny, AcceptSSL,
         HandshakeOk, HandshakeFails, ReceiveFails, ReceiveMessage, LoopStep,
         Goto, Step, clientVars, connVars, backendVars
<1>3. client' \in ClientStates /\ secure' \in BOOLEAN /\ conn' \in {"plain", "tls"}
  BY DEF readStartupMessage, Fill, DenySSL, DenyGSS, Deny, AcceptSSL,
         HandshakeOk, HandshakeFails, ReceiveFails, ReceiveMessage, LoopStep,
         Goto, Step, clientVars, connVars, backendVars, SeesAnswer, Upgrade,
         TypeOK, ClientStates
<1>4. lost' \subseteq Packet
  <2>1. buf \in Seq(Packet) /\ Packets(buf) \subseteq Packet
    BY DEF Inv, Types, Packets
  <2> QED BY <2>1
          DEF readStartupMessage, Fill, DenySSL, DenyGSS, Deny, AcceptSSL,
              HandshakeOk, HandshakeFails, ReceiveFails, ReceiveMessage,
              LoopStep, Goto, Step, connVars, Upgrade, TypeOK, Packet
<1>5. msg' \in Packet \cup {Nil} /\ MsgInv'
  <2>1. CASE ReceiveMessage
    <3>1. /\ buf # << >> /\ msg' = Head(buf)
          /\ Head(buf).type \in {"startup", "cancel"}
      BY <2>1 DEF ReceiveMessage, Received
    <3> QED BY <1>2, <3>1, TailTLS DEF Inv, Types, MsgInv, Routed
  <2>2. CASE ~ReceiveMessage
    <3>1. UNCHANGED msg
      BY <2>2 DEF readStartupMessage, Fill, DenySSL, DenyGSS, Deny, AcceptSSL,
              HandshakeOk, HandshakeFails, ReceiveFails, Goto
    <3> QED BY <1>2, <3>1 DEF TypeOK, MsgInv, Packet, Routed
  <2> QED BY <2>1, <2>2
<1> QED BY <1>1, <1>2, <1>3, <1>4, <1>5 DEF TypeOK, SvcStates, Packet

\* The steps of serviceStartup: the client and its packets are left alone.
LEMMA ForwardedTypes ==
  ASSUME TypeOK, MsgInv, Forward
  PROVE  got' \in Forwarded
<1>1. svc = "forward"
  BY DEF Forward, StartupStep, Step
<1>2. dbConf \in DBConfig /\ msg \in Startups
  BY <1>1, StartupAssumption DEF TypeOK, MsgInv, Routed, dbConf
<1>3. /\ msg.user \in {i.user : i \in Identities}
      /\ msg.db \in {i.db : i \in Identities}
  BY <1>2 DEF Startups
<1>4. dbConf.dbname \in STRING
  BY <1>2 DEF DBConfig
<1>5. rewriteStartupMessage(msg, dbConf) \in
          [user : {i.user : i \in Identities},
           database : STRING \cup {i.db : i \in Identities}]
  BY <1>3, <1>4 DEF rewriteStartupMessage
<1> QED BY <1>5 DEF Forward, Forwarded

LEMMA serviceStartupTypes ==
  ASSUME TypeOK, MsgInv, Inv, Inv', serviceStartup
  PROVE  TypeOK' /\ MsgInv'
<1> USE DEF serviceStartup, RefuseDatabase, RefuseUser, UnknownDatabase, Refuse,
            LookUpDatabase, connectBackend, Dial, SSLAnswered,
            BackendHandshake, Forward, ConnectFails, StartRelay, SessionEnds,
            StartupStep, Goto, Step
<1>1. ({wire, buf} \subseteq Seq(Negotiation \cup Startups \cup Others))'
  BY DEF Inv, Types, Packet
<1>2. /\ svc \in {"check", "dial", "ssl", "forward", "relay", "relaying"}
      /\ svc' \in {"dial", "ssl", "forward", "relay", "relaying", "close"}
      /\ UNCHANGED <<client, secure, sent, conn, lconn, msg, forced>>
  BY DEF clientVars, connVars
<1>3. lost' \subseteq Packet
  <2>1. buf \in Seq(Packet) /\ Packets(buf) \subseteq Packet
    BY DEF Inv, Types, Packets
  <2> QED BY <2>1 DEF connVars, TypeOK, Packet
<1>4. told' # Nil => told'.via \in {"plain", "tls"} /\ told'.code \in Codes
  BY DEF TypeOK, Codes
<1>5. MsgInv'
  BY <1>2 DEF MsgInv, Routed
<1>6. /\ rconn' \in BackendConns \cup {Nil}
      /\ (svc' \in {"ssl", "forward", "relay", "relaying"}) = (rconn' # Nil)
  <2>1. ASSUME NEW p \in Peers, Dial(p)
        PROVE  /\ rconn' \in BackendConns \cup {Nil}
               /\ (svc' \in {"ssl", "forward", "relay", "relaying"}) =
                      (rconn' # Nil)
    <3>1. dbConf \in DBConfig
      BY <2>1, StartupAssumption DEF MsgInv, Routed, dbConf
    <3>2. rconn' \in BackendConns
      BY <2>1, <3>1 DEF DBConfig, targetFor, BackendConns
    <3> QED BY <2>1, <3>2, NilAssumption
  <2>2. CASE SSLAnswered
    <3>1. rconn \in BackendConns /\ dbConf \in DBConfig
      BY <2>2, StartupAssumption DEF TypeOK, MsgInv, Routed, dbConf
    <3>2. backendTLSConfig(dbConf) \in TLSConfigs
      BY <3>1 DEF backendTLSConfig, serverName, TLSConfigs, DBConfig
    <3>3. PICK conf \in TLSConfigs \cup {Nil} :
              rconn' = [rconn EXCEPT !.tls = conf]
      BY <2>2, <3>2
    <3>4. rconn' \in BackendConns
      BY <3>1, <3>3 DEF BackendConns
    <3> QED BY <2>2, <3>4, NilAssumption
  <2>7. CASE BackendHandshake
    <3>1. rconn \in BackendConns
      BY <2>7 DEF TypeOK
    <3>2. rconn' \in BackendConns
      BY <2>7, <3>1 DEF BackendConns
    <3> QED BY <2>7, <3>2, NilAssumption
  <2>3. CASE Forward
    BY <2>3 DEF TypeOK
  <2>4. CASE ConnectFails \/ SessionEnds
    BY <2>4
  <2>5. CASE RefuseDatabase \/ RefuseUser \/ UnknownDatabase
    BY <2>5 DEF TypeOK
  <2>6. CASE LookUpDatabase \/ StartRelay
    BY <2>6 DEF TypeOK, backendVars
  <2> QED BY <2>1, <2>2, <2>3, <2>4, <2>5, <2>6, <2>7
<1>7. got' \in Forwarded \cup {Nil}
  <2>1. CASE Forward
    BY <2>1, ForwardedTypes
  <2>2. CASE ~Forward
    BY <2>2 DEF TypeOK, backendVars
  <2> QED BY <2>1, <2>2
<1>8. peer' \in Peers \cup {Nil}
  BY DEF TypeOK, backendVars
<1> HIDE DEF serviceStartup
<1> QED BY <1>1, <1>2, <1>3, <1>4, <1>5, <1>6, <1>7, <1>8
        DEF TypeOK, SvcStates, Packet

LEMMA NextTypes == TypeOK /\ MsgInv /\ Inv /\ [Next]_vars => TypeOK' /\ MsgInv'
<1> SUFFICES ASSUME TypeOK, MsgInv, Inv, [Next]_vars PROVE TypeOK' /\ MsgInv'
  OBVIOUS
<1>1. Inv'
  BY NextInv
<1>2. ({wire, buf} \subseteq Seq(Negotiation \cup Startups \cup Others))'
  BY <1>1 DEF Inv, Types, Packet
<1> USE DEF clientVars, connVars, backendVars
<1>3. ASSUME NEW from, NEW to, Step(from, to), to \in SvcStates \ Routed,
             from \notin Routed \cup {"check"}, to # "check",
             to \notin {"receive", "handshake", "assign", "crashed"} =>
                 lconn' = conn,
             lconn' \in {"plain", "tls"},
             told' # Nil => told'.via \in {"plain", "tls"} /\ told'.code \in Codes,
             UNCHANGED <<client, secure, sent, conn, lost, msg, peer, rconn,
                         got, forced>>
      PROVE  TypeOK' /\ MsgInv'
  <2>1. /\ svc' = to /\ svc = from
        /\ svc \notin {"check", "ssl", "forward", "relay", "relaying"}
        /\ svc' \notin {"check", "dial", "ssl", "forward", "relay", "relaying"}
    BY <1>3 DEF Step, Routed
  <2>2. rconn = Nil /\ rconn' = Nil
    BY <1>3, <2>1 DEF TypeOK
  <2>3. (svc' \in {"ssl", "forward", "relay", "relaying"}) = (rconn' # Nil)
    BY <2>1, <2>2
  <2>4. MsgInv'
    BY <1>3, <2>1 DEF MsgInv, Routed
  <2> QED BY <1>2, <1>3, <2>1, <2>3, <2>4 DEF TypeOK
<1>4. CASE AcceptConn
  BY <1>3, <1>4 DEF AcceptConn, Goto, Step, TypeOK, SvcStates, Routed, Codes
<1>5. CASE service
  <2>1. /\ svc = "assign"
        /\ svc' = IF msg = Nil THEN "close"
                  ELSE IF msg.type = "cancel" THEN "cancel" ELSE "check"
        /\ lconn' = conn
        /\ UNCHANGED <<client, secure, sent, conn, lost, msg, peer, rconn, got,
                       told, forced>>
    BY <1>5 DEF service, Step, AssignConn
  <2>2. svc' = "check" => msg \in Startups
    BY <2>1, StartupPacket DEF TypeOK, MsgInv, Packet
  <2> QED BY <1>2, <2>1, <2>2 DEF TypeOK, MsgInv, Routed, SvcStates
<1>6. CASE forwardCancelRequest \/ CloseClient \/ ForceCloseTorn
  BY <1>3, <1>6 DEF forwardCancelRequest, CloseClient, ForceCloseTorn, Goto,
                    Step, TypeOK, SvcStates, Routed
<1>7. CASE RelayData
  BY <1>2, <1>7 DEF RelayData, TypeOK, MsgInv
<1>8. CASE ForceClose
  BY <1>2, <1>8 DEF ForceClose, TypeOK, MsgInv
<1>9. CASE UNCHANGED vars
  BY <1>2, <1>9 DEF vars, TypeOK, MsgInv
<1> QED BY <1>1, <1>4, <1>5, <1>6, <1>7, <1>8, <1>9, ClientTypes, readTypes,
           serviceStartupTypes DEF Next, Session

\* The invariants hold in every reachable state.
THEOREM Typed == Spec => [](Inv /\ TypeOK /\ MsgInv)
  BY InitInv, NextInv, InitTypes, NextTypes, PTL DEF Spec

\* The types are right: in particular serviceStartup never goes on without a
\* startup message, and a backend connection is held exactly while it works
\* with one.
THEOREM TypeCorrect == Spec => []TypeOK
  BY Typed, PTL

-----------------------------------------------------------------------------
(* Routing and refusals *)

\* The address of the client is permitted.
Checked == checkAddr(compileACL(env.acl), env.addr)

\* What has been checked, connected to and sent at each point of the session.
\* conn follows the client from one channel to the other.
RouteInv ==
    /\ env.acl \in Acls /\ env.addr \in Addrs
    /\ conn = Via
    /\ svc \notin {"accepted", "over"} => Checked
    /\ svc = "cancel" => msg.type # "startup"
    /\ svc \in Routed => DatabaseAllowed /\ UserAllowed
    /\ rconn # Nil => rconn.target = targetFor(dbConf.addr)
    /\ svc = "ssl" => ~rconn.complete
    /\ svc \in {"forward", "relay", "relaying"} =>
           rconn.tls = IF peer.answer = "S" THEN backendTLSConfig(dbConf) ELSE Nil
    /\ rconn # Nil /\ rconn.complete => Accepts(rconn.tls, peer.cert)
    /\ svc \notin {"relay", "relaying", "close", "over"} => got = Nil
    /\ got # Nil =>
           /\ msg.db \in DOMAIN dbs
           /\ got.startup = rewriteStartupMessage(msg, dbConf)
           /\ peer.answer = "S" =>
                  got.via = "tls" /\ Accepts(backendTLSConfig(dbConf), peer.cert)
    /\ svc \in {"relay", "relaying"} => got # Nil

\* The error that belongs to the first rule a startup message breaks.
Verdict ==
    [via |-> Via,
     code |-> IF ~Permitted(env.acl, env.addr, msg.user, msg.db) THEN "42501"
              ELSE IF msg.db \notin DOMAIN dbs THEN "3D000" ELSE "08006"]

ToldInv ==
    /\ svc = "over" /\ ~Checked => told = [via |-> "plain", code |-> "28000"]
    /\ svc \in {"close", "over"} /\ Checked /\ got = Nil
               /\ msg # Nil /\ msg.type = "startup" =>
           told = Verdict

LEMMA InitRoute == Init => RouteInv /\ ToldInv
  BY DEF Init, RouteInv, ToldInv, Via, Routed

\* The two checks of serviceStartup and the one of the address decide whether
\* the session is permitted.
LEMMA PermittedIff ==
  ASSUME RouteInv, Checked
  PROVE  Permitted(env.acl, env.addr, msg.user, msg.db) <=>
             DatabaseAllowed /\ UserAllowed
  BY AclAgrees DEF RouteInv, Checked, DatabaseAllowed, UserAllowed

\* A step that leaves the route alone.
LEMMA RouteQuiet ==
  ASSUME RouteInv, ToldInv,
         UNCHANGED <<env, secure, svc, conn, msg, peer, rconn, got, told>>
  PROVE  RouteInv' /\ ToldInv'
<1>1. /\ Checked' = Checked /\ Via' = Via /\ dbConf' = dbConf
      /\ DatabaseAllowed' = DatabaseAllowed /\ UserAllowed' = UserAllowed
  BY DEF Checked, Via, dbConf, DatabaseAllowed, UserAllowed
<1>2. Verdict' = Verdict
  BY <1>1 DEF Verdict
<1> QED BY <1>1, <1>2 DEF RouteInv, ToldInv

\* A step of a session that has no backend connection and sends nothing to
\* one, and does not reach its end.
LEMMA RouteEarly ==
  ASSUME RouteInv, svc \notin {"accepted", "over"} \/ Checked,
         svc \notin Routed \cup {"close", "over"},
         svc' \notin Routed \cup {"cancel", "close", "over"},
         rconn = Nil, conn' = Via', UNCHANGED <<env, peer, rconn, got>>
  PROVE  RouteInv' /\ ToldInv'
<1>1. Checked /\ Checked'
  BY DEF RouteInv, Checked
<1>2. svc \notin Routed /\ svc' \notin Routed \cup {"cancel", "close", "over"}
  OBVIOUS
<1>3. svc \notin {"relay", "relaying", "close", "over"}
  BY DEF Routed
<1>4. got = Nil
  BY <1>3 DEF RouteInv
<1> QED BY <1>1, <1>2, <1>4 DEF RouteInv, ToldInv, Routed

LEMMA readRoute ==
  ASSUME TypeOK, RouteInv, readStartupMessage
  PROVE  RouteInv' /\ ToldInv'
<1> USE DEF readStartupMessage, Fill, DenySSL, DenyGSS, Deny, AcceptSSL,
            HandshakeOk, HandshakeFails, ReceiveFails, ReceiveMessage, LoopStep,
            Goto, Step, clientVars, connVars, backendVars
<1>1. /\ svc \in {"receive", "handshake"}
      /\ svc' \in {"receive", "handshake", "assign"}
      /\ UNCHANGED <<env, peer, rconn, got>>
  OBVIOUS
<1>2. conn' = Via'
  <2>1. CASE HandshakeOk
    BY <2>1 DEF Upgrade, Via
  <2>2. CASE ~HandshakeOk
    <3>1. UNCHANGED <<conn, secure>>
      BY <2>2
    <3> QED BY <3>1 DEF RouteInv, Via
  <2> QED BY <2>1, <2>2
<1>3. rconn = Nil
  BY <1>1 DEF TypeOK
<1> HIDE DEF readStartupMessage
<1> QED BY <1>1, <1>2, <1>3, RouteEarly DEF Routed

LEMMA serviceStartupRoute ==
  ASSUME TypeOK, TypeOK', MsgInv, RouteInv, ToldInv, serviceStartup
  PROVE  RouteInv' /\ ToldInv'
<1>1. /\ svc \in Routed \cup {"check"}
      /\ UNCHANGED <<env, secure, conn, msg>>
  BY DEF serviceStartup, RefuseDatabase, RefuseUser, UnknownDatabase, Refuse,
         LookUpDatabase, connectBackend, Dial, SSLAnswered, BackendHandshake,
         Forward, ConnectFails, StartRelay, SessionEnds, StartupStep, Goto,
         Step, clientVars, connVars, Routed
<1>2. /\ Checked' = Checked /\ Via' = Via /\ dbConf' = dbConf
      /\ DatabaseAllowed' = DatabaseAllowed /\ UserAllowed' = UserAllowed
  BY <1>1 DEF Checked, Via, dbConf, DatabaseAllowed, UserAllowed
<1>3. Checked /\ conn = Via /\ lconn = conn /\ msg \in Startups
  BY <1>1 DEF RouteInv, TypeOK, Routed
<1>4. Verdict' = Verdict /\ msg.type = "startup"
  BY <1>1, <1>2, <1>3 DEF Verdict, Startups
<1>5. Permitted(env.acl, env.addr, msg.user, msg.db) <=>
          DatabaseAllowed /\ UserAllowed
  BY <1>3, PermittedIff
<1>6. ASSUME NEW code, code # Nil, Verdict.code = code,
             told' = IF code = Nil THEN told ELSE [via |-> lconn, code |-> code],
             svc' = "close", got = Nil, got' = Nil, rconn' = Nil
      PROVE  RouteInv' /\ ToldInv'
  <2>1. told' = Verdict
    BY <1>3, <1>6 DEF Verdict
  <2>2. RouteInv'
    BY <1>1, <1>2, <1>3, <1>6 DEF RouteInv, Routed
  <2>3. ToldInv'
    BY <1>2, <1>3, <1>4, <1>6, <2>1 DEF ToldInv
  <2> QED BY <2>2, <2>3
<1>7. CASE RefuseDatabase \/ RefuseUser \/ UnknownDatabase
  <2>1. svc = "check" /\ rconn = Nil /\ got = Nil
    BY <1>7 DEF RefuseDatabase, RefuseUser, UnknownDatabase, TypeOK, RouteInv
  <2>2. PICK code \in {"42501", "3D000"} :
            Refuse(code) /\ Verdict.code = code
    BY <1>5, <1>7 DEF RefuseDatabase, RefuseUser, UnknownDatabase, Verdict
  <2> QED BY <1>6, <2>1, <2>2, NilAssumption DEF Refuse, StartupStep, Step, Codes
<1>8. CASE ConnectFails
  <2>1. svc \in {"dial", "ssl", "forward"} /\ got = Nil /\ got' = Nil
    BY <1>8 DEF ConnectFails, StartupStep, Step, RouteInv
  <2>2. Verdict.code = "08006"
    BY <1>5, <2>1 DEF RouteInv, MsgInv, Routed, Verdict
  <2> QED BY <1>6, <1>8, <2>1, <2>2, NilAssumption
      DEF ConnectFails, StartupStep, Step, Codes
<1>9. CASE LookUpDatabase
  <2>1. /\ svc = "check" /\ svc' = "dial" /\ DatabaseAllowed /\ UserAllowed
        /\ UNCHANGED <<peer, rconn, got>>
    BY <1>9 DEF LookUpDatabase, Goto, Step, backendVars
  <2> QED BY <1>1, <1>2, <1>3, <2>1 DEF RouteInv, ToldInv, Routed
<1>10. ASSUME NEW p \in Peers, Dial(p) PROVE RouteInv' /\ ToldInv'
  <2>1. /\ svc = "dial" /\ svc' = "ssl" /\ UNCHANGED got
        /\ rconn'.target = targetFor(dbConf.addr) /\ ~rconn'.complete
    BY <1>10 DEF Dial, StartupStep, Step
  <2>2. got = Nil
    BY <2>1 DEF RouteInv
  <2> QED BY <1>1, <1>2, <1>3, <2>1, <2>2 DEF RouteInv, ToldInv, Routed
<1>11. CASE SSLAnswered
  <2>1. /\ svc = "ssl" /\ svc' = "forward" /\ UNCHANGED <<peer, got>>
        /\ rconn' = [rconn EXCEPT !.tls = IF peer.answer = "S"
                                          THEN backendTLSConfig(dbConf) ELSE Nil]
    BY <1>11 DEF SSLAnswered, StartupStep, Step
  <2>2. rconn \in BackendConns
    BY <2>1 DEF TypeOK
  <2>3. /\ rconn # Nil /\ rconn'.target = rconn.target
        /\ rconn'.complete = rconn.complete
        /\ rconn'.tls = IF peer.answer = "S" THEN backendTLSConfig(dbConf)
                        ELSE Nil
    BY <2>1, <2>2, NilAssumption DEF BackendConns
  <2> QED BY <1>1, <1>2, <1>3, <2>1, <2>3 DEF RouteInv, ToldInv, Routed
<1>14. CASE BackendHandshake
  <2>1. /\ svc = "forward" /\ svc' = "forward" /\ UNCHANGED <<peer, got>>
        /\ rconn' = [rconn EXCEPT !.complete = TRUE]
        /\ Accepts(rconn.tls, peer.cert)
    BY <1>14 DEF BackendHandshake, StartupStep, Step
  <2>2. rconn \in BackendConns
    BY <2>1 DEF TypeOK
  <2>3. /\ rconn # Nil /\ rconn'.target = rconn.target
        /\ rconn'.tls = rconn.tls
    BY <2>1, <2>2, NilAssumption DEF BackendConns
  <2> QED BY <1>1, <1>2, <1>3, <2>1, <2>3 DEF RouteInv, ToldInv, Routed
<1>12. CASE Forward
  <2>1. /\ svc = "forward" /\ svc' = "relay" /\ UNCHANGED <<peer, rconn>>
        /\ rconn.tls # Nil => rconn.complete
        /\ got' = [startup |-> rewriteStartupMessage(msg, dbConf),
                   via |-> IF rconn.tls = Nil THEN "plain" ELSE "tls"]
    BY <1>12 DEF Forward, StartupStep, Step
  <2>2. got' # Nil /\ rconn # Nil
    BY <2>1, <1>12, ForwardedTypes, NilAssumption DEF TypeOK
  <2>3. msg.db \in DOMAIN dbs
    BY <2>1 DEF MsgInv, Routed
  <2>4. backendTLSConfig(dbConf) # Nil
    <3>1. dbConf \in DBConfig
      BY <2>3, StartupAssumption DEF dbConf
    <3>2. backendTLSConfig(dbConf) \in TLSConfigs
      BY <3>1 DEF backendTLSConfig, serverName, TLSConfigs, DBConfig
    <3> QED BY <3>2, NilAssumption
  \* The connection to a backend that answered 'S' has the tls.Config, so the
  \* write came after the handshake.
  <2>5. peer.answer = "S" =>
            got'.via = "tls" /\ Accepts(backendTLSConfig(dbConf), peer.cert)
    BY <2>1, <2>2, <2>4 DEF RouteInv
  <2> QED BY <1>1, <1>2, <1>3, <2>1, <2>2, <2>3, <2>5
          DEF RouteInv, ToldInv, Routed
<1>13. CASE StartRelay \/ SessionEnds
  <2>1. CASE StartRelay
    <3>1. svc = "relay" /\ svc' = "relaying" /\ UNCHANGED <<peer, rconn, got>>
      BY <2>1 DEF StartRelay, StartupStep, Step
    <3> QED BY <1>1, <1>2, <1>3, <3>1 DEF RouteInv, ToldInv, Routed
  <2>2. CASE SessionEnds
    <3>1. svc = "relaying" /\ svc' = "close" /\ rconn' = Nil /\ UNCHANGED <<peer, got>>
      BY <2>2 DEF SessionEnds, StartupStep, Step
    <3> QED BY <1>1, <1>2, <1>3, <3>1 DEF RouteInv, ToldInv, Routed
  <2> QED BY <1>13, <2>1, <2>2
<1> QED BY <1>7, <1>8, <1>9, <1>10, <1>11, <1>12, <1>13, <1>14
        DEF serviceStartup, connectBackend

LEMMA NextRoute ==
  ASSUME TypeOK, TypeOK', MsgInv, RouteInv, ToldInv, [Next]_vars
  PROVE  RouteInv' /\ ToldInv'
<1> USE DEF clientVars, connVars, backendVars
<1>1. CASE Client \/ RelayAnswer \/ RelayData \/ ForceClose \/ UNCHANGED vars
  <2>1. UNCHANGED <<env, secure, svc, conn, msg, peer, rconn, got, told>>
    BY <1>1 DEF Client, ClientNegotiates, ClientStarts, ClientTalks,
                ClientLeaves, SendPacket, ClientStep, RelayAnswer, RelayData,
                ForceClose, vars
  <2> QED BY <2>1, RouteQuiet
<1>2. CASE AcceptConn
  <2>1. /\ svc = "accepted" /\ rconn = Nil /\ got = Nil
        /\ UNCHANGED <<env, secure, conn, msg, peer, rconn, got>>
    BY <1>2 DEF AcceptConn, Goto, Step, TypeOK, RouteInv
  <2>2. Checked' = Checked /\ conn' = Via'
    BY <2>1 DEF Checked, RouteInv, Via
  <2>3. CASE Checked
    BY <1>2, <2>1, <2>2, <2>3, RouteEarly
       DEF AcceptConn, Goto, Step, Checked, Routed
  <2>4. CASE ~Checked
    <3>1. svc' = "over" /\ told' = [via |-> "plain", code |-> "28000"]
      BY <1>2, <2>4 DEF AcceptConn, Step, Checked
    <3> QED BY <2>1, <2>2, <2>4, <3>1 DEF RouteInv, ToldInv, Routed
  <2> QED BY <2>3, <2>4
<1>3. CASE service
  <2>1. /\ svc = "assign" /\ svc' \in {"close", "cancel", "check"}
        /\ svc' = "close" => msg = Nil
        /\ svc' = "cancel" => msg.type = "cancel"
        /\ UNCHANGED <<env, secure, conn, msg, peer, rconn, got>>
    BY <1>3 DEF service, Step
  <2>2. rconn = Nil /\ got = Nil /\ Checked /\ Checked' /\ conn' = Via'
    BY <2>1 DEF TypeOK, RouteInv, Checked, Via
  <2> QED BY <2>1, <2>2 DEF RouteInv, ToldInv, Routed
<1>4. CASE forwardCancelRequest
  <2>1. /\ svc = "cancel" /\ svc' = "close" /\ msg.type # "startup"
        /\ UNCHANGED <<env, secure, conn, msg, peer, rconn, got>>
    BY <1>4 DEF forwardCancelRequest, Goto, Step, RouteInv
  <2>2. rconn = Nil /\ got = Nil /\ Checked /\ Checked' /\ conn' = Via'
    BY <2>1 DEF TypeOK, RouteInv, Checked, Via
  <2> QED BY <2>1, <2>2 DEF RouteInv, ToldInv, Routed
<1>5. CASE CloseClient
  <2>1. /\ svc = "close" /\ svc' = "over" /\ rconn = Nil
        /\ UNCHANGED <<env, secure, conn, msg, peer, rconn, got, told>>
    BY <1>5 DEF CloseClient, Goto, Step, TypeOK
  <2>2. /\ Checked /\ Checked' /\ conn' = Via' /\ Via' = Via
        /\ dbConf' = dbConf
    BY <2>1 DEF TypeOK, RouteInv, Checked, Via, dbConf
  <2>3. Verdict' = Verdict
    BY <2>1, <2>2 DEF Verdict
  <2> QED BY <2>1, <2>2, <2>3 DEF RouteInv, ToldInv, Routed
<1>6. CASE ForceCloseTorn
  <2>1. /\ svc = "assign" /\ svc' = "crashed" /\ rconn = Nil
        /\ UNCHANGED <<env, secure, conn, msg, peer, rconn, got>>
    BY <1>6 DEF ForceCloseTorn, Goto, Step, TypeOK
  <2>2. conn' = Via'
    BY <2>1 DEF RouteInv, Via
  <2> QED BY <2>1, <2>2, RouteEarly DEF Routed
<1> QED BY <1>1, <1>2, <1>3, <1>4, <1>5, <1>6, readRoute, serviceStartupRoute
        DEF Next, Session

\* The invariants of the route hold in every reachable state.
THEOREM RouteHolds == Spec => [](TypeOK /\ MsgInv /\ RouteInv /\ ToldInv)
<1>1. /\ TypeOK /\ MsgInv /\ Inv /\ RouteInv /\ ToldInv
      /\ [Next]_vars
      => TypeOK' /\ MsgInv' /\ Inv' /\ RouteInv' /\ ToldInv'
  BY NextInv, NextTypes, NextRoute
<1> QED BY <1>1, InitInv, InitTypes, InitRoute, PTL DEF Spec

\* serviceStartup connects to no backend but the one configured for the
\* database the documented access rule permits, and hands it the client's own
\* user and database: for every list, address, user and set of databases.
THEOREM RoutedAsPermitted == Spec => []BackendAsPermitted
<1> SUFFICES ASSUME TypeOK, MsgInv, RouteInv PROVE BackendAsPermitted
  BY RouteHolds, PTL
<1>1. ASSUME rconn # Nil
      PROVE  /\ Permitted(env.acl, env.addr, msg.user, msg.db)
             /\ msg.db \in DOMAIN dbs
             /\ rconn.target.addr = dbs[msg.db].addr.name
             /\ (rconn.target.network = "tcp") <=>
                    (dbs[msg.db].addr.form = "host:port")
  <2>1. svc \in {"ssl", "forward", "relay", "relaying"}
    BY <1>1 DEF TypeOK
  <2>2. Checked /\ DatabaseAllowed /\ UserAllowed /\ msg.db \in DOMAIN dbs
    BY <2>1 DEF RouteInv, MsgInv, Routed
  <2>3. dbs[msg.db].addr.form \in {"path", "unix:path", "host:port"}
    BY <2>2, StartupAssumption DEF DBConfig
  <2>4. rconn.target = targetFor(dbs[msg.db].addr)
    BY <1>1 DEF RouteInv, dbConf
  <2> QED BY <2>2, <2>3, <2>4, PermittedIff DEF targetFor
<1>2. ASSUME got # Nil
      PROVE  /\ got.startup.user = msg.user
             /\ got.startup.database \in {msg.db, dbs[msg.db].dbname}
             /\ (got.startup.database = msg.db) <=>
                    (dbs[msg.db].dbname \in {"", msg.db})
  <2> DEFINE name == IF dbs[msg.db].dbname # "" THEN dbs[msg.db].dbname
                     ELSE msg.db
  <2>1. got.startup = [user |-> msg.user, database |-> name]
    BY <1>2 DEF RouteInv, dbConf, rewriteStartupMessage
  <2>2. /\ name \in {msg.db, dbs[msg.db].dbname}
        /\ (name = msg.db) <=> (dbs[msg.db].dbname \in {"", msg.db})
    OBVIOUS
  <2> HIDE DEF name
  <2>3. got.startup.user = msg.user /\ got.startup.database = name
    BY <2>1
  <2> QED BY <2>2, <2>3
<1> QED BY <1>1, <1>2 DEF BackendAsPermitted

\* A backend that answered 'S' got the startup message through TLS, and with
\* a certificate that belongs to the configured root and name where a
\* TLSRootCert is configured: for every database, certificate and answer
\* (connectBackend, from the SSLRequest to the write of the startup message).
THEOREM VerifiedFirst == Spec => []StartupOnlyToVerified
<1>1. RouteInv => StartupOnlyToVerified
  BY DEF RouteInv, StartupOnlyToVerified, Accepts, backendTLSConfig,
         serverName, dbConf
<1> QED BY <1>1, RouteHolds, PTL

\* A connection that is turned away has been told the error of the first rule
\* it breaks, through the channel that its client listens on.
THEOREM RefusalsTold == Spec => []RefusalTold
<1>1. ToldInv => RefusalTold
  BY DEF ToldInv, RefusalTold, Checked, Verdict
<1> QED BY <1>1, RouteHolds, PTL

-----------------------------------------------------------------------------
(* What replaced decoders lose *)

Idle == wire = << >> /\ buf = << >>

\* A client that waits for answers has at most one packet under way, and none
\* when a decoder is replaced: while the TLS handshake goes on, and between
\* its startup message and the first answer.
PatientInv ==
    env.patient =>
        /\ lost = {}
        /\ svc \in {"accepted", "receive"} =>
               /\ Len(wire) + Len(buf) <= 1
               /\ client \notin {"handshake", "session"}
               /\ client = "talk" => Idle
        /\ svc = "handshake" => Idle /\ client \in {"handshake", "gone"}
        /\ svc \in {"assign", "check"} \cup (Routed \ {"relaying"})
                   /\ msg # Nil =>
               Idle /\ client \notin {"talk", "session"}

LossInv == lost # {} => conn = "tls" \/ got # Nil

\* Two sequences with one element between them.
LEMMA OneLeft ==
  ASSUME NEW s \in Seq(Packet), NEW t \in Seq(Packet), t # << >>,
         Len(s) + Len(t) <= 1
  PROVE  s = << >> /\ Tail(t) = << >>
<1>1. Len(s) \in Nat /\ Len(t) \in Nat /\ Len(t) # 0
  OBVIOUS
<1>2. Len(s) = 0 /\ Len(t) = 1
  BY <1>1
<1>3. Tail(t) \in Seq(Packet) /\ Len(Tail(t)) = Len(t) - 1
  OBVIOUS
<1>4. \A u \in Seq(Packet) : u # << >> => Len(u) # 0
  OBVIOUS
<1>5. s = << >>
  BY <1>2, <1>4
<1>6. Len(Tail(t)) = 0
  BY <1>2, <1>3
<1>7. Tail(t) = << >>
  BY <1>3, <1>4, <1>6
<1> QED BY <1>5, <1>7

LEMMA InitLoss == Init => PatientInv /\ LossInv
  BY DEF Init, PatientInv, LossInv, Idle, Routed

\* Sending is all that a client does to the connection.
LEMMA ClientLoss ==
  ASSUME TypeOK, Inv, PatientInv, LossInv, Client
  PROVE  PatientInv' /\ LossInv'
<1>1. UNCHANGED <<env, svc, conn, buf, lost, msg, got>>
  BY DEF Client, ClientNegotiates, ClientStarts, ClientTalks, ClientLeaves,
         SendPacket, ClientStep, connVars, backendVars
<1>2. LossInv'
  BY <1>1 DEF LossInv
<1> SUFFICES ASSUME env.patient PROVE PatientInv'
  BY <1>1, <1>2 DEF PatientInv
<1>3. CASE ClientLeaves
  BY <1>1, <1>3 DEF ClientLeaves, PatientInv, Idle
<1>4. ASSUME NEW p \in Packet, NEW next, SendPacket(p, next), client = "talk",
             next \in {"await", "started"}
      PROVE  PatientInv'
  <2>1. wire' = Append(wire, p) /\ client' = next
    BY <1>4 DEF SendPacket
  <2>2. svc \in {"accepted", "receive"} => Len(wire') + Len(buf') <= 1
    BY <1>1, <1>4, <2>1 DEF PatientInv, Idle
  <2> QED BY <1>1, <1>4, <2>1, <2>2 DEF PatientInv, TypeOK
<1>5. CASE ClientNegotiates \/ ClientStarts
  BY <1>4, <1>5 DEF ClientNegotiates, ClientStarts, MaySend, Packet
<1>6. CASE ClientTalks
  <2>1. client = "session" /\ client' = client
    BY <1>6 DEF ClientTalks, SendPacket
  <2> QED BY <1>1, <2>1 DEF PatientInv
<1> QED BY <1>3, <1>5, <1>6 DEF Client

LEMMA readLoss ==
  ASSUME TypeOK, Inv, PatientInv, LossInv, readStartupMessage
  PROVE  PatientInv' /\ LossInv'
<1> USE DEF LoopStep, Goto, Step, clientVars, connVars, backendVars
<1>1. LossInv'
  BY DEF readStartupMessage, Fill, DenySSL, DenyGSS, Deny, AcceptSSL,
         HandshakeOk, Upgrade, HandshakeFails, ReceiveFails, ReceiveMessage,
         LossInv
<1>2. UNCHANGED env /\ svc \in {"receive", "handshake"} /\ msg = Nil
  BY DEF readStartupMessage, Fill, DenySSL, DenyGSS, Deny, AcceptSSL,
         HandshakeOk, HandshakeFails, ReceiveFails, ReceiveMessage, Inv,
         EarlyInv
<1> SUFFICES ASSUME env.patient PROVE PatientInv'
  BY <1>1, <1>2 DEF PatientInv
<1>3. /\ wire \in Seq(Packet) /\ buf \in Seq(Packet)
      /\ Len(wire) \in Nat /\ Len(buf) \in Nat
      /\ lost = {}
  BY DEF Inv, Types, PatientInv
<1>4. ASSUME svc = "receive", buf # << >>
      PROVE  /\ wire = << >> /\ Tail(buf) = << >>
             /\ client \in {"await", "started", "gone"}
  <2>1. wire = << >> /\ Tail(buf) = << >>
    BY <1>3, <1>4, OneLeft DEF PatientInv
  <2>2. client # "talk" /\ client \notin {"handshake", "session"}
    BY <1>4 DEF PatientInv, Idle
  <2> QED BY <2>1, <2>2 DEF TypeOK, ClientStates
<1>5. CASE Fill
  <2>1. PICK k \in 1..Len(wire) :
            /\ buf' = SubSeq(wire, 1, k)
            /\ wire' = SubSeq(wire, k + 1, Len(wire))
    BY <1>5 DEF Fill
  <2>2. /\ svc = "receive" /\ svc' = "receive" /\ Len(wire) # 0
        /\ UNCHANGED <<client, lost>>
    BY <1>3, <1>5, <2>1 DEF Fill
  <2>3. Len(buf') + Len(wire') = Len(wire)
    BY <1>3, <2>1
  <2>4. client # "talk"
    BY <1>3, <2>2 DEF PatientInv, Idle
  <2>5. Len(wire) + Len(buf) <= 1 /\ client \notin {"handshake", "session"}
    BY <2>2 DEF PatientInv
  <2>6. Len(wire') + Len(buf') <= 1
    <3>1. Len(wire') \in Nat /\ Len(buf') \in Nat
      BY <1>3, <2>1
    <3> QED BY <1>3, <2>3, <2>5, <3>1
  <2> QED BY <1>3, <2>2, <2>4, <2>5, <2>6 DEF PatientInv, Routed
<1>6. ASSUME NEW type, Deny(type) PROVE PatientInv'
  <2>1. /\ svc = "receive" /\ svc' = "receive" /\ buf # << >>
        /\ buf' = Tail(buf) /\ UNCHANGED <<wire, lost>>
        /\ client' \in {client, "talk"}
    BY <1>6 DEF Deny, Received, SeesAnswer
  <2>2. wire' = << >> /\ buf' = << >> /\ client' \notin {"handshake", "session"}
    BY <1>4, <2>1
  <2>3. Len(wire') + Len(buf') <= 1
    BY <2>2
  <2> QED BY <1>3, <2>1, <2>2, <2>3 DEF PatientInv, Idle, Routed
<1>7. CASE AcceptSSL
  <2>1. /\ svc = "receive" /\ svc' = "handshake" /\ buf # << >>
        /\ buf' = Tail(buf) /\ UNCHANGED <<wire, lost>>
        /\ client' = IF client \in {"await", "started"} THEN "handshake"
                     ELSE client
    BY <1>7 DEF AcceptSSL, Received, SeesAnswer
  <2> QED BY <1>3, <1>4, <2>1 DEF PatientInv, Idle, Routed
<1>8. CASE HandshakeOk
  <2>1. /\ svc = "handshake" /\ svc' = "receive" /\ wire' = << >>
        /\ buf' = << >> /\ lost' = lost \cup Packets(buf) /\ client' = "talk"
    BY <1>8 DEF HandshakeOk, Upgrade
  <2>2. Packets(buf) = {}
    BY <2>1 DEF PatientInv, Idle, Packets
  <2>3. Len(wire') + Len(buf') <= 1
    BY <2>1
  <2> QED BY <1>3, <2>1, <2>2, <2>3 DEF PatientInv, Idle, Routed
<1>9. CASE HandshakeFails \/ ReceiveFails
  <2>1. svc' = "assign" /\ msg' = Nil /\ lost' = {}
    BY <1>2, <1>3, <1>9 DEF HandshakeFails, ReceiveFails
  <2> QED BY <2>1 DEF PatientInv
<1>10. CASE ReceiveMessage
  <2>1. /\ svc = "receive" /\ svc' = "assign" /\ buf # << >>
        /\ buf' = Tail(buf) /\ UNCHANGED <<client, wire, lost>>
    BY <1>10 DEF ReceiveMessage, Received
  <2> QED BY <1>3, <1>4, <2>1 DEF PatientInv, Idle
<1> QED BY <1>5, <1>6, <1>7, <1>8, <1>9, <1>10
        DEF readStartupMessage, DenySSL, DenyGSS

LEMMA serviceStartupLoss ==
  ASSUME TypeOK, MsgInv, RouteInv, PatientInv, LossInv, serviceStartup
  PROVE  PatientInv' /\ LossInv'
<1> USE DEF Goto, Step, StartupStep, clientVars, connVars, backendVars
<1>1. UNCHANGED <<env, client, wire, conn, msg>>
  BY DEF serviceStartup, RefuseDatabase, RefuseUser, UnknownDatabase, Refuse,
         LookUpDatabase, connectBackend, Dial, SSLAnswered, BackendHandshake,
         Forward, ConnectFails, StartRelay, SessionEnds
<1>2. CASE StartRelay
  <2>1. /\ svc = "relay" /\ svc' = "relaying" /\ buf' = << >>
        /\ lost' = lost \cup Packets(buf) /\ UNCHANGED got
    BY <1>2 DEF StartRelay
  <2>2. msg # Nil /\ got # Nil
    BY <2>1, NilAssumption DEF TypeOK, RouteInv
  <2>3. env.patient => Packets(buf) = {}
    BY <2>1, <2>2 DEF PatientInv, Idle, Routed, Packets
  <2> QED BY <1>1, <2>1, <2>2, <2>3 DEF PatientInv, LossInv, Routed
<1>3. CASE Forward
  <2>1. svc = "forward" /\ svc' = "relay" /\ UNCHANGED <<buf, lost>>
    BY <1>3 DEF Forward
  <2>2. got' # Nil
    BY <1>3, ForwardedTypes, NilAssumption
  <2> QED BY <1>1, <2>1, <2>2 DEF PatientInv, LossInv, Idle, Routed
<1>4. CASE \/ RefuseDatabase \/ RefuseUser \/ UnknownDatabase \/ LookUpDatabase
           \/ (\E p \in Peers : Dial(p)) \/ SSLAnswered \/ BackendHandshake
           \/ ConnectFails \/ SessionEnds
  <2>1. /\ svc \in {"check"} \cup (Routed \ {"relaying"}) \/ svc' = "close"
        /\ svc' \in {"dial", "ssl", "forward", "close"}
        /\ UNCHANGED <<buf, lost, got>>
    BY <1>4 DEF RefuseDatabase, RefuseUser, UnknownDatabase, Refuse,
                LookUpDatabase, Dial, SSLAnswered, BackendHandshake,
                ConnectFails, SessionEnds, Routed
  <2> QED BY <1>1, <2>1 DEF PatientInv, LossInv, Idle, Routed
<1> QED BY <1>2, <1>3, <1>4 DEF serviceStartup, connectBackend

LEMMA NextLoss ==
  ASSUME TypeOK, Inv, MsgInv, RouteInv, PatientInv, LossInv, [Next]_vars
  PROVE  PatientInv' /\ LossInv'
<1> USE DEF Goto, Step, clientVars, connVars, backendVars
<1>1. CASE AcceptConn
  <2>1. /\ svc = "accepted" /\ svc' \in {"receive", "over"}
        /\ UNCHANGED <<env, client, wire, buf, conn, lost, msg, got>>
    BY <1>1 DEF AcceptConn
  <2> QED BY <2>1 DEF PatientInv, LossInv, Idle, Routed
<1>2. CASE service
  <2>1. /\ svc = "assign" /\ svc' \in {"close", "cancel", "check"}
        /\ UNCHANGED <<env, client, wire, buf, conn, lost, msg, got>>
    BY <1>2 DEF service
  <2> QED BY <2>1 DEF PatientInv, LossInv, Idle, Routed
<1>3. CASE forwardCancelRequest \/ CloseClient \/ ForceCloseTorn
  <2>1. /\ svc' \in {"close", "over", "crashed"}
        /\ UNCHANGED <<env, client, wire, buf, conn, lost, msg, got>>
    BY <1>3 DEF forwardCancelRequest, CloseClient, ForceCloseTorn
  <2> QED BY <2>1 DEF PatientInv, LossInv, Idle, Routed
<1>4. CASE RelayAnswer \/ RelayData
  <2>1. /\ svc = "relaying" /\ svc' = "relaying"
        /\ UNCHANGED <<env, buf, conn, lost, msg, got>>
    BY <1>4 DEF RelayAnswer, RelayData, ClientStep
  <2> QED BY <2>1 DEF PatientInv, LossInv, Routed
<1>5. CASE ForceClose \/ UNCHANGED vars
  <2>1. UNCHANGED <<env, svc, client, wire, buf, conn, lost, msg, got>>
    BY <1>5 DEF ForceClose, vars
  <2> QED BY <2>1 DEF PatientInv, LossInv, Idle
<1> QED BY <1>1, <1>2, <1>3, <1>4, <1>5, ClientLoss, readLoss,
           serviceStartupLoss DEF Next, Session

\* The decoders that readStartupMessage and the relay throw away hold nothing
\* of a client that waits for answers, and of others only what was sent in the
\* clear before a handshake or before the relay began: however many packets
\* there are and however the reads cut them.
THEOREM LossBounded == Spec => []NothingLost
<1>1. PatientInv /\ LossInv => NothingLost
  BY DEF PatientInv, LossInv, NothingLost
<1>2. /\ TypeOK /\ MsgInv /\ Inv /\ RouteInv /\ ToldInv /\ PatientInv /\ LossInv
      /\ [Next]_vars
      => /\ TypeOK' /\ MsgInv' /\ Inv' /\ RouteInv' /\ ToldInv'
         /\ PatientInv' /\ LossInv'
  BY NextInv, NextTypes, NextRoute, NextLoss
<1> QED BY <1>1, <1>2, InitInv, InitTypes, InitRoute, InitLoss, PTL DEF Spec
=============================================================================
