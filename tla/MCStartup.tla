------------------------------ MODULE MCStartup ------------------------------
(***************************************************************************)
(* An instance of Startup for TLC.                                         *)
(***************************************************************************)
EXTENDS Startup, TLC

\* Two bits for IPv4 addresses and three for IPv6.
SmallWidth == "v4" :> 2 @@ "v6" :> 3

IP(fam, bits) == [fam |-> fam, bits |-> bits]

v4 == IP("v4", <<1, 0>>)

SmallAddrs == {v4, IP("v6", <<1, 0, 0>>), Nil}

List(cidrs, users, databases) ==
    [allowed_cidrs |-> cidrs, allowed_users |-> users,
     allowed_databases |-> databases]

Bare(ip) == [form |-> "bare", ip |-> ip]
Prefix(ip, len) == [form |-> "cidr", ip |-> ip, len |-> len]

\* No list, one list of each kind, and several: a neighbour of v4 as a bare
\* address, the prefix both share, a prefix of the other family.
SmallAcls ==
    {Nil, List({}, {}, {}),
     List({Bare(IP("v4", <<1, 1>>))}, {}, {"orders", "local"}),
     List({Bare(v4), Prefix(IP("v6", <<0, 0, 0>>), 1)}, {"alice"}, {}),
     List({Prefix(IP("v4", <<1, 1>>), 1)}, {"alice"}, {"orders", "away"})}

Host(host) == [form |-> "host:port", name |-> host, host |-> host]

Path(form) == [form |-> form, name |-> "/run/pg", host |-> "/run/pg"]

DB(addr, dbname, rootcert, servername) ==
    [addr |-> addr, dbname |-> dbname, tlsrootcert |-> rootcert,
     tlsservername |-> servername]

\* "orders" is renamed and verified by host, "local" keeps its name on a unix
\* socket, "away" has a root certificate that cannot be read, "open" none.
SmallDbs ==
    "orders" :> DB(Host("db1"), "orders_v2", "root.pem", "")
        @@ "local" :> DB(Path("unix:path"), "", "root.pem", "pg.internal")
        @@ "away" :> DB(Path("path"), "", "unusable", "")
        @@ "open" :> DB(Host("db2"), "", "", "")

SmallIdentities ==
    {[user |-> "alice", db |-> "orders"], [user |-> "bob", db |-> "local"],
     [user |-> "alice", db |-> "away"], [user |-> "alice", db |-> "none"],
     [user |-> "bob", db |-> "open"]}

SmallCerts ==
    [issuer : {"root.pem", "other.pem"}, name : {"db1", "pg.internal"}]
=============================================================================
