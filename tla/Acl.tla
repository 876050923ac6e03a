--------------------------------- MODULE Acl ---------------------------------
(***************************************************************************)
(* The access control list of src/proxy/acl.go: how Start compiles it and  *)
(* how a connection is checked against the result.                         *)
(*                                                                         *)
(* An IP address is its family and a sequence of Width[family] bits (32    *)
(* and 128 in the code); an IPv4-mapped IPv6 address is its IPv4 address,  *)
(* as in package net.                                                      *)
(***************************************************************************)
EXTENDS Naturals, Sequences

CONSTANTS
    Width,   \* bits of an address, by family
    Nil      \* Go's nil: no *ACL, no map, and no IP for a unix socket's peer

ASSUME WidthAssumption == Width \in [{"v4", "v6"} -> Nat]

IPs == {ip \in [fam : {"v4", "v6"}, bits : Seq({0, 1})] :
           Len(ip.bits) = Width[ip.fam]}

\* What can be an ACL: prefixes are no longer than their addresses, and nil is
\* none of the values that it is told from.
ACL(acl) ==
    /\ \A e \in acl.allowed_cidrs :
           /\ e.form \in {"cidr", "bare"} => e.ip \in IPs
           /\ e.form = "cidr" => e.len \in 0..Width[e.ip.fam]
    /\ Nil # acl.allowed_users
    /\ Nil # acl.allowed_databases

-----------------------------------------------------------------------------
\* Mutant: the mask of a bare address is empty.
bareNetUnmasked(ip) == [ip |-> ip, len |-> 0]

\* A bare address stands for the network of that address alone.
bareNet(ip) == [ip |-> ip, len |-> Width[ip.fam]]

\* Entries of AllowedCIDRs are prefixes ("cidr"), bare addresses ("bare") or
\* neither, which makes compileACL, and so Start, fail.
compiles(acl) ==
    acl = Nil \/ \A e \in acl.allowed_cidrs : e.form \in {"cidr", "bare"}

\* An empty list of names compiles to a nil map, not to an empty one.
allowed(names) == IF names = {} THEN Nil ELSE names

compileACL(acl) ==
    IF acl = Nil THEN Nil
    ELSE [cidrs |-> {IF e.form = "cidr" THEN [ip |-> e.ip, len |-> e.len]
                     ELSE bareNet(e.ip) : e \in acl.allowed_cidrs},
          allowedUsers |-> allowed(acl.allowed_users),
          allowedDatabases |-> allowed(acl.allowed_databases)]

\* net.IPNet.Contains: one family, and the masked bits agree.
Contains(net, ip) ==
    /\ net.ip.fam = ip.fam
    /\ \A i \in 1..net.len : net.ip.bits[i] = ip.bits[i]

checkAddr(c, addr) ==
    (c # Nil /\ addr # Nil) =>
        c.cidrs = {} \/ \E net \in c.cidrs : Contains(net, addr)

checkUser(c, user) ==
    (c # Nil /\ c.allowedUsers # Nil) => user \in c.allowedUsers

checkDatabase(c, database) ==
    (c # Nil /\ c.allowedDatabases # Nil) => database \in c.allowedDatabases

-----------------------------------------------------------------------------
(***************************************************************************)
(* The documented rule: "a session must match every non-empty list to      *)
(* proceed", where AllowedCIDRs concerns clients that have an IP address.  *)
(***************************************************************************)
InRange(e, ip) ==
    LET bits == IF e.form = "bare" THEN Width[ip.fam] ELSE e.len
    IN  e.ip.fam = ip.fam
            /\ SubSeq(e.ip.bits, 1, bits) = SubSeq(ip.bits, 1, bits)

Permitted(acl, addr, user, database) ==
    acl # Nil =>
        /\ acl.allowed_users # {} => user \in acl.allowed_users
        /\ acl.allowed_databases # {} => database \in acl.allowed_databases
        /\ (acl.allowed_cidrs # {} /\ addr # Nil) =>
               \E e \in acl.allowed_cidrs : InRange(e, addr)
=============================================================================
