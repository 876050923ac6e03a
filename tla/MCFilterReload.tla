--------------------------- MODULE MCFilterReload ---------------------------
(***************************************************************************)
(* Instances of FilterReload for TLC: configuration files and the syntax   *)
(* trees of statements.                                                    *)
(***************************************************************************)
EXTENDS FilterReload

LOCAL INSTANCE TLC

\* A node of a statement of the given kind, and one that sets a variable.
Node(kind, where, kids) ==
    [kind |-> kind, where |-> where, name |-> LowerCase(""), kids |-> kids]

SetNode(name) ==
    [kind |-> "set_var", where |-> FALSE, name |-> name, kids |-> {}]

Stmt(sig, tree) == [sig |-> sig, tree |-> tree]

Select == Stmt("select", <<Node("select", FALSE, {})>>)

\* INSERT ... DEFAULT VALUES has no SelectStmt below it, INSERT ... VALUES has.
Insert == Stmt("insert", <<Node("insert", FALSE, {})>>)
InsertValues ==
    Stmt("values", <<Node("insert", FALSE, {2}), Node("select", FALSE, {})>>)

Update(where) == Stmt("update", <<Node("update", where, {})>>)
Delete(where) == Stmt("delete", <<Node("delete", where, {})>>)

\* WITH d AS (DELETE ...) SELECT, and the same in a subquery of an EXPLAIN.
CteDelete(where) ==
    Stmt("cte", <<Node("select", FALSE, {2}), Node("other", FALSE, {3}),
                  Node("delete", where, {})>>)
ExplainCteUpdate ==
    Stmt("explain", <<Node("other", FALSE, {2}), Node("select", FALSE, {3, 4}),
                      Node("select", FALSE, {}), Node("other", FALSE, {5}),
                      Node("update", FALSE, {})>>)

Truncate == Stmt("truncate", <<Node("truncate", FALSE, {})>>)
AlterRole == Stmt("alter", <<Node("alter_role", FALSE, {})>>)
SetRole == Stmt("set", <<SetNode([word |-> "role", upper |-> TRUE])>>)
SetOther == Stmt("set", <<SetNode(LowerCase("work_mem"))>>)
Execute == Stmt("execute", <<Node("execute", FALSE, {})>>)
Utility == Stmt(Unnormalized, <<Node("other", FALSE, {})>>)

Stmts ==
    {Select, Insert, InsertValues, Update(TRUE), Update(FALSE), Delete(TRUE),
     Delete(FALSE), CteDelete(TRUE), CteDelete(FALSE), ExplainCteUpdate,
     Truncate, AlterRole, SetRole, SetOther, Execute, Utility}

Parsed(stmts) == [parses |-> TRUE, stmts |-> stmts]

SyntaxError == [parses |-> FALSE, stmts |-> << >>]

\* The default rules with one switch flipped.
Switches ==
    DOMAIN DefaultFilterConfig \ {"block_set_vars", "on_parse_error",
                                  "block_signatures", "allow_signatures"}

Flipped == {k :> ~DefaultFilterConfig[k] : k \in Switches}

\* Every use of the signature lists.
Signatures ==
    {[signature_filter_enabled |-> TRUE, signature_allow_by_default |-> d,
      signature_audit_mode |-> a, block_signatures |-> b,
      allow_signatures |-> l] :
        d \in BOOLEAN, a \in BOOLEAN,
        b \in {{}, {"select"}}, l \in {{}, {"select", "insert"}}}

OtherRules ==
    {[on_parse_error |-> e] : e \in {"block", "allow", "audit"}}
        \cup {[block_set_vars |-> v] :
                 v \in {{}, {[word |-> "work_mem", upper |-> TRUE]}}}

Spellings == [word : {"session_authorization", "role", "work_mem"},
              upper : BOOLEAN]

\* Filter agrees with the documented rules on every statement under the
\* default rules with one switch flipped, every use of the signature lists and
\* every other rule.
ASSUME RulesAgree ==
    \A section \in Flipped \cup Signatures \cup OtherRules :
        LET rules == DecodeFilter(section)
        IN  /\ rules \in FilterConfig(Spellings, {"select", "insert"})
            /\ ParseErrorPasses(rules) = Permits(rules, SyntaxError)
            /\ \A stmt \in Stmts :
                   StmtPasses(rules, stmt) = Permits(rules, Parsed(<<stmt>>))

\* A limit that is not positive is none.
Plain ==
    [cert |-> "", key |-> "", ca |-> "", acl |-> "", max |-> -1, idle |-> "",
     metrics |-> ""]

Guarded ==
    [cert |-> "pem", key |-> "pem", ca |-> "pem", acl |-> "list", max |-> 5,
     idle |-> "5m", metrics |-> "1m"]

\* A client CA without a certificate: it is not looked at.
CaAlone == {[Plain EXCEPT !.ca = a] : a \in {"pem", "bad"}}

\* Server sections that stop the boot, each at another place.
Refused ==
    {[Plain EXCEPT !.key = "pem"], [Guarded EXCEPT !.ca = "bad"],
     [Guarded EXCEPT !.idle = "bad"], [Guarded EXCEPT !.acl = "bad"],
     [Guarded EXCEPT !.metrics = "zero"]}

File(state, section, server) ==
    [state |-> state, section |-> section, server |-> server]

\* Files that disagree on the two halves of a query, files that cannot be
\* read, files that a process cannot be started with and files of which it
\* leaves something out.
OperatorFiles ==
    {File("good", [allow_insert |-> FALSE], Plain),
     File("good", [allow_select |-> FALSE], Guarded),
     File("missing", << >>, Plain), File("bad toml", << >>, Plain),
     File("no databases", [allow_execute |-> TRUE], Plain)}
        \cup {File("good", [allow_insert |-> FALSE], s) :
                  s \in Refused \cup CaAlone}

\* A query whose halves the two rule sets judge differently, and a statement
\* that both forbid two levels down.
TwoHalves ==
    {Parsed(<<Select, Insert>>), Parsed(<<CteDelete(FALSE)>>), SyntaxError}
=============================================================================
