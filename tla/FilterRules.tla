---------------------------- MODULE FilterRules ----------------------------
(***************************************************************************)
(* The rules of parser/filter.go: what a FilterConfig says of one          *)
(* statement.                                                              *)
(*                                                                         *)
(* A query is what the parser (external) makes of its text: whether it     *)
(* parses, and its statements.  A statement has its normalized signature   *)
(* (Unnormalized where pgquery.Normalize fails) and its syntax tree.       *)
(***************************************************************************)
EXTENDS Naturals, Sequences

CONSTANT Unnormalized      \* the signature of what Normalize cannot handle

\* The statement types Filter has a case for; a node of any other type (a
\* CTE, a join, EXPLAIN, CREATE, ...) has kind "other".
StmtTypes == {"select", "insert", "update", "delete", "truncate",
              "alter_role", "set_var", "execute"}

isFilteredStmtType(kind) == kind \in StmtTypes

\* A node of a syntax tree.  "where" says whether an UPDATE or DELETE has a
\* WHERE clause, "name" is the variable of a SET, and "kids" holds the
\* positions of the node's children.
Nodes ==
    [kind : StmtTypes \cup {"other"}, where : BOOLEAN,
     name : [word : STRING, upper : BOOLEAN], kids : SUBSET Nat]

\* A tree is the sequence of its nodes, parents before their children: the
\* first is the root and every other one is somebody's child.
Trees ==
    {tree \in Seq(Nodes) :
        /\ tree # << >>
        /\ \A n \in DOMAIN tree : tree[n].kids \subseteq DOMAIN tree
        /\ \A n \in DOMAIN tree \ {1} :
               \E m \in 1..(n - 1) : n \in tree[m].kids}

Statements == [sig : STRING \cup {Unnormalized}, tree : Trees]

\* strings.EqualFold: a spelling is a word and a capitalization.
EqualFold(a, b) == a.word = b.word

LowerCase(w) == [word |-> w, upper |-> FALSE]

-----------------------------------------------------------------------------
(* Configurations *)

\* The lists are sets of signatures and of spellings, whatever these are.
FilterConfig(spellings, signatures) ==
    [allow_select : BOOLEAN, allow_insert : BOOLEAN, allow_update : BOOLEAN,
     allow_delete : BOOLEAN, allow_truncate : BOOLEAN,
     allow_alter_role : BOOLEAN, allow_set_var : BOOLEAN,
     allow_execute : BOOLEAN,
     block_set_vars : SUBSET spellings,
     require_where_for_update : BOOLEAN, require_where_for_delete : BOOLEAN,
     signature_filter_enabled : BOOLEAN,
     signature_allow_by_default : BOOLEAN,
     signature_audit_mode : BOOLEAN,
     on_parse_error : {"", "block", "allow", "audit"},
     block_signatures : SUBSET signatures,
     allow_signatures : SUBSET signatures]

DefaultFilterConfig ==
    [allow_select |-> TRUE, allow_insert |-> TRUE, allow_update |-> TRUE,
     allow_delete |-> TRUE, allow_truncate |-> FALSE,
     allow_alter_role |-> FALSE, allow_set_var |-> TRUE,
     allow_execute |-> FALSE,
     block_set_vars |-> {LowerCase("session_authorization"),
                         LowerCase("role")},
     require_where_for_update |-> TRUE, require_where_for_delete |-> TRUE,
     signature_filter_enabled |-> FALSE,
     signature_allow_by_default |-> FALSE,
     signature_audit_mode |-> FALSE,
     on_parse_error |-> "",
     block_signatures |-> {}, allow_signatures |-> {}]

\* toml.DecodeFile into a record that already holds the defaults: a key the
\* [Filter] section does not mention keeps its default.
DecodeFilter(section) ==
    [k \in DOMAIN DefaultFilterConfig |->
        IF k \in DOMAIN section THEN section[k] ELSE DefaultFilterConfig[k]]

-----------------------------------------------------------------------------
(* One statement *)

\* The positions walkNodeTree visits: the root, and whatever is a child of a
\* visited node.  Len(tree) rounds reach every depth a tree can have.
walkNodeTree(tree) ==
    LET visited[d \in 0..Len(tree)] ==
            IF d = 0 THEN {1}
            ELSE visited[d - 1]
                     \cup UNION {tree[n].kids : n \in visited[d - 1]}
    IN  visited[Len(tree)]

extractStatements(tree) ==
    {tree[n] : n \in {m \in walkNodeTree(tree) :
                          isFilteredStmtType(tree[m].kind)}}

\* The signature is on the block list, or on neither list and the default is
\* to block.
SignatureBlocked(cfg, sig) ==
    \/ sig \in cfg.block_signatures
    \/ sig \notin cfg.allow_signatures /\ ~cfg.signature_allow_by_default

\* The signature check lets the statement through to the per-type rules.
SignaturePasses(cfg, sig) ==
    cfg.signature_filter_enabled =>
        /\ sig # Unnormalized
        /\ SignatureBlocked(cfg, sig) => cfg.signature_audit_mode

\* The case of Filter's switch for a node's type.
NodeAllowed(cfg, node) ==
    CASE node.kind = "select"     -> cfg.allow_select
      [] node.kind = "insert"     -> cfg.allow_insert
      [] node.kind = "update"     -> /\ cfg.allow_update
                                     /\ cfg.require_where_for_update
                                            => node.where
      [] node.kind = "delete"     -> /\ cfg.allow_delete
                                     /\ cfg.require_where_for_delete
                                            => node.where
      [] node.kind = "truncate"   -> cfg.allow_truncate
      [] node.kind = "alter_role" -> cfg.allow_alter_role
      [] node.kind = "set_var"    -> /\ cfg.allow_set_var
                                     /\ \A v \in cfg.block_set_vars :
                                            ~EqualFold(node.name, v)
      [] node.kind = "execute"    -> cfg.allow_execute

\* One iteration of Filter's loop does not return false.
StmtPasses(cfg, stmt) ==
    /\ SignaturePasses(cfg, stmt.sig)
    /\ \A node \in extractStatements(stmt.tree) : NodeAllowed(cfg, node)

ParseErrorPasses(cfg) == cfg.on_parse_error \in {"allow", "audit"}

-----------------------------------------------------------------------------
(* The documented rules, as the reference for the code above *)

\* A node breaks a rule of the README, wherever it stands in the statement.
Forbidden(cfg, node) ==
    \/ node.kind = "select" /\ ~cfg.allow_select
    \/ node.kind = "insert" /\ ~cfg.allow_insert
    \/ node.kind = "truncate" /\ ~cfg.allow_truncate
    \/ node.kind = "alter_role" /\ ~cfg.allow_alter_role
    \/ node.kind = "execute" /\ ~cfg.allow_execute
    \/ node.kind = "update" /\ ~cfg.allow_update
    \/ node.kind = "delete" /\ ~cfg.allow_delete
    \/ node.kind = "update" /\ cfg.require_where_for_update /\ ~node.where
    \/ node.kind = "delete" /\ cfg.require_where_for_delete /\ ~node.where
    \/ node.kind = "set_var" /\ ~cfg.allow_set_var
    \/ /\ node.kind = "set_var"
       /\ node.name.word \in {v.word : v \in cfg.block_set_vars}

\* What the README promises: every statement must be acceptable, at every
\* nesting depth; the signature lists apply unless the audit mode only reports
\* them.
StmtPermitted(cfg, stmt) ==
    LET listed == /\ stmt.sig \notin cfg.block_signatures
                  /\ \/ stmt.sig \in cfg.allow_signatures
                     \/ cfg.signature_allow_by_default
    IN  /\ ~\E n \in DOMAIN stmt.tree : Forbidden(cfg, stmt.tree[n])
        /\ \/ ~cfg.signature_filter_enabled
           \/ stmt.sig # Unnormalized /\ (listed \/ cfg.signature_audit_mode)

Permits(cfg, query) ==
    IF query.parses
    THEN \A i \in DOMAIN query.stmts : StmtPermitted(cfg, query.stmts[i])
    ELSE cfg.on_parse_error \in {"allow", "audit"}
=============================================================================
