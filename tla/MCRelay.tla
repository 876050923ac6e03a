------------------------------- MODULE MCRelay -------------------------------
(***************************************************************************)
(* Instances of Relay for TLC.                                             *)
(***************************************************************************)
EXTENDS Relay

\* A handler that blocks one statement, rewrites one and leaves the others.
BlockAndRewrite ==
    [sql \in Sqls |-> CASE sql = "select" -> "block"
                        [] sql = "old"    -> "begin"
                        [] OTHER          -> sql]

\* Extended batches of what the handler lets through, and of everything.
Allowed == {sql \in Sqls : BlockAndRewrite[sql] # "block"}

All == Sqls
=============================================================================
