------------------------------ MODULE MCServer ------------------------------
(***************************************************************************)
(* Instances of Server for TLC.  Connections that the access rules treat   *)
(* alike are interchangeable.                                              *)
(***************************************************************************)
EXTENDS Server, TLC

Welcome == Conns \ (DeniedAddr \cup DeniedStartup)

Symmetry == Permutations(Welcome)
=============================================================================
