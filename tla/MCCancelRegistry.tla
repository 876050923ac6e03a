-------------------------- MODULE MCCancelRegistry --------------------------
(***************************************************************************)
(* Instances of CancelRegistry for TLC.                                    *)
(***************************************************************************)
EXTENDS CancelRegistry, TLC

\* Sessions, cancels, pids and secrets are interchangeable.
Symmetry == Permutations(Sessions) \cup Permutations(Cancels)
                \cup Permutations(Pids) \cup Permutations(Secrets)
                \cup Permutations(Backends)
=============================================================================
