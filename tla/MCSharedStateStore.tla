------------------------- MODULE MCSharedStateStore -------------------------
(* Instances of SharedStateStore for TLC. *)
EXTENDS SharedStateStore, TLC

\* Callers are interchangeable, and no liveness property uses this set.
CallerSymmetry == Permutations(Callers)
=============================================================================
