-------------------------- MODULE MCResourceCache --------------------------
(* Instance of ResourceCache for TLC. *)
EXTENDS ResourceCache, TLC

Symmetry == Permutations(Callers)
=============================================================================
