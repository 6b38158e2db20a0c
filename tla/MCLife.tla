------------------------------- MODULE MCLife -------------------------------
(* Three instances, which are interchangeable. *)
EXTENDS LifeCycle, TLC

Symmetry == Permutations(Proc)
=============================================================================
