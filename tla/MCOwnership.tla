---------------------------- MODULE MCOwnership ----------------------------
(* Ownership on small instances. *)
EXTENDS Ownership, TLC

\* Handler slots are interchangeable.
Symmetric == Permutations(Tasks)
=============================================================================
