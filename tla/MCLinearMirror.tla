--------------------------- MODULE MCLinearMirror ---------------------------
(* LinearMirror on small instances. *)
EXTENDS LinearMirror, TLC

\* Handler slots are interchangeable: nothing but `task` names one.
TaskSymmetry == Permutations(Tasks)
=============================================================================
