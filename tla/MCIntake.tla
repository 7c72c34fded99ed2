------------------------------ MODULE MCIntake ------------------------------
(* Intake on small instances. *)
EXTENDS Intake, TLC

\* The configured SE is one of a kind; slots and reports are interchangeable.
Symmetric == Permutations(Tasks) \cup Permutations(Reports)
=============================================================================
