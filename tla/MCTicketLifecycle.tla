------------------------- MODULE MCTicketLifecycle -------------------------
(* TicketLifecycle on small instances. *)
EXTENDS TicketLifecycle, TLC

\* Handler slots are interchangeable: nothing but `task` names one.
TaskSymmetry == Permutations(Tasks)
=============================================================================
