---------------------------- MODULE MCReminders -----------------------------
(* Reminders on small instances. *)
EXTENDS Reminders, TLC

\* Two priorities: P0's targets, one that is not promised in P1, the others longer.
SomeTargets ==
  [P0 |-> [first_response |-> 1, status_update |-> 2, resolution |-> 8],
   P1 |-> [first_response |-> 2, status_update |-> 24, resolution |-> None]]

Symmetric == Permutations(Tickets)
=============================================================================
