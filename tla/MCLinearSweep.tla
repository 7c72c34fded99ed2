---------------------------- MODULE MCLinearSweep ----------------------------
(* LinearSweep on a small instance. *)
EXTENDS LinearSweep, TLC
=============================================================================
