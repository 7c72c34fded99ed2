----------------------------- MODULE MCNudgePass -----------------------------
(* NudgePass on a small instance. *)
EXTENDS NudgePass, TLC
=============================================================================
