----------------------------- MODULE LinearSweep -----------------------------
(***************************************************************************)
(* What one sweep of ReconcileLinear puts right.                           *)
(*                                                                         *)
(* LinearMirror with a history variable that says whether the sweep in     *)
(* flight had the tickets and the issues to itself so far, and lost        *)
(* nothing.  Before that sweep anything may have overlapped or been lost.  *)
(***************************************************************************)
EXTENDS LinearMirror

VARIABLE calm

sweepVars == <<vars, calm>>

\* Others may read meanwhile, start and be ignored, but not write.
Undisturbed ==
  /\ UNCHANGED faults
  /\ task'[Sweeper] # task[Sweeper] \/ UNCHANGED <<ticketVars, issues>>

Remember ==
  calm' = IF task[Sweeper].pc = "idle" THEN task'[Sweeper].pc # "idle"
          ELSE calm /\ Undisturbed

SweepInit == Init /\ calm = FALSE
SweepSpec == SweepInit /\ [][Next /\ Remember]_sweepVars
SweepFairSpec == SweepSpec /\ Fairness

-----------------------------------------------------------------------------
(* Properties.                                                             *)

\* A ticket that has nothing to catch up with: it is not live, or it has an issue
\* that is open; and if it had one when the sweep read it, it is as far.
Caught(t) ==
  Live(t) =>
    /\ mirror[t] # 0
    /\ issues[mirror[t]].state \notin {"done", "canceled"}
    /\ task[Sweeper].snap[t].mirror # 0 => ~Behind(t)

\* reconcile.py: "This periodic sweep repairs both", the outbound and the inbound gap: at
\* its end no live ticket lacks an issue or is behind it, whatever was lost before.
SweepCatchesUp ==
  [][task[Sweeper].pc # "idle" /\ task'[Sweeper].pc = "idle" /\ calm' =>
       \A t \in Tickets : Caught(t)]_sweepVars
=============================================================================
