------------------------------ MODULE NudgePass ------------------------------
(***************************************************************************)
(* What one pass of DeployHoldNudgeJob gets done.                          *)
(*                                                                         *)
(* DeployHold with a history variable: the holds that were due when the    *)
(* pass in flight listed them, less those that a new resolve has since     *)
(* started afresh.                                                         *)
(***************************************************************************)
EXTENDS DeployHold

VARIABLE owed

passVars == <<vars, owed>>

Remember ==
  owed' = IF task'[Nudger].pc = "idle" THEN {}
          ELSE IF task[Nudger].pc = "idle" THEN DueHolds
          ELSE owed \cap due'

PassInit == Init /\ owed = {}
PassSpec == PassInit /\ [][Next /\ Remember]_passVars
PassFairSpec == PassSpec /\ Fairness

-----------------------------------------------------------------------------
(* Properties.                                                             *)

Unserved(h) == hold[h] = "waiting" /\ (raised[h] = "never" \/ h \notin nudged)

\* deploy_hold.py: "DM the SE once about a hold still waiting after 3 days".  Whatever
\* resolves, ships, reopens or is released meanwhile: a pass that comes to its end has named
\* each hold it found due in a DM, and marked it so that no second one follows, or the hold
\* waits no more; though it reads each ticket long after its list.
PassServesAll ==
  [][task[Nudger].pc # "idle" /\ task'[Nudger].pc = "idle" /\ UNCHANGED faults =>
       \A h \in owed : ~Unserved(h)]_passVars
=============================================================================
