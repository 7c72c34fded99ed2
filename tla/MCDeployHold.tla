---------------------------- MODULE MCDeployHold ----------------------------
(* DeployHold on small instances. *)
EXTENDS DeployHold, TLC

\* Handler slots and PRs are interchangeable: only the state names one.
Symmetric == Permutations(Tasks) \cup Permutations(PRs)
=============================================================================
