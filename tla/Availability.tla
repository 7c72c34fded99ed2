---------------------------- MODULE Availability ----------------------------
(***************************************************************************)
(* Who may get a ticket while some of the SEs are marked out.  An absence  *)
(* is the function from the SEs to their cover: Present without an active  *)
(* row, None for a row that names no cover.                                *)
(***************************************************************************)
CONSTANTS
  SEs,      \* the round-robin pool
  None,     \* NULL
  Present   \* no active row in se_availability

\* Mutant of Pick: the absentees stay in the pool.
PickAnyone(away) == SEs

\* active_se_load asks Linear who of a pool has how much to do, and may get no
\* answer: anybody can be the one with the least.
LeastLoaded(pool) == pool

\* pick_se_owner over those who are in; nobody when all are out.
Pick(away) ==
  LET pool == {s \in SEs : away[s] = Present} IN IF pool = {} THEN {None} ELSE LeastLoaded(pool)

\* reroute_if_away: the owners it may return.
Reroute(owner, away) ==
  IF owner \notin SEs \/ away[owner] = Present THEN {owner}
  ELSE IF away[owner] # None /\ away[away[owner]] = Present THEN {away[owner]}
  ELSE {IF p = None THEN owner ELSE p : p \in Pick(away)}
=============================================================================
