----------------------------- MODULE MCProfiles -----------------------------
(***************************************************************************)
(* One added profile beside Default, an ordinary project beside Default's  *)
(* orchestrator, and two requests at a time.                               *)
(***************************************************************************)
EXTENDS Profiles, TLC

CONSTANTS r1, r2, work, ordinary, orchestrator

TheAdded == {work}
BothProjects == {ordinary, orchestrator}
Two == {r1, r2}
Alike == Permutations(Two)

Budget(requests, ticks, crashes) ==
    [request |-> requests, tick |-> ticks, crash |-> crashes]
Each == {Budget(3, 1, 0), Budget(2, 2, 0), Budget(2, 1, 1)}
=============================================================================
