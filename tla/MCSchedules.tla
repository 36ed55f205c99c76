---------------------------- MODULE MCSchedules ----------------------------
(***************************************************************************)
(* Two jobs of one project, fired by the clock and by hand.                *)
(***************************************************************************)
EXTENDS Schedules

Budget(jobs, some) ==
    [k \in Kinds |-> IF k = "create" THEN jobs ELSE IF k \in some THEN 1 ELSE 0]
\* one job and what disturbs it, two jobs that come due together
Each == {Budget(1, {"crash", "force", "failure"}), Budget(1, {"edit", "crash", "force"}),
         Budget(1, {"prompt", "outage", "crash"}), Budget(1, {"prompt", "stop", "force"}),
         Budget(1, {"delete", "stop", "failure"}), Budget(1, {"outage", "force"}),
         Budget(1, {"outage", "stop"}), Budget(1, {"outage", "delete"}),
         Budget(2, {"crash"}), Budget(2, {"edit"})}

Twice == [j \in Jobs |-> 2]
EveryHour == {[calendar |-> FALSE, step |-> 1], [calendar |-> TRUE, step |-> 2]}
=============================================================================
