---------------------------- MODULE MCTaskQueue ----------------------------
(***************************************************************************)
(* The budgets of the runs: which user actions and which faults happen, and *)
(* how often.  A run leaves out what another run is about.                  *)
(***************************************************************************)
EXTENDS TaskQueue

Zero == [k \in Kinds |-> 0]

Outages  == [Zero EXCEPT !["away"] = 1, !["start error"] = 1, !["force"] = 1]
Stops    == [Zero EXCEPT !["stop"] = 1, !["delete"] = 1, !["force"] = 1,
                         !["pause"] = 2]
Crashes  == [Zero EXCEPT !["crash"] = 1, !["away at start"] = 1, !["stop"] = 1,
                         !["signal"] = 1]
Draining == [Zero EXCEPT !["send"] = 1, !["stop"] = 1, !["away"] = 1]
Ending   == [Zero EXCEPT !["send"] = 1, !["force"] = 1, !["refuse"] = 1,
                         !["shutdown"] = 1]

Each    == {Outages, Stops, Crashes}
Ends    == {Draining, Ending}
Refused == {[Zero EXCEPT !["refuse"] = 1]}
=============================================================================
