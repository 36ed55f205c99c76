---------------------------- MODULE MCFollowUps ----------------------------
(***************************************************************************)
(* The budgets of the runs.  Each opens a turn with one background task;   *)
(* the rest is what interferes with the prompts handed to it.              *)
(***************************************************************************)
EXTENDS FollowUps

Zero  == [k \in Kinds |-> 0]
Opens == [Zero EXCEPT !["enqueue"] = 1, !["task"] = 1]

InOrder   == [Opens EXCEPT !["send"] = 2, !["say"] = 1]
Outage    == [Opens EXCEPT !["send"] = 1, !["fail"] = 1, !["die"] = 1]
TwoClicks == [Opens EXCEPT !["send"] = 1, !["force"] = 2]
Stopping  == [Opens EXCEPT !["enqueue"] = 2, !["force"] = 1, !["stop"] = 1]
Deleting  == [Opens EXCEPT !["enqueue"] = 3, !["force"] = 1, !["delete"] = 1]
Resending == [Opens EXCEPT !["send"] = 1, !["stop"] = 1, !["resend"] = 1,
                           !["requeue"] = 1]
Crashing  == [Opens EXCEPT !["send"] = 1, !["crash"] = 1, !["force"] = 1]

Each      == {InOrder, Outage, TwoClicks, Stopping, Deleting, Resending, Crashing}
=============================================================================
