----------------------------- MODULE MCApprovals -----------------------------
(***************************************************************************)
(* The requests, the settings and the budgets of the runs.                 *)
(***************************************************************************)
EXTENDS Approvals

ToolCall(n, s, prefix, starts) ==
    [no |-> n, session |-> s, question |-> FALSE, tool |-> "Shell",
     prefix |-> prefix, starts |-> starts]
Question(n, s) ==
    [no |-> n, session |-> s, question |-> TRUE, tool |-> "Question",
     prefix |-> {}, starts |-> {}]

\* two calls of one task, where the prefix of the first covers the second and
\* not the other way round, and a question
Asked == {ToolCall(1, "a", {"git"}, {"git"}), ToolCall(2, "a", {"ls"}, {"git", "ls"}),
          Question(3, "a")}

With(mode, asks) == [mode |-> mode, asks |-> asks]
EachWay  == {With("timeout", FALSE), With("timeout", TRUE), With("immediate", FALSE)}

Budget(turns, calls, questions, change, withdraw, hold) ==
    [turn |-> turns, call |-> calls, question |-> questions, change |-> change,
     withdraw |-> withdraw, hold |-> hold]
Each == {Budget(2, 2, 0, 0, 0, 0), Budget(1, 2, 0, 0, 0, 1), Budget(1, 2, 0, 0, 1, 0),
         Budget(1, 1, 1, 1, 0, 0), Budget(1, 1, 1, 0, 1, 0)}
=============================================================================
