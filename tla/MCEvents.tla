------------------------------ MODULE MCEvents ------------------------------
(***************************************************************************)
(* One window on a project of two tasks.                                   *)
(***************************************************************************)
EXTENDS Events

Allowance(turned, said, refused, shown, broken, failed) ==
    [turn |-> turned, say |-> said, refuse |-> refused, show |-> shown,
     break |-> broken, fail |-> failed]
\* two turns; a streamed turn and a broken connection; a launch that may fail,
\* another task shown and a read that fails
Each == {Allowance(2, 0, 0, 0, 0, 0), Allowance(1, 1, 0, 0, 1, 0), Allowance(1, 0, 1, 1, 0, 1)}
=============================================================================
