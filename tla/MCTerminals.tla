---------------------------- MODULE MCTerminals ----------------------------
(***************************************************************************)
(* Two terminals of one project, drawn by one window.                      *)
(***************************************************************************)
EXTENDS Terminals

Budget(opened, bytes, exits, watches, closes, breaks) ==
    [open |-> opened, output |-> bytes, exit |-> exits, watch |-> watches,
     close |-> closes, break |-> breaks]
\* one terminal whose stream breaks and whose shell exits; two that share the
\* stream; terminals that are closed, and the end of the program
Each == {Budget(1, 4, 1, 1, 0, 1), Budget(1, 3, 0, 2, 0, 1),
         Budget(2, 3, 0, 2, 0, 0), Budget(2, 1, 0, 1, 2, 0)}

OneProject == [t \in Ids |-> "p"]
=============================================================================
