----------------------------- MODULE MCUpdates -----------------------------
(***************************************************************************)
(* Two attempts to update, over a few runs of the program.                 *)
(***************************************************************************)
EXTENDS Updates

Allowance(ends, releases, changes, kills, faults, giveups, ignores) ==
    [end |-> ends, release |-> releases, change |-> changes, kill |-> kills,
     fault |-> faults, giveup |-> giveups, ignore |-> ignores]
\* attempts given up and overtaken by another; an executable changed by hand; a
\* helper killed, with a step that fails; an offer ignored
Each == {Allowance(2, 2, 0, 0, 1, 1, 0), Allowance(2, 1, 1, 0, 1, 0, 0),
         Allowance(2, 1, 0, 1, 1, 1, 0), Allowance(1, 2, 0, 0, 1, 1, 1)}
=============================================================================
