----------------------------- MODULE MCRemotes -----------------------------
(***************************************************************************)
(* Two saved machines that may trade places.                     *)
(***************************************************************************)
EXTENDS Remotes

CONSTANTS m1, m2, a1, a2, c1, c2

Budget(some) == [k \in Kinds |-> IF k \in DOMAIN some THEN some[k] ELSE 0]
Each == {Budget([route |-> 2, connect |-> 1, end |-> 1]),
         Budget([route |-> 2, revoke |-> 1, login |-> 1]),
         Budget([connect |-> 1, delete |-> 1, add |-> 1, end |-> 1]),
         Budget([connect |-> 1, work |-> 1, move |-> 3]),
         Budget([login |-> 1, move |-> 1, revoke |-> 1, route |-> 1]),
         Budget([connect |-> 1, route |-> 1, delete |-> 1, move |-> 2]),
         Budget([connect |-> 1, login |-> 1, move |-> 2])}

TwoHomes == [a \in Addresses |-> IF a = a1 THEN m1 ELSE m2]
=============================================================================
