----------------------------- MODULE MCScreens -----------------------------
(***************************************************************************)
(* One tab, which may come back as a second viewer, and one kind of        *)
(* trouble at a time.                                                      *)
(***************************************************************************)
EXTENDS Screens

None == [k \in Kinds |-> 0]

Failing   == [None EXCEPT !["draw"] = 1, !["garble"] = 1, !["lose"] = 1]
Faulty    == [None EXCEPT !["draw"] = 2, !["fault"] = 1]
Breaking  == [None EXCEPT !["break"] = 1]
Leaving   == [None EXCEPT !["press"] = 1, !["quit"] = 1]
Switching == [None EXCEPT !["press"] = 1, !["switch"] = 1]
OffAndOn  == [None EXCEPT !["switch"] = 3]
Each      == {Failing, Faulty, Breaking, Leaving, Switching, OffAndOn}
=============================================================================
