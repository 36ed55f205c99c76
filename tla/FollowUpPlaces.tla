--------------------------- MODULE FollowUpPlaces ---------------------------
(***************************************************************************)
(* What the user can count on of a prompt: at any time it waits in the     *)
(* queue, is held by the running turn, belongs to a turn, or stands in the *)
(* transcript as one the agent never processed.  It vanishes only if the   *)
(* user deletes it from the queue or, lost, if its row has an id given out *)
(* before, whose removal was still under way.  Crossed is a prompt that    *)
(* two calls had in hand at once: it may have two places.                  *)
(***************************************************************************)
CONSTANT Prompts

VARIABLE place      \* prompt -> where it is

Places == {"new", "queued", "held", "turn", "unprocessed", "deleted", "lost", "crossed"}

\* new -> unprocessed: a crash while it was handed over.
\* turn -> queued, unprocessed: an outage, a reply that failed.
\* turn -> held: a reply that failed, to a prompt handed over again meanwhile.
Moves ==
    {<<"new", "queued">>, <<"new", "held">>, <<"new", "turn">>,
     <<"new", "unprocessed">>,
     <<"queued", "held">>, <<"queued", "turn">>, <<"queued", "unprocessed">>,
     <<"queued", "deleted">>, <<"queued", "lost">>,
     <<"held", "turn">>, <<"held", "unprocessed">>, <<"held", "queued">>,
     <<"turn", "queued">>, <<"turn", "held">>, <<"turn", "unprocessed">>,
     <<"unprocessed", "held">>, <<"unprocessed", "queued">>,
     <<"unprocessed", "turn">>}

Init == place = [p \in Prompts |-> "new"]

\* Several prompts move at once when the queue is stopped, and when the
\* process ends.
Next ==
    /\ place' \in [Prompts -> Places]
    /\ \A p \in Prompts : place'[p] # place[p] =>
           \/ <<place[p], place'[p]>> \in Moves
           \/ place'[p] = "crossed"

Spec == Init /\ [][Next]_place
=============================================================================
