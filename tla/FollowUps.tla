----------------------------- MODULE FollowUps -----------------------------
(***************************************************************************)
(* A turn that outlives its reply takes more prompts: followUp, consume    *)
(* and leaveUntaken of app/internal/runner, the message moves of           *)
(* app/internal/store, and the CLI's stdin as app/internal/agent/          *)
(* claudecode keeps it open.                                               *)
(*                                                                         *)
(* One task.  A reply that ends while background work runs leaves the turn *)
(* open; prompts handed over meanwhile are held until the CLI takes them,  *)
(* and the CLI takes one after each reply.  Send, Send now, Send and       *)
(* Enqueue on an unprocessed prompt, Stop, a dying CLI and a crash         *)
(* interleave with it.                                                     *)
(*                                                                         *)
(* A step ends where the code releases openTurn.mu, commits a transaction, *)
(* writes to the CLI or takes an event.  The order of the queue and the    *)
(* steps of starting a queued prompt are TaskQueue's: here the dispatcher  *)
(* takes any row.  A reply takes longer than the dispatcher's statements,  *)
(* unless the budget lets it "overtake" them.                              *)
(***************************************************************************)
EXTENDS Naturals, Sequences, FiniteSets

CONSTANTS
    Prompts,        \* acceptance ordinals
    MsgIds,         \* ids of messages
    RowIds,         \* ids of queue rows
    MaxTurns,
    Budgets         \* how often calls and faults may happen: one is chosen

Kinds == {"enqueue", "send", "resend", "requeue", "force", "stop", "delete", "say",
          "task", "fail", "die", "crash", "overtake"}
ASSUME FollowUpAssumption ==
    /\ Prompts \subseteq Nat \ {0}
    /\ MsgIds \subseteq Nat \ {0}
    /\ RowIds \subseteq Nat \ {0}
    /\ MaxTurns \in Nat
    /\ Budgets \subseteq [Kinds -> Nat]

Store == INSTANCE QueueStore WITH Sessions <- {1}

VARIABLES
    \* in the database
    queue,          \* queued_messages
    messages,       \* the transcript; prompt 0 is what the agent wrote
    \* the runner
    turns,          \* number of the latest turn
    turn,           \* Runner.active
    open,           \* openTurn of the active turn
    consume,        \* the goroutine that consumes its events
    calls,          \* requests, and the dispatcher, on their way
    \* the provider
    cli,            \* the process
    waiting,        \* host.waiting: prompts written and not taken
    closed,         \* host.closed
    events,         \* on their way to consume
    \* observations, and what is left of the bounds
    accepted,       \* prompts accepted so far
    owed,           \* prompts accepted for good
    deleted,        \* those deleted from the queue
    starts,         \* prompt -> times an agent started on it
    setbacks,       \* prompt -> replies to it that failed or were cut short
    grabbed,        \* prompts one call took while another had them in hand
    displaced,      \* prompts whose row went in place of another's
    left            \* what is left of the budget

db       == <<queue, messages>>
provider == <<cli, waiting, closed, events>>
ghost    == <<accepted, owed, deleted, starts, setbacks, grabbed, displaced>>
vars     == <<db, turns, turn, open, consume, calls, provider, ghost, left>>

Ids   == MsgIds \cup {0}
OrNone == Prompts \cup {0}
QueueRow == [id : RowIds, prompt : Prompts]
Message  == [id : MsgIds, prompt : OrNone, turn : 0..MaxTurns]

\* claimed: in Runner.active, its prompt not stored yet
Turn   == [stage : {"none", "claimed", "running"}, cancelled : BOOLEAN]
NoTurn == [stage |-> "none", cancelled |-> FALSE]

\* closing: its last reply is out; lock: who holds openTurn.mu, none or one
Open   == [followUp : BOOLEAN, closing : BOOLEAN, pending : Seq(MsgIds)]
Fresh  == [followUp |-> FALSE, closing |-> FALSE, pending |-> <<>>]

\* join: an accepted prompt is off `pending' and not moved yet; leave: the turn
\* is closed, and what it never took is to be settled.
Consume == [pc : {"off", "loop", "join", "leave", "untaken", "release"},
            id : Ids, prompt : OrNone, said : BOOLEAN,
            inFlight : OrNone, inFlightMsg : Ids,
            failure : {"none", "fault", "away"},
            interrupted : OrNone, interruptedMsg : Ids,
            produced : BOOLEAN, held : BOOLEAN, untaken : Seq(MsgIds)]
Idle == [pc |-> "off", id |-> 0, prompt |-> 0, said |-> FALSE, inFlight |-> 0,
         inFlightMsg |-> 0, failure |-> "none", interrupted |-> 0,
         interruptedMsg |-> 0, produced |-> FALSE, held |-> FALSE,
         untaken |-> <<>>]

\* run: the dispatcher or a Send now that found no turn, under the dispatch
\* lock.  row, msg: the row or the message it is about, 0 for none.
\* turn: the turn followUp found in Runner.active, 0 for none.
Call == [kind : {"send", "resend", "requeue", "force", "run"}, no : Nat,
         prompt : Prompts, row : RowIds \cup {0}, msg : Ids, turn : 0..MaxTurns,
         at : {"called", "looked", "stored", "written", "ending", "start",
               "lock", "parked", "claimed", "drop"}]
NewCall(kind, no, p, row, msg) ==
    [kind |-> kind, no |-> no, prompt |-> p, row |-> row, msg |-> msg,
     turn |-> 0, at |-> "called"]

Cli == [on : BOOLEAN, busy : BOOLEAN, answering : OrNone, tasks : BOOLEAN,
        orderly : BOOLEAN]
NoCli == [on |-> FALSE, busy |-> FALSE, answering |-> 0, tasks |-> FALSE,
          orderly |-> FALSE]

Event == [type : {"text", "task", "taken", "error", "away", "done"},
          prompt : OrNone, open : BOOLEAN]
Ev(type, p, o) == [type |-> type, prompt |-> p, open |-> o]

Running   == turn.stage = "running"
Spend(k)  == left[k] > 0 /\ left' = [left EXCEPT ![k] = @ - 1]
To(c, at) == calls' = (calls \ {c}) \cup {[c EXCEPT !.at = at]}
Done(c)   == calls' = calls \ {c}
Rows(id)  == {r \in queue : r.id = id}
InSeq(s)  == {s[i] : i \in DOMAIN s}

\* openTurn.mu is held from the check to the settling of a hand-over.
Handing   == {c \in calls : c.at \in {"stored", "written"}}
Unlocked  == Handing = {}
\* the dispatch lock
Dispatching == \E c \in calls : c.kind = "run" /\ c.at # "lock"

\* The messages some call or consume has in hand.
InHand == {c.msg : c \in Handing} \cup InSeq(open.pending)
          \cup InSeq(consume.untaken) \cup ({consume.id} \ {0})
PromptOf(id) == {m.prompt : m \in {x \in messages : x.id = id}}

\* A message is looked up by its id alone, which may be another prompt's by now.
Mixed(p, id) == IF PromptOf(id) \subseteq {p} THEN {} ELSE (PromptOf(id) \cup {p}) \ {0}

Init ==
    /\ queue = {} /\ messages = {}
    /\ turns = 0 /\ turn = NoTurn /\ open = Fresh /\ consume = Idle /\ calls = {}
    /\ cli = NoCli /\ waiting = <<>> /\ closed = FALSE /\ events = <<>>
    /\ accepted = 0 /\ owed = {} /\ deleted = {} /\ grabbed = {} /\ displaced = {}
    /\ starts = [p \in Prompts |-> 0] /\ setbacks = [p \in Prompts |-> 0]
    /\ left \in Budgets
-----------------------------------------------------------------------------
(* The store                                                                *)

\* AddMessage: an id is one above the largest present, as in the queue.
Added(ms, p, t, id) == ms \cup {[id |-> id, prompt |-> p, turn |-> t]}
IsNewMsg(ms, id)    == id \in MsgIds /\ Store!IsNewId(ms, id)

\* MoveMessageToEnd: the last message keeps its id.
EndIds(ms, m) == {id \in MsgIds : IF \A o \in ms : o.id <= m.id THEN id = m.id
                                  ELSE Store!IsNewId(ms, id)}
Moved(ms, m, t, id) == (ms \ {m}) \cup {[m EXCEPT !.id = id, !.turn = t]}

\* A message that has a turn is not found.  (Prose that lost its turn, under an
\* id given out again, is not followed further.)
UnclaimedIn(ms, id) == {m \in ms : m.id = id /\ m.turn = 0 /\ m.prompt # 0}
Unclaimed(id)       == UnclaimedIn(messages, id)

\* MessageToQueue, in one transaction.
ToQueue(m, row) == /\ queue' = queue \cup {[id |-> row, prompt |-> m.prompt]}
                   /\ messages' = messages \ {m}
AllRows(id)  == queue                           \* mutant: the row stays
Unqueued(id) == queue \ {r \in queue : r.id = id}
NewRow == {id \in RowIds : Store!IsNewId(queue, id)}
-----------------------------------------------------------------------------
(* Requests                                                                 *)

UnchangedTurn == UNCHANGED <<turns, turn, open, consume, provider>>

\* Enqueue, a new prompt.
Enqueue ==
    LET p == accepted + 1 IN
    /\ p \in Prompts
    /\ Spend("enqueue")
    /\ \E id \in NewRow : queue' = queue \cup {[id |-> id, prompt |-> p]}
    /\ accepted' = p
    /\ owed' = owed \cup {p}
    /\ UnchangedTurn
    /\ UNCHANGED <<messages, calls, deleted, starts, setbacks, grabbed, displaced>>

\* Send, a new prompt straight to the task.
SendCalled ==
    LET p == accepted + 1 IN
    /\ p \in Prompts
    /\ Spend("send")
    /\ calls' = calls \cup {NewCall("send", left["send"], p, 0, 0)}
    /\ accepted' = p
    /\ UnchangedTurn
    /\ UNCHANGED <<db, owed, deleted, starts, setbacks, grabbed, displaced>>

\* unprocessed: a prompt of the user's, without a turn, that no turn holds.
Unprocessed == {m \in messages : m.turn = 0 /\ m.prompt # 0
                                            /\ m.id \notin InSeq(open.pending)}

\* SendUnprocessed and QueueUnprocessed have checked the message.
ResendCalled(kind, m) ==
    /\ m \in Unprocessed
    /\ Unlocked
    /\ Spend(kind)
    /\ calls' = calls \cup {NewCall(kind, left[kind], m.prompt, 0, m.id)}
    /\ UnchangedTurn
    /\ UNCHANGED <<db, ghost>>

\* ForceQueued has read the row.
ForceCalled(r) ==
    /\ r \in queue
    /\ Spend("force")
    /\ calls' = calls \cup {NewCall("force", left["force"], r.prompt, r.id, 0)}
    /\ UnchangedTurn
    /\ UNCHANGED <<db, ghost>>

\* schedule and dispatch, with no turn in the project.
Dispatch(r) ==
    /\ r \in queue
    /\ turn.stage = "none"
    /\ ~Dispatching
    /\ turns < MaxTurns
    /\ calls' = calls \cup {NewCall("run", 0, r.prompt, r.id, 0)}
    /\ UnchangedTurn
    /\ UNCHANGED <<db, ghost, left>>
-----------------------------------------------------------------------------
(* followUp                                                                 *)

\* Runner.mu: the turn in Runner.active, if there is one.
Look(c) ==
    /\ c \in calls /\ c.at = "called"
    /\ calls' = (calls \ {c}) \cup
           {[c EXCEPT !.at = "looked",
                      !.turn = IF turn.stage = "none" THEN 0 ELSE turns]}
    /\ UnchangedTurn
    /\ UNCHANGED <<db, ghost, left>>

StillThere(c) == c.turn # 0 /\ c.turn = turns /\ turn.stage # "none"

\* No turn, one that has ended since, or one that replies: the prompt starts a
\* turn of its own, if it can.  One whose last reply is out is ending, or has.
NotTaking(c) ==
    /\ c \in calls /\ c.at = "looked" /\ c.kind # "requeue"
    /\ Unlocked
    /\ ~(StillThere(c) /\ open.followUp)
    /\ \E at \in {"ending", "start"} :
         /\ c.turn = 0 => at = "start"
         /\ StillThere(c) => (at = "ending" <=> open.closing)
         /\ To(c, at)
    /\ UnchangedTurn
    /\ UNCHANGED <<db, ghost, left>>

Takes(c) == /\ c \in calls /\ c.at = "looked" /\ c.kind # "requeue"
            /\ Unlocked
            /\ StillThere(c) /\ open.followUp

Dispatched(c) == c.kind = "run" /\ c.no = 0

\* Refused: the row is gone, the message ran or is held, or the prompt was
\* meant for another model than the turn's.  The dispatcher drops a row it does
\* not find; a Send now may be told to stop the turn rather than join it.
RefuseHandOver(c) ==
    /\ Takes(c)
    /\ \/ ~(Dispatched(c) /\ Rows(c.row) = {}) /\ Done(c)
       \/ Dispatched(c) /\ Rows(c.row) = {} /\ To(c, "drop")
       \/ c.kind = "force" /\ Rows(c.row) # {} /\ To(c, "start")
    /\ UnchangedTurn
    /\ UNCHANGED <<db, ghost, left>>

\* A new prompt is stored before the CLI has it; the others are stored already,
\* and what the row says by now is what goes.
HandOver(c) ==
    /\ Takes(c)
    /\ c.msg # 0 => Unclaimed(c.msg) # {} /\ c.msg \notin InSeq(open.pending)
    /\ IF c.row # 0
       THEN /\ \E r \in Rows(c.row) : calls' = (calls \ {c}) \cup
                    {[c EXCEPT !.at = "stored", !.prompt = r.prompt]}
            /\ UNCHANGED messages
       ELSE IF c.msg # 0 THEN To(c, "stored") /\ UNCHANGED messages
       ELSE \E id \in MsgIds :
              /\ IsNewMsg(messages, id)
              /\ messages' = Added(messages, c.prompt, 0, id)
              /\ calls' = (calls \ {c}) \cup {[c EXCEPT !.at = "stored", !.msg = id]}
    /\ grabbed' = grabbed \cup Mixed(c.prompt, c.msg) \cup
           (IF c.msg # 0 /\ c.msg = consume.id THEN {c.prompt} ELSE {})
    /\ UnchangedTurn
    /\ UNCHANGED <<queue, accepted, owed, deleted, starts, setbacks, displaced, left>>

\* host.sendUser.
Write(c) ==
    /\ c \in calls /\ c.at = "stored"
    /\ ~closed
    /\ waiting' = Append(waiting, c.prompt)
    /\ To(c, "written")
    /\ UNCHANGED <<db, turns, turn, open, consume, cli, closed, events, ghost, left>>

Forgotten(c) == IF c.kind = "send" THEN {m \in messages : m.id = c.msg} ELSE {}

\* It fails once stdin is closed: a new prompt is forgotten again, and the turn
\* takes no more.
WriteFails(c) ==
    /\ c \in calls /\ c.at = "stored"
    /\ closed
    /\ messages' = messages \ Forgotten(c)
    /\ calls' = (calls \ {c}) \cup
           {[c EXCEPT !.at = "ending", !.msg = IF c.kind = "send" THEN 0 ELSE @]}
    /\ open' = [open EXCEPT !.followUp = FALSE]
    /\ grabbed' = grabbed \cup (IF c.kind = "send" THEN Mixed(c.prompt, c.msg) ELSE {})
    /\ UNCHANGED <<queue, turns, turn, consume, provider, accepted, owed, deleted, starts,
                   setbacks, displaced, left>>

HoldFirst(id) == open' = [open EXCEPT !.pending = <<id>> \o @]   \* mutant
Hold(id) == open' = [open EXCEPT !.pending = Append(@, id)]

\* A row is removed by its id alone, which may be another prompt's by now.
Others(c) == {r.prompt : r \in {x \in Rows(c.row) : x.prompt # c.prompt}}

\* The prompt is the turn's to take, and openTurn.mu is released.  A message
\* moves to the end; a row becomes a message, and is stored all the same when
\* it was stopped or deleted meanwhile.
Settle(c) ==
    /\ c \in calls /\ c.at = "written"
    /\ CASE c.kind = "send" -> Hold(c.msg) /\ UNCHANGED <<db, grabbed>>
         [] c.kind = "resend" ->
              /\ IF Unclaimed(c.msg) = {} THEN Hold(c.msg) /\ UNCHANGED messages
                 ELSE \E m \in Unclaimed(c.msg) : \E id \in EndIds(messages, m) :
                        Hold(id) /\ messages' = Moved(messages, m, 0, id)
              /\ UNCHANGED <<queue, grabbed>>
         [] c.row # 0 ->
              /\ \E id \in MsgIds :
                    /\ IsNewMsg(messages, id)
                    /\ Hold(id)
                    /\ messages' = Added(messages, c.prompt, 0, id)
              /\ queue' = Unqueued(c.row)
              /\ grabbed' = IF \E r \in Rows(c.row) : r.prompt = c.prompt THEN grabbed
                            ELSE grabbed \cup {c.prompt}
    /\ IF c.kind = "run" THEN To(c, "drop") ELSE Done(c)
    /\ owed' = owed \cup {c.prompt}
    /\ displaced' = displaced \cup Others(c)
    /\ UNCHANGED <<turns, turn, consume, provider, accepted, deleted, starts, setbacks, left>>

\* A closed turn is waited for, up to forceWait.
Ended(c) ==
    /\ c \in calls /\ c.at = "ending" /\ c.kind # "force"
    /\ To(c, "start")
    /\ UnchangedTurn
    /\ UNCHANGED <<db, ghost, left>>

\* queueStored: the message leaves the transcript for the queue, under the
\* lock of the turn it found.
QueueStored(c) ==
    /\ c \in calls /\ c.at = "looked" /\ c.kind = "requeue"
    /\ StillThere(c) => Unlocked
    /\ IF (StillThere(c) /\ c.msg \in InSeq(open.pending)) \/ Unclaimed(c.msg) = {}
       THEN UNCHANGED <<db, grabbed>>
       ELSE /\ \E m \in Unclaimed(c.msg), row \in NewRow : ToQueue(m, row)
            /\ grabbed' = IF c.msg \in InHand THEN grabbed \cup PromptOf(c.msg)
                          ELSE grabbed
    /\ Done(c)
    /\ UnchangedTurn
    /\ UNCHANGED <<accepted, owed, deleted, starts, setbacks, displaced, left>>
-----------------------------------------------------------------------------
(* Starting a turn                                                          *)

\* Runner.mu: the task is taken, or it is busy.
Claim(c) ==
    /\ c \in calls /\ c.at = "start" /\ c.kind # "force"
    /\ IF turn.stage # "none" THEN Done(c) /\ UNCHANGED <<turns, turn, open>>
       ELSE /\ turns < MaxTurns
            /\ turns' = turns + 1
            /\ turn' = [NoTurn EXCEPT !.stage = "claimed"]
            /\ open' = Fresh
            /\ To(c, "claimed")
    /\ UNCHANGED <<db, consume, provider, ghost, left>>

\* The CLI has the turn's prompt, and answers it.
Launch(p) ==
    /\ turn' = [turn EXCEPT !.stage = "running"]
    /\ consume' = [Idle EXCEPT !.pc = "loop", !.inFlight = p]
    /\ cli' = [NoCli EXCEPT !.on = TRUE, !.busy = TRUE, !.answering = p]
    /\ waiting' = <<>> /\ closed' = FALSE /\ events' = <<>>
    /\ starts' = [starts EXCEPT ![p] = @ + 1]

\* The prompt is stored as the turn's; one the transcript holds is moved.
Record(c) ==
    /\ c \in calls /\ c.at = "claimed"
    /\ IF c.msg = 0
       THEN \E id \in MsgIds : /\ IsNewMsg(messages, id)
                               /\ messages' = Added(messages, c.prompt, turns, id)
       ELSE \E m \in Unclaimed(c.msg) : \E id \in EndIds(messages, m) :
              messages' = Moved(messages, m, turns, id)
    /\ Launch(c.prompt)
    /\ owed' = owed \cup {c.prompt}
    /\ grabbed' = grabbed \cup Mixed(c.prompt, c.msg)
    /\ IF c.kind = "run" THEN To(c, "drop") ELSE Done(c)
    /\ UNCHANGED <<queue, turns, open, accepted, deleted, setbacks, displaced, left>>

Forced == {c \in calls : c.at = "parked"}
\* release: a Send now that waits for the task goes next.
Released(others) ==
    {IF c.at = "parked" THEN [c EXCEPT !.kind = "run", !.at = "lock"] ELSE c :
        c \in others}

\* One queued or edited away meanwhile leaves no turn behind.
Discard(c) ==
    /\ c \in calls /\ c.at = "claimed" /\ c.msg # 0 /\ Unclaimed(c.msg) = {}
    /\ turn' = NoTurn
    /\ calls' = Released(calls \ {c})
    /\ UNCHANGED <<db, turns, open, consume, provider, ghost, left>>

\* sendQueued returned: the row goes.
DropRow(c) ==
    /\ c \in calls /\ c.at = "drop"
    /\ queue' = Unqueued(c.row)
    /\ displaced' = displaced \cup Others(c)
    /\ Done(c)
    /\ UnchangedTurn
    /\ UNCHANGED <<messages, accepted, owed, deleted, starts, setbacks, grabbed, left>>

\* ForceQueued, not taken: beside no turn it starts, otherwise it waits for the
\* turn, which is cancelled unless it is ending by itself.
Park(c) ==
    /\ c \in calls /\ c.kind = "force" /\ c.at \in {"start", "ending"}
    /\ IF Forced # {} THEN Done(c) /\ UNCHANGED turn
       ELSE IF turn.stage = "none"
       THEN /\ calls' = (calls \ {c}) \cup {[c EXCEPT !.kind = "run", !.at = "lock"]}
            /\ UNCHANGED turn
       ELSE /\ To(c, "parked")
            /\ turn' = [turn EXCEPT !.cancelled = @ \/ c.at = "start"]
    /\ UNCHANGED <<db, turns, open, consume, provider, ghost, left>>

\* runForced, under the dispatch lock, reads the row again.
RunForced(c) ==
    /\ c \in calls /\ c.at = "lock"
    /\ ~Dispatching
    /\ IF Rows(c.row) = {} THEN Done(c)
       ELSE \E r \in Rows(c.row) : calls' = (calls \ {c}) \cup
                {[c EXCEPT !.at = "called", !.prompt = r.prompt]}
    /\ UnchangedTurn
    /\ UNCHANGED <<db, ghost, left>>
-----------------------------------------------------------------------------
(* Stop and delete, under the dispatch lock                                 *)

\* StopQueuedMessages turns every row into a message without a turn, and the
\* turn is cancelled.
Stop ==
    /\ Spend("stop")
    /\ ~Dispatching
    /\ turn.stage # "none" \/ queue # {}
    /\ \E ids \in [queue -> MsgIds] :
         LET stopped == {[id |-> ids[r], prompt |-> r.prompt, turn |-> 0] : r \in queue}
         IN /\ \A r, s \in queue : ids[r] = ids[s] => r = s
            /\ \A m \in stopped :
                 Store!IsNewId({o \in messages \cup stopped : o.id < m.id}, m.id)
                 /\ m.id \notin {o.id : o \in messages}
                 /\ \A o \in messages : o.id < m.id
            /\ messages' = messages \cup stopped
    /\ queue' = {}
    /\ turn' = [turn EXCEPT !.cancelled = @ \/ turn.stage # "none"]
    /\ UNCHANGED <<turns, open, consume, calls, provider, ghost>>

\* DeleteQueued answers the Send now that waits with the row.
Delete(r) ==
    /\ r \in queue
    /\ Spend("delete")
    /\ ~Dispatching
    /\ queue' = queue \ {r}
    /\ deleted' = deleted \cup {r.prompt}
    /\ calls' = {c \in calls : ~(c.at = "parked" /\ c.row = r.id)}
    /\ UnchangedTurn
    /\ UNCHANGED <<messages, accepted, owed, starts, setbacks, grabbed, displaced>>
-----------------------------------------------------------------------------
(* The CLI, and the parser of its output                                    *)

InTurn == /\ Running /\ cli.on
           /\ UNCHANGED <<db, turns, turn, open, consume, calls, accepted, owed,
                        deleted, grabbed, displaced>>
Emit(evs) == events' = events \o evs

CliSays ==
    /\ InTurn /\ cli.busy
    /\ Spend("say")
    /\ Emit(<<Ev("text", 0, FALSE)>>)
    /\ UNCHANGED <<cli, waiting, closed, starts, setbacks>>

\* startTask: work left in the background is reported.
CliStartsTask ==
    /\ InTurn /\ cli.busy /\ ~cli.tasks
    /\ Spend("task")
    /\ cli' = [cli EXCEPT !.tasks = TRUE]
    /\ Emit(<<Ev("task", 0, FALSE)>>)
    /\ UNCHANGED <<waiting, closed, starts, setbacks>>

\* It ends, and wakes an agent that does not reply.
CliTaskEnds ==
    /\ InTurn /\ cli.tasks
    /\ cli' = [cli EXCEPT !.tasks = FALSE, !.busy = TRUE]
    /\ UNCHANGED <<waiting, closed, events, starts, setbacks, left>>

\* closeIfTaken: stdin is closed unless tasks run or a follow-up is not taken.
TasksOnly == cli.tasks                          \* mutant
StaysOpen == cli.tasks \/ waiting # <<>>

\* result: a reply ends, perhaps as a failure.
CliResult ==
    /\ InTurn /\ cli.busy
    /\ (\A c \in calls : c.kind # "run") \/ left["overtake"] > 0
    /\ \E outcome \in {"fine", "error", "away"} :
         /\ IF outcome = "fine" THEN UNCHANGED <<setbacks, left>>
            ELSE /\ Spend("fail")
                 /\ setbacks' = [p \in Prompts |->
                       IF p = cli.answering THEN setbacks[p] + 1 ELSE setbacks[p]]
         /\ Emit((IF outcome = "fine" THEN <<>> ELSE <<Ev(outcome, 0, FALSE)>>)
                   \o <<Ev("done", 0, StaysOpen)>>)
    /\ closed' = (closed \/ ~StaysOpen)
    /\ cli' = [cli EXCEPT !.busy = FALSE, !.answering = 0]
    /\ UNCHANGED <<waiting, starts>>

NoEcho(p) == <<>>                               \* mutant
Echo(p)   == <<Ev("taken", p, FALSE)>>

\* An idle CLI starts on the oldest prompt in its stdin, and echoes it.
CliTakes ==
    /\ InTurn /\ ~cli.busy /\ waiting # <<>>
    /\ cli' = [cli EXCEPT !.busy = TRUE, !.answering = Head(waiting)]
    /\ waiting' = Tail(waiting)
    /\ starts' = [starts EXCEPT ![Head(waiting)] = @ + 1]
    /\ Emit(Echo(Head(waiting)))
    /\ UNCHANGED <<closed, setbacks, left>>

\* With stdin closed and nothing to do it exits.
CliExits ==
    /\ InTurn /\ ~cli.busy /\ closed /\ ~cli.tasks
    /\ cli' = [cli EXCEPT !.on = FALSE, !.orderly = TRUE]
    /\ UNCHANGED <<waiting, closed, events, starts, setbacks, left>>

\* It dies, or is killed as the turn was cancelled, which is no error.
CliDies ==
    /\ InTurn
    /\ setbacks' = [p \in Prompts |-> IF p = cli.answering THEN setbacks[p] + 1
                                      ELSE setbacks[p]]
    /\ \/ turn.cancelled /\ UNCHANGED <<events, left>>
       \/ /\ ~turn.cancelled
          /\ Spend("die")
          /\ \E outcome \in {"error", "away"} : Emit(<<Ev(outcome, 0, FALSE)>>)
    /\ cli' = [cli EXCEPT !.on = FALSE]
    /\ closed' = TRUE
    /\ UNCHANGED <<waiting, starts>>
-----------------------------------------------------------------------------
(* consume                                                                  *)

\* flushText: prose since the last row becomes one.
Flushed(ms, said) ==
    IF ~said THEN {ms}
    ELSE {Added(ms, 0, turns, id) : id \in {i \in MsgIds : IsNewMsg(ms, i)}}

Coming == Head(events)
Consuming(type) ==
    /\ consume.pc = "loop"
    /\ events # <<>> /\ Coming.type = type
    /\ events' = Tail(events)
    /\ UNCHANGED <<queue, turns, turn, calls, cli, waiting, closed, ghost, left>>

OnText ==
    /\ Consuming("text")
    /\ consume' = [consume EXCEPT !.said = TRUE]
    /\ UNCHANGED <<messages, open>>

\* saveBackground: the prose so far, then the task's row.
OnTask ==
    /\ Consuming("task")
    /\ \E ms \in Flushed(messages, consume.said) : messages' \in Flushed(ms, TRUE)
    /\ consume' = [consume EXCEPT !.said = FALSE, !.produced = TRUE]
    /\ UNCHANGED open

OnError ==
    \E type \in {"error", "away"} :
        /\ Consuming(type)
        /\ \E id \in MsgIds : /\ IsNewMsg(messages, id)
                              /\ messages' = Added(messages, 0, turns, id)
        /\ consume' = [consume EXCEPT
               !.failure = IF type = "away" THEN "away" ELSE "fault",
               !.interrupted = consume.inFlight,
               !.interruptedMsg = consume.inFlightMsg]
        /\ UNCHANGED open

\* DetachMessage: a follow-up whose reply failed leaves the turn it stays in.
Detached(ms, id) == {IF m.id = id THEN [m EXCEPT !.turn = 0] ELSE m : m \in ms}

\* A reply ends, and the turn takes prompts or not.  One that failed in a turn
\* that goes on is settled here.
OnDone ==
    LET settled == consume.failure # "none" /\ Coming.open IN
    /\ Unlocked
    /\ Consuming("done")
    /\ open' = [open EXCEPT !.followUp = Coming.open, !.closing = ~Coming.open]
    /\ \E ms \in Flushed(messages, consume.said) :
         messages' = IF settled /\ consume.interruptedMsg # 0
                     THEN Detached(ms, consume.interruptedMsg) ELSE ms
    /\ \E used \in BOOLEAN :        \* output tokens charged
         consume' = [consume EXCEPT
           !.said = FALSE, !.produced = @ \/ consume.said \/ used,
           !.inFlight = 0, !.inFlightMsg = 0,
           !.failure = IF settled THEN "none" ELSE @,
           !.interrupted = IF settled THEN 0 ELSE @,
           !.interruptedMsg = IF settled THEN 0 ELSE @]

\* follow_up: the oldest prompt held is the one taken.
OnTaken ==
    /\ Unlocked
    /\ Consuming("taken")
    /\ IF open.pending = <<>> THEN UNCHANGED <<open, consume>>
       ELSE /\ open' = [open EXCEPT !.pending = Tail(@)]
            /\ consume' = [consume EXCEPT !.pc = "join", !.id = Head(open.pending),
                                          !.prompt = Coming.prompt]
    /\ UNCHANGED messages

\* It joins the turn below the reply it waited behind.
Join ==
    /\ consume.pc = "join"
    /\ \E ms \in Flushed(messages, consume.said) :
         LET found == UnclaimedIn(ms, consume.id)
             after == [consume EXCEPT !.pc = "loop", !.id = 0, !.prompt = 0,
                         !.said = FALSE, !.produced = @ \/ consume.said]
         IN IF found = {} THEN messages' = ms /\ consume' = after
            ELSE \E m \in found : \E id \in EndIds(ms, m) :
                   /\ messages' = Moved(ms, m, turns, id)
                   /\ consume' = [after EXCEPT !.inFlight = m.prompt, !.inFlightMsg = id]
    /\ grabbed' = grabbed \cup UNION {PromptOf(c.msg) \cap Prompts :
                                        c \in {d \in Handing : d.msg = consume.id}}
    /\ UNCHANGED <<queue, turns, turn, open, calls, provider, accepted, owed, deleted,
                   starts, setbacks, displaced, left>>

Erased(ms, produced) == {m \in ms : m.turn # turns}     \* mutant: always
Kept(ms, produced)   == {m \in ms : produced \/ m.turn # turns}

\* The events are over.  What an outage interrupted goes back to the queue, and
\* the turn is kept only if it produced something (holdForOutage).
EventsOver ==
    LET held == consume.failure = "away" /\ consume.interrupted # 0
        produced == consume.produced \/ consume.said IN
    /\ consume.pc = "loop" /\ Running /\ ~cli.on /\ events = <<>>
    /\ \E ms \in Flushed(messages, consume.said) :
         IF held
         THEN /\ messages' = {m \in Kept(ms, produced) :
                                 m.id # consume.interruptedMsg}
              /\ \E row \in NewRow :
                   queue' = queue \cup {[id |-> row, prompt |-> consume.interrupted]}
         ELSE messages' = ms /\ UNCHANGED queue
    /\ grabbed' = grabbed \cup
           (IF held THEN Mixed(consume.interrupted, consume.interruptedMsg) ELSE {})
    /\ consume' = [consume EXCEPT !.pc = "leave", !.said = FALSE, !.held = held]
    /\ UNCHANGED <<turns, turn, open, calls, provider, accepted, owed, deleted, starts,
                   setbacks, displaced, left>>

\* leaveUntaken takes the prompts the turn never started on ...
Leave ==
    /\ consume.pc = "leave"
    /\ Unlocked
    /\ consume' = [consume EXCEPT !.pc = "untaken", !.untaken = open.pending]
    /\ open' = [open EXCEPT !.followUp = FALSE, !.pending = <<>>]
    /\ UNCHANGED <<db, turns, turn, calls, provider, ghost, left>>

\* ... and moves each to the end of the transcript, or behind the retry.
SettleUntaken ==
    /\ consume.pc = "untaken" /\ consume.untaken # <<>>
    /\ LET found == Unclaimed(Head(consume.untaken)) IN
       IF found = {} THEN UNCHANGED db
       ELSE \E m \in found :
            IF consume.held THEN \E row \in NewRow : ToQueue(m, row)
            ELSE /\ \E id \in EndIds(messages, m) : messages' = Moved(messages, m, 0, id)
                 /\ UNCHANGED queue
    /\ consume' = [consume EXCEPT !.untaken = Tail(@)]
    /\ UNCHANGED <<turns, turn, open, calls, provider, ghost, left>>

Release ==
    /\ consume.pc = "untaken" /\ consume.untaken = <<>>
    /\ turn' = NoTurn
    /\ consume' = Idle
    /\ calls' = Released(calls)
    /\ UNCHANGED <<db, turns, open, provider, ghost, left>>

\* The process ends wherever everything is, and starts again.
Crash ==
    /\ Spend("crash")
    /\ turn' = NoTurn /\ open' = Fresh /\ consume' = Idle /\ calls' = {}
    /\ cli' = NoCli /\ waiting' = <<>> /\ closed' = FALSE /\ events' = <<>>
    /\ setbacks' = [p \in Prompts |-> setbacks[p] + 1]
    /\ UNCHANGED <<db, turns, accepted, owed, deleted, starts, grabbed, displaced>>
-----------------------------------------------------------------------------
Request == \/ Enqueue \/ SendCalled
           \/ \E kind \in {"resend", "requeue"}, m \in messages : ResendCalled(kind, m)
           \/ \E r \in queue : ForceCalled(r) \/ Delete(r)
           \/ Stop
CallStep(c) ==
    \/ Look(c) \/ NotTaking(c) \/ RefuseHandOver(c) \/ HandOver(c) \/ Write(c)
    \/ WriteFails(c) \/ Settle(c) \/ Ended(c) \/ QueueStored(c) \/ Claim(c)
    \/ Record(c) \/ Discard(c) \/ DropRow(c) \/ Park(c) \/ RunForced(c)
CliAction == \/ CliSays \/ CliStartsTask \/ CliTaskEnds \/ CliResult \/ CliTakes
         \/ CliExits \/ CliDies
ConsumeStep == \/ OnText \/ OnTask \/ OnError \/ OnDone \/ OnTaken \/ Join
               \/ EventsOver \/ Leave \/ SettleUntaken \/ Release

Next == \/ Request \/ \E r \in queue : Dispatch(r)
        \/ \E c \in calls : CallStep(c)
        \/ CliAction \/ ConsumeStep \/ Crash

Spec == Init /\ [][Next]_vars
-----------------------------------------------------------------------------
(* Properties                                                               *)

TypeOK ==
    /\ queue \subseteq QueueRow /\ messages \subseteq Message
    /\ turns \in 0..MaxTurns /\ turn \in Turn /\ open \in Open
    /\ consume \in Consume /\ calls \subseteq Call
    /\ cli \in Cli /\ waiting \in Seq(Prompts) /\ closed \in BOOLEAN
    /\ events \in Seq(Event)
    /\ accepted \in Nat /\ owed \subseteq Prompts /\ deleted \subseteq Prompts
    /\ grabbed \subseteq Prompts /\ displaced \subseteq Prompts
    /\ starts \in [Prompts -> Nat] /\ setbacks \in [Prompts -> Nat]
    /\ left \in [Kinds -> Nat]

\* The message that joins the turn is the prompt the agent has just started on.
RightPromptJoins ==
    /\ TypeOK
    /\ consume.pc = "join" /\ consume.prompt \notin grabbed =>
        Unclaimed(consume.id) # {} /\ PromptOf(consume.id) = {consume.prompt}

\* A turn that ends by itself has taken every prompt it accepted: stdin is
\* never closed on one.
OrderlyEndTakesAll ==
    cli.orderly /\ events = <<>> /\ Unlocked => open.pending = <<>> /\ waiting = <<>>

\* An agent starts on a prompt again only after the attempt before failed.
StartedOnce == \A p \in Prompts \ grabbed : starts[p] <= 1 + setbacks[p]

-----------------------------------------------------------------------------
(* What the prompts' places are, to the user                                *)

HasMsg(p, ids) == \E m \in messages : m.prompt = p /\ m.turn = 0 /\ m.id \in ids
HeldIds == IF turn.stage = "none" THEN {}
           ELSE InSeq(open.pending) \cup InSeq(consume.untaken) \cup {consume.id}
Held(p) == HasMsg(p, HeldIds)

PlaceOf(p) ==
    IF p \in grabbed THEN "crossed"
    ELSE IF \/ \E r \in queue : r.prompt = p
            \/ \E c \in Handing : c.row # 0 /\ c.prompt = p
    THEN "queued"
    ELSE IF \E c \in Handing : c.kind = "send" /\ c.prompt = p THEN "new"
    ELSE IF Held(p) THEN "held"
    ELSE IF HasMsg(p, MsgIds) THEN "unprocessed"
    ELSE IF \E m \in messages : m.prompt = p THEN "turn"
    ELSE IF p \in deleted THEN "deleted"
    ELSE IF p \in displaced THEN "lost" ELSE "new"

Promise == INSTANCE FollowUpPlaces WITH place <- [p \in Prompts |-> PlaceOf(p)]

\* Every step moves prompts only as FollowUpPlaces promises.
KeepsPromise == Promise!Spec

\* Requests are served, the events are consumed, and an agent ends its replies
\* and reads its stdin; the work it leaves behind may run for ever.
Fairness == /\ WF_vars(\E c \in calls : CallStep(c))
            /\ WF_vars(ConsumeStep)
            /\ WF_vars(CliResult)
            /\ WF_vars(CliTakes)

FairSpec == Spec /\ Fairness

\* No prompt is held for ever.
HeldEnds == \A p \in Prompts : Held(p) ~> ~Held(p)
=============================================================================
