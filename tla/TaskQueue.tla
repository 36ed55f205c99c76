------------------------------ MODULE TaskQueue ------------------------------
(***************************************************************************)
(* How one project's prompts become turns: app/internal/runner with the    *)
(* queue of app/internal/store.                                            *)
(*                                                                         *)
(* A prompt is sent straight to a task (Send), or queued and started by    *)
(* the project's dispatcher, by Send now (ForceQueued), or again by the    *)
(* retry clock after the provider was away.  Stop, delete, pause, crash,   *)
(* restart and shutdown interleave with all of it.                         *)
(*                                                                         *)
(* A step ends where the code releases a mutex, commits a transaction or   *)
(* hands over to another goroutine.  `lock' is the project's dispatch      *)
(* mutex with the place its holder has reached, `wakes' counts goroutines  *)
(* about to call schedule, `calls' are the requests in progress.           *)
(*                                                                         *)
(* Turns here never stay open for follow-ups: that is module FollowUps.    *)
(* Errors of the database itself are left out.                             *)
(***************************************************************************)
EXTENDS QueueStore

CONSTANTS
    Budgets,        \* how often each user action and each fault may happen;
                    \* a behaviour has one of them
    MaxWakes        \* schedule goroutines the retry clock may pile up

\* away: an outage once the provider ran; away at start, start error: before
Kinds == {"send", "stop", "delete", "force", "pause", "away",
          "away at start", "start error", "refuse", "signal", "shutdown",
          "crash"}

ASSUME BudgetAssumption   == Budgets \subseteq [Kinds -> Nat]
ASSUME MaxWakesAssumption == MaxWakes \in Nat

VARIABLES
    \* in the database
    queue,          \* the project's rows of queued_messages
    ran,            \* <<prompt, try>>: in the transcript, of that try's turn
    unrun,          \* prompts in the transcript without a turn
    status,         \* task -> sessions.status
    paused,         \* projects.queue_paused
    \* in the process
    up,             \* whether it runs
    stopping,       \* Runner.stopping
    active,         \* Runner.active: task -> the turn in flight
    lock,           \* the dispatch lock and its holder
    wakes,          \* goroutines on their way to schedule
    calls,          \* Stop, DeleteQueued and ForceQueued calls in progress
    preferred,      \* Runner.preferred, 0 for none
    \* observations, and what is left of the bounds
    accepted,       \* prompts accepted so far
    owed,           \* prompts stored for the user, and not deleted since
    tries,          \* prompt -> turns that claimed it
    setbacks,       \* prompt -> outages and failed starts it met
    halted,         \* prompts stopped or deleted
    left            \* what is left of the budget

db    == <<queue, ran, unrun, status, paused>>
proc  == <<up, stopping, active, lock, wakes, calls, preferred>>
ghost == <<accepted, owed, tries, setbacks, halted, left>>
vars  == <<db, proc, ghost>>

Statuses == {"idle", "running", "waiting", "error"}

\* claimed  in Runner.active, nothing written yet
\* recorded the turn and its prompt are stored, the task is marked running
\* running  the provider works on it
\* away     it failed on a provider that is away
\* requeued its prompt is back in the queue
\* settled  its outcome is stored, and it only has to be released
Stages == {"none", "claimed", "recorded", "running", "away", "requeued",
           "settled"}
Senders == {"direct", "dispatch", "forced"}

\* started: provider.Run returned a channel, so send has returned
Turn == [stage : Stages, by : Senders, prompt : Prompts \cup {0}, retries : Nat,
         started : BOOLEAN, cancelled : BOOLEAN]
NoTurn == [stage |-> "none", by |-> "direct", prompt |-> 0, retries |-> 0,
           started |-> FALSE, cancelled |-> FALSE]

\* id and prompt say which row a delete or a Send now was asked for, status is
\* the task's status as the call read it before it took the dispatch lock.
\* no tells calls apart that are otherwise alike.
Call == [kind : {"stop", "delete", "force"}, no : Nat, session : Sessions,
         id : RowIds \cup {0}, prompt : Prompts \cup {0}, status : Statuses,
         at : {"called", "parked", "launched"}]

\* row, call: the row being started and the call being served, if any; turn:
\* the prompt of the turn Stop saw; idle: the task that goes from waiting to idle.
Holder == [op : {"none", "dispatch", "forced", "stop", "delete"},
           pc : {"pick", "claim", "sending", "started", "failed", "clear",
                 "finish"},
           row : SUBSET Row, call : SUBSET Call,
           turn : SUBSET Prompts, idle : SUBSET Sessions]

Free == [op |-> "none", pc |-> "pick", row |-> {}, call |-> {}, turn |-> {},
         idle |-> {}]
Dispatching(call) == [Free EXCEPT !.op = "dispatch", !.call = call]

Busy(s)     == active[s].stage # "none"
ProjectBusy == \E s \in Sessions : Busy(s)
Parked(s)   == {c \in calls : c.at = "parked" /\ c.session = s}

Copy(s)     == <<active[s].prompt, tries[active[s].prompt]>>

Spend(kind) == left[kind] > 0 /\ left' = [left EXCEPT ![kind] = @ - 1]
Stage(s, stage) == active' = [active EXCEPT ![s].stage = stage]
NobodyCancelled(S) == active        \* mutant: the cancel is not delivered
RunningCancelled(S) == [s \in Sessions |->         \* mutant: not one starting
    IF s \in S /\ active[s].stage = "running"
    THEN [active[s] EXCEPT !.cancelled = TRUE] ELSE active[s]]
Cancelled(S) == [s \in Sessions |->
    IF s \in S /\ Busy(s) THEN [active[s] EXCEPT !.cancelled = TRUE]
    ELSE active[s]]

\* A call starts: it has read the session, and the row it is about.
Ask(kind, s, id, p) ==
    /\ Spend(kind)
    /\ calls' = calls \cup {[kind |-> kind, no |-> left[kind], session |-> s,
                             id |-> id, prompt |-> p, status |-> status[s],
                             at |-> "called"]}

Init ==
    /\ queue = {}
    /\ ran = {}
    /\ unrun = {}
    /\ status = [s \in Sessions |-> "idle"]
    /\ paused = FALSE
    /\ up = TRUE
    /\ stopping = FALSE
    /\ active = [s \in Sessions |-> NoTurn]
    /\ lock = Free
    /\ wakes = 0
    /\ calls = {}
    /\ preferred = 0
    /\ accepted = 0
    /\ owed = {}
    /\ tries = [p \in Prompts |-> 0]
    /\ setbacks = [p \in Prompts |-> 0]
    /\ halted = {}
    /\ left \in Budgets
-----------------------------------------------------------------------------
(* Accepting prompts                                                        *)

Insert(s, p, retries, due) ==
    \E id \in RowIds :
        /\ IsNewId(queue, id)
        /\ queue' = queue \cup {[id |-> id, session |-> s, prompt |-> p,
                                 retries |-> retries, due |-> due]}

\* Enqueue: the row, then a call of schedule.
Enqueue(s) ==
    LET p == accepted + 1 IN
    /\ up
    /\ p \in Prompts
    /\ Insert(s, p, 0, TRUE)
    /\ wakes' = wakes + 1
    /\ accepted' = p
    /\ owed' = owed \cup {p}
    /\ UNCHANGED <<ran, unrun, status, paused, up, stopping, active, lock, calls,
                   preferred, tries, setbacks, halted, left>>

\* The middle of send, under Runner.mu: task s is taken for prompt p.  A task
\* already taken is ErrBusy, a runner shutting down errShuttingDown; neither
\* changes anything.
Claim(s, p, retries, by) ==
    /\ ~stopping
    /\ ~Busy(s)
    /\ active' = [active EXCEPT ![s] =
           [stage |-> "claimed", by |-> by, prompt |-> p, retries |-> retries,
            started |-> FALSE, cancelled |-> FALSE]]
    /\ tries' = [tries EXCEPT ![p] = @ + 1]

\* Send: a prompt sent straight to a task does not pass through the queue, and
\* starts beside whatever else the project runs.
Send(s) ==
    LET p == accepted + 1 IN
    /\ up
    /\ p \in Prompts
    /\ Spend("send")
    /\ Claim(s, p, 0, "direct")
    /\ accepted' = p
    /\ UNCHANGED <<db, up, stopping, lock, wakes, calls, preferred, owed,
                   setbacks, halted>>
-----------------------------------------------------------------------------
(* The turn of a task                                                       *)

\* send: StartTurn, AddMessage, SetSessionStatus.
Record(s) ==
    /\ active[s].stage = "claimed"
    /\ Stage(s, "recorded")
    /\ ran' = ran \cup {Copy(s)}
    /\ owed' = IF active[s].by = "direct" THEN owed \cup {active[s].prompt}
               ELSE owed
    /\ status' = [status EXCEPT ![s] = "running"]
    /\ UNCHANGED <<queue, unrun, paused, up, stopping, lock, wakes, calls,
                   preferred, accepted, tries, setbacks, halted, left>>

\* Is the dispatch lock held by the goroutine that sends the prompt of s?
SentByHolder(s) == lock.pc = "sending" /\ \E r \in lock.row : r.session = s

\* provider.Run starts the provider: consume takes the turn over and send
\* returns to whoever called it.
Launch(s) ==
    /\ active[s].stage = "recorded"
    /\ active' = [active EXCEPT ![s].stage = "running", ![s].started = TRUE]
    /\ lock' = IF SentByHolder(s) THEN [lock EXCEPT !.pc = "started"] ELSE lock
    /\ UNCHANGED <<db, up, stopping, wakes, calls, preferred, ghost>>

\* provider.Run fails, for a reason of its own or because the turn was
\* cancelled already: the turn is closed as an error before send returns.
FailStart(s) ==
    /\ active[s].stage = "recorded"
    /\ \/ active[s].cancelled /\ UNCHANGED left
       \/ Spend("start error")
    /\ Stage(s, "settled")
    /\ status' = [status EXCEPT ![s] = "error"]
    /\ setbacks' = [setbacks EXCEPT ![active[s].prompt] = @ + 1]
    /\ UNCHANGED <<queue, ran, unrun, paused, up, stopping, lock, wakes, calls,
                   preferred, accepted, owed, tries, halted>>

\* The turn fails with an outage, as it starts or once it ran.
GoAway(s) ==
    /\ \/ active[s].stage = "recorded" /\ Spend("away at start")
       \/ active[s].stage = "running" /\ Spend("away")
    /\ Stage(s, "away")
    /\ setbacks' = [setbacks EXCEPT ![active[s].prompt] = @ + 1]
    /\ UNCHANGED <<db, up, stopping, lock, wakes, calls, preferred, accepted,
                   owed, tries, halted>>

\* holdForOutage: RequeueTaken puts the prompt back under a new row.
Requeue(s) ==
    /\ active[s].stage = "away"
    /\ Insert(s, active[s].prompt, active[s].retries + 1, FALSE)
    /\ Stage(s, "requeued")
    /\ UNCHANGED <<ran, unrun, status, paused, up, stopping, lock, wakes, calls,
                   preferred, ghost>>

\* holdForOutage: a turn that produced something is kept, one that did not is
\* erased with its prompt; the task waits.
Hold(s) ==
    /\ active[s].stage = "requeued"
    /\ \E produced \in {FALSE, active[s].started} :
           ran' = IF produced THEN ran ELSE ran \ {Copy(s)}
    /\ Stage(s, "settled")
    /\ status' = [status EXCEPT ![s] = "waiting"]
    /\ UNCHANGED <<queue, unrun, paused, up, stopping, lock, wakes, calls,
                   preferred, ghost>>

\* consume: the events end, and the turn is closed as ok or as an error.
Finish(s) ==
    /\ active[s].stage = "running"
    /\ \E outcome \in {"idle", "error"} :
           status' = [status EXCEPT ![s] = outcome]
    /\ Stage(s, "settled")
    /\ UNCHANGED <<queue, ran, unrun, paused, up, stopping, lock, wakes, calls,
                   preferred, ghost>>

\* Without a prompt forced to follow, the end of a turn calls schedule.
SilentAfter(s) == wakes                         \* mutant: nobody is woken
WakesAfter(s) == IF stopping \/ Parked(s) # {} THEN wakes ELSE wakes + 1

\* release: the task is free and preferred, and either its forced prompt or
\* the dispatcher comes next.  It also is where a send that failed to start
\* its turn returns.
Release(s) ==
    /\ active[s].stage = "settled"
    /\ active' = [active EXCEPT ![s] = NoTurn]
    /\ preferred' = s
    /\ calls' = IF stopping THEN calls \ Parked(s)
                ELSE (calls \ Parked(s)) \cup
                     {[c EXCEPT !.at = "launched"] : c \in Parked(s)}
    /\ wakes' = WakesAfter(s)
    /\ lock' = IF SentByHolder(s) THEN [lock EXCEPT !.pc = "failed"] ELSE lock
    /\ UNCHANGED <<db, up, stopping, ghost>>
-----------------------------------------------------------------------------
(* The dispatcher                                                           *)

\* schedule takes the dispatch lock.
TakeSchedule ==
    /\ wakes > 0
    /\ lock.op = "none"
    /\ lock' = Dispatching({})
    /\ wakes' = wakes - 1
    /\ UNCHANGED <<db, up, stopping, active, calls, preferred, ghost>>

Held == paused \/ ProjectBusy

\* dispatch: nothing while paused or busy; otherwise the next row, and with
\* none the preference is forgotten.
Pick ==
    /\ lock.op = "dispatch" /\ lock.pc = "pick"
    /\ LET next == IF Held THEN {}
                   ELSE NextQueuedRun(queue, preferred)
       IN /\ lock' = IF next = {} THEN Free
                     ELSE [lock EXCEPT !.pc = "claim", !.row = next]
          /\ preferred' = IF next = {} /\ ~Held THEN 0
                          ELSE preferred
    /\ UNCHANGED <<db, up, stopping, active, wakes, calls, ghost>>

\* The answer of a Send now goes out, and runForced falls back to dispatch.
FallBack == /\ calls' = calls \ lock.call
            /\ lock' = Dispatching(lock.call)

\* mutant: the row goes as its task is claimed, before its prompt is stored
ClaimAndDropRow ==
    /\ lock.pc = "claim"
    /\ \E r \in lock.row : Claim(r.session, r.prompt, r.retries, lock.op)
    /\ queue' = queue \ lock.row
    /\ lock' = [lock EXCEPT !.pc = "sending"]
    /\ UNCHANGED <<ran, unrun, status, paused, up, stopping, wakes, calls,
                   preferred, accepted, owed, setbacks, halted, left>>

\* sendQueued up to the claim of the task.
ClaimRow ==
    /\ lock.pc = "claim"
    /\ \E r \in lock.row : Claim(r.session, r.prompt, r.retries, lock.op)
    /\ lock' = [lock EXCEPT !.pc = "sending"]
    /\ UNCHANGED <<db, up, stopping, wakes, calls, preferred, accepted, owed,
                   setbacks, halted, left>>

\* sendQueued finds the task taken by a Send meanwhile: ErrBusy.
FindBusy ==
    /\ lock.pc = "claim"
    /\ ~stopping
    /\ \E r \in lock.row : Busy(r.session)
    /\ IF lock.op = "forced" THEN FallBack
       ELSE lock' = Free /\ UNCHANGED calls
    /\ UNCHANGED <<db, up, stopping, active, wakes, preferred, ghost>>

\* sendQueued fails before anything is written: the subscription is signed out
\* or gone, the provider is not registered, or the runner is shutting down.
Refuse ==
    /\ lock.pc = "claim"
    /\ \/ stopping /\ UNCHANGED left
       \/ Spend("refuse")
    /\ lock' = [lock EXCEPT !.pc = "failed"]
    /\ UNCHANGED <<db, up, stopping, active, wakes, calls, preferred, accepted,
                   owed, tries, setbacks, halted>>

\* RemoveQueuedMessage takes a row by its id.
NothingDropped == queue                         \* mutant
RowDropped == {r \in queue : \A c \in lock.row : r.id # c.id}

\* dispatch drops the row it claimed, whether the turn started or not;
\* runForced drops it when the turn started.
DropRow ==
    /\ \/ lock.op = "dispatch" /\ lock.pc \in {"started", "failed"}
       \/ lock.op = "forced" /\ lock.pc = "started"
    /\ queue' = RowDropped
    /\ calls' = IF lock.op = "forced" THEN calls \ lock.call ELSE calls
    /\ lock' = Free
    /\ UNCHANGED <<ran, unrun, status, paused, up, stopping, active, wakes,
                   preferred, ghost>>

\* RunQueueRetries: the wait of a held prompt is over, and a tick sees it.
BecomeDue ==
    /\ \E r \in queue : ~r.due /\ queue' = (queue \ {r}) \cup {[r EXCEPT !.due = TRUE]}
    /\ UNCHANGED <<ran, unrun, status, paused, proc, ghost>>

RetryTick ==
    /\ up
    /\ \E r \in Retries(queue) : r.due
    /\ wakes < MaxWakes
    /\ wakes' = wakes + 1
    /\ UNCHANGED <<db, up, stopping, active, lock, calls, preferred, ghost>>
-----------------------------------------------------------------------------
(* Send now                                                                 *)

\* ForceQueued reads the row, and finds no turn that takes prompts.
ForceCalled(r) ==
    /\ up
    /\ r \in queue
    /\ Ask("force", r.session, r.id, r.prompt)
    /\ UNCHANGED <<db, up, stopping, active, lock, wakes, preferred, accepted,
                   owed, tries, setbacks, halted>>

\* Does the prompt have to wait for a turn of its task?
InTheWay(c) == Busy(c.session)

\* Under Runner.mu: the prompt waits for its task's turn, which is cancelled,
\* or goes to runForced; a second one for the task is ErrForcePending.
ForceClaims(c) ==
    /\ c \in calls /\ c.kind = "force" /\ c.at = "called"
    /\ LET rest == calls \ {c}
           busy == InTheWay(c)
           at   == IF busy THEN "parked" ELSE "launched"
       IN IF Parked(c.session) # {} THEN calls' = rest /\ UNCHANGED active
          ELSE /\ calls' = rest \cup {[c EXCEPT !.at = at]}
               /\ active' = IF busy THEN Cancelled({c.session}) ELSE active
    /\ UNCHANGED <<db, up, stopping, lock, wakes, preferred, ghost>>

\* mutant: the row as it was when Send now was asked for
RowAsked(c) == {[id |-> c.id, session |-> c.session, prompt |-> c.prompt,
                 retries |-> 0, due |-> TRUE]}
RowFound(c) == {r \in queue : r.id = c.id}

\* runForced takes the dispatch lock and reads the row by its id.
TakeForced(c) ==
    /\ c \in calls /\ c.kind = "force" /\ c.at = "launched"
    /\ lock.op = "none"
    /\ LET found == RowFound(c)
       IN IF found = {} THEN /\ calls' = calls \ {c}
                             /\ lock' = Dispatching({c})
          ELSE /\ lock' = [Free EXCEPT !.op = "forced", !.pc = "claim",
                                       !.row = found, !.call = {c}]
               /\ UNCHANGED calls
    /\ UNCHANGED <<db, up, stopping, active, wakes, preferred, ghost>>

\* The prompt could not be started: its row stays, and dispatch follows.
FailForced ==
    /\ lock.op = "forced" /\ lock.pc = "failed"
    /\ FallBack
    /\ UNCHANGED <<db, up, stopping, active, wakes, preferred, ghost>>
-----------------------------------------------------------------------------
(* Stop, delete, pause                                                      *)

\* Both calls read the session before they take the dispatch lock.
StopCalled(s) ==
    /\ up
    /\ Ask("stop", s, 0, 0)
    /\ UNCHANGED <<db, up, stopping, active, lock, wakes, preferred, accepted,
                   owed, tries, setbacks, halted>>

DeleteCalled(r) ==
    /\ up
    /\ r \in queue
    /\ Ask("delete", r.session, r.id, r.prompt)
    /\ UNCHANGED <<db, up, stopping, active, lock, wakes, preferred, accepted,
                   owed, tries, setbacks, halted>>

TurnSeen(s) == IF Busy(s) THEN {active[s].prompt} ELSE {}

\* Stop takes the lock and looks for a turn.
TakeStop(c) ==
    /\ c \in calls /\ c.kind = "stop"
    /\ lock.op = "none"
    /\ lock' = [Free EXCEPT !.op = "stop", !.pc = "clear", !.call = {c},
                  !.turn = TurnSeen(c.session),
                  !.idle = {s \in {c.session} : ~Busy(s) /\ c.status = "waiting"}]
    /\ calls' = calls \ {c}
    /\ UNCHANGED <<db, up, stopping, active, wakes, preferred, ghost>>

QueuedPrompts(s) == {r.prompt : r \in RowsOf(queue, s)}

\* StopQueuedMessages: the task's rows become messages without a turn.  With
\* no turn and no row there is nothing to stop: ErrNotRunning.
ClearQueue ==
    /\ lock.op = "stop" /\ lock.pc = "clear"
    /\ \E c \in lock.call :
         LET gone    == RowsOf(queue, c.session)
             prompts == QueuedPrompts(c.session)
         IN /\ queue' = queue \ gone
            /\ unrun' = unrun \cup prompts
            /\ halted' = halted \cup prompts \cup lock.turn
            /\ lock' = IF lock.turn = {} /\ gone = {} THEN Free
                       ELSE [lock EXCEPT !.pc = "finish"]
    /\ UNCHANGED <<ran, status, paused, up, stopping, active, wakes, calls,
                   preferred, accepted, owed, tries, setbacks, left>>

\* DeleteQueued takes the lock, removes the row and answers a Send now that
\* waits for it.  A task left with neither a turn nor a row waits no more.
TakeDelete(c) ==
    LET gone   == {r \in queue : r.id = c.id /\ r.session = c.session}
        forced == {f \in Parked(c.session) : f.id = c.id}
    IN
    /\ c \in calls /\ c.kind = "delete"
    /\ lock.op = "none"
    /\ queue' = queue \ gone
    /\ owed' = owed \ {r.prompt : r \in gone}
    /\ halted' = halted \cup {r.prompt : r \in gone}
    /\ calls' = IF gone = {} THEN calls \ {c} ELSE calls \ ({c} \cup forced)
    /\ lock' = IF gone = {} THEN Free
               ELSE [Free EXCEPT !.op = "delete", !.pc = "finish", !.call = {c},
                       !.idle = {s \in {c.session} :
                                    /\ ~Busy(s)
                                    /\ RowsOf(queue, s) \subseteq gone
                                    /\ c.status = "waiting"}]
    /\ UNCHANGED <<ran, unrun, status, paused, up, stopping, active, wakes,
                   preferred, accepted, tries, setbacks, left>>

\* Stop cancels the turn it saw; both return a task that waited to idle, let
\* go of the lock and call schedule.
FinishCall ==
    /\ lock.op \in {"stop", "delete"} /\ lock.pc = "finish"
    /\ \E c \in lock.call :
         /\ active' = Cancelled({s \in {c.session} : active[s].prompt \in lock.turn})
    /\ status' = [s \in Sessions |-> IF s \in lock.idle THEN "idle" ELSE status[s]]
    /\ lock' = Free
    /\ wakes' = wakes + 1
    /\ UNCHANGED <<queue, ran, unrun, paused, up, stopping, calls, preferred,
                   ghost>>

Unresumed == Free                   \* mutant: resuming dispatches nothing
Resumed == IF paused THEN Dispatching({}) ELSE Free

\* SetProjectQueuePaused, under the dispatch lock; resuming dispatches.
Pause ==
    /\ up
    /\ Spend("pause")
    /\ lock.op = "none"
    /\ paused' = ~paused
    /\ lock' = Resumed
    /\ UNCHANGED <<queue, ran, unrun, status, up, stopping, active, wakes, calls,
                   preferred, accepted, owed, tries, setbacks, halted>>
-----------------------------------------------------------------------------
(* The process                                                              *)

\* StopAll, on a signal: every turn is cancelled.
Signal ==
    /\ up
    /\ Spend("signal")
    /\ active' = Cancelled(Sessions)
    /\ UNCHANGED <<db, up, stopping, lock, wakes, calls, preferred, accepted,
                   owed, tries, setbacks, halted>>

\* Shutdown: no turn starts from here, and those in flight are cancelled.
Shutdown ==
    /\ up
    /\ Spend("shutdown")
    /\ stopping' = TRUE
    /\ active' = Cancelled(Sessions)
    /\ UNCHANGED <<db, up, lock, wakes, calls, preferred, accepted, owed, tries,
                   setbacks, halted>>

\* Everything in memory is gone, wherever each goroutine was.
Down ==
    /\ up' = FALSE
    /\ stopping' = FALSE
    /\ active' = [s \in Sessions |-> NoTurn]
    /\ lock' = Free
    /\ wakes' = 0
    /\ calls' = {}
    /\ preferred' = 0

\* Shutdown waits for the turns, and then the process ends.
Exit ==
    /\ up /\ stopping /\ ~ProjectBusy
    /\ Down
    /\ UNCHANGED <<db, ghost>>

\* The row being started outlives it, and its prompt is tried once more.
Crash ==
    /\ up
    /\ Spend("crash")
    /\ Down
    /\ setbacks' = [p \in Prompts |-> IF \E r \in lock.row : r.prompt = p
                                      THEN setbacks[p] + 1 ELSE setbacks[p]]
    /\ UNCHANGED <<db, accepted, owed, tries, halted>>

StatusReset == [s \in Sessions |-> IF status[s] = "running" THEN "idle"
                                   ELSE status[s]]

\* ResetRunningSessions: no turn survives a restart.
Restart ==
    /\ ~up
    /\ up' = TRUE
    /\ status' = StatusReset
    /\ UNCHANGED <<queue, ran, unrun, paused, stopping, active, lock, wakes,
                   calls, preferred, ghost>>
-----------------------------------------------------------------------------
TurnStep(s) == \/ Record(s) \/ Launch(s) \/ FailStart(s) \/ GoAway(s)
               \/ Requeue(s) \/ Hold(s) \/ Finish(s) \/ Release(s)

HolderStep == \/ Pick \/ ClaimRow \/ FindBusy \/ Refuse \/ DropRow
              \/ FailForced \/ ClearQueue \/ FinishCall

CallStep(c) == ForceClaims(c) \/ TakeForced(c) \/ TakeStop(c) \/ TakeDelete(c)

UserStep == \/ \E s \in Sessions : Enqueue(s) \/ Send(s) \/ StopCalled(s)
            \/ \E r \in queue : ForceCalled(r) \/ DeleteCalled(r)
            \/ Pause

Next ==
    \/ UserStep
    \/ \E s \in Sessions : TurnStep(s)
    \/ \E c \in calls : CallStep(c)
    \/ TakeSchedule
    \/ HolderStep
    \/ BecomeDue
    \/ RetryTick
    \/ Signal
    \/ Shutdown
    \/ Exit
    \/ Crash
    \/ Restart

Spec == Init /\ [][Next]_vars

-----------------------------------------------------------------------------
(* Properties                                                               *)

TypeOK ==
    /\ queue \subseteq Row
    /\ ran \subseteq Prompts \X Nat
    /\ unrun \subseteq Prompts
    /\ status \in [Sessions -> Statuses]
    /\ paused \in BOOLEAN
    /\ up \in BOOLEAN
    /\ stopping \in BOOLEAN
    /\ active \in [Sessions -> Turn]
    /\ lock \in Holder
    /\ wakes \in Nat
    /\ calls \subseteq Call
    /\ preferred \in Sessions \cup {0}
    /\ accepted \in Nat
    /\ owed \subseteq Prompts
    /\ tries \in [Prompts -> Nat]
    /\ setbacks \in [Prompts -> Nat]
    /\ halted \subseteq Prompts
    /\ left \in [Kinds -> Nat]

Queued(p)      == \E r \in queue : r.prompt = p
Transcribed(p) == p \in unrun \/ \E m \in ran : m[1] = p

\* An accepted prompt the user did not delete is in the queue or in the
\* transcript, whatever fails, restarts or is stopped in between.
NothingLost == \A p \in owed : Queued(p) \/ Transcribed(p)

\* No prompt gets more turns than the first one and one for each setback.
TriedOncePerSetback == \A p \in Prompts : tries[p] <= 1 + setbacks[p]

\* The dispatcher runs one turn at a time.
OneAutomaticTurn ==
    \A s, t \in Sessions :
        active[s].by = "dispatch" /\ active[t].by = "dispatch" => s = t

\* A task shown as running has a turn.
RunningHasTurn == up => \A s \in Sessions : status[s] = "running" => Busy(s)

\* A Send now waits only for a turn that will release it.
ParkedHasTurn == \A c \in calls : c.at = "parked" => Busy(c.session)

\* When a prompt could start and nothing runs, somebody is about to look: a
\* goroutine on its way to schedule, the dispatcher, a Stop or delete that is
\* about to call it, a Send now, or
\* the retry clock, which sees a retry that is due.
Attended ==
    ~stopping /\ ~paused /\ ~ProjectBusy
       /\ NextQueuedRun(queue, preferred) # {} =>
        \/ wakes > 0
        \/ lock.op \in {"dispatch", "forced"} \/ lock.pc = "finish"
        \/ \E c \in calls : c.at = "launched"
        \/ \E r \in Retries(queue) : r.due

\* No step of the running process leaves a prompt unattended: whatever frees
\* the project or fills its queue wakes the dispatcher.  (A restart does not:
\* what it finds in the queue waits for the next such step.)
NoLostWakeup == [][up /\ up' /\ Attended => Attended']_vars

Dispatches(s) == active[s].stage = "none" /\ active'[s].stage = "claimed"
                                         /\ active'[s].by = "dispatch"

\* Nothing is dispatched from the moment a pause is stored.
PauseHolds == [][paused => \A s \in Sessions : ~Dispatches(s)]_vars

\* A prompt that was stopped or deleted gets no turn any more.
HaltedForGood == [][\A p \in halted : tries'[p] = tries[p]]_vars
-----------------------------------------------------------------------------
(* Fairness and liveness                                                    *)

\* A Go mutex does not starve a waiter, so a goroutine that wants the dispatch
\* lock gets it; the clock ticks; and a cancelled agent ends.
Responsive(s) == /\ TurnStep(s)
                 /\ active[s].stage = "running" => active[s].cancelled

Fairness ==
    /\ \A s \in Sessions : WF_vars(Responsive(s))
    /\ SF_vars(TakeSchedule)
    /\ SF_vars(\E c \in calls : CallStep(c))
    /\ WF_vars(HolderStep)
    /\ WF_vars(BecomeDue)
    /\ WF_vars(RetryTick)
    /\ WF_vars(Exit)

FairSpec == Spec /\ Fairness

\* Every request is answered, a Send now included that waits for the turn of its
\* task: nothing it waits for depends on an agent that ends by itself.
CallsReturn == <>[](calls = {})

\* If every agent ends its turn sooner or later, the queue of a process that
\* goes on drains, unless the project is paused or a prompt was dropped because
\* its start was refused.
AgentsEnd   == \A s \in Sessions : WF_vars(TurnStep(s))
QueueDrains == AgentsEnd /\ [](NothingLost /\ up /\ ~stopping) => <>[](queue = {} \/ paused)

\* Shutdown comes to an end.
ShutdownEnds == stopping ~> ~up
=============================================================================
