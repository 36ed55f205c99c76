----------------------------- MODULE Schedules -----------------------------
(***************************************************************************)
(* Scheduled jobs: app/internal/runner/schedules.go on store/schedules.go, *)
(* edited through server/api_schedules.go.                                 *)
(*                                                                         *)
(* A job is a prompt with a clock.  One goroutine looks for due jobs; each *)
(* due slot becomes a task with one queued prompt and an open run, or is   *)
(* skipped because the job still has an open run.  The run closes when the *)
(* first turn of its task ends.  A step is one statement of the database   *)
(* and what the code does around it, so that the program can stop between  *)
(* any two of them.  The project is not archived and its queue is in no    *)
(* particular order (TaskQueue has the order).                             *)
(***************************************************************************)
EXTENDS Integers, SequencesExt, FiniteSetsExt

CONSTANTS
    Jobs,
    Tasks,          \* tasks the jobs may create
    Granted,        \* job -> the number of runs asked for at first, -1 for ever
    Amounts,        \* numbers of runs that a job may be set to later
    Recurrences,    \* [calendar, step]: from now, or at the multiples of step
    MaxNow,         \* bound of the clock
    Budgets         \* how often each thing may happen; one of them does

ASSUME RecurrenceAssumption ==
    Recurrences \subseteq [calendar : BOOLEAN, step : Nat \ {0}]
ASSUME GrantedAssumption == Granted \in [Jobs -> Int] /\ \A j \in Jobs : Granted[j] >= -1
ASSUME AmountsAssumption == Amounts \subseteq Int /\ \A n \in Amounts : n >= -1
ASSUME MaxNowAssumption == MaxNow \in Nat
Kinds == {"create", "crash", "force", "prompt", "outage", "failure", "stop", "edit",
          "delete"}
ASSUME BudgetAssumption == Budgets \subseteq [Kinds -> Nat]

VARIABLES
    now,
    up, restarted,
    job,            \* schedules
    runs,           \* schedule_runs, a sequence for each job
    task,           \* sessions, with their queued prompts and their turn
    tick,           \* tickSchedules
    forced,         \* Runner.forcedScheduleRuns
    forcing,        \* RunScheduleNow calls that have not queued their prompt yet
    editing,        \* updateSchedule calls that have not booked the next run yet
    deleting,       \* deleteSession calls that have stopped the task
    left,           \* what is left of the budget
    slot,           \* history: the last slot each job was fired for
    ended           \* history: what the counter was last set to, and the runs closed
                    \* since by the end of a turn

memory == <<forced, forcing, editing, deleting>>
ghosts == <<restarted, slot, ended>>
vars   == <<now, up, job, runs, task, tick, memory, left, ghosts>>

NoJob  == [exists |-> FALSE, paused |-> FALSE, archived |-> FALSE, remaining |-> 0,
           rec |-> [calendar |-> FALSE, step |-> 0], next |-> 0]
NoEdit == [calendar |-> FALSE, step |-> 0]
Idle   == [pc |-> "idle", due |-> {}, at |-> 0, cur |-> {}, task |-> {}]
Unused == [job |-> {}, waiting |-> <<>>, held |-> FALSE, turn |-> "none",
           then |-> "none", gone |-> FALSE, byHand |-> FALSE, stranded |-> FALSE]
Closings == {"done", "error", "finished"}     \* how a run ends with its turn
Statuses == {"running", "done", "error", "finished", "interrupted", "skipped"}

Spend(kind) == left[kind] > 0 /\ left' = [left EXCEPT ![kind] = @ - 1]

Open(j)      == {i \in DOMAIN runs[j] : runs[j][i].status = "running"}
Known(s)     == task[s].job # {} /\ ~task[s].gone
\* A window learns of a task from publishSchedule, when its prompt is queued.
Shown(s)     == Known(s) /\ s \notin forcing /\ s \notin tick.task
Active(s)    == task[s].turn # "none"

FirstRun(rec, t) ==
    IF rec.calendar THEN (t \div rec.step + 1) * rec.step ELSE t + rec.step

\* An interval counts from its slot and leaves out what was missed.
AdvanceFrom(rec, prev, t) == FirstRun(rec, t - 1)             \* mutant
AdvanceRun(rec, prev, t) ==
    LET next == prev + rec.step IN
    IF rec.calendar THEN FirstRun(rec, t)
    ELSE IF next > t THEN next
    ELSE next + rec.step * ((t - next) \div rec.step + 1)

Init ==
    /\ now = 0 /\ up = TRUE /\ restarted = FALSE
    /\ job = [j \in Jobs |-> NoJob]
    /\ runs = [j \in Jobs |-> <<>>]
    /\ task = [s \in Tasks |-> Unused]
    /\ tick = Idle
    /\ forced = {} /\ forcing = {} /\ deleting = {}
    /\ editing = [j \in Jobs |-> NoEdit]
    /\ left \in Budgets
    /\ slot = [j \in Jobs |-> 0]
    /\ ended = [j \in Jobs |-> [clock |-> 0, hand |-> 0, granted |-> Granted[j]]]
-----------------------------------------------------------------------------
(* schedule_runs                                                            *)

\* FinishScheduleRun: by the task, whatever job it belongs to.
Closed(s, status) ==
    [j \in Jobs |-> [i \in DOMAIN runs[j] |->
        IF runs[j][i].task = {s} /\ runs[j][i].status = "running"
        THEN [runs[j][i] EXCEPT !.status = status] ELSE runs[j][i]]]

StartedRun(j, s) ==
    [runs EXCEPT ![j] = Append(@, [task |-> {s}, status |-> "running", count |-> 1])]

\* SkipScheduleRun: a skip after a skip extends it.
SkippedRun(j) ==
    IF runs[j] # <<>> /\ Last(runs[j]).status = "skipped"
    THEN [runs EXCEPT ![j][Len(runs[j])].count = @ + 1]
    ELSE [runs EXCEPT ![j] = Append(@, [task |-> {}, status |-> "skipped", count |-> 1])]

\* closeUnstartedScheduleRun
CloseUnstarted(s, status) ==
    /\ forced' = forced \ {s}
    /\ runs' = Closed(s, status)

\* A task of the job; its id is new.
Created(j, s, byHand) ==
    /\ task[s].job = {} /\ \A u \in Tasks : task[u].job = {} => s <= u
    /\ task' = [task EXCEPT ![s].job = {j}, ![s].byHand = byHand]
-----------------------------------------------------------------------------
(* tickSchedules                                                            *)

Elapse ==
    /\ now < MaxNow
    /\ now' = now + 1
    /\ UNCHANGED <<up, job, runs, task, tick, memory, left, ghosts>>

\* DueSchedules, and with it whether each job has an open run.
Due(j) == /\ job[j].exists /\ ~job[j].paused /\ ~job[j].archived
          /\ job[j].remaining # 0 /\ job[j].next <= now
NeverRunning(j) == FALSE                                    \* mutant
Running(j) == Open(j) # {}
DueRead ==
    /\ up /\ tick.pc = "idle"
    /\ \E j \in Jobs : Due(j)
    /\ tick' = [Idle EXCEPT !.pc = "book", !.at = now,
                   !.due = {[job |-> j, next |-> job[j].next, rec |-> job[j].rec,
                             running |-> Running(j)] : j \in {k \in Jobs : Due(k)}}]
    /\ UNCHANGED <<now, up, job, runs, task, memory, left, ghosts>>

\* fireSchedule books the next run before it does anything else.
Booked(d) == AdvanceRun(d.rec, d.next, tick.at)
Book ==
    /\ tick.pc = "book"
    /\ \E d \in tick.due :
        /\ \A e \in tick.due : d.next <= e.next
        /\ job' = IF job[d.job].exists THEN [job EXCEPT ![d.job].next = Booked(d)] ELSE job
        /\ tick' = [tick EXCEPT !.pc = "fire", !.cur = {d}, !.due = @ \ {d}]
        /\ slot' = [slot EXCEPT ![d.job] = d.next]
    /\ UNCHANGED <<now, up, runs, task, memory, left, restarted, ended>>

Skip ==
    /\ tick.pc = "fire"
    /\ \E d \in tick.cur :
        /\ d.running
        /\ runs' = IF job[d.job].exists THEN SkippedRun(d.job) ELSE runs
    /\ tick' = [tick EXCEPT !.pc = "book", !.cur = {}]
    /\ UNCHANGED <<now, up, job, task, memory, left, ghosts>>

\* CreateSession and StartScheduleRun; a job deleted meanwhile refuses the run.
Fire ==
    /\ tick.pc = "fire"
    /\ \E d \in tick.cur, s \in Tasks :
        /\ ~d.running
        /\ Created(d.job, s, FALSE)
        /\ IF job[d.job].exists
           THEN /\ runs' = StartedRun(d.job, s)
                /\ tick' = [tick EXCEPT !.pc = "queue", !.cur = {}, !.task = {s}]
           ELSE /\ tick' = [tick EXCEPT !.pc = "book", !.cur = {}]
                /\ UNCHANGED runs
    /\ UNCHANGED <<now, up, job, memory, left, ghosts>>

\* enqueue, which may fail.
QueuePrompt ==
    /\ tick.pc = "queue"
    /\ \E s \in tick.task :
        \/ /\ task' = [task EXCEPT ![s].waiting = Append(@, "job")]
           /\ UNCHANGED <<runs, forced, left>>
        \/ /\ Spend("failure")
           /\ CloseUnstarted(s, "error")
           /\ UNCHANGED task
    /\ tick' = [tick EXCEPT !.pc = "book", !.task = {}]
    /\ UNCHANGED <<now, up, job, forcing, editing, deleting, ghosts>>

TickDone ==
    /\ tick.pc = "book" /\ tick.due = {}
    /\ tick' = Idle
    /\ UNCHANGED <<now, up, job, runs, task, memory, left, ghosts>>
-----------------------------------------------------------------------------
(* RunScheduleNow                                                           *)

RunScheduleNow(j) ==
    /\ up /\ job[j].exists
    /\ Spend("force")
    /\ \E s \in Tasks :
        /\ Created(j, s, TRUE)
        /\ runs' = StartedRun(j, s)
        /\ forced' = forced \cup {s}
        /\ forcing' = forcing \cup {s}
    /\ UNCHANGED <<now, up, job, tick, editing, deleting, ghosts>>

\* Enqueue waits for the project; Send starts beside the other turns, or finds
\* the provider away, which leaves the prompt waiting.
ForcePrompt(s) ==
    /\ s \in forcing
    /\ forcing' = forcing \ {s}
    /\ \/ /\ task' = [task EXCEPT ![s].waiting = Append(@, "job")]
          /\ UNCHANGED <<runs, forced, left>>
       \/ /\ task' = [task EXCEPT ![s].turn = "job"]
          /\ UNCHANGED <<runs, forced, left>>
       \/ /\ Spend("outage")
          /\ task' = [task EXCEPT ![s].waiting = Append(@, "job"), ![s].held = TRUE]
          /\ UNCHANGED <<runs, forced>>
       \/ /\ Spend("failure")
          /\ CloseUnstarted(s, "error")
          /\ UNCHANGED task
    /\ UNCHANGED <<now, up, job, tick, editing, deleting, ghosts>>
-----------------------------------------------------------------------------
(* The tasks: what the queue and the turns do to an open run                *)

\* dispatch: the project's only turn, or a prompt that cannot start.
Dispatch(s) ==
    /\ up /\ Known(s) /\ task[s].waiting # <<>> /\ ~task[s].held
    /\ \A u \in Tasks : ~Active(u)
    /\ \/ /\ task' = [task EXCEPT ![s].waiting = Tail(@), ![s].turn = Head(task[s].waiting)]
          /\ UNCHANGED <<runs, forced, left>>
       \/ /\ Spend("failure")
          /\ task' = [task EXCEPT ![s].waiting = Tail(@)]
          /\ CloseUnstarted(s, "error")
    /\ UNCHANGED <<now, up, job, tick, forcing, editing, deleting, ghosts>>

RetryDue(s) ==
    /\ task[s].held
    /\ task' = [task EXCEPT ![s].held = FALSE]
    /\ UNCHANGED <<now, up, job, runs, tick, memory, left, ghosts>>

\* holdForOutage: the prompt waits again and the run stays open.  A task that
\* was deleted has nowhere to put it.
Held(s) ==
    /\ task[s].turn # "none" /\ task[s].then = "none" /\ ~task[s].gone
    /\ Spend("outage")
    /\ task' = [task EXCEPT ![s].waiting = <<task[s].turn>> \o @, ![s].held = TRUE,
                            ![s].then = "held"]
    /\ UNCHANGED <<now, up, job, runs, tick, memory, ghosts>>

HeldTurnOver(s) ==
    /\ task[s].then = "held"
    /\ task' = [task EXCEPT ![s].then = "none", ![s].turn = "none"]
    /\ UNCHANGED <<now, up, job, runs, tick, memory, left, ghosts>>

\* finishScheduledRun: the first turn of the task closes the run...
ClosesAny(s)  == TRUE                                       \* mutant
ClosesRun(s)  == \E j \in Jobs : \E i \in Open(j) : runs[j][i].task = {s}
TurnEnds(s, status) ==
    /\ task[s].turn # "none" /\ task[s].then = "none"
    /\ runs' = Closed(s, status)
    /\ task' = [task EXCEPT ![s].turn = IF ClosesRun(s) THEN @ ELSE "none",
                            ![s].then = IF ClosesRun(s) THEN status ELSE "none"]
    /\ ended' = [j \in Jobs |->
            IF \E i \in Open(j) : runs[j][i].task = {s}
            THEN IF task[s].byHand THEN [ended[j] EXCEPT !.hand = @ + 1]
                 ELSE [ended[j] EXCEPT !.clock = @ + 1]
            ELSE ended[j]]
    /\ UNCHANGED <<now, up, job, tick, memory, left, restarted, slot>>

\* ...spends one of the job's runs unless it was forced...
SpendRun(s) ==
    /\ task[s].then \in Closings
    /\ forced' = forced \ {s}
    /\ job' = [j \in Jobs |->
            IF task[s].job = {j} /\ s \notin forced /\ job[j].remaining > 0
            THEN [job[j] EXCEPT !.remaining = @ - 1] ELSE job[j]]
    /\ task' = IF task[s].then = "finished" THEN [task EXCEPT ![s].then = "pause"]
               ELSE [task EXCEPT ![s].then = "none", ![s].turn = "none"]
    /\ UNCHANGED <<now, up, runs, tick, forcing, editing, deleting, left, ghosts>>

\* ...and pauses the job once its finish condition is true.
PauseFinished(s) ==
    /\ task[s].then = "pause"
    /\ job' = [j \in Jobs |-> IF task[s].job = {j} THEN [job[j] EXCEPT !.paused = TRUE]
                              ELSE job[j]]
    /\ task' = [task EXCEPT ![s].then = "none", ![s].turn = "none"]
    /\ UNCHANGED <<now, up, runs, tick, memory, left, ghosts>>

\* The user prompts the task by hand, at once or through the queue.
Prompt(s) ==
    /\ up /\ Shown(s)
    /\ Spend("prompt")
    /\ \/ /\ ~Active(s)
          /\ task' = [task EXCEPT ![s].turn = "user"]
       \/ task' = [task EXCEPT ![s].waiting = Append(@, "user")]
    /\ UNCHANGED <<now, up, job, runs, tick, memory, ghosts>>

\* Stop: the prompts that wait go to the transcript, a turn is cancelled and
\* ends by itself.
LeavesRun(s) == UNCHANGED <<runs, forced>>      \* mutant: the run stays open
Unstarted(s) ==
    IF ~Active(s) /\ task[s].waiting # <<>> THEN CloseUnstarted(s, "interrupted")
    ELSE UNCHANGED <<runs, forced>>
\* The turn has put its prompt back, and will leave the run to it.
Strands(s) == task[s].stranded \/ task[s].then = "held"
Emptied(s) == [task EXCEPT ![s].waiting = <<>>, ![s].held = FALSE,
                           ![s].stranded = Strands(s)]
Stop(s) ==
    /\ up /\ Shown(s) /\ (Active(s) \/ task[s].waiting # <<>>)
    /\ Spend("stop")
    /\ task' = Emptied(s)
    /\ Unstarted(s)
    /\ UNCHANGED <<now, up, job, tick, forcing, editing, deleting, ghosts>>

\* DeleteQueued: the last prompt that waits takes the run with it.
Withdraw(s) ==
    /\ up /\ Shown(s)
    /\ Spend("stop")
    /\ \E i \in DOMAIN task[s].waiting :
        /\ task' = [task EXCEPT ![s].waiting = RemoveAt(@, i),
                                ![s].held = @ /\ i # 1,
                                ![s].stranded = @ \/ (i = 1 /\ Strands(s))]
        /\ IF Len(task[s].waiting) = 1 THEN Unstarted(s) ELSE UNCHANGED <<runs, forced>>
    /\ UNCHANGED <<now, up, job, tick, forcing, editing, deleting, ghosts>>

\* deleteSession: Stop, and then the row with its queue.
DeleteTask(s) ==
    /\ up /\ Shown(s) /\ s \notin deleting
    /\ Spend("delete")
    /\ deleting' = deleting \cup {s}
    /\ task' = Emptied(s)
    /\ Unstarted(s)
    /\ UNCHANGED <<now, up, job, tick, forcing, editing, ghosts>>

TaskDeleted(s) ==
    /\ s \in deleting
    /\ deleting' = deleting \ {s}
    /\ task' = [Emptied(s) EXCEPT ![s].gone = TRUE,
                                  ![s].stranded = @ \/ task[s].waiting # <<>>]
    /\ UNCHANGED <<now, up, job, runs, tick, forced, forcing, editing, left, ghosts>>
-----------------------------------------------------------------------------
(* The job's own page                                                       *)

\* createSchedule; the id is new.
Create(j) ==
    /\ up /\ job[j] = NoJob /\ \A k \in Jobs : job[k] = NoJob => j <= k
    /\ Spend("create")
    /\ \E rec \in Recurrences :
        job' = [job EXCEPT ![j] = [NoJob EXCEPT !.exists = TRUE, !.remaining = Granted[j],
                                                !.rec = rec, !.next = FirstRun(rec, now)]]
    /\ UNCHANGED <<now, up, runs, task, tick, memory, ghosts>>

Pause(j) ==
    /\ up /\ job[j].exists /\ ~job[j].paused
    /\ Spend("edit")
    /\ job' = [job EXCEPT ![j].paused = TRUE]
    /\ UNCHANGED <<now, up, runs, task, tick, memory, ghosts>>

\* updateSchedule: the runs that remain are written first, then a resume or a new
\* clock, and the next run is booked afterwards.
Edit(j) ==
    /\ up /\ job[j].exists /\ editing[j] = NoEdit
    /\ Spend("edit")
    /\ \/ /\ job[j].paused
          /\ job' = [job EXCEPT ![j].paused = FALSE]
          /\ editing' = [editing EXCEPT ![j] = job[j].rec]
       \/ \E rec \in Recurrences \ {job[j].rec} :
            /\ job' = [job EXCEPT ![j].rec = rec]
            /\ editing' = [editing EXCEPT ![j] = rec]
    /\ UNCHANGED <<now, up, runs, task, tick, forced, forcing, deleting, ghosts>>

\* A run that has ended but is not spent yet is spent from the new number.
Unpaid(j) == {s \in Tasks : task[s].job = {j} /\ ~task[s].byHand /\ task[s].then \in Closings}
ByHand(j) == {s \in Tasks : task[s].job = {j} /\ task[s].byHand /\ task[s].then \in Closings}
SetRemaining(j) ==
    /\ up /\ job[j].exists
    /\ Spend("edit")
    /\ \E n \in Amounts :
        /\ job' = [job EXCEPT ![j].remaining = n]
        /\ ended' = [ended EXCEPT ![j] = [clock |-> Cardinality(Unpaid(j)),
                                          hand |-> Cardinality(ByHand(j)), granted |-> n]]
    /\ UNCHANGED <<now, up, runs, task, tick, memory, restarted, slot>>

Rebook(j) ==
    /\ editing[j] # NoEdit
    /\ editing' = [editing EXCEPT ![j] = NoEdit]
    /\ job' = IF job[j].exists THEN [job EXCEPT ![j].next = FirstRun(editing[j], now)]
              ELSE job
    /\ UNCHANGED <<now, up, runs, task, tick, forced, forcing, deleting, left, ghosts>>

Archive(j) ==
    /\ up /\ job[j].exists
    /\ Spend("edit")
    /\ job' = IF job[j].archived THEN [job EXCEPT ![j].archived = FALSE]
              ELSE [job EXCEPT ![j].archived = TRUE, ![j].paused = TRUE]
    /\ UNCHANGED <<now, up, runs, task, tick, memory, ghosts>>

\* The runs go with the job, its tasks stay.
DeleteJob(j) ==
    /\ up /\ job[j].exists
    /\ Spend("edit")
    /\ job' = [job EXCEPT ![j].exists = FALSE]
    /\ runs' = [runs EXCEPT ![j] = <<>>]
    /\ UNCHANGED <<now, up, task, tick, memory, ghosts>>
-----------------------------------------------------------------------------
(* The program stops and starts                                             *)

Crash ==
    /\ up
    /\ Spend("crash")
    /\ up' = FALSE /\ restarted' = TRUE
    /\ tick' = Idle
    /\ forced' = {} /\ forcing' = {} /\ deleting' = {}
    /\ editing' = [j \in Jobs |-> NoEdit]
    /\ task' = [s \in Tasks |-> [task[s] EXCEPT !.turn = "none", !.then = "none"]]
    /\ UNCHANGED <<now, job, runs, slot, ended>>

\* ResetRunningScheduleRuns: a run whose prompt still waits stays open.
Reset ==
    [j \in Jobs |-> [i \in DOMAIN runs[j] |->
        IF /\ runs[j][i].status = "running"
           /\ \A s \in runs[j][i].task : task[s].waiting = <<>>
        THEN [runs[j][i] EXCEPT !.status = "interrupted"] ELSE runs[j][i]]]
Boot ==
    /\ ~up
    /\ up' = TRUE
    /\ runs' = Reset
    /\ UNCHANGED <<now, job, task, tick, memory, left, ghosts>>
-----------------------------------------------------------------------------
TickerStep == DueRead \/ Book \/ Skip \/ Fire \/ QueuePrompt \/ TickDone
TaskStep(s) ==
    \/ ForcePrompt(s) \/ Dispatch(s) \/ RetryDue(s) \/ Held(s)
    \/ HeldTurnOver(s)
    \/ \E status \in Closings : TurnEnds(s, status)
    \/ SpendRun(s) \/ PauseFinished(s)
    \/ Prompt(s) \/ Stop(s) \/ Withdraw(s) \/ DeleteTask(s) \/ TaskDeleted(s)
JobStep(j) == \/ Create(j) \/ RunScheduleNow(j) \/ Pause(j) \/ Edit(j) \/ SetRemaining(j)
              \/ Rebook(j) \/ Archive(j) \/ DeleteJob(j)

Next ==
    \/ Elapse \/ TickerStep
    \/ \E s \in Tasks : TaskStep(s)
    \/ \E j \in Jobs : JobStep(j)
    \/ Crash \/ Boot

Spec == Init /\ [][Next]_vars
-----------------------------------------------------------------------------
(* Properties                                                               *)

TypeOK ==
    /\ now \in 0..MaxNow /\ up \in BOOLEAN
    /\ \A j \in Jobs :
        /\ job[j].remaining >= -1
        /\ job[j].exists => job[j].rec \in Recurrences
        /\ \A i \in DOMAIN runs[j] :
            /\ runs[j][i].status \in Statuses
            /\ runs[j][i].task = {} <=> runs[j][i].status = "skipped"
        \* a stretch of skips is one row
        /\ \A i \in 2..Len(runs[j]) :
            ~(runs[j][i].status = "skipped" /\ runs[j][i - 1].status = "skipped")
    /\ \A s \in Tasks : task[s].then # "none" => task[s].turn # "none"
    /\ forced \cup forcing \cup deleting \subseteq Tasks
    /\ left \in [Kinds -> Nat]

\* specs/028 "each job can have one automatic run queued or running": runs
\* opened by the clock never overlap, whatever is forced, stopped, deleted,
\* held for a retry or restarted meanwhile.
OneAutomaticRun ==
    \A j \in Jobs :
        Cardinality({i \in Open(j) :
            \A s \in runs[j][i].task : ~task[s].byHand}) <= 1

\* schedules.go:72 "a schedule can never fire twice for one slot": each fire is
\* for a later slot than the one before, in spite of restarts between booking
\* and firing and of the edits that book in between.
OncePerSlot == [][\A d \in tick'.cur \ tick.cur : d.next > slot[d.job]]_vars

\* The counter goes down from what it was last set to with the runs that end and
\* with nothing else: never by more, and without a restart by exactly the runs the
\* clock started.
Spent(j) == IF job[j] = NoJob THEN 0 ELSE ended[j].granted - job[j].remaining
CounterIsExact == TypeOK /\
    \A j \in Jobs :
        /\ Spent(j) <= ended[j].clock + ended[j].hand
        /\ ~restarted /\ ended[j].granted >= 0 /\ job[j].exists =>
            Spent(j) = Min({ended[j].granted, ended[j].clock - Cardinality(Unpaid(j))})

\* An open run has a cause while the program runs, so that a job "is not left
\* busy forever" (specs/028): its prompt waits, its task has a turn, or the call
\* that opened it has not queued the prompt yet, unless its prompt was stopped
\* or deleted between an outage and the end of the turn that met it.
BusyHasCause ==
    up => \A j \in Jobs : \A i \in Open(j) : \A s \in runs[j][i].task :
        \/ task[s].waiting # <<>> \/ Active(s) \/ task[s].stranded
        \/ s \in forcing \/ s \in tick.task
=============================================================================
