-------------------------- MODULE TaskQueueProofs ---------------------------
(***************************************************************************)
(* Theorems about TaskQueue for every number of tasks, prompts, faults and *)
(* user actions.  The first part is about the lock and the turns.  The     *)
(* second is what the queue promises about a prompt: it is not lost, it is *)
(* not tried without a cause, nothing sleeps over it, and once halted it   *)
(* stays so.  Each promise is for the budgets that leave out what breaks   *)
(* it in the code, named in the hypothesis of its theorem; the budgets of  *)
(* the run "queueing" are such.                                            *)
(***************************************************************************)
EXTENDS TaskQueue, FiniteSetTheorems, TLAPS

\* A turn in flight has a prompt.
TurnHasPrompt == \A s \in Sessions : Busy(s) => active[s].prompt \in Prompts

\* Whoever starts a row is the dispatcher or a Send now.
Starting == lock.pc = "claim" => lock.op \in {"dispatch", "forced"}

Typed == TypeOK /\ TurnHasPrompt /\ Starting

\* The scheduler is handed rows of the queue.
LEMMA NextRunQueued ==
    ASSUME NEW q, NEW p
    PROVE  NextQueuedRun(q, p) \subseteq q
BY DEF NextQueuedRun, ReadyRow, RowsOf

\* Cancelling changes no turn but for its mark.
LEMMA CancelledTyped ==
    ASSUME Typed, NEW S
    PROVE  /\ Cancelled(S) \in [Sessions -> Turn]
           /\ \A s \in Sessions : /\ Cancelled(S)[s].stage = active[s].stage
                                  /\ Cancelled(S)[s].prompt = active[s].prompt
                                  /\ Cancelled(S)[s].by = active[s].by
BY DEF Typed, TypeOK, Cancelled, Turn

\* A bounded kind of event counts down within the naturals.
LEMMA SpendTyped ==
    ASSUME Typed, NEW kind \in Kinds, Spend(kind)
    PROVE  left' \in [Kinds -> Nat]
BY DEF Typed, TypeOK, Spend

\* An inserted row is a row.
LEMMA InsertTyped ==
    ASSUME Typed, NEW s \in Sessions, NEW p \in Prompts, NEW retries \in Nat,
           NEW due \in BOOLEAN, Insert(s, p, retries, due)
    PROVE  queue' \subseteq Row
BY DEF Typed, TypeOK, Insert, Row

\* A claimed task has a turn of the prompt it was claimed for.
LEMMA ClaimTyped ==
    ASSUME Typed, NEW s \in Sessions, NEW p \in Prompts, NEW retries \in Nat,
           NEW by \in Senders, Claim(s, p, retries, by)
    PROVE  /\ active' \in [Sessions -> Turn]
           /\ tries' \in [Prompts -> Nat]
           /\ TurnHasPrompt'
BY DEF Typed, TypeOK, TurnHasPrompt, Claim, Turn, Stages, Busy

\* A turn in flight goes on to another stage.
LEMMA StageTyped ==
    ASSUME Typed, NEW s \in Sessions, Busy(s), NEW x \in Stages, Stage(s, x)
    PROVE  active' \in [Sessions -> Turn] /\ TurnHasPrompt'
BY DEF Typed, TypeOK, TurnHasPrompt, Busy, Stage, Turn

\* The places a holder of the dispatch lock goes to.
LEMMA FreeTyped == Free \in Holder /\ Free.op = "none" /\ Free.pc = "pick"
BY DEF Free, Holder

\* The holder that runs dispatch, for a call or for none.
LEMMA DispatchingTyped ==
    ASSUME NEW C \in SUBSET Call
    PROVE  /\ Dispatching(C) \in Holder
           /\ Dispatching(C).op = "dispatch"
           /\ Dispatching(C).pc = "pick"
BY DEF Dispatching, Free, Holder

\* A holder that goes on to another place keeps the rest.
LEMMA MovedTyped ==
    ASSUME NEW h \in Holder,
           NEW pc \in {"claim", "sending", "started", "failed", "finish"}
    PROVE  /\ [h EXCEPT !.pc = pc] \in Holder
           /\ [h EXCEPT !.pc = pc].op = h.op
           /\ [h EXCEPT !.pc = pc].pc = pc
BY DEF Holder

\* Counting one up at a prompt stays within the naturals.
LEMMA RaisedTyped ==
    ASSUME NEW f \in [Prompts -> Nat], NEW p
    PROVE  [f EXCEPT ![p] = @ + 1] \in [Prompts -> Nat]
<1> DEFINE g == [f EXCEPT ![p] = @ + 1]
<1>1. g = [x \in Prompts |-> IF x = p THEN f[x] + 1 ELSE f[x]]
  OBVIOUS
<1>2. \A x \in Prompts : (IF x = p THEN f[x] + 1 ELSE f[x]) \in Nat
  OBVIOUS
<1> QED BY <1>1, <1>2

\* The free task is a turn record as well.
LEMMA NoTurnTyped == NoTurn \in Turn
BY DEF NoTurn, Turn, Stages, Senders

\* The initial states are typed.
LEMMA InitTyped == Init => Typed
<1> SUFFICES ASSUME Init PROVE Typed
  OBVIOUS
<1>1. lock \in Holder
  BY FreeTyped, DispatchingTyped, MovedTyped DEF Init
<1>2. active \in [Sessions -> Turn] /\ TurnHasPrompt
  BY NoTurnTyped DEF Init, TurnHasPrompt, Busy, NoTurn
<1>3. up \in BOOLEAN /\ stopping \in BOOLEAN /\ paused \in BOOLEAN
  BY Zenon DEF Init
<1>4. /\ status \in [Sessions -> Statuses]
      /\ tries \in [Prompts -> Nat]
      /\ setbacks \in [Prompts -> Nat]
      /\ left \in [Kinds -> Nat]
  BY BudgetAssumption DEF Init, Statuses
<1>5. Starting
  BY DEF Init, Free, Starting
<1> QED BY <1>1, <1>2, <1>3, <1>4, <1>5 DEF Init, Typed, TypeOK

\* Every step of a turn keeps the types.
LEMMA TurnTyped ==
    ASSUME Typed, NEW s \in Sessions, TurnStep(s)
    PROVE  TypeOK' /\ TurnHasPrompt'
<1> USE DEF Typed, TypeOK, db, ghost
<1>a. active' = active => TurnHasPrompt'
  BY DEF TurnHasPrompt, Busy
<1>1. CASE Record(s)
  <2>1. active' \in [Sessions -> Turn] /\ TurnHasPrompt'
    BY <1>1, StageTyped DEF Record, Stages, Busy
  <2>2. active[s].prompt \in Prompts /\ Copy(s) \in Prompts \X Nat
    BY <1>1 DEF Record, TurnHasPrompt, Busy, Copy
  <2> QED BY <1>1, <2>1, <2>2 DEF Record, Statuses
<1>2. CASE Launch(s)
  <2>1. active' \in [Sessions -> Turn] /\ TurnHasPrompt'
    <3>1. [active[s] EXCEPT !.stage = "running", !.started = TRUE] \in Turn
      BY DEF Turn, Stages
    <3> QED BY <1>2, <3>1 DEF Launch, TurnHasPrompt, Busy
  <2>2. lock' \in Holder
    BY <1>2, FreeTyped, DispatchingTyped, MovedTyped DEF Launch
  <2> QED BY <1>2, <2>1, <2>2 DEF Launch
<1>3. CASE FailStart(s)
  <2>1. active' \in [Sessions -> Turn] /\ TurnHasPrompt'
    BY <1>3, StageTyped DEF FailStart, Stages, Busy
  <2>2. left' \in [Kinds -> Nat]
    BY <1>3, SpendTyped DEF FailStart, Kinds
  <2>3. setbacks' \in [Prompts -> Nat]
    BY <1>3, RaisedTyped DEF FailStart
  <2>4. status' \in [Sessions -> Statuses]
    BY <1>3 DEF FailStart, Statuses
  <2> QED BY <1>3, <2>1, <2>2, <2>3, <2>4 DEF FailStart
<1>4. CASE GoAway(s)
  <2>1. active' \in [Sessions -> Turn] /\ TurnHasPrompt'
    BY <1>4, StageTyped DEF GoAway, Stages, Busy
  <2>2. left' \in [Kinds -> Nat]
    BY <1>4, SpendTyped DEF GoAway, Kinds
  <2>3. setbacks' \in [Prompts -> Nat]
    BY <1>4, RaisedTyped DEF GoAway
  <2> QED BY <1>4, <2>1, <2>2, <2>3 DEF GoAway
<1>5. CASE Requeue(s)
  <2>1. active' \in [Sessions -> Turn] /\ TurnHasPrompt'
    BY <1>5, StageTyped DEF Requeue, Stages, Busy
  <2>2. active[s].prompt \in Prompts /\ active[s].retries + 1 \in Nat
    BY <1>5 DEF Requeue, Turn, TurnHasPrompt, Busy
  <2>3. queue' \subseteq Row
    BY <1>5, <2>2, InsertTyped DEF Requeue
  <2> QED BY <1>5, <2>1, <2>3 DEF Requeue
<1>6. CASE Hold(s)
  <2>1. active' \in [Sessions -> Turn] /\ TurnHasPrompt'
    BY <1>6, StageTyped DEF Hold, Stages, Busy
  <2> QED BY <1>6, <2>1 DEF Hold, Statuses
<1>7. CASE Finish(s)
  <2>1. active' \in [Sessions -> Turn] /\ TurnHasPrompt'
    BY <1>7, StageTyped DEF Finish, Stages, Busy
  <2> QED BY <1>7, <2>1 DEF Finish, Statuses
<1>8. CASE Release(s)
  <2>1. active' \in [Sessions -> Turn] /\ TurnHasPrompt'
    BY <1>8, NoTurnTyped DEF Release, TurnHasPrompt, Busy, NoTurn
  <2>2. calls' \subseteq Call
    <3>1. \A c \in Parked(s) : [c EXCEPT !.at = "launched"] \in Call
      BY DEF Parked, Call
    <3> QED BY <1>8, <3>1 DEF Release, Parked
  <2>3. lock' \in Holder
    BY <1>8, MovedTyped DEF Release
  <2>4. wakes' \in Nat
    BY <1>8 DEF Release, WakesAfter
  <2> QED BY <1>8, <2>1, <2>2, <2>3, <2>4 DEF Release
<1> QED BY <1>1, <1>2, <1>3, <1>4, <1>5, <1>6, <1>7, <1>8 DEF TurnStep

\* Every step of the holder of the dispatch lock keeps the types.
LEMMA HolderTyped ==
    ASSUME Typed, HolderStep
    PROVE  TypeOK' /\ TurnHasPrompt'
<1> USE DEF Typed, TypeOK, db, ghost
<1>a. active' = active => TurnHasPrompt'
  BY DEF TurnHasPrompt, Busy
<1>1. CASE Pick
  <2> DEFINE next == IF Held THEN {} ELSE NextQueuedRun(queue, preferred)
  <2>1. [lock EXCEPT !.pc = "claim", !.row = next] \in Holder
    BY NextRunQueued DEF Holder
  <2>2. lock' \in Holder /\ preferred' \in Sessions \cup {0}
    BY <1>1, <2>1, FreeTyped, DispatchingTyped, MovedTyped DEF Pick
  <2> QED BY <1>1, <1>a, <2>2 DEF Pick
<1>2. CASE ClaimRow
  <2>1. PICK r \in lock.row : Claim(r.session, r.prompt, r.retries, lock.op)
    BY <1>2 DEF ClaimRow
  <2>2. lock.op \in Senders
    BY <1>2 DEF ClaimRow, Starting, Senders
  <2>3. r.session \in Sessions /\ r.prompt \in Prompts /\ r.retries \in Nat
    BY DEF Holder, Row
  <2>4. /\ active' \in [Sessions -> Turn]
        /\ tries' \in [Prompts -> Nat]
        /\ TurnHasPrompt'
    BY <2>1, <2>2, <2>3, ClaimTyped
  <2> QED BY <1>2, <2>4, FreeTyped, DispatchingTyped, MovedTyped DEF ClaimRow
<1>3. CASE FindBusy
  <2>1. lock.call \in SUBSET Call
    BY DEF Holder
  <2>2. lock' \in Holder /\ calls' \subseteq Call
    BY <1>3, <2>1, FreeTyped, DispatchingTyped, MovedTyped DEF FindBusy, FallBack
  <2> QED BY <1>3, <1>a, <2>2 DEF FindBusy
<1>4. CASE Refuse
  BY <1>4, <1>a, SpendTyped, FreeTyped, DispatchingTyped, MovedTyped DEF Refuse, Kinds
<1>5. CASE DropRow
  BY <1>5, <1>a, FreeTyped, DispatchingTyped, MovedTyped DEF DropRow, RowDropped
<1>6. CASE FailForced
  <2>1. lock.call \in SUBSET Call
    BY DEF Holder
  <2> QED BY <1>6, <1>a, <2>1, FreeTyped, DispatchingTyped, MovedTyped DEF FailForced, FallBack
<1>7. CASE ClearQueue
  <2>1. PICK c \in lock.call :
            /\ unrun' = unrun \cup QueuedPrompts(c.session)
            /\ halted' = halted \cup QueuedPrompts(c.session) \cup lock.turn
            /\ queue' = queue \ RowsOf(queue, c.session)
            /\ lock' \in {Free, [lock EXCEPT !.pc = "finish"]}
    BY <1>7 DEF ClearQueue
  <2>2. QueuedPrompts(c.session) \subseteq Prompts /\ lock.turn \subseteq Prompts
    BY DEF QueuedPrompts, RowsOf, Row, Holder
  <2> QED BY ZenonT(40), <1>7, <1>a, <2>1, <2>2, FreeTyped, DispatchingTyped, MovedTyped DEF ClearQueue
<1>8. CASE FinishCall
  <2>1. PICK c \in lock.call :
            /\ active' = Cancelled({s \in {c.session} :
                                        active[s].prompt \in lock.turn})
    BY <1>8 DEF FinishCall
  <2>2. active' \in [Sessions -> Turn] /\ TurnHasPrompt'
    BY <2>1, CancelledTyped DEF TurnHasPrompt, Busy
  <2>3. status' \in [Sessions -> Statuses]
    BY <1>8 DEF FinishCall, Statuses
  <2>4. lock' \in Holder
    BY <1>8, FreeTyped DEF FinishCall
  <2> QED BY <1>8, <2>2, <2>3, <2>4 DEF FinishCall
<1> QED BY <1>1, <1>2, <1>3, <1>4, <1>5, <1>6, <1>7, <1>8 DEF HolderStep

\* A call that starts is a call.
LEMMA AskTyped ==
    ASSUME Typed, NEW kind \in {"stop", "delete", "force"}, NEW s \in Sessions,
           NEW id \in RowIds \cup {0}, NEW p \in Prompts \cup {0},
           Ask(kind, s, id, p)
    PROVE  calls' \subseteq Call /\ left' \in [Kinds -> Nat]
<1>1. left[kind] \in Nat /\ status[s] \in Statuses
  BY DEF Typed, TypeOK, Kinds
<1>2. [kind |-> kind, no |-> left[kind], session |-> s, id |-> id, prompt |-> p,
       status |-> status[s], at |-> "called"] \in Call
  BY <1>1 DEF Call
<1>3. left' \in [Kinds -> Nat]
  BY SpendTyped DEF Ask, Kinds
<1> QED BY <1>2, <1>3 DEF Ask, Typed, TypeOK

\* Every step of a Stop, a delete and a Send now keeps the types.
LEMMA CallTyped ==
    ASSUME Typed, NEW c \in calls, CallStep(c)
    PROVE  TypeOK' /\ TurnHasPrompt'
<1> USE DEF Typed, TypeOK, db, ghost
<1>a. active' = active => TurnHasPrompt'
  BY DEF TurnHasPrompt, Busy
<1>1. CASE ForceClaims(c)
  <2>1. \A at \in {"parked", "launched"} : [c EXCEPT !.at = at] \in Call
    BY DEF Call
  <2>2. active' \in {active, Cancelled({c.session})} /\ calls' \subseteq Call
    BY <1>1, <2>1 DEF ForceClaims
  <2>3. active' \in [Sessions -> Turn] /\ TurnHasPrompt'
    BY <2>2, CancelledTyped DEF TurnHasPrompt, Busy
  <2> QED BY <1>1, <2>2, <2>3 DEF ForceClaims
<1>2. CASE TakeForced(c)
  <2>1. {c} \in SUBSET Call /\ RowFound(c) \in SUBSET Row
    BY DEF RowFound
  <2>2. [Free EXCEPT !.op = "forced", !.pc = "claim", !.row = RowFound(c),
                     !.call = {c}] \in Holder
    BY <2>1 DEF Free, Holder
  <2>3. lock' \in Holder /\ calls' \subseteq Call
    BY <1>2, <2>1, <2>2, FreeTyped, DispatchingTyped, MovedTyped DEF TakeForced
  <2> QED BY <1>2, <1>a, <2>3 DEF TakeForced
<1>3. CASE TakeStop(c)
  <2>1. TurnSeen(c.session) \subseteq Prompts
    BY DEF TurnSeen, Call, TurnHasPrompt
  <2>2. lock' \in Holder
    BY ZenonT(40), <1>3, <2>1 DEF TakeStop, Free, Holder, Call
  <2> QED BY <1>3, <1>a, <2>2 DEF TakeStop
<1>4. CASE TakeDelete(c)
  <2> DEFINE gone == {r \in queue : r.id = c.id /\ r.session = c.session}
  <2>1. {r.prompt : r \in gone} \subseteq Prompts
    BY DEF Row
  <2> DEFINE idle == {s \in {c.session} : /\ ~Busy(s)
                                          /\ RowsOf(queue, s) \subseteq gone
                                          /\ c.status = "waiting"}
  <2>2. lock' \in Holder
    <3>1. idle \in SUBSET Sessions
      BY DEF Call
    <3>2. lock' \in {Free, [Free EXCEPT !.op = "delete", !.pc = "finish",
                                       !.call = {c}, !.idle = idle]}
      BY <1>4 DEF TakeDelete
    <3> HIDE DEF idle
    <3>3. [Free EXCEPT !.op = "delete", !.pc = "finish", !.call = {c},
                       !.idle = idle] \in Holder
      BY <3>1 DEF Free, Holder
    <3> QED BY <3>2, <3>3, FreeTyped
  <2>3. /\ queue' = queue \ gone
        /\ owed' = owed \ {r.prompt : r \in gone}
        /\ halted' = halted \cup {r.prompt : r \in gone}
        /\ calls' \subseteq calls
    BY <1>4 DEF TakeDelete
  <2> QED BY <1>4, <1>a, <2>1, <2>2, <2>3 DEF TakeDelete
<1> QED BY <1>1, <1>2, <1>3, <1>4 DEF CallStep

\* Every step of the user keeps the types.
LEMMA UserTyped ==
    ASSUME Typed, UserStep
    PROVE  TypeOK' /\ TurnHasPrompt'
<1> USE DEF Typed, TypeOK, db, ghost
<1>a. active' = active => TurnHasPrompt'
  BY DEF TurnHasPrompt, Busy
<1>1. ASSUME NEW s \in Sessions, Enqueue(s) PROVE TypeOK' /\ TurnHasPrompt'
  <2>1. queue' \subseteq Row
    BY <1>1, InsertTyped DEF Enqueue
  <2> QED BY <1>1, <1>a, <2>1, PromptsAssumption DEF Enqueue
<1>2. ASSUME NEW s \in Sessions, Send(s) PROVE TypeOK' /\ TurnHasPrompt'
  BY <1>2, ClaimTyped, SpendTyped, PromptsAssumption DEF Send, Senders, Kinds
<1>3. ASSUME NEW s \in Sessions, StopCalled(s) PROVE TypeOK' /\ TurnHasPrompt'
  BY <1>3, <1>a, AskTyped DEF StopCalled
<1>4. ASSUME NEW r \in queue, ForceCalled(r) PROVE TypeOK' /\ TurnHasPrompt'
  BY <1>4, <1>a, AskTyped DEF ForceCalled, Row
<1>5. ASSUME NEW r \in queue, DeleteCalled(r) PROVE TypeOK' /\ TurnHasPrompt'
  BY <1>5, <1>a, AskTyped DEF DeleteCalled, Row
<1>6. CASE Pause
  BY <1>6, <1>a, SpendTyped, FreeTyped, DispatchingTyped, MovedTyped DEF Pause, Resumed, Kinds
<1> QED BY <1>1, <1>2, <1>3, <1>4, <1>5, <1>6 DEF UserStep

\* The clocks, the signal and the end and restart of the process keep the types.
LEMMA ProcessTyped ==
    ASSUME Typed,
           Signal \/ Shutdown \/ Exit \/ Crash \/ Restart
    PROVE  TypeOK' /\ TurnHasPrompt'
<1> USE DEF Typed, TypeOK, db, ghost
<1>a. active' = active => TurnHasPrompt'
  BY DEF TurnHasPrompt, Busy
<1>1. CASE Signal
  <2>1. active' \in [Sessions -> Turn] /\ TurnHasPrompt'
    BY <1>1, CancelledTyped DEF Signal, TurnHasPrompt, Busy
  <2> QED BY <1>1, <2>1, SpendTyped DEF Signal, Kinds
<1>2. CASE Shutdown
  <2>1. active' \in [Sessions -> Turn] /\ TurnHasPrompt'
    BY <1>2, CancelledTyped DEF Shutdown, TurnHasPrompt, Busy
  <2> QED BY <1>2, <2>1, SpendTyped DEF Shutdown, Kinds
<1>b. Down => active' \in [Sessions -> Turn] /\ TurnHasPrompt'
  BY NoTurnTyped DEF Down, TurnHasPrompt, Busy, NoTurn
<1>3. CASE Exit
  BY <1>3, <1>b, FreeTyped, DispatchingTyped, MovedTyped DEF Exit, Down
<1>4. CASE Crash
  <2>1. setbacks' \in [Prompts -> Nat]
    BY <1>4 DEF Crash
  <2> QED BY <1>4, <1>b, <2>1, SpendTyped, FreeTyped DEF Crash, Down, Kinds
<1>5. CASE Restart
  BY <1>5, <1>a DEF Restart, StatusReset, Statuses
<1> QED BY <1>1, <1>2, <1>3, <1>4, <1>5

\* The holder of the lock comes to claim a task by picking a row, or as a Send
\* now; no other step leaves it there and changes the lock or the pause.
LEMMA ComesToClaim ==
    ASSUME Typed, [Next]_vars, lock'.pc = "claim"
    PROVE  \/ lock' = lock /\ paused' = paused
           \/ Pick
           \/ \E c \in calls : TakeForced(c)
<1> DEFINE Goal == lock' = lock /\ paused' = paused
<1>1. lock \in Holder /\ lock.call \in SUBSET Call
  BY DEF Typed, TypeOK, Holder
<1>2. ASSUME NEW s \in Sessions, TurnStep(s) PROVE Goal
  <2>1. /\ paused' = paused
        /\ \/ lock' = lock
           \/ lock' = [lock EXCEPT !.pc = "started"]
           \/ lock' = [lock EXCEPT !.pc = "failed"]
    BY <1>2 DEF TurnStep, Record, Launch, FailStart, GoAway, Requeue, Hold, Finish,
                Release, db
  <2> QED BY <1>1, <2>1, MovedTyped
<1>3. ASSUME NEW c \in calls, CallStep(c), ~TakeForced(c) PROVE Goal
  <2>1. CASE ForceClaims(c)
    BY <2>1 DEF ForceClaims, db
  <2>2. CASE TakeStop(c)
    BY <2>2 DEF TakeStop, Free
  <2>3. CASE TakeDelete(c)
    BY <2>3 DEF TakeDelete, Free
  <2> QED BY <1>3, <2>1, <2>2, <2>3 DEF CallStep
<1>4. ASSUME HolderStep, ~Pick PROVE Goal
  <2>1. \/ lock' = Free
        \/ lock' = Dispatching(lock.call)
        \/ lock' = [lock EXCEPT !.pc = "sending"]
        \/ lock' = [lock EXCEPT !.pc = "failed"]
        \/ lock' = [lock EXCEPT !.pc = "finish"]
    BY <1>4 DEF HolderStep, ClaimRow, FindBusy, Refuse, DropRow, FailForced,
                FallBack, ClearQueue, FinishCall
  <2> QED BY <1>1, <2>1, FreeTyped, DispatchingTyped, MovedTyped
<1>5. ASSUME UserStep PROVE Goal
  <2>1. \/ lock' = lock /\ paused' = paused
        \/ lock' = Dispatching({})
        \/ lock' = Free
    BY <1>5 DEF UserStep, Enqueue, Send, StopCalled, ForceCalled, DeleteCalled,
                Pause, Resumed, db
  <2> QED BY <2>1, FreeTyped, DispatchingTyped
<1>6. ASSUME \/ TakeSchedule \/ BecomeDue \/ RetryTick \/ Signal \/ Shutdown
             \/ Exit \/ Crash \/ Restart \/ UNCHANGED vars
      PROVE  Goal
  <2>1. \/ lock' = lock /\ paused' = paused
        \/ lock' = Dispatching({})
        \/ lock' = Free
    BY <1>6 DEF TakeSchedule, BecomeDue, RetryTick, Signal, Shutdown, Exit, Crash,
                Restart, Down, vars, db, proc
  <2> QED BY <2>1, FreeTyped, DispatchingTyped
<1> QED BY <1>2, <1>3, <1>4, <1>5, <1>6, Zenon DEF Next

\* Whoever sends or claims a row under the lock has one.
LEMMA StartingKept == ASSUME Typed, [Next]_vars PROVE Starting'
<1> SUFFICES ASSUME lock'.pc = "claim" PROVE lock'.op \in {"dispatch", "forced"}
  BY DEF Starting
<1>1. CASE lock' = lock
  BY <1>1 DEF Typed, Starting
<1>2. CASE Pick
  BY <1>2 DEF Pick, Free, Typed, TypeOK, Holder
<1>3. ASSUME NEW c \in calls, TakeForced(c) PROVE lock'.op = "forced"
  BY <1>3 DEF TakeForced, Free, Dispatching
<1> QED BY <1>1, <1>2, <1>3, ComesToClaim

\* Every step keeps the types, and the facts of turns and of rows that go with them.
LEMMA TypedKept == ASSUME Typed, [Next]_vars PROVE Typed'
<1> USE StartingKept DEF TypeOK, TurnHasPrompt, Busy
<1>1. CASE TakeSchedule
  <2>1. lock' \in Holder /\ wakes' \in Nat
    BY <1>1, DispatchingTyped DEF TakeSchedule, Typed
  <2> QED BY <1>1, <2>1 DEF TakeSchedule, Typed, db, ghost
<1>2. CASE BecomeDue
  BY <1>2 DEF BecomeDue, Typed, proc, ghost, Row
<1>3. CASE RetryTick
  BY <1>3 DEF RetryTick, Typed, db, ghost
<1>4. CASE UNCHANGED vars
  BY <1>4 DEF vars, db, proc, ghost, Typed
<1>5. ASSUME TypeOK' /\ TurnHasPrompt' PROVE Typed'
  BY <1>5 DEF Typed
<1> QED BY <1>1, <1>2, <1>3, <1>4, <1>5, TurnTyped, HolderTyped, CallTyped,
           UserTyped, ProcessTyped, Zenon DEF Next

\* No step of the program leaves the types: a turn in flight always has a
\* prompt, a claimed row is a row, and no counter goes below zero.
THEOREM TypeCorrect == Spec => []TypeOK
<1>1. Typed /\ [Next]_vars => Typed'
  BY TypedKept
<1> QED BY <1>1, InitTyped, PTL DEF Spec, Typed
-----------------------------------------------------------------------------
(* Turns, the calls that wait for them, and the dispatcher                  *)

\* No task is taken or released by the step, whatever else it does to turns.
SameTurns == \A s \in Sessions : /\ active'[s].by = active[s].by
                                 /\ Busy(s)' <=> Busy(s)

\* Tasks are taken by Send and by the holder of the dispatch lock, and freed
\* by the release of their turn and by the end of the process.
LEMMA TurnsChange ==
    ASSUME Typed, [Next]_vars
    PROVE  \/ SameTurns
           \/ \E s \in Sessions : Send(s) \/ Release(s)
           \/ ClaimRow
           \/ Down
<1>1. active' = active => SameTurns
  BY DEF SameTurns, Busy
<1>2. ASSUME NEW S, active' = Cancelled(S) PROVE SameTurns
  BY <1>2, CancelledTyped DEF SameTurns, Busy
<1>3. ASSUME NEW s \in Sessions, Busy(s), NEW x, x # "none", Stage(s, x)
      PROVE  SameTurns
  BY <1>3 DEF SameTurns, Busy, Stage, Typed, TypeOK, Turn
<1>4. ASSUME NEW s \in Sessions, TurnStep(s), ~Release(s) PROVE SameTurns
  <2>1. CASE Launch(s)
    BY <2>1 DEF Launch, SameTurns, Busy, Typed, TypeOK, Turn
  <2> QED BY <1>3, <1>4, <2>1 DEF TurnStep, Record, FailStart, GoAway, Requeue, Hold,
                                  Finish, Busy
<1>5. ASSUME HolderStep, ~ClaimRow PROVE SameTurns
  BY <1>1, <1>2, <1>5 DEF HolderStep, Pick, FindBusy, Refuse, DropRow, FailForced,
                          ClearQueue, FinishCall
<1>6. ASSUME NEW c \in calls, CallStep(c) PROVE SameTurns
  BY <1>1, <1>2, <1>6 DEF CallStep, ForceClaims, TakeForced, TakeStop, TakeDelete
<1>7. ASSUME UserStep, \A s \in Sessions : ~Send(s) PROVE SameTurns
  BY <1>1, <1>7 DEF UserStep, Enqueue, StopCalled, ForceCalled, DeleteCalled, Pause
<1>8. ASSUME \/ TakeSchedule \/ BecomeDue \/ RetryTick \/ Signal \/ Shutdown
             \/ Restart \/ UNCHANGED vars
      PROVE  SameTurns
  BY <1>1, <1>2, <1>8 DEF TakeSchedule, BecomeDue, RetryTick, Signal, Shutdown,
                          Restart, vars, proc
<1> QED BY <1>4, <1>5, <1>6, <1>7, <1>8 DEF Next, Exit, Crash

\* A free task keeps nothing of the turn it had.
FreeIsDirect == \A s \in Sessions : ~Busy(s) => active[s].by = "direct"

\* Only the claim of a task says by whom; its release takes it back.
LEMMA FreeIsDirectKept ==
    ASSUME Typed, FreeIsDirect, [Next]_vars
    PROVE  FreeIsDirect'
<1> USE DEF FreeIsDirect, Busy, Typed, TypeOK
<1>1. CASE SameTurns
  BY <1>1 DEF SameTurns
<1>2. ASSUME NEW s \in Sessions, Send(s) PROVE FreeIsDirect'
  BY <1>2 DEF Send, Claim
<1>3. ASSUME NEW s \in Sessions, Release(s) PROVE FreeIsDirect'
  BY <1>3 DEF Release, NoTurn
<1>4. CASE ClaimRow
  BY <1>4 DEF ClaimRow, Claim
<1>5. CASE Down
  BY <1>5 DEF Down, NoTurn
<1> QED BY <1>1, <1>2, <1>3, <1>4, <1>5, TurnsChange

\* Between the moment the dispatcher picks a row and the moment it takes the
\* task, the project stays unpaused and no dispatched turn is in flight.
ClaimAlone ==
    lock.op = "dispatch" /\ lock.pc = "claim" =>
        ~paused /\ \A s \in Sessions : active[s].by # "dispatch"

\* Between picking a row and claiming its task nobody else dispatches: the
\* lock excludes it, and a pause waits for the lock.
LEMMA ClaimAloneKept ==
    ASSUME Typed, FreeIsDirect, ClaimAlone, [Next]_vars
    PROVE  ClaimAlone'
<1> SUFFICES ASSUME lock'.op = "dispatch", lock'.pc = "claim"
             PROVE  ~paused' /\ \A s \in Sessions : active'[s].by # "dispatch"
  BY DEF ClaimAlone
<1>1. CASE Pick
  <2>1. ~Held /\ active' = active /\ paused' = paused
    BY <1>1 DEF Pick, Free, db
  <2> QED BY <2>1 DEF Held, ProjectBusy, FreeIsDirect
<1>2. ASSUME NEW c \in calls, TakeForced(c) PROVE lock'.pc = "pick" \/ lock'.op = "forced"
  BY <1>2 DEF TakeForced, Free, Dispatching
<1>3. CASE lock' = lock /\ paused' = paused
  <2>1. ~paused' /\ \A s \in Sessions : active[s].by # "dispatch"
    BY <1>3 DEF ClaimAlone
  <2>2. CASE SameTurns
    BY <2>1, <2>2 DEF SameTurns
  <2>3. ASSUME NEW t \in Sessions, Send(t)
        PROVE  \A s \in Sessions : active'[s].by # "dispatch"
    BY <2>1, <2>3 DEF Send, Claim, Typed, TypeOK
  <2>4. ASSUME NEW t \in Sessions, Release(t)
        PROVE  \A s \in Sessions : active'[s].by # "dispatch"
    BY <2>1, <2>4 DEF Release, NoTurn, Typed, TypeOK
  <2>5. ~ClaimRow
    BY <1>3, MovedTyped DEF ClaimRow, Typed, TypeOK
  <2>6. CASE Down
    BY <2>1, <2>6 DEF Down, NoTurn
  <2> QED BY <2>1, <2>2, <2>3, <2>4, <2>5, <2>6, TurnsChange
<1> QED BY <1>1, <1>2, <1>3, ComesToClaim

\* A dispatched turn begins only from ClaimRow, where there is no other.
LEMMA OneAutomaticTurnKept ==
    ASSUME Typed, OneAutomaticTurn, ClaimAlone, [Next]_vars
    PROVE  OneAutomaticTurn'
<1> USE DEF OneAutomaticTurn, Typed, TypeOK
<1>1. CASE SameTurns
  BY <1>1 DEF SameTurns
<1>2. ASSUME NEW s \in Sessions, Send(s) PROVE OneAutomaticTurn'
  BY <1>2 DEF Send, Claim
<1>3. ASSUME NEW s \in Sessions, Release(s) PROVE OneAutomaticTurn'
  BY <1>3 DEF Release, NoTurn
<1>4. CASE ClaimRow
  <2>1. PICK r \in lock.row : Claim(r.session, r.prompt, r.retries, lock.op)
    BY <1>4 DEF ClaimRow
  <2>2. \A s \in Sessions \ {r.session} : active'[s] = active[s]
    BY <2>1 DEF Claim
  <2>3. CASE lock.op = "dispatch"
    BY <1>4, <2>2, <2>3 DEF ClaimRow, ClaimAlone
  <2>4. CASE lock.op # "dispatch"
    BY <2>1, <2>2, <2>4 DEF Claim
  <2> QED BY <2>3, <2>4
<1>5. CASE Down
  BY <1>5 DEF Down, NoTurn
<1> QED BY <1>1, <1>2, <1>3, <1>4, <1>5, TurnsChange

Alone == Typed /\ FreeIsDirect /\ ClaimAlone /\ OneAutomaticTurn

\* The strengthened invariant holds initially.
LEMMA AloneInit == Init => Alone
BY InitTyped DEF Init, Alone, FreeIsDirect, ClaimAlone, OneAutomaticTurn, NoTurn, Busy,
                 Free

\* The strengthened invariant is inductive.
LEMMA AloneKept == Alone /\ [Next]_vars => Alone'
BY TypedKept, FreeIsDirectKept, ClaimAloneKept, OneAutomaticTurnKept DEF Alone

\* However sends, Send now, Stop, retries, crashes and the goroutines that call
\* schedule interleave, the dispatcher never has two turns of its own in flight.
THEOREM OneDispatchedTurn == Spec => []OneAutomaticTurn
<1>1. Alone => OneAutomaticTurn
  BY DEF Alone
<1> QED BY <1>1, AloneInit, AloneKept, PTL DEF Spec

\* A pause that is stored holds the dispatcher, even one that had picked a row.
THEOREM PauseHoldsDispatch == Spec => PauseHolds
<1>1. Alone /\ [Next]_vars => [paused => \A s \in Sessions : ~Dispatches(s)]_vars
  <2> SUFFICES ASSUME Alone, [Next]_vars, paused, NEW s \in Sessions, Dispatches(s)
               PROVE  FALSE
    OBVIOUS
  <2> USE DEF Alone, Typed, TypeOK, Dispatches, Busy
  <2>1. CASE SameTurns
    BY <2>1 DEF SameTurns
  <2>2. ASSUME NEW t \in Sessions, Send(t) PROVE FALSE
    BY <2>2 DEF Send, Claim
  <2>3. ASSUME NEW t \in Sessions, Release(t) PROVE FALSE
    BY <2>3 DEF Release, NoTurn
  <2>4. CASE ClaimRow
    <3>1. PICK r \in lock.row : Claim(r.session, r.prompt, r.retries, lock.op)
      BY <2>4 DEF ClaimRow
    <3>2. lock.op = "dispatch" /\ lock.pc = "claim"
      BY <2>4, <3>1 DEF ClaimRow, Claim
    <3> QED BY <3>2 DEF ClaimAlone
  <2>5. CASE Down
    BY <2>5 DEF Down, NoTurn
  <2> QED BY <2>1, <2>2, <2>3, <2>4, <2>5, TurnsChange
<1> QED BY <1>1, AloneInit, AloneKept, PTL DEF Spec, PauseHolds
-----------------------------------------------------------------------------
(* Send now, and the status shown                                           *)

\* A call begins to wait for a turn only as ForceClaims finds one.
LEMMA CallsWait ==
    ASSUME Typed, [Next]_vars, NEW d \in calls', d.at = "parked"
    PROVE  \/ d \in calls /\ ~Down /\ \A s \in Sessions : Release(s) => d \notin Parked(s)
           \/ SameTurns /\ Busy(d.session)
<1>1. calls \subseteq Call
  BY DEF Typed, TypeOK
<1>2. Down => d \notin calls'
  BY DEF Down
<1>3. ASSUME NEW s \in Sessions, Release(s) PROVE d \in calls /\ d \notin Parked(s)
  <2>1. \A c \in Parked(s) : [c EXCEPT !.at = "launched"].at = "launched"
    BY <1>1 DEF Parked, Call
  <2>2. calls' \subseteq (calls \ Parked(s)) \cup
                        {[c EXCEPT !.at = "launched"] : c \in Parked(s)}
    BY <1>3 DEF Release
  <2> QED BY <2>1, <2>2
<1>5. ASSUME NEW s \in Sessions, TurnStep(s), ~Release(s) PROVE d \in calls
  BY <1>5 DEF TurnStep, Record, Launch, FailStart, GoAway, Requeue, Hold, Finish,
              proc
<1>6. ASSUME HolderStep PROVE d \in calls
  BY <1>6 DEF HolderStep, Pick, ClaimRow, FindBusy, Refuse, DropRow, FailForced,
              FallBack, ClearQueue, FinishCall
<1>7. ASSUME NEW c \in calls, CallStep(c)
      PROVE  d \in calls \/ (SameTurns /\ Busy(d.session))
  <2>1. CASE ForceClaims(c)
    <3>1. \/ calls' = calls \ {c}
          \/ calls' = (calls \ {c}) \cup {[c EXCEPT !.at = "launched"]}
          \/ /\ Busy(c.session)
             /\ active' = Cancelled({c.session})
             /\ calls' = (calls \ {c}) \cup {[c EXCEPT !.at = "parked"]}
      BY <2>1 DEF ForceClaims, InTheWay
    <3>2. /\ [c EXCEPT !.at = "launched"].at = "launched"
          /\ [c EXCEPT !.at = "parked"].session = c.session
      BY <1>1 DEF Call
    <3>3. active' = Cancelled({c.session}) => SameTurns
      BY CancelledTyped DEF SameTurns, Busy
    <3>4. CASE d \in calls
      BY <3>4
    <3>5. CASE d = [c EXCEPT !.at = "launched"]
      BY <3>2, <3>5
    <3>6. CASE d = [c EXCEPT !.at = "parked"] /\ d \notin calls
      <4>1. calls' # calls \ {c}
        BY <3>6
      <4>2. calls' # (calls \ {c}) \cup {[c EXCEPT !.at = "launched"]}
        BY <3>2, <3>6
      <4>3. d.session = c.session
        BY <3>2, <3>6
      <4> QED BY <3>1, <3>3, <4>1, <4>2, <4>3
    <3> QED BY <3>1, <3>4, <3>5, <3>6
  <2>2. TakeForced(c) => calls' \subseteq calls
    BY DEF TakeForced
  <2>3. TakeStop(c) => calls' \subseteq calls
    BY DEF TakeStop
  <2>4. TakeDelete(c) => calls' \subseteq calls
    BY DEF TakeDelete
  <2> QED BY <1>7, <2>1, <2>2, <2>3, <2>4 DEF CallStep
<1>8. ASSUME UserStep PROVE d \in calls
  <2>1. ASSUME NEW kind, NEW s, NEW id, NEW p, Ask(kind, s, id, p) PROVE d \in calls
    BY <2>1 DEF Ask
  <2> QED BY <1>8, <2>1 DEF UserStep, Enqueue, Send, StopCalled, ForceCalled,
                            DeleteCalled, Pause
<1>9. ASSUME \/ TakeSchedule \/ BecomeDue \/ RetryTick \/ Signal \/ Shutdown
             \/ Restart \/ UNCHANGED vars
      PROVE  d \in calls
  BY <1>9 DEF TakeSchedule, BecomeDue, RetryTick, Signal, Shutdown, Restart, vars,
              proc
<1> QED BY <1>2, <1>3, <1>5, <1>6, <1>7, <1>8, <1>9 DEF Next, Exit, Crash

\* A call that waits does so until the release of its turn takes it off.
LEMMA ParkedHasTurnKept ==
    ASSUME Typed, ParkedHasTurn, [Next]_vars
    PROVE  ParkedHasTurn'
<1> SUFFICES ASSUME NEW d \in calls', d.at = "parked" PROVE Busy(d.session)'
  BY DEF ParkedHasTurn
<1>1. calls' \subseteq Call /\ d.session \in Sessions
  BY TypedKept DEF Typed, TypeOK, Call
<1>2. CASE SameTurns
  BY <1>1, <1>2, CallsWait DEF ParkedHasTurn, SameTurns
<1>3. CASE ~SameTurns
  <2>1. d \in calls /\ ~Down /\ Busy(d.session)
    BY <1>3, CallsWait DEF ParkedHasTurn
  <2>2. ASSUME NEW s \in Sessions, Release(s) PROVE Busy(d.session)'
    <3>1. d.session # s
      BY <2>1, <2>2, <1>3, CallsWait DEF Parked
    <3> QED BY <1>1, <2>1, <2>2, <3>1 DEF Release, Busy, Typed, TypeOK
  <2>3. ASSUME NEW s \in Sessions, Send(s) PROVE Busy(d.session)'
    BY <1>1, <2>1, <2>3 DEF Send, Claim, Busy, Typed, TypeOK
  <2>4. CASE ClaimRow
    BY <1>1, <2>1, <2>4 DEF ClaimRow, Claim, Busy, Typed, TypeOK
  <2> QED BY <1>3, <2>1, <2>2, <2>3, <2>4, TurnsChange
<1> QED BY <1>2, <1>3

\* A Send now that waits for the turn of its task is never left behind: the
\* turn it waits for is in flight until its release starts the prompt.
THEOREM ParkedCallHasTurn == Spec => []ParkedHasTurn
<1>1. Init => Typed /\ ParkedHasTurn
  BY InitTyped DEF Init, ParkedHasTurn
<1>2. Typed /\ ParkedHasTurn /\ [Next]_vars => Typed' /\ ParkedHasTurn'
  BY TypedKept, ParkedHasTurnKept
<1> QED BY <1>1, <1>2, PTL DEF Spec

\* While a task is marked running its turn has been recorded and its outcome
\* has not: it is not about to be released.
RunningHasOpenTurn ==
    up => \A s \in Sessions : status[s] = "running" =>
              active[s].stage \in {"recorded", "running", "away", "requeued"}

\* The status leaves running with every stage that closes a turn.
LEMMA RunningHasOpenTurnKept ==
    ASSUME Typed, RunningHasOpenTurn, [Next]_vars
    PROVE  RunningHasOpenTurn'
<1> USE DEF RunningHasOpenTurn, Typed, TypeOK, db, proc, ghost
<1>1. ASSUME status' = status, active' = active, up' = up PROVE RunningHasOpenTurn'
  BY <1>1
<1>2. ASSUME NEW S, status' = status, up' = up, active' = Cancelled(S)
      PROVE  RunningHasOpenTurn'
  BY <1>2, CancelledTyped
<1>3. ASSUME NEW s \in Sessions, NEW p, NEW n, NEW by, status' = status, up' = up,
             Claim(s, p, n, by)
      PROVE  RunningHasOpenTurn'
  BY <1>3 DEF Claim, Busy
<1>4. ASSUME NEW s \in Sessions, TurnStep(s) PROVE RunningHasOpenTurn'
  <2>1. CASE Record(s)
    BY <2>1 DEF Record, Stage, Turn
  <2>2. CASE Launch(s)
    BY <2>2 DEF Launch, Turn
  <2>3. CASE FailStart(s)
    BY <2>3 DEF FailStart, Stage, Turn
  <2>4. CASE GoAway(s)
    BY <2>4 DEF GoAway, Stage, Turn
  <2>5. CASE Requeue(s)
    BY <2>5 DEF Requeue, Stage, Turn
  <2>6. CASE Hold(s)
    BY <2>6 DEF Hold, Stage, Turn
  <2>7. CASE Finish(s)
    BY <2>7 DEF Finish, Stage, Turn
  <2>8. CASE Release(s)
    BY <2>8 DEF Release
  <2> QED BY <1>4, <2>1, <2>2, <2>3, <2>4, <2>5, <2>6, <2>7, <2>8 DEF TurnStep
<1>5. ASSUME HolderStep PROVE RunningHasOpenTurn'
  <2>1. CASE ClaimRow
    <3>1. PICK r \in lock.row : Claim(r.session, r.prompt, r.retries, lock.op)
      BY <2>1 DEF ClaimRow
    <3>2. r.session \in Sessions
      BY <3>1 DEF Holder, Row
    <3> QED BY <1>3, <2>1, <3>1, <3>2 DEF ClaimRow
  <2>2. CASE FinishCall
    <3>1. PICK S : active' = Cancelled(S)
      BY <2>2 DEF FinishCall
    <3> QED BY <2>2, <3>1, CancelledTyped DEF FinishCall
  <2> QED BY <1>1, <1>5, <2>1, <2>2 DEF HolderStep, Pick, FindBusy, Refuse, DropRow,
                                        FailForced, ClearQueue
<1>6. ASSUME NEW c \in calls, CallStep(c) PROVE RunningHasOpenTurn'
  BY <1>1, <1>2, <1>6 DEF CallStep, ForceClaims, TakeForced, TakeStop, TakeDelete
<1>7. ASSUME UserStep PROVE RunningHasOpenTurn'
  <2>1. ASSUME NEW s \in Sessions, Send(s) PROVE RunningHasOpenTurn'
    BY <1>3, <2>1 DEF Send
  <2> QED BY <1>1, <1>7, <2>1 DEF UserStep, Enqueue, StopCalled, ForceCalled,
                                  DeleteCalled, Pause
<1>8. CASE Restart
  BY <1>8 DEF Restart, StatusReset
<1>9. CASE Down
  BY <1>9 DEF Down
<1>10. ASSUME \/ TakeSchedule \/ BecomeDue \/ RetryTick \/ Signal \/ Shutdown
              \/ UNCHANGED vars
       PROVE  RunningHasOpenTurn'
  BY <1>1, <1>2, <1>10 DEF TakeSchedule, BecomeDue, RetryTick, Signal, Shutdown, vars
<1> QED BY <1>4, <1>5, <1>6, <1>7, <1>8, <1>9, <1>10 DEF Next, Exit, Crash

\* A task is never left marked as running: after a crash or a failed start, and
\* whatever stops or retries it, its turn is in flight.
THEOREM RunningTaskHasTurn == Spec => []RunningHasTurn
<1>1. Init => Typed /\ RunningHasOpenTurn
  BY InitTyped DEF Init, RunningHasOpenTurn
<1>2. Typed /\ RunningHasOpenTurn /\ [Next]_vars => Typed' /\ RunningHasOpenTurn'
  BY TypedKept, RunningHasOpenTurnKept
<1>3. RunningHasOpenTurn => RunningHasTurn
  BY DEF RunningHasOpenTurn, RunningHasTurn, Busy
<1> QED BY <1>1, <1>2, <1>3, PTL DEF Spec
-----------------------------------------------------------------------------
(* Rows, prompts and whoever holds them                                     *)

\* The queue has one row under an id.
RowsApart == \A a, b \in queue : a.id = b.id => a = b

\* A row is the same one when only its wait is over.
Alike(a, b) == /\ a.id = b.id /\ a.session = b.session
               /\ a.prompt = b.prompt /\ a.retries = b.retries

\* The holder of the lock starts one row at most, and nobody takes it from the
\* queue meanwhile.
Hands == /\ \A r \in lock.row : \E q \in queue : Alike(q, r)
         /\ \A a, b \in lock.row : a = b
         /\ lock.row # {} => lock.op \in {"dispatch", "forced"}

\* A prompt belongs to one task, wherever it is.
Homes == /\ \A a, b \in queue : a.prompt = b.prompt => a.session = b.session
         /\ \A s \in Sessions : Busy(s) => \A r \in queue :
                active[s].prompt = r.prompt => r.session = s
         /\ \A s, t \in Sessions :
                Busy(s) /\ Busy(t) /\ active[s].prompt = active[t].prompt => s = t

\* The next prompt is new.
Fresh == /\ \A r \in queue : r.prompt <= accepted
         /\ \A s \in Sessions : Busy(s) => active[s].prompt <= accepted
         /\ \A p \in halted \cup lock.turn : p <= accepted
         /\ \A p \in Prompts : p > accepted => tries[p] = 0

\* Whoever sends a row waits for its turn to run or to fail.
Sending == lock.pc = "sending" =>
    \E r \in lock.row :
        /\ active[r.session].prompt = r.prompt
        /\ active[r.session].stage \in {"claimed", "recorded", "away", "requeued",
                                        "settled"}

Base == Typed /\ RowsApart /\ Hands /\ Homes /\ Fresh /\ Sending

\* The kinds of steps

Same(t) == /\ active'[t].stage = active[t].stage
           /\ active'[t].prompt = active[t].prompt

\* The turn of s goes on to stage x, and no other turn moves.
Moves(s, x) == /\ active'[s].stage = x /\ active'[s].prompt = active[s].prompt
               /\ \A t \in Sessions : t # s => Same(t)

data == <<queue, ran, unrun, owed, tries, setbacks, halted, accepted>>

\* Nothing moves but calls, wakes and marks.
Rests == (\A t \in Sessions : Same(t)) /\ UNCHANGED <<data, lock>>

\* The lock is freed or goes to the dispatcher, and nothing else moves.
LetsGo == /\ (\A t \in Sessions : Same(t)) /\ UNCHANGED data
          /\ \/ lock.op = "none"
             \/ lock.pc \in {"pick", "claim", "clear", "finish"}
             \/ lock.op = "forced" /\ lock.pc = "failed"
          /\ lock'.pc = "pick" /\ lock'.op \in {"none", "dispatch"}
          /\ lock'.row = {} /\ lock'.turn = {}

\* A row of the queue comes into the hands of the lock's holder.
Takes == /\ (\A t \in Sessions : Same(t)) /\ UNCHANGED data
         /\ lock.op = "none" \/ lock.pc = "pick"
         /\ lock'.pc = "claim" /\ lock'.turn \subseteq lock.turn
         /\ lock'.row \subseteq queue
         /\ \A a, b \in lock'.row : a = b
         /\ \/ lock'.op = "dispatch"
            \/ lock'.op = "forced" /\ \E c \in calls : c.kind = "force"

\* Of the rows of a task one comes first.
LEMMA OneReady ==
    ASSUME Typed, NEW s, NEW a \in ReadyRow(queue, s), NEW b \in ReadyRow(queue, s)
    PROVE  a = b
<1> SUFFICES ASSUME a # b PROVE FALSE
  OBVIOUS
<1>1. RunsBefore(a, b) /\ RunsBefore(b, a)
  BY DEF ReadyRow, RowsOf
<1>2. /\ a.prompt \in Nat /\ b.prompt \in Nat /\ a.id \in Nat /\ b.id \in Nat
      /\ a.retries \in Nat /\ b.retries \in Nat
  BY PromptsAssumption, RowIdsAssumption DEF ReadyRow, RowsOf, Typed, TypeOK, Row
<1> QED BY <1>1, <1>2 DEF RunsBefore

\* NextQueuedMessage hands out one row at most.
LEMMA OneNext ==
    ASSUME Typed, RowsApart, NEW p,
           NEW a \in NextQueuedRun(queue, p), NEW b \in NextQueuedRun(queue, p)
    PROVE  a = b
<1>1. ASSUME NEW S, \A s, t \in S : s = t,
             a \in UNION {ReadyRow(queue, s) : s \in S},
             b \in UNION {ReadyRow(queue, s) : s \in S}
      PROVE  a = b
  BY <1>1, OneReady
<1>2. CASE Retries(queue) # {}
  <2>1. \A s, t \in RetryTask(queue) : s = t
    <3> SUFFICES ASSUME NEW x \in Retries(queue), NEW y \in Retries(queue), x # y,
                        x.prompt < y.prompt \/ (x.prompt = y.prompt /\ x.id < y.id),
                        y.prompt < x.prompt \/ (y.prompt = x.prompt /\ y.id < x.id)
                 PROVE  FALSE
      BY DEF RetryTask
    <3>1. x.prompt \in Nat /\ y.prompt \in Nat /\ x.id \in Nat /\ y.id \in Nat
      BY PromptsAssumption, RowIdsAssumption DEF Retries, Typed, TypeOK, Row
    <3> QED BY <3>1
  <2> QED BY <1>1, <1>2, <2>1 DEF NextQueuedRun
<1>3. CASE Retries(queue) = {} /\ p \in ReadyTasks(queue)
  BY <1>3, OneReady DEF NextQueuedRun
<1>4. CASE Retries(queue) = {} /\ p \notin ReadyTasks(queue)
  <2> DEFINE first == {t \in ReadyTasks(queue) : \A u \in ReadyTasks(queue) : t <= u}
  <2>1. \A s, t \in first : s = t
    BY SessionsAssumption DEF ReadyTasks
  <2> QED BY <1>1, <1>4, <2>1 DEF NextQueuedRun
<1> QED BY <1>2, <1>3, <1>4

\* Cancelling moves no turn.
LEMMA CancelledRests ==
    ASSUME Typed, NEW S, active' = Cancelled(S)
    PROVE  \A t \in Sessions : Same(t)
BY CancelledTyped DEF Same

\* A turn that goes on to another stage moves no other turn.
LEMMA StageMoves ==
    ASSUME Typed, NEW s \in Sessions, NEW x \in Stages, Stage(s, x)
    PROVE  Moves(s, x)
BY DEF Typed, TypeOK, Stage, Moves, Same, Turn

\* Every step is one of these kinds.
LEMMA Kinds1 ==
    ASSUME Typed, RowsApart, [Next]_vars
    PROVE  \/ Rests \/ LetsGo \/ Takes
           \/ \E s \in Sessions : Enqueue(s) \/ Send(s) \/ TurnStep(s)
           \/ \E c \in calls : TakeStop(c) \/ TakeDelete(c)
           \/ ClaimRow \/ Refuse \/ DropRow \/ ClearQueue \/ BecomeDue \/ Crash \/ Exit
<1>1. active' = active => \A t \in Sessions : Same(t)
  BY DEF Same
<1>2. lock \in Holder /\ lock.call \in SUBSET Call
  BY DEF Typed, TypeOK, Holder
<1>3. /\ Free.pc = "pick" /\ Free.op = "none" /\ Free.row = {} /\ Free.turn = {}
      /\ \A C : /\ Dispatching(C).pc = "pick" /\ Dispatching(C).op = "dispatch"
                /\ Dispatching(C).row = {} /\ Dispatching(C).turn = {}
  BY DEF Free, Dispatching
<1>4. CASE Pick
  <2> DEFINE next == IF Held THEN {} ELSE NextQueuedRun(queue, preferred)
  <2>1. /\ lock.op = "dispatch" /\ lock.pc = "pick" /\ active' = active /\ UNCHANGED data
        /\ lock' = IF next = {} THEN Free ELSE [lock EXCEPT !.pc = "claim", !.row = next]
    BY <1>4 DEF Pick, db, ghost, data
  <2>2. CASE next = {}
    <3>1. lock' = Free
      BY <2>1, <2>2
    <3> QED BY <1>1, <1>3, <2>1, <3>1 DEF LetsGo
  <2>3. CASE next # {}
    <3>1. next \subseteq queue /\ \A a, b \in next : a = b
      BY NextRunQueued, OneNext
    <3>2. /\ lock'.pc = "claim" /\ lock'.row = next /\ lock'.turn = lock.turn
          /\ lock'.op = "dispatch"
      BY <1>2, <2>1, <2>3 DEF Holder
    <3> QED BY <1>1, <2>1, <3>1, <3>2 DEF Takes
  <2> QED BY <2>2, <2>3
<1>5. CASE FindBusy
  <2>1. /\ lock.pc = "claim" /\ active' = active /\ UNCHANGED data
        /\ lock' \in {Free, Dispatching(lock.call)}
    BY <1>5 DEF FindBusy, FallBack, db, ghost, data
  <2> QED BY <1>1, <1>3, <2>1 DEF LetsGo
<1>6. CASE FailForced
  <2>1. /\ lock.op = "forced" /\ lock.pc = "failed" /\ active' = active /\ UNCHANGED data
        /\ lock' = Dispatching(lock.call)
    BY <1>6 DEF FailForced, FallBack, db, ghost, data
  <2> QED BY <1>1, <1>3, <2>1 DEF LetsGo
<1>7. CASE FinishCall
  <2>1. /\ lock.pc = "finish" /\ UNCHANGED data /\ lock' = Free
        /\ \A t \in Sessions : Same(t)
    BY <1>7, CancelledRests DEF FinishCall, ghost, data
  <2> QED BY <1>3, <2>1 DEF LetsGo
<1>8. CASE HolderStep
  BY <1>4, <1>5, <1>6, <1>7, <1>8 DEF HolderStep
<1>9. ASSUME NEW c \in calls, CallStep(c), ~TakeStop(c), ~TakeDelete(c)
      PROVE  Rests \/ LetsGo \/ Takes
  <2>1. CASE ForceClaims(c)
    <3>1. \A t \in Sessions : Same(t)
      BY <1>1, <2>1, CancelledRests DEF ForceClaims
    <3> QED BY <2>1, <3>1 DEF ForceClaims, Rests, data, db, ghost
  <2>2. CASE TakeForced(c)
    <3>1. /\ lock.op = "none" /\ active' = active /\ UNCHANGED data /\ c.kind = "force"
          /\ \/ lock' = Dispatching({c})
             \/ lock' = [Free EXCEPT !.op = "forced", !.pc = "claim",
                                     !.row = RowFound(c), !.call = {c}]
      BY <2>2 DEF TakeForced, db, ghost, data
    <3>2. CASE lock' = Dispatching({c})
      BY <1>1, <1>3, <3>1, <3>2 DEF LetsGo
    <3>3. CASE lock' = [Free EXCEPT !.op = "forced", !.pc = "claim",
                                    !.row = RowFound(c), !.call = {c}]
      <4>1. RowFound(c) \subseteq queue /\ \A a, b \in RowFound(c) : a = b
        BY DEF RowFound, RowsApart
      <4>2. /\ lock'.pc = "claim" /\ lock'.op = "forced" /\ lock'.turn = {}
            /\ lock'.row = RowFound(c)
        BY <3>3 DEF Free
      <4> QED BY <1>1, <3>1, <4>1, <4>2 DEF Takes
    <3> QED BY <3>1, <3>2, <3>3
  <2> QED BY <1>9, <2>1, <2>2 DEF CallStep
<1>10. CASE UserStep
  <2>1. ASSUME \/ \E s \in Sessions : StopCalled(s)
               \/ \E r \in queue : ForceCalled(r) \/ DeleteCalled(r)
        PROVE  Rests
    BY <1>1, <2>1 DEF StopCalled, ForceCalled, DeleteCalled, Rests, data, db
  <2>2. CASE Pause
    <3>1. /\ lock.op = "none" /\ active' = active /\ UNCHANGED data
          /\ lock' \in {Free, Dispatching({})}
      BY <2>2 DEF Pause, Resumed, data
    <3> QED BY <1>1, <1>3, <3>1 DEF LetsGo
  <2> QED BY <1>10, <2>1, <2>2 DEF UserStep
<1>11. CASE TakeSchedule
  <2>1. /\ lock.op = "none" /\ active' = active /\ UNCHANGED data
        /\ lock' = Dispatching({})
    BY <1>11 DEF TakeSchedule, db, ghost, data
  <2> QED BY <1>1, <1>3, <2>1 DEF LetsGo
<1>12. ASSUME RetryTick \/ Restart \/ UNCHANGED vars PROVE Rests
  BY <1>1, <1>12 DEF RetryTick, Restart, vars, proc, db, ghost, data, Rests
<1>13. ASSUME Signal \/ Shutdown PROVE Rests
  <2>1. \A t \in Sessions : Same(t)
    BY <1>13, CancelledRests DEF Signal, Shutdown
  <2> QED BY <1>13, <2>1 DEF Signal, Shutdown, Rests, data, db
<1> QED BY <1>8, <1>9, <1>10, <1>11, <1>12, <1>13 DEF Next, CallStep

\* Turns end, or stay with their prompt.
FewerTurns == \A t \in Sessions : Busy(t)' => Busy(t) /\ active'[t].prompt = active[t].prompt

\* No row is new.
OlderRows == \A r \in queue' : \E q \in queue : Alike(q, r)

\* Without a new turn, row or prompt each prompt stays in its task.
LEMMA HomesKept ==
    ASSUME Base, FewerTurns, OlderRows, accepted' = accepted, tries' = tries,
           \A p \in halted' \cup lock'.turn : p <= accepted
    PROVE  Homes' /\ Fresh'
<1>1. \A t \in Sessions : (Busy(t) => active[t].prompt <= accepted) /\ Homes
  BY DEF Base, Fresh
<1>2. Homes'
  <2>1. \A a, b \in queue' : a.prompt = b.prompt => a.session = b.session
    BY DEF OlderRows, Alike, Base, Homes
  <2>2. \A s \in Sessions : Busy(s)' => \A r \in queue' :
            active'[s].prompt = r.prompt => r.session = s
    <3> SUFFICES ASSUME NEW s \in Sessions, Busy(s)', NEW r \in queue',
                        active'[s].prompt = r.prompt
                 PROVE  r.session = s
      OBVIOUS
    <3>1. PICK q \in queue : Alike(q, r)
      BY DEF OlderRows
    <3> QED BY <3>1 DEF FewerTurns, Alike, Base, Homes
  <2>3. \A s, t \in Sessions :
            Busy(s)' /\ Busy(t)' /\ active'[s].prompt = active'[t].prompt => s = t
    BY DEF FewerTurns, Base, Homes
  <2> QED BY <2>1, <2>2, <2>3 DEF Homes
<1>3. Fresh'
  <2>1. \A r \in queue' : r.prompt <= accepted
    BY DEF OlderRows, Alike, Base, Fresh
  <2>2. \A s \in Sessions : Busy(s)' => active'[s].prompt <= accepted
    BY <1>1 DEF FewerTurns
  <2>3. \A p \in Prompts : p > accepted => tries[p] = 0
    BY DEF Base, Fresh
  <2> QED BY <2>1, <2>2, <2>3 DEF Fresh
<1> QED BY <1>2, <1>3

\* Turns that stay where they are, or go on, are no new ones.
LEMMA FewerSame ==
    ASSUME \A t \in Sessions : Same(t)
    PROVE  FewerTurns
BY DEF FewerTurns, Same, Busy

LEMMA FewerMoves ==
    ASSUME NEW s \in Sessions, Busy(s), NEW x, Moves(s, x)
    PROVE  FewerTurns
BY DEF FewerTurns, Moves, Same, Busy

LEMMA FewerDown ==
    ASSUME Down
    PROVE  FewerTurns /\ lock'.row = {} /\ lock'.turn = {} /\ lock'.pc = "pick" /\ lock'.op = "none"
BY DEF FewerTurns, Down, Busy, NoTurn, Free

LEMMA OlderSame == ASSUME queue' \subseteq queue PROVE OlderRows
BY DEF OlderRows, Alike

\* What a turn in flight does: its stage, its row and the lock.
LEMMA TurnMoves ==
    ASSUME Typed, NEW s \in Sessions, TurnStep(s)
    PROVE  /\ Busy(s)
           /\ Record(s)    => Moves(s, "recorded")
           /\ Launch(s)    => Moves(s, "running")
           /\ FailStart(s) => Moves(s, "settled")
           /\ GoAway(s)    => Moves(s, "away")
           /\ Requeue(s)   => Moves(s, "requeued")
           /\ Hold(s)      => Moves(s, "settled")
           /\ Finish(s)    => Moves(s, "settled")
           /\ Release(s)   => /\ FewerTurns /\ ~Busy(s)'
                              /\ \A t \in Sessions : t # s => Same(t)
<1> USE DEF Typed, TypeOK, Busy
<1>1. Record(s) => Moves(s, "recorded") /\ Busy(s)
  BY StageMoves DEF Record, Stages
<1>2. Launch(s) => Moves(s, "running") /\ Busy(s)
  BY DEF Launch, Moves, Same, Turn
<1>3. FailStart(s) => Moves(s, "settled") /\ Busy(s)
  BY StageMoves DEF FailStart, Stages
<1>4. GoAway(s) => Moves(s, "away") /\ Busy(s)
  BY StageMoves DEF GoAway, Stages
<1>5. Requeue(s) => Moves(s, "requeued") /\ Busy(s)
  BY StageMoves DEF Requeue, Stages
<1>6. Hold(s) => Moves(s, "settled") /\ Busy(s)
  BY StageMoves DEF Hold, Stages
<1>7. Finish(s) => Moves(s, "settled") /\ Busy(s)
  BY StageMoves DEF Finish, Stages
<1>8. Release(s) => /\ FewerTurns /\ ~Busy(s)' /\ Busy(s)
                    /\ \A t \in Sessions : t # s => Same(t)
  BY DEF Release, FewerTurns, NoTurn, Same
<1> QED BY <1>1, <1>2, <1>3, <1>4, <1>5, <1>6, <1>7, <1>8 DEF TurnStep

\* The holder that moves on keeps its row, its call and the turn it saw.
LEMMA HolderMoves ==
    ASSUME Typed, NEW pc, lock' = [lock EXCEPT !.pc = pc]
    PROVE  /\ lock'.pc = pc /\ lock'.op = lock.op /\ lock'.row = lock.row
           /\ lock'.turn = lock.turn /\ lock'.call = lock.call
BY DEF Typed, TypeOK, Holder

\* The lock over the steps of a turn: it moves only with the turn it waits for.
LEMMA TurnLock ==
    ASSUME Typed, NEW s \in Sessions, TurnStep(s)
    PROVE  /\ lock'.op = lock.op /\ lock'.row = lock.row /\ lock'.turn = lock.turn
           /\ lock'.call = lock.call
           /\ \/ lock' = lock /\ ~(SentByHolder(s) /\ (Launch(s) \/ Release(s)))
              \/ SentByHolder(s) /\ Launch(s) /\ lock'.pc = "started"
              \/ SentByHolder(s) /\ Release(s) /\ lock'.pc = "failed"
<1>1. ASSUME ~Launch(s), ~Release(s) PROVE lock' = lock
  BY <1>1 DEF TurnStep, Record, FailStart, GoAway, Requeue, Hold, Finish
<1>2. Launch(s) => ~Release(s)
  BY DEF Launch, Release
<1>3. CASE Launch(s)
  <2>1. CASE SentByHolder(s)
    <3>1. lock' = [lock EXCEPT !.pc = "started"]
      BY <1>3, <2>1 DEF Launch
    <3> QED BY <1>3, <2>1, <3>1, HolderMoves
  <2>2. CASE ~SentByHolder(s)
    <3>1. lock' = lock
      BY <1>3, <2>2 DEF Launch
    <3> QED BY <2>2, <3>1
  <2> QED BY <2>1, <2>2
<1>4. CASE Release(s)
  <2>1. CASE SentByHolder(s)
    <3>1. lock' = [lock EXCEPT !.pc = "failed"]
      BY <1>4, <2>1 DEF Release
    <3> QED BY <1>4, <2>1, <3>1, HolderMoves
  <2>2. CASE ~SentByHolder(s)
    <3>1. lock' = lock
      BY <1>4, <2>2 DEF Release
    <3> QED BY <2>2, <3>1
  <2> QED BY <2>1, <2>2
<1> QED BY <1>1, <1>2, <1>3, <1>4

\* What the claim of a task does.
LEMMA Claims ==
    ASSUME Typed, NEW s \in Sessions, NEW p \in Prompts, NEW n, NEW by,
           Claim(s, p, n, by)
    PROVE  /\ ~stopping /\ ~Busy(s)
           /\ active'[s].stage = "claimed" /\ active'[s].prompt = p
           /\ active'[s].by = by
           /\ \A t \in Sessions : t # s => Same(t)
           /\ tries'[p] = tries[p] + 1
           /\ \A q \in Prompts : q # p => tries'[q] = tries[q]
BY DEF Typed, TypeOK, Claim, Same

\* What an insertion does: one row is new, under a new id.
Adds(r) == r \in Row /\ queue' = queue \cup {r} /\ \A q \in queue : q.id # r.id

LEMMA Inserts ==
    ASSUME Typed, NEW s \in Sessions, NEW p \in Prompts, NEW n \in Nat,
           NEW due \in BOOLEAN, Insert(s, p, n, due)
    PROVE  \E id \in RowIds : Adds([id |-> id, session |-> s, prompt |-> p,
                                    retries |-> n, due |-> due])
<1>1. PICK id \in RowIds :
         /\ IsNewId(queue, id)
         /\ queue' = queue \cup {[id |-> id, session |-> s, prompt |-> p,
                                  retries |-> n, due |-> due]}
  BY DEF Insert
<1>2. \A q \in queue : q.id # id
  BY <1>1, RowIdsAssumption DEF IsNewId, Typed, TypeOK, Row
<1>3. [id |-> id, session |-> s, prompt |-> p, retries |-> n, due |-> due] \in Row
  BY DEF Row
<1> QED BY <1>1, <1>2, <1>3 DEF Adds

\* A new prompt is due at once; one that is tried again waits.
LEMMA Queues ==
    ASSUME Typed, NEW s \in Sessions, Enqueue(s)
    PROVE  \E r : Adds(r) /\ r.session = s /\ r.prompt = accepted + 1 /\ r.due
<1>1. accepted + 1 \in Prompts /\ Insert(s, accepted + 1, 0, TRUE)
  BY DEF Enqueue
<1>2. PICK id \in RowIds : Adds([id |-> id, session |-> s, prompt |-> accepted + 1,
                                 retries |-> 0, due |-> TRUE])
  BY <1>1, Inserts, Zenon
<1> QED BY <1>2

LEMMA Requeues ==
    ASSUME Typed, NEW s \in Sessions, Requeue(s)
    PROVE  \E r : Adds(r) /\ r.session = s /\ r.prompt = active[s].prompt /\ r.retries > 0
<1>1. /\ active[s].prompt \in Prompts /\ active[s].retries + 1 \in Nat
      /\ active[s].retries + 1 > 0
  BY DEF Typed, TypeOK, TurnHasPrompt, Turn, Requeue, Busy
<1>2. Insert(s, active[s].prompt, active[s].retries + 1, FALSE)
  BY DEF Requeue
<1>3. PICK id \in RowIds : Adds([id |-> id, session |-> s, prompt |-> active[s].prompt,
                                 retries |-> active[s].retries + 1, due |-> FALSE])
  BY <1>1, <1>2, Inserts, Zenon
<1> QED BY <1>1, <1>3

\* The row in hand is a row, of the queue.
LEMMA InHand ==
    ASSUME Base, NEW r \in lock.row
    PROVE  /\ r \in Row /\ r.session \in Sessions /\ r.prompt \in Prompts
           /\ \E q \in queue : Alike(q, r)
           /\ \A h \in lock.row : h = r
           /\ lock.op \in {"dispatch", "forced"}
<1>1. r \in Row
  BY DEF Base, Typed, TypeOK, Holder
<1> QED BY <1>1 DEF Base, Hands, Row

\* While the holder sends, its row has a turn.
LEMMA SentTurn ==
    ASSUME Base, lock.pc = "sending", NEW r \in lock.row
    PROVE  /\ active[r.session].prompt = r.prompt
           /\ active[r.session].stage \in {"claimed", "recorded", "away", "requeued",
                                           "settled"}
           /\ \A s : SentByHolder(s) <=> s = r.session
BY InHand DEF Base, Sending, SentByHolder

\* The steps that add a row.
LEMMA RowAdded ==
    ASSUME Base, NEW r \in Row, queue' = queue \cup {r}, \A q \in queue : q.id # r.id
    PROVE  RowsApart' /\ \A h \in lock.row : \E q \in queue' : Alike(q, h)
BY DEF Base, RowsApart, Hands

LEMMA BaseEnqueue == ASSUME Base, NEW s \in Sessions, Enqueue(s) PROVE Base'
<1>1. Typed' /\ accepted \in Nat /\ accepted' = accepted + 1 /\ accepted + 1 \in Prompts
  BY TypedKept DEF Base, Next, UserStep, Typed, TypeOK, Enqueue
<1>2. /\ active' = active /\ lock' = lock /\ tries' = tries /\ halted' = halted
      /\ Insert(s, accepted + 1, 0, TRUE)
  BY DEF Enqueue
<1>3. PICK r \in Row : /\ queue' = queue \cup {r} /\ r.session = s
                       /\ r.prompt = accepted + 1
                       /\ \A q \in queue : q.id # r.id
  BY Queues DEF Base, Adds
<1>4. RowsApart' /\ Hands'
  BY <1>2, <1>3, RowAdded DEF Base, Hands
<1>5. \A q \in queue : q.prompt < r.prompt /\ q.prompt <= accepted + 1
  <2>1. \A q \in queue : q.prompt \in Nat /\ q.prompt <= accepted
    BY PromptsAssumption DEF Base, Fresh, Typed, TypeOK, Row
  <2> QED BY <1>1, <1>3, <2>1
<1>6. \A t \in Sessions : Busy(t) => /\ active[t].prompt < r.prompt
                                      /\ active[t].prompt <= accepted + 1
  <2>1. \A t \in Sessions : Busy(t) => active[t].prompt \in Nat /\ active[t].prompt <= accepted
    BY PromptsAssumption DEF Base, Fresh, Typed, TurnHasPrompt
  <2> QED BY <1>1, <1>3, <2>1
<1>7. Homes'
  <2>1. \A q \in queue : q.prompt # r.prompt
    BY <1>1, <1>3, <1>5, PromptsAssumption DEF Base, Typed, TypeOK, Row
  <2>2. \A t \in Sessions : Busy(t) => active[t].prompt # r.prompt
    BY <1>1, <1>3, <1>6, PromptsAssumption DEF Base, Typed, TurnHasPrompt
  <2> QED BY <1>2, <1>3, <2>1, <2>2 DEF Base, Homes, Busy
<1>8. Fresh'
  <2>1. \A q \in queue' : q.prompt <= accepted + 1
    BY <1>1, <1>3, <1>5
  <2>2. \A t \in Sessions : Busy(t) => active[t].prompt <= accepted + 1
    BY <1>6
  <2>3. \A p \in halted \cup lock.turn : p <= accepted + 1
    <3>1. \A p \in halted \cup lock.turn : p \in Nat /\ p <= accepted
      BY PromptsAssumption DEF Base, Fresh, Typed, TypeOK, Holder
    <3> QED BY <1>1, <3>1
  <2>4. \A p \in Prompts : p > accepted + 1 => tries[p] = 0
    BY <1>1, PromptsAssumption DEF Base, Fresh
  <2> QED BY <1>1, <1>2, <2>1, <2>2, <2>3, <2>4 DEF Fresh, Busy
<1>9. Sending'
  BY <1>2 DEF Base, Sending
<1> QED BY <1>1, <1>4, <1>7, <1>8, <1>9 DEF Base

LEMMA BaseSend == ASSUME Base, NEW s \in Sessions, Send(s) PROVE Base'
<1>1. Typed' /\ accepted \in Nat /\ accepted' = accepted + 1 /\ accepted + 1 \in Prompts
  BY TypedKept DEF Base, Next, UserStep, Typed, TypeOK, Send
<1>2. /\ queue' = queue /\ lock' = lock /\ halted' = halted
      /\ Claim(s, accepted + 1, 0, "direct")
  BY DEF Send, db
<1>3. /\ ~Busy(s) /\ active'[s].stage = "claimed" /\ active'[s].prompt = accepted + 1
      /\ \A t \in Sessions : t # s => Same(t)
      /\ \A q \in Prompts : q # accepted + 1 => tries'[q] = tries[q]
  BY <1>1, <1>2, Claims DEF Base
<1>4. RowsApart' /\ Hands'
  BY <1>2 DEF Base, RowsApart, Hands
<1>5. /\ \A q \in queue : q.prompt <= accepted + 1 /\ q.prompt # accepted + 1
      /\ \A p \in halted \cup lock.turn : p <= accepted + 1
  <2>1. \A q \in queue : q.prompt \in Nat /\ q.prompt <= accepted
    BY PromptsAssumption DEF Base, Fresh, Typed, TypeOK, Row
  <2>2. \A p \in halted \cup lock.turn : p \in Nat /\ p <= accepted
    BY PromptsAssumption DEF Base, Fresh, Typed, TypeOK, Holder
  <2> QED BY <1>1, <2>1, <2>2
<1>6. \A t \in Sessions : Busy(t) => active[t].prompt \in Nat /\ active[t].prompt <= accepted
  BY PromptsAssumption DEF Base, Fresh, Typed, TurnHasPrompt
<1>7. \A t \in Sessions : Busy(t)' => \/ t = s
                                      \/ Busy(t) /\ active'[t].prompt = active[t].prompt
  BY <1>3 DEF Same, Busy
<1>8. Homes'
  <2>1. \A t \in Sessions : Busy(t) => active[t].prompt # accepted + 1
    BY <1>1, <1>6
  <2> QED BY <1>2, <1>3, <1>5, <1>7, <2>1 DEF Base, Homes
<1>9. Fresh'
  <2>1. \A q \in queue : q.prompt <= accepted + 1
    BY <1>5
  <2>2. \A t \in Sessions : Busy(t)' => active'[t].prompt <= accepted + 1
    BY <1>1, <1>3, <1>6, <1>7
  <2>3. \A p \in Prompts : p > accepted + 1 => tries'[p] = 0
    <3>1. ASSUME NEW p \in Prompts, p > accepted + 1 PROVE p # accepted + 1 /\ p > accepted
      BY <1>1, <3>1, PromptsAssumption
    <3> QED BY <1>3, <3>1 DEF Base, Fresh
  <2> QED BY <1>1, <1>2, <1>5, <2>1, <2>2, <2>3 DEF Fresh
<1>10. Sending'
  <2> SUFFICES ASSUME lock.pc = "sending"
               PROVE  \E r \in lock.row :
                 /\ active'[r.session].prompt = r.prompt
                 /\ active'[r.session].stage \in {"claimed", "recorded", "away",
                                                  "requeued", "settled"}
    BY <1>2 DEF Sending
  <2>1. PICK r \in lock.row :
                 /\ active[r.session].prompt = r.prompt
                 /\ active[r.session].stage \in {"claimed", "recorded", "away",
                                                 "requeued", "settled"}
    BY DEF Base, Sending
  <2>2. r.session \in Sessions /\ r.session # s
    BY <1>3, <2>1, InHand DEF Busy
  <2> QED BY <1>3, <2>1, <2>2 DEF Same
<1> QED BY <1>1, <1>4, <1>8, <1>9, <1>10 DEF Base

LEMMA BaseClaim == ASSUME Base, ClaimRow PROVE Base'
<1>1. Typed'
  BY TypedKept DEF Base, Next, HolderStep
<1>2. PICK r \in lock.row : Claim(r.session, r.prompt, r.retries, lock.op)
  BY DEF ClaimRow
<1>3. PICK q \in queue : Alike(q, r)
  BY InHand
<1>4. r.session \in Sessions /\ r.prompt \in Prompts
  BY InHand
<1>5. /\ queue' = queue /\ halted' = halted /\ accepted' = accepted
      /\ lock'.pc = "sending" /\ lock'.op = lock.op /\ lock'.row = lock.row
      /\ lock'.turn = lock.turn
  BY HolderMoves DEF ClaimRow, db, Base
<1>6. /\ ~Busy(r.session) /\ active'[r.session].stage = "claimed"
      /\ active'[r.session].prompt = r.prompt
      /\ \A t \in Sessions : t # r.session => Same(t)
      /\ \A p \in Prompts : p # r.prompt => tries'[p] = tries[p]
  BY <1>2, <1>4, Claims DEF Base
<1>7. RowsApart' /\ Hands'
  BY <1>5 DEF Base, RowsApart, Hands
<1>8. \A t \in Sessions : Busy(t)' => \/ t = r.session
                                      \/ Busy(t) /\ active'[t].prompt = active[t].prompt
  BY <1>6 DEF Same, Busy
<1>9. Homes'
  <2>1. \A t \in Sessions : Busy(t) => active[t].prompt # r.prompt
    BY <1>3, <1>6 DEF Base, Homes, Alike
  <2>2. \A a \in queue : a.prompt = r.prompt => a.session = r.session
    BY <1>3 DEF Base, Homes, Alike
  <2> QED BY <1>4, <1>5, <1>6, <1>8, <2>1, <2>2 DEF Base, Homes
<1>10. Fresh'
  <2>1. r.prompt <= accepted
    BY <1>3 DEF Base, Fresh, Alike
  <2>2. \A t \in Sessions : Busy(t)' => active'[t].prompt <= accepted
    BY <1>6, <1>8, <2>1 DEF Base, Fresh
  <2>3. \A p \in Prompts : p > accepted => tries'[p] = 0
    BY <1>4, <1>6, <2>1, PromptsAssumption DEF Base, Fresh, Typed, TypeOK
  <2> QED BY <1>5, <2>2, <2>3 DEF Base, Fresh
<1>11. Sending'
  BY <1>5, <1>6 DEF Sending
<1> QED BY <1>1, <1>7, <1>9, <1>10, <1>11 DEF Base

LEMMA BaseTurn == ASSUME Base, NEW s \in Sessions, TurnStep(s) PROVE Base'
<1>1. Typed'
  BY TypedKept DEF Base, Next
<1>2. /\ Busy(s) /\ FewerTurns
      /\ \A t \in Sessions : t # s => Same(t)
  <2>1. TurnStep(s) /\ Typed
    BY DEF Base
  <2> QED BY <2>1, TurnMoves, FewerMoves DEF TurnStep, Moves
<1>3. /\ lock'.op = lock.op /\ lock'.row = lock.row /\ lock'.turn = lock.turn
      /\ accepted' = accepted /\ tries' = tries /\ halted' = halted
  BY TurnLock DEF Base, TurnStep, Record, Launch, FailStart, GoAway, Requeue, Hold, Finish,
                  Release, ghost
<1>4. RowsApart' /\ Hands' /\ Homes' /\ Fresh'
  <2>1. CASE queue' = queue
    <3>1. Homes' /\ Fresh'
      BY <1>2, <1>3, <2>1, HomesKept, OlderSame DEF Base, Fresh
    <3> QED BY <1>3, <2>1, <3>1 DEF Base, RowsApart, Hands
  <2>2. CASE Requeue(s)
    <3>2. PICK r \in Row : /\ queue' = queue \cup {r} /\ r.session = s
                           /\ r.prompt = active[s].prompt
                           /\ \A q \in queue : q.id # r.id
      BY <2>2, Requeues DEF Base, Adds
    <3>3. RowsApart' /\ Hands'
      BY <1>3, <3>2, RowAdded DEF Base, Hands
    <3>4. Homes'
      <4>1. \A q \in queue : q.prompt = r.prompt => q.session = s
        BY <1>2, <3>2 DEF Base, Homes
      <4>2. \A t \in Sessions : Busy(t) /\ active[t].prompt = r.prompt => t = s
        BY <1>2, <3>2 DEF Base, Homes
      <4>3. \A t \in Sessions : Busy(t)' => Busy(t) /\ active'[t].prompt = active[t].prompt
        BY <1>2 DEF FewerTurns
      <4> QED BY <3>2, <4>1, <4>2, <4>3 DEF Base, Homes
    <3>5. Fresh'
      BY <1>2, <1>3, <3>2 DEF Base, Fresh, FewerTurns
    <3> QED BY <3>3, <3>4, <3>5
  <2> QED BY <2>1, <2>2 DEF TurnStep, Record, Launch, FailStart, GoAway, Hold, Finish, Release,
                            db
<1>5. Sending'
  <2> SUFFICES ASSUME lock'.pc = "sending" PROVE Sending'
    BY DEF Sending
  <2>1. lock' = lock /\ ~(SentByHolder(s) /\ (Launch(s) \/ Release(s)))
    BY TurnLock DEF Base
  <2>2. PICK r \in lock.row :
           /\ active[r.session].prompt = r.prompt
           /\ active[r.session].stage \in {"claimed", "recorded", "away", "requeued",
                                           "settled"}
    BY <2>1 DEF Base, Sending
  <2>3. r.session \in Sessions
    BY InHand
  <2>4. CASE r.session # s
    BY <1>2, <2>1, <2>2, <2>3, <2>4 DEF Same, Sending
  <2>5. CASE r.session = s
    <3>1. SentByHolder(s)
      BY <2>1, <2>5 DEF SentByHolder
    <3>2. ~Finish(s)
      BY <2>2, <2>5 DEF Finish
    <3>3. \E x \in {"recorded", "away", "requeued", "settled"} : Moves(s, x)
      BY <2>1, <3>1, <3>2, TurnMoves DEF Base, TurnStep
    <3> QED BY <2>1, <2>2, <2>5, <3>3 DEF Moves, Sending
  <2> QED BY <2>4, <2>5
<1> QED BY <1>1, <1>4, <1>5 DEF Base

\* Without a new row the rest is a matter of the lock.
LEMMA BaseElse ==
    ASSUME Base, [Next]_vars, FewerTurns, OlderRows, RowsApart', Hands', Sending',
           accepted' = accepted, tries' = tries, lock'.turn \subseteq lock.turn,
           \A p \in halted' : p <= accepted
    PROVE  Base'
<1>1. \A p \in halted' \cup lock'.turn : p <= accepted
  BY DEF Base, Fresh
<1> QED BY <1>1, HomesKept, TypedKept DEF Base

\* The steps that move neither rows nor turns.
LEMMA BaseStill ==
    ASSUME Base, [Next]_vars, \A t \in Sessions : Same(t), UNCHANGED data,
           Hands', lock'.pc = "sending" => lock' = lock, lock'.turn \subseteq lock.turn
    PROVE  Base'
<1>1. /\ queue' = queue /\ halted' = halted /\ accepted' = accepted /\ tries' = tries
  BY DEF data
<1>2. FewerTurns /\ OlderRows /\ RowsApart'
  BY <1>1, FewerSame, OlderSame DEF Base, RowsApart
<1>3. Sending'
  <2>1. \A r \in lock.row : r.session \in Sessions
    BY InHand
  <2> QED BY <2>1 DEF Base, Sending, Same
<1> QED BY <1>1, <1>2, <1>3, BaseElse DEF Base, Fresh

LEMMA BaseRests == ASSUME Base, [Next]_vars, Rests PROVE Base'
<1>1. Hands'
  BY DEF Rests, data, Base, Hands
<1> QED BY <1>1, BaseStill DEF Rests

LEMMA BaseLetsGo == ASSUME Base, [Next]_vars, LetsGo PROVE Base'
<1>1. Hands'
  BY DEF LetsGo, Hands
<1> QED BY <1>1, BaseStill DEF LetsGo

LEMMA BaseTakes == ASSUME Base, [Next]_vars, Takes PROVE Base'
<1>1. Hands'
  BY DEF Takes, data, Hands, Alike
<1> QED BY <1>1, BaseStill DEF Takes

LEMMA BaseStop == ASSUME Base, NEW c \in calls, TakeStop(c) PROVE Base'
<1>1. [Next]_vars /\ Typed' /\ c.session \in Sessions
  BY TypedKept DEF Next, CallStep, Base, Typed, TypeOK, Call
<1>2. /\ \A t \in Sessions : Same(t) /\ (Busy(t)' <=> Busy(t))
      /\ queue' = queue /\ halted' = halted /\ accepted' = accepted /\ tries' = tries
      /\ lock'.pc = "clear" /\ lock'.row = {} /\ lock'.turn = TurnSeen(c.session)
  BY DEF TakeStop, db, ghost, Same, Busy, Free
<1>3. RowsApart' /\ Hands' /\ Sending' /\ FewerTurns /\ OlderRows
  BY <1>2, FewerSame, OlderSame DEF Base, RowsApart, Hands, Sending
<1>4. \A p \in halted' \cup lock'.turn : p <= accepted
  BY <1>1, <1>2 DEF TurnSeen, Base, Fresh
<1> QED BY <1>1, <1>2, <1>3, <1>4, HomesKept DEF Base

LEMMA BaseDelete == ASSUME Base, NEW c \in calls, TakeDelete(c) PROVE Base'
<1>1. [Next]_vars
  BY DEF Next, CallStep
<1>2. /\ active' = active /\ accepted' = accepted /\ tries' = tries
      /\ queue' \subseteq queue
      /\ \E gone \in SUBSET queue : halted' = halted \cup {r.prompt : r \in gone}
      /\ lock'.pc \in {"pick", "finish"} /\ lock'.row = {} /\ lock'.turn = {}
  <2> DEFINE gone == {r \in queue : r.id = c.id /\ r.session = c.session}
  <2>1. /\ active' = active /\ accepted' = accepted /\ tries' = tries
        /\ queue' = queue \ gone /\ halted' = halted \cup {r.prompt : r \in gone}
        /\ gone \in SUBSET queue
    BY DEF TakeDelete
  <2>2. lock'.pc \in {"pick", "finish"} /\ lock'.row = {} /\ lock'.turn = {}
    <3>1. CASE gone = {}
      BY <3>1 DEF TakeDelete, Free
    <3>2. CASE gone # {}
      BY <3>2 DEF TakeDelete, Free
    <3> QED BY <3>1, <3>2
  <2> QED BY <2>1, <2>2
<1>3. RowsApart' /\ Hands' /\ Sending' /\ FewerTurns /\ OlderRows
  BY <1>2, OlderSame DEF Base, RowsApart, Hands, Sending, FewerTurns, Busy
<1>4. \A p \in halted' : p <= accepted
  BY <1>2 DEF Base, Fresh
<1> QED BY <1>1, <1>2, <1>3, <1>4, BaseElse

LEMMA BaseRefuse == ASSUME Base, Refuse PROVE Base'
<1>1. [Next]_vars
  BY DEF Next, HolderStep
<1>2. /\ lock'.pc = "failed" /\ lock'.op = lock.op /\ lock'.row = lock.row
      /\ lock'.turn = lock.turn
      /\ UNCHANGED data /\ active' = active
  BY HolderMoves DEF Refuse, db, data, Base
<1>3. Hands' /\ \A t \in Sessions : Same(t)
  BY <1>2 DEF Base, Hands, data, Same
<1> QED BY <1>1, <1>2, <1>3, BaseStill

LEMMA BaseDrop == ASSUME Base, DropRow PROVE Base'
<1>1. [Next]_vars
  BY DEF Next, HolderStep
<1>2. /\ active' = active /\ accepted' = accepted /\ tries' = tries /\ halted' = halted
      /\ queue' \subseteq queue /\ lock' = Free
  BY DEF DropRow, RowDropped, ghost
<1>3. RowsApart' /\ Hands' /\ Sending' /\ FewerTurns /\ OlderRows /\ lock'.turn = {}
  BY <1>2, OlderSame DEF Base, RowsApart, Hands, Sending, FewerTurns, Busy, Free
<1> QED BY <1>1, <1>2, <1>3, BaseElse DEF Base, Fresh

\* A Stop takes the rows of its task, and waits for the turn it saw.
LEMMA Clears ==
    ASSUME Typed, ClearQueue
    PROVE  \E c \in lock.call :
              /\ queue' = queue \ RowsOf(queue, c.session)
              /\ unrun' = unrun \cup QueuedPrompts(c.session)
              /\ halted' = halted \cup QueuedPrompts(c.session) \cup lock.turn
              /\ \/ lock' = Free /\ lock.turn = {} /\ RowsOf(queue, c.session) = {}
                 \/ /\ lock'.pc = "finish" /\ lock'.op = lock.op /\ lock'.row = lock.row
                    /\ lock'.turn = lock.turn /\ lock'.call = lock.call
BY HolderMoves DEF ClearQueue

LEMMA BaseClear == ASSUME Base, ClearQueue PROVE Base'
<1>1. [Next]_vars
  BY DEF Next, HolderStep
<1>2. PICK c \in lock.call :
         /\ queue' = queue \ RowsOf(queue, c.session)
         /\ halted' = halted \cup QueuedPrompts(c.session) \cup lock.turn
         /\ \/ lock' = Free
            \/ /\ lock'.pc = "finish" /\ lock'.op = lock.op /\ lock'.row = lock.row
               /\ lock'.turn = lock.turn
  BY Clears DEF Base
<1>3. active' = active /\ accepted' = accepted /\ tries' = tries /\ lock.row = {}
  BY DEF ClearQueue, Base, Hands
<1>4. RowsApart' /\ Hands' /\ Sending' /\ FewerTurns /\ OlderRows
      /\ lock'.turn \subseteq lock.turn
  BY <1>2, <1>3, OlderSame DEF Base, RowsApart, Hands, Sending, FewerTurns, Busy, Free
<1>5. \A p \in halted' : p <= accepted
  BY <1>2 DEF QueuedPrompts, RowsOf, Base, Fresh
<1> QED BY <1>1, <1>3, <1>4, <1>5, BaseElse

\* A row whose wait is over is the same row.
LEMMA Becomes ==
    ASSUME Typed, BecomeDue
    PROVE  \E r \in queue, d \in Row : /\ ~r.due /\ d.due /\ Alike(r, d) /\ Alike(d, r)
                                       /\ queue' = (queue \ {r}) \cup {d}
<1>1. PICK r \in queue : ~r.due /\ queue' = (queue \ {r}) \cup {[r EXCEPT !.due = TRUE]}
  BY DEF BecomeDue
<1>2. [r EXCEPT !.due = TRUE] \in Row /\ r \in Row
  BY DEF Typed, TypeOK, Row
<1>3. Alike(r, [r EXCEPT !.due = TRUE]) /\ Alike([r EXCEPT !.due = TRUE], r)
      /\ [r EXCEPT !.due = TRUE].due
  BY <1>2 DEF Alike, Row
<1> QED BY <1>1, <1>2, <1>3

LEMMA BaseDue == ASSUME Base, BecomeDue PROVE Base'
<1>1. [Next]_vars
  BY DEF Next
<1>2. PICK r \in queue, d \in Row : /\ Alike(r, d) /\ Alike(d, r)
                                    /\ queue' = (queue \ {r}) \cup {d}
  BY Becomes DEF Base
<1>3. /\ active' = active /\ accepted' = accepted /\ tries' = tries /\ halted' = halted
      /\ lock' = lock
  BY DEF BecomeDue, proc, ghost
<1>4. RowsApart' /\ OlderRows
  BY <1>2 DEF Base, RowsApart, OlderRows, Alike
<1>5. Hands'
  BY <1>2, <1>3 DEF Base, Hands, Alike
<1>6. Sending' /\ FewerTurns
  BY <1>3 DEF Base, Sending, FewerTurns, Busy
<1> QED BY <1>1, <1>3, <1>4, <1>5, <1>6, BaseElse DEF Base, Fresh

LEMMA BaseDown == ASSUME Base, Crash \/ Exit PROVE Base'
<1>1. [Next]_vars
  BY DEF Next
<1>2. Down /\ queue' = queue /\ accepted' = accepted /\ tries' = tries /\ halted' = halted
  BY DEF Crash, Exit, db, ghost
<1>3. RowsApart' /\ Hands' /\ Sending' /\ FewerTurns /\ OlderRows /\ lock'.turn = {}
  BY <1>2, FewerDown, OlderSame DEF Base, RowsApart, Hands, Sending
<1> QED BY <1>1, <1>2, <1>3, BaseElse DEF Base, Fresh

\* The initial states have no rows and no turns.
LEMMA BaseInit == Init => Base
<1> SUFFICES ASSUME Init PROVE Base
  OBVIOUS
<1>1. queue = {} /\ active = [s \in Sessions |-> NoTurn] /\ lock = Free /\ accepted = 0
      /\ tries = [p \in Prompts |-> 0] /\ halted = {}
  BY DEF Init
<1>2. RowsApart /\ Hands /\ Homes /\ Fresh /\ Sending
  BY <1>1 DEF RowsApart, Hands, Homes, Fresh, Sending, Free, NoTurn, Busy
<1> QED BY <1>2, InitTyped DEF Base

\* Every step keeps the base.
LEMMA BaseKept == Base /\ [Next]_vars => Base'
<1> SUFFICES ASSUME Base, [Next]_vars PROVE Base'
  OBVIOUS
<1>1. Typed /\ RowsApart
  BY DEF Base
<1> QED BY <1>1, Kinds1, BaseRests, BaseLetsGo, BaseTakes, BaseEnqueue, BaseSend, BaseTurn,
           BaseStop, BaseDelete, BaseClaim, BaseRefuse, BaseDrop, BaseClear, BaseDue, BaseDown
-----------------------------------------------------------------------------
(* What a budget leaves out does not happen                                 *)

\* A budget is only spent.
LEMMA LeftFalls ==
    ASSUME Typed, [Next]_vars, NEW k \in Kinds
    PROVE  left'[k] \in Nat /\ left[k] \in Nat /\ left'[k] <= left[k]
<1>1. left \in [Kinds -> Nat]
  BY DEF Typed, TypeOK
<1>2. ASSUME NEW kind, Spend(kind) PROVE left'[k] \in Nat /\ left'[k] <= left[k]
  BY <1>1, <1>2 DEF Spend
<1>3. left' = left \/ \E kind \in Kinds : Spend(kind)
  <2>1. ASSUME NEW s \in Sessions, TurnStep(s) PROVE left' = left \/ \E kind \in Kinds : Spend(kind)
    BY <2>1 DEF TurnStep, Record, Launch, FailStart, GoAway, Requeue, Hold, Finish, Release,
                ghost, Kinds
  <2>2. ASSUME HolderStep PROVE left' = left \/ \E kind \in Kinds : Spend(kind)
    BY <2>2 DEF HolderStep, Pick, ClaimRow, FindBusy, Refuse, DropRow, FailForced, ClearQueue,
                FinishCall, ghost, Kinds
  <2>3. ASSUME NEW c \in calls, CallStep(c) PROVE left' = left
    BY <2>3 DEF CallStep, ForceClaims, TakeForced, TakeStop, TakeDelete, ghost
  <2>4. ASSUME UserStep PROVE left' = left \/ \E kind \in Kinds : Spend(kind)
    BY <2>4 DEF UserStep, Enqueue, Send, StopCalled, ForceCalled, DeleteCalled, Pause, Ask,
                Kinds
  <2>5. ASSUME \/ TakeSchedule \/ BecomeDue \/ RetryTick \/ Signal \/ Shutdown \/ Exit \/ Crash
               \/ Restart \/ UNCHANGED vars
        PROVE  left' = left \/ \E kind \in Kinds : Spend(kind)
    BY <2>5 DEF TakeSchedule, BecomeDue, RetryTick, Signal, Shutdown, Exit, Crash, Restart,
                vars, ghost, Kinds
  <2> QED BY <2>1, <2>2, <2>3, <2>4, <2>5 DEF Next
<1> QED BY <1>1, <1>2, <1>3

\* The runner stops only for a shutdown.
LEMMA StopsOnce ==
    ASSUME Typed, [Next]_vars
    PROVE  stopping' => stopping \/ left["shutdown"] > 0
<1>1. ASSUME NEW s \in Sessions, TurnStep(s) PROVE stopping' = stopping
  BY <1>1 DEF TurnStep, Record, Launch, FailStart, GoAway, Requeue, Hold, Finish, Release
<1>2. ASSUME HolderStep PROVE stopping' = stopping
  BY <1>2 DEF HolderStep, Pick, ClaimRow, FindBusy, Refuse, DropRow, FailForced, ClearQueue,
              FinishCall
<1>3. ASSUME NEW c \in calls, CallStep(c) PROVE stopping' = stopping
  BY <1>3 DEF CallStep, ForceClaims, TakeForced, TakeStop, TakeDelete
<1>4. ASSUME UserStep PROVE stopping' = stopping
  BY <1>4 DEF UserStep, Enqueue, Send, StopCalled, ForceCalled, DeleteCalled, Pause
<1>5. ASSUME \/ TakeSchedule \/ BecomeDue \/ RetryTick \/ Signal \/ Shutdown \/ Exit \/ Crash
             \/ Restart \/ UNCHANGED vars
      PROVE  stopping' => stopping \/ left["shutdown"] > 0
  BY <1>5 DEF TakeSchedule, BecomeDue, RetryTick, Signal, Shutdown, Exit, Crash, Restart, Down,
              Spend, vars, proc
<1> QED BY <1>1, <1>2, <1>3, <1>4, <1>5 DEF Next
-----------------------------------------------------------------------------
(* No prompt is lost                                                        *)

\* No start is refused, neither for the provider nor by a shutdown.
NoneRefused == \A b \in Budgets : b["refuse"] = 0 /\ b["shutdown"] = 0
Willing     == left["refuse"] = 0 /\ left["shutdown"] = 0 /\ ~stopping

\* A prompt outlasts the removal of row r.
Outlasts(r) == r.prompt \in owed => \/ Transcribed(r.prompt)
                                    \/ \E q \in queue : q.prompt = r.prompt /\ q.id # r.id

\* A turn that was stored has its prompt in the transcript.
Written == \A s \in Sessions :
    active[s].stage \in {"recorded", "running", "away", "requeued"} =>
        Transcribed(active[s].prompt)

\* Once the turn of a row runs or is over, the row may go.
MayGo == \A r \in lock.row :
    (lock.pc = "sending" => active[r.session].stage = "settled")
      /\ lock.pc \in {"sending", "started", "failed"} => Outlasts(r)

\* A prompt put back for an outage has a row that the holder of the lock does
\* not take, before its turn is erased.
Returned == \A s \in Sessions :
    active[s].stage = "requeued" /\ active[s].prompt \in owed =>
        \/ active[s].prompt \in unrun
        \/ \E q \in queue : /\ q.prompt = active[s].prompt
                            /\ lock.pc \in {"sending", "started", "failed"} =>
                                   \A r \in lock.row : r.id # q.id

Lasts   == Written /\ MayGo /\ Returned /\ NothingLost
Lasting == Base /\ Willing /\ Lasts

\* A transcript that only grows keeps its prompts.
LEMMA StaysTranscribed ==
    ASSUME ran \subseteq ran', unrun \subseteq unrun', NEW p
    PROVE  Transcribed(p) => Transcribed(p)'
BY DEF Transcribed

\* Steps that move neither rows nor turns, nor send a row.
LEMMA LastsStill ==
    ASSUME Lasting, \A t \in Sessions : Same(t), UNCHANGED data,
           lock' = lock \/ lock'.row = {} \/ lock'.pc = "claim"
    PROVE  Lasts'
<1>1. /\ queue' = queue /\ ran' = ran /\ unrun' = unrun /\ owed' = owed
  BY DEF data
<1>2. \A r \in lock.row : r.session \in Sessions
  BY InHand DEF Lasting
<1>3. \A p : Transcribed(p)' <=> Transcribed(p)
  BY <1>1 DEF Transcribed
<1>4. \A r : Outlasts(r)' <=> Outlasts(r)
  BY <1>1, <1>3 DEF Outlasts
<1>5. Written' /\ NothingLost'
  BY <1>1, <1>3 DEF Lasting, Lasts, Written, NothingLost, Queued, Same
<1>6. MayGo'
  BY <1>2, <1>4 DEF Lasting, Lasts, MayGo, Same
<1>7. Returned'
  BY <1>1 DEF Lasting, Lasts, Returned, Same
<1> QED BY <1>5, <1>6, <1>7 DEF Lasts

LEMMA LastsEnqueue == ASSUME Lasting, NEW s \in Sessions, Enqueue(s) PROVE Lasts'
<1>1. /\ ran' = ran /\ unrun' = unrun /\ active' = active /\ lock' = lock
      /\ owed' = owed \cup {accepted + 1}
  BY DEF Enqueue
<1>2. PICK r : Adds(r) /\ r.prompt = accepted + 1
  BY Queues DEF Lasting, Base
<1>3. /\ r \in queue' /\ queue \subseteq queue' /\ \A q \in queue : q.prompt # r.prompt
      /\ \A t \in Sessions : Busy(t) => active[t].prompt # r.prompt
  <2>1. accepted \in Nat
    BY DEF Lasting, Base, Typed, TypeOK
  <2>2. \A q \in queue : q.prompt \in Nat /\ q.prompt <= accepted
    BY PromptsAssumption DEF Lasting, Base, Fresh, Typed, TypeOK, Row
  <2>3. \A t \in Sessions : Busy(t) => active[t].prompt \in Nat /\ active[t].prompt <= accepted
    BY PromptsAssumption DEF Lasting, Base, Fresh, Typed, TurnHasPrompt
  <2> QED BY <1>2, <2>1, <2>2, <2>3 DEF Adds
<1>4. \A p : Transcribed(p)' <=> Transcribed(p)
  BY <1>1 DEF Transcribed
<1>5. \A h \in lock.row : h.prompt # r.prompt
  BY <1>3, InHand DEF Lasting, Alike
<1>6. Written' /\ NothingLost'
  BY <1>1, <1>2, <1>3, <1>4 DEF Lasting, Lasts, Written, NothingLost, Queued
<1>7. MayGo'
  BY <1>1, <1>2, <1>3, <1>4, <1>5 DEF Lasting, Lasts, MayGo, Outlasts
<1>8. Returned'
  BY <1>1, <1>2, <1>3 DEF Lasting, Lasts, Returned, Busy
<1> QED BY <1>6, <1>7, <1>8 DEF Lasts

LEMMA LastsSend == ASSUME Lasting, NEW s \in Sessions, Send(s) PROVE Lasts'
<1>1. /\ queue' = queue /\ ran' = ran /\ unrun' = unrun /\ owed' = owed /\ lock' = lock
      /\ accepted + 1 \in Prompts /\ Claim(s, accepted + 1, 0, "direct")
  BY DEF Send, db
<1>2. active'[s].stage = "claimed" /\ \A t \in Sessions : t # s => Same(t)
  BY <1>1, Claims DEF Lasting, Base
<1>3. \A p : Transcribed(p)' <=> Transcribed(p)
  BY <1>1 DEF Transcribed
<1>4. Written' /\ NothingLost'
  BY <1>1, <1>2, <1>3 DEF Lasting, Lasts, Written, NothingLost, Queued, Same
<1>5. MayGo'
  <2>1. \A r \in lock.row : r.session \in Sessions
    BY InHand DEF Lasting
  <2> QED BY <1>1, <1>2, <1>3, <2>1 DEF Lasting, Lasts, MayGo, Outlasts, Same
<1>6. Returned'
  BY <1>1, <1>2 DEF Lasting, Lasts, Returned, Same
<1> QED BY <1>4, <1>5, <1>6 DEF Lasts

LEMMA LastsClaim == ASSUME Lasting, ClaimRow PROVE Lasts'
<1>1. /\ queue' = queue /\ ran' = ran /\ unrun' = unrun /\ owed' = owed
      /\ lock'.pc = "sending" /\ lock'.row = lock.row
  BY HolderMoves DEF ClaimRow, db, Lasting, Base
<1>2. PICK r \in lock.row : Claim(r.session, r.prompt, r.retries, lock.op)
  BY DEF ClaimRow
<1>3. r.session \in Sessions /\ r.prompt \in Prompts /\ \A h \in lock.row : h = r
  BY InHand DEF Lasting
<1>4. /\ ~Busy(r.session) /\ active'[r.session].stage = "claimed"
      /\ \A t \in Sessions : t # r.session => Same(t)
  BY <1>2, <1>3, Claims DEF Lasting, Base
<1>5. \A p : Transcribed(p)' <=> Transcribed(p)
  BY <1>1 DEF Transcribed
<1>6. Written' /\ NothingLost'
  BY <1>1, <1>4, <1>5 DEF Lasting, Lasts, Written, NothingLost, Queued, Same
<1>7. MayGo'
  BY <1>1, <1>3, <1>4 DEF MayGo
<1>8. Returned'
  <2> SUFFICES ASSUME NEW t \in Sessions, active'[t].stage = "requeued",
                      active'[t].prompt \in owed, active'[t].prompt \notin unrun
               PROVE  \E q \in queue : q.prompt = active'[t].prompt /\ r.id # q.id
    BY <1>1, <1>3 DEF Returned
  <2>1. t # r.session /\ active[t].stage = "requeued" /\ active'[t].prompt = active[t].prompt
    BY <1>4 DEF Same
  <2>2. PICK q \in queue : q.prompt = active[t].prompt
    BY <2>1 DEF Lasting, Lasts, Returned
  <2>3. q.session = t
    BY <2>1, <2>2 DEF Lasting, Base, Homes, Busy
  <2>4. q.id # r.id
    <3>1. PICK h \in queue : Alike(h, r)
      BY InHand DEF Lasting
    <3> QED BY <2>1, <2>3, <3>1 DEF Lasting, Base, RowsApart, Alike
  <2> QED BY <2>1, <2>2, <2>4
<1> QED BY <1>6, <1>7, <1>8 DEF Lasts

LEMMA LastsRecord == ASSUME Lasting, NEW s \in Sessions, Record(s) PROVE Lasts'
<1> PICK p : p = active[s].prompt
  OBVIOUS
<1>1. /\ queue' = queue /\ ran' = ran \cup {Copy(s)} /\ unrun' = unrun /\ lock' = lock
      /\ owed \subseteq owed' /\ owed' \subseteq owed \cup {p}
      /\ Busy(s) /\ active[s].stage = "claimed" /\ Moves(s, "recorded")
  BY TurnMoves DEF Lasting, Base, TurnStep, Record
<1>2. /\ \A x : Transcribed(x) => Transcribed(x)'
      /\ Transcribed(p)'
  <2>1. \A x : Transcribed(x) => Transcribed(x)'
    BY <1>1, StaysTranscribed
  <2>2. Copy(s) \in ran' /\ Copy(s)[1] = p
    BY <1>1 DEF Copy
  <2> QED BY <2>1, <2>2 DEF Transcribed
<1>3. Written'
  BY <1>1, <1>2 DEF Lasting, Lasts, Written, Moves, Same
<1>4. NothingLost'
  <2>1. \A x \in owed' : x \in owed \/ x = p
    BY <1>1
  <2>2. \A x \in owed : Queued(x) \/ Transcribed(x)
    BY DEF Lasting, Lasts, NothingLost
  <2>3. \A x : Queued(x)' <=> Queued(x)
    BY <1>1 DEF Queued
  <2> QED BY <1>2, <2>1, <2>2, <2>3 DEF NothingLost
<1>5. MayGo'
  <2> SUFFICES ASSUME NEW r \in lock.row, lock.pc = "sending" => active'[r.session].stage = "settled",
                      lock.pc \in {"sending", "started", "failed"}
               PROVE  Outlasts(r)'
    BY <1>1 DEF MayGo
  <2>1. r.session \in Sessions
    BY InHand DEF Lasting
  <2>2. active'[r.session].stage = "settled" => active[r.session].stage = "settled"
    BY <1>1, <2>1 DEF Moves, Same
  <2>3. Outlasts(r)
    BY <2>2 DEF Lasting, Lasts, MayGo
  <2>4. CASE r.prompt = p
    BY <1>2, <2>4 DEF Outlasts
  <2>5. CASE r.prompt # p
    <3>1. r.prompt \in owed' => r.prompt \in owed
      BY <1>1, <2>5
    <3> QED BY <1>1, <1>2, <2>3, <3>1 DEF Outlasts
  <2> QED BY <2>4, <2>5
<1>6. Returned'
  <2> SUFFICES ASSUME NEW t \in Sessions, active'[t].stage = "requeued",
                      active'[t].prompt \in owed'
               PROVE  \/ active[t].prompt \in unrun
                      \/ \E q \in queue : /\ q.prompt = active[t].prompt
                                          /\ lock.pc \in {"sending", "started", "failed"} =>
                                                 \A r \in lock.row : r.id # q.id
    BY <1>1 DEF Returned, Moves, Same
  <2>1. t # s /\ active[t].stage = "requeued" /\ active'[t].prompt = active[t].prompt
    BY <1>1 DEF Moves, Same
  <2>2. active[t].prompt # p
    BY <1>1, <2>1 DEF Lasting, Base, Homes, Busy
  <2> QED BY <1>1, <2>1, <2>2 DEF Lasting, Lasts, Returned
<1> QED BY <1>3, <1>4, <1>5, <1>6 DEF Lasts

\* The steps that move a turn and store nothing.
LEMMA LastsMoves ==
    ASSUME Lasting, NEW s \in Sessions,
           Launch(s) \/ FailStart(s) \/ GoAway(s) \/ Finish(s) \/ Release(s)
    PROVE  Lasts'
<1>1. TurnStep(s) /\ Typed /\ Busy(s)
  BY TurnMoves DEF TurnStep, Lasting, Base
<1>2. /\ queue' = queue /\ ran' = ran /\ unrun' = unrun /\ owed' = owed
  BY DEF Launch, FailStart, GoAway, Finish, Release, db, ghost
<1>3. /\ \A p : Transcribed(p)' <=> Transcribed(p)
      /\ \A r : Outlasts(r)' <=> Outlasts(r)
  BY <1>2 DEF Transcribed, Outlasts
<1>4. /\ \A t \in Sessions : t # s => Same(t)
      /\ active'[s].stage \in {"running", "settled", "away", "none"}
      /\ active'[s].stage # "none" => active'[s].prompt = active[s].prompt
      /\ active[s].stage \in {"recorded", "running", "settled"}
      /\ active'[s].stage # "none" => active[s].stage \in {"recorded", "running"}
  <2>1. /\ Launch(s) => Moves(s, "running") /\ active[s].stage = "recorded"
        /\ FailStart(s) => Moves(s, "settled") /\ active[s].stage = "recorded"
        /\ GoAway(s) => Moves(s, "away") /\ active[s].stage \in {"recorded", "running"}
        /\ Finish(s) => Moves(s, "settled") /\ active[s].stage = "running"
    BY <1>1, TurnMoves DEF Launch, FailStart, GoAway, Finish
  <2>2. Release(s) => /\ \A t \in Sessions : t # s => Same(t)
                      /\ active'[s].stage = "none" /\ active[s].stage = "settled"
    BY <1>1, TurnMoves DEF Release, Busy
  <2> QED BY <2>1, <2>2 DEF Moves
<1>5. Written' /\ NothingLost'
  BY <1>2, <1>3, <1>4 DEF Lasting, Lasts, Written, NothingLost, Queued, Same
<1>6. MayGo'
  <2> SUFFICES ASSUME NEW r \in lock.row, lock'.pc = "sending" => active'[r.session].stage = "settled",
                      lock'.pc \in {"sending", "started", "failed"}
               PROVE  Outlasts(r)
    BY <1>1, <1>3, TurnLock DEF MayGo
  <2>1. r.session \in Sessions
    BY InHand DEF Lasting
  <2>2. lock.pc = "sending" => /\ active[r.session].prompt = r.prompt
                               /\ SentByHolder(s) <=> s = r.session
    BY SentTurn DEF Lasting
  <2>3. CASE lock' = lock
    <3>1. CASE lock.pc = "sending" /\ r.session = s
      <4>1. Transcribed(r.prompt)
        BY <1>4, <2>1, <2>2, <2>3, <3>1 DEF Lasting, Lasts, Written
      <4> QED BY <4>1 DEF Outlasts
    <3>2. CASE ~(lock.pc = "sending" /\ r.session = s)
      BY <1>4, <2>1, <2>3, <3>2 DEF Lasting, Lasts, MayGo, Same
    <3> QED BY <3>1, <3>2
  <2>4. CASE SentByHolder(s) /\ Launch(s)
    <3>1. r.session = s /\ lock.pc = "sending"
      BY <2>2, <2>4 DEF SentByHolder
    <3>2. Transcribed(r.prompt)
      BY <1>1, <2>2, <2>4, <3>1 DEF Lasting, Lasts, Written, Launch
    <3> QED BY <3>2 DEF Outlasts
  <2>5. CASE SentByHolder(s) /\ Release(s)
    <3>1. r.session = s /\ lock.pc = "sending" /\ active[s].stage = "settled"
      BY <2>2, <2>5 DEF SentByHolder, Release
    <3> QED BY <3>1 DEF Lasting, Lasts, MayGo
  <2> QED BY <1>1, <2>3, <2>4, <2>5, TurnLock
<1>7. Returned'
  <2>1. lock'.row = lock.row /\ (lock' = lock \/ lock.pc = "sending")
    BY <1>1, TurnLock DEF SentByHolder
  <2> QED BY <1>2, <1>4, <2>1 DEF Lasting, Lasts, Returned, Same
<1> QED BY <1>5, <1>6, <1>7 DEF Lasts

LEMMA LastsRequeue == ASSUME Lasting, NEW s \in Sessions, Requeue(s) PROVE Lasts'
<1>1. /\ ran' = ran /\ unrun' = unrun /\ owed' = owed /\ lock' = lock
      /\ Busy(s) /\ active[s].stage = "away" /\ Moves(s, "requeued")
  BY TurnMoves DEF Lasting, Base, TurnStep, Requeue, ghost
<1>2. PICK r : Adds(r) /\ r.prompt = active[s].prompt
  BY Requeues DEF Lasting, Base
<1>3. \A p : Transcribed(p)' <=> Transcribed(p)
  BY <1>1 DEF Transcribed
<1>4. queue \subseteq queue' /\ r \in queue' /\ \A h \in lock.row : h.id # r.id
  BY <1>2, InHand DEF Adds, Lasting, Alike
<1>5. Written' /\ NothingLost'
  BY <1>1, <1>3, <1>4 DEF Lasting, Lasts, Written, NothingLost, Queued, Moves, Same
<1>6. MayGo'
  <2>1. \A h \in lock.row : h.session \in Sessions
    BY InHand DEF Lasting
  <2>2. \A h \in lock.row : active'[h.session].stage = "settled" => active[h.session].stage = "settled"
    BY <1>1, <2>1 DEF Moves, Same
  <2> QED BY <1>1, <1>3, <1>4, <2>2 DEF Lasting, Lasts, MayGo, Outlasts
<1>7. Returned'
  BY <1>1, <1>2, <1>4 DEF Lasting, Lasts, Returned, Moves, Same
<1> QED BY <1>5, <1>6, <1>7 DEF Lasts

LEMMA LastsHold == ASSUME Lasting, NEW s \in Sessions, Hold(s) PROVE Lasts'
<1> PICK p : p = active[s].prompt
  OBVIOUS
<1>1. /\ queue' = queue /\ unrun' = unrun /\ owed' = owed /\ lock' = lock
      /\ Busy(s) /\ active[s].stage = "requeued" /\ Moves(s, "settled")
      /\ ran \ {Copy(s)} \subseteq ran'
  BY TurnMoves DEF Lasting, Base, TurnStep, Hold, ghost
<1>2. \A x : x # p /\ Transcribed(x) => Transcribed(x)'
  BY <1>1 DEF Transcribed, Copy
<1>3. p \in owed =>
          \/ Transcribed(p)'
          \/ \E q \in queue : /\ q.prompt = p
                              /\ lock.pc \in {"sending", "started", "failed"} =>
                                     \A r \in lock.row : r.id # q.id
  <2>1. p \in unrun => Transcribed(p)'
    BY <1>1 DEF Transcribed
  <2>2. p \in owed =>
            \/ p \in unrun
            \/ \E q \in queue : /\ q.prompt = p
                                /\ lock.pc \in {"sending", "started", "failed"} =>
                                       \A r \in lock.row : r.id # q.id
    BY <1>1 DEF Lasting, Lasts, Returned
  <2> QED BY <2>1, <2>2
<1>4. NothingLost'
  <2>1. \A x \in owed : Queued(x) \/ Transcribed(x)
    BY DEF Lasting, Lasts, NothingLost
  <2>2. /\ \A x : Queued(x)' <=> Queued(x)
        /\ p \in owed => Queued(p) \/ Transcribed(p)'
    BY <1>1, <1>3 DEF Queued
  <2> QED BY <1>1, <1>2, <2>1, <2>2 DEF NothingLost
<1>5. Written'
  <2>1. \A t \in Sessions : t # s /\ Busy(t) => active[t].prompt # p
    BY <1>1 DEF Lasting, Base, Homes
  <2> QED BY <1>1, <1>2, <2>1 DEF Lasting, Lasts, Written, Moves, Same, Busy
<1>6. MayGo'
  <2> SUFFICES ASSUME NEW r \in lock.row, lock.pc = "sending" => active'[r.session].stage = "settled",
                      lock.pc \in {"sending", "started", "failed"}
               PROVE  Outlasts(r)'
    BY <1>1 DEF MayGo
  <2>1. r.session \in Sessions
    BY InHand DEF Lasting
  <2>2. CASE r.prompt = p
    <3>1. ASSUME NEW q \in queue, q.prompt = p, \A h \in lock.row : h.id # q.id
          PROVE  \E x \in queue' : x.prompt = r.prompt /\ x.id # r.id
      <4>1. q \in queue' /\ q.prompt = r.prompt /\ q.id # r.id
        BY <1>1, <2>2, <3>1
      <4> QED BY <4>1
    <3> QED BY <1>1, <1>3, <2>2, <3>1 DEF Outlasts
  <2>3. CASE r.prompt # p
    <3>1. lock.pc = "sending" => r.session # s
      BY <2>3, SentTurn DEF Lasting
    <3>2. Outlasts(r)
      BY <1>1, <2>1, <3>1 DEF Lasting, Lasts, MayGo, Moves, Same
    <3> QED BY <1>1, <1>2, <2>3, <3>2 DEF Outlasts
  <2> QED BY <2>2, <2>3
<1>7. Returned'
  BY <1>1 DEF Lasting, Lasts, Returned, Moves, Same
<1> QED BY <1>4, <1>5, <1>6, <1>7 DEF Lasts

LEMMA LastsDrop == ASSUME Lasting, DropRow PROVE Lasts'
<1>1. /\ ran' = ran /\ unrun' = unrun /\ owed' = owed /\ active' = active /\ lock'.row = {}
      /\ queue' = {r \in queue : \A c \in lock.row : r.id # c.id}
      /\ lock.pc \in {"started", "failed"}
  BY DEF DropRow, RowDropped, ghost, Free
<1>2. \A p : Transcribed(p)' <=> Transcribed(p)
  BY <1>1 DEF Transcribed
<1>3. NothingLost'
  <2> SUFFICES ASSUME NEW p \in owed, ~Transcribed(p) PROVE \E q \in queue' : q.prompt = p
    BY <1>1, <1>2 DEF NothingLost, Queued
  <2>1. PICK q \in queue : q.prompt = p
    BY DEF Lasting, Lasts, NothingLost, Queued
  <2>2. CASE \A c \in lock.row : q.id # c.id
    BY <1>1, <2>1, <2>2
  <2>3. ASSUME NEW c \in lock.row, q.id = c.id PROVE \E x \in queue' : x.prompt = p
    <3>1. PICK h \in queue : Alike(h, c)
      BY InHand DEF Lasting
    <3>2. h = q /\ c.prompt = p
      BY <2>1, <2>3, <3>1 DEF Lasting, Base, RowsApart, Alike
    <3>3. PICK x \in queue : x.prompt = p /\ x.id # c.id
      BY <1>1, <3>2 DEF Lasting, Lasts, MayGo, Outlasts
    <3>4. \A d \in lock.row : d = c
      BY InHand DEF Lasting
    <3> QED BY <1>1, <3>3, <3>4
  <2> QED BY <2>2, <2>3
<1>4. Written' /\ MayGo'
  BY <1>1, <1>2 DEF Lasting, Lasts, Written, MayGo
<1>5. Returned'
  BY <1>1 DEF Lasting, Lasts, Returned
<1> QED BY <1>3, <1>4, <1>5 DEF Lasts

LEMMA LastsClear == ASSUME Lasting, ClearQueue PROVE Lasts'
<1>1. PICK c \in lock.call : /\ queue' = queue \ RowsOf(queue, c.session)
                             /\ unrun' = unrun \cup QueuedPrompts(c.session)
                             /\ lock' = Free \/ lock'.row = lock.row
  BY Clears DEF Lasting, Base
<1>2. ran' = ran /\ owed' = owed /\ active' = active /\ lock.row = {} /\ lock'.row = {}
  BY <1>1 DEF ClearQueue, Lasting, Base, Hands, Free
<1>3. /\ \A q \in queue : q \in queue' \/ q.prompt \in unrun'
      /\ unrun \subseteq unrun'
  BY <1>1 DEF QueuedPrompts
<1>4. \A p : Transcribed(p) \/ p \in unrun' => Transcribed(p)'
  BY <1>2, <1>3 DEF Transcribed
<1>5. NothingLost' /\ Written'
  BY <1>2, <1>3, <1>4 DEF Lasting, Lasts, NothingLost, Written, Queued
<1>6. MayGo' /\ Returned'
  BY <1>2, <1>3 DEF Lasting, Lasts, MayGo, Returned
<1> QED BY <1>5, <1>6 DEF Lasts

LEMMA LastsDelete == ASSUME Lasting, NEW c \in calls, TakeDelete(c) PROVE Lasts'
<1> DEFINE gone == {r \in queue : r.id = c.id /\ r.session = c.session}
<1>1. /\ ran' = ran /\ unrun' = unrun /\ active' = active
      /\ queue' = queue \ gone /\ owed' = owed \ {r.prompt : r \in gone}
  BY DEF TakeDelete
<1>2. lock'.row = {}
  <2>1. CASE gone = {}
    BY <2>1 DEF TakeDelete, Free
  <2>2. CASE gone # {}
    BY <2>2 DEF TakeDelete, Free
  <2> QED BY <2>1, <2>2
<1>3. \A q \in queue : q.prompt \in owed' => q \in queue'
  BY <1>1
<1>4. owed' \subseteq owed /\ \A p : Transcribed(p)' <=> Transcribed(p)
  BY <1>1 DEF Transcribed
<1> HIDE DEF gone
<1>5. NothingLost' /\ Written'
  BY <1>1, <1>3, <1>4 DEF Lasting, Lasts, NothingLost, Written, Queued
<1>6. MayGo' /\ Returned'
  BY <1>1, <1>2, <1>3, <1>4 DEF Lasting, Lasts, MayGo, Returned
<1> QED BY <1>5, <1>6 DEF Lasts

LEMMA LastsDue == ASSUME Lasting, BecomeDue PROVE Lasts'
<1>1. PICK r \in queue, d \in Row : Alike(r, d) /\ queue' = (queue \ {r}) \cup {d}
  BY Becomes DEF Lasting, Base
<1>2. ran' = ran /\ unrun' = unrun /\ owed' = owed /\ active' = active /\ lock' = lock
  BY DEF BecomeDue, proc, ghost
<1>3. \A q \in queue : \E x \in queue' : x.id = q.id /\ x.prompt = q.prompt
  BY <1>1 DEF Alike
<1>4. \A p : Transcribed(p)' <=> Transcribed(p)
  BY <1>2 DEF Transcribed
<1>5. NothingLost' /\ Written'
  BY <1>2, <1>3, <1>4 DEF Lasting, Lasts, NothingLost, Written, Queued
<1>6. MayGo'
  BY <1>2, <1>3, <1>4 DEF Lasting, Lasts, MayGo, Outlasts
<1>7. Returned'
  BY <1>2, <1>3 DEF Lasting, Lasts, Returned
<1> QED BY <1>5, <1>6, <1>7 DEF Lasts

LEMMA LastsDown == ASSUME Lasting, Crash \/ Exit PROVE Lasts'
<1>1. /\ queue' = queue /\ ran' = ran /\ unrun' = unrun /\ owed' = owed
      /\ Down
  BY DEF Crash, Exit, db, ghost
<1>2. lock'.row = {} /\ \A t \in Sessions : active'[t].stage = "none"
  BY <1>1 DEF Down, NoTurn, Free
<1>3. \A p : Transcribed(p)' <=> Transcribed(p)
  BY <1>1 DEF Transcribed
<1> QED BY <1>1, <1>2, <1>3 DEF Lasting, Lasts, NothingLost, Written, Queued, MayGo, Returned

\* Without refusals every step keeps the prompts.
LEMMA LastingKept == Lasting /\ [Next]_vars => Lasting'
<1> SUFFICES ASSUME Lasting, [Next]_vars PROVE Lasting'
  OBVIOUS
<1>1. Base' /\ Typed /\ RowsApart
  BY BaseKept DEF Lasting, Base
<1>2. Willing'
  <2>1. /\ left'["refuse"] \in Nat /\ left'["refuse"] <= left["refuse"]
        /\ left'["shutdown"] \in Nat /\ left'["shutdown"] <= left["shutdown"]
    BY <1>1, LeftFalls DEF Kinds
  <2>2. ~stopping'
    BY <1>1, StopsOnce DEF Lasting, Willing
  <2> QED BY <2>1, <2>2 DEF Lasting, Willing
<1>3. ASSUME NEW s \in Sessions, TurnStep(s) PROVE Lasts'
  BY <1>3, LastsRecord, LastsMoves, LastsRequeue, LastsHold DEF TurnStep
<1>4. ASSUME NEW c \in calls, TakeStop(c) PROVE Lasts'
  <2>1. (\A t \in Sessions : Same(t)) /\ UNCHANGED data /\ lock'.row = {}
    BY <1>4 DEF TakeStop, db, ghost, data, Same, Free
  <2> QED BY <2>1, LastsStill
<1>5. ~Refuse
  BY DEF Refuse, Lasting, Willing, Spend
<1>6. Rests \/ LetsGo \/ Takes => Lasts'
  BY LastsStill DEF Rests, LetsGo, Takes
<1>7. Lasts'
  BY <1>1, <1>3, <1>4, <1>5, <1>6, Kinds1, LastsEnqueue, LastsSend, LastsClaim, LastsDrop,
     LastsClear, LastsDelete, LastsDue, LastsDown
<1> QED BY <1>1, <1>2, <1>7 DEF Lasting

\* Unless a start is refused, a prompt that was accepted is in the queue or in
\* the transcript until the user deletes it: over every order of dispatching,
\* Send now, Stop, outage, retry and crash (runner.go:1016, outage.go:71).
THEOREM PromptsLast == NoneRefused /\ Spec => []NothingLost
<1>1. NoneRefused /\ Init => Lasting
  <2> SUFFICES ASSUME NoneRefused, Init PROVE Lasting
    OBVIOUS
  <2>1. Willing
    BY DEF NoneRefused, Init, Willing
  <2>2. Lasts
    BY DEF Init, Lasts, Written, MayGo, Returned, NothingLost, NoTurn, Free
  <2> QED BY <2>1, <2>2, BaseInit DEF Lasting
<1>2. Lasting => NothingLost
  BY DEF Lasting, Lasts
<1> QED BY <1>1, <1>2, LastingKept, PTL DEF Spec
-----------------------------------------------------------------------------
(* A prompt that was halted stays so                                        *)

\* What the users of a budget stop or delete meets no outage that could bring
\* it back: none once it runs, and none at the start of a turn that a Stop or a
\* deletion does not wait for.
NoneReturns == \A b \in Budgets :
    /\ b["stop"] + b["delete"] > 0 => b["away"] = 0
    /\ b["stop"] > 0 => b["away at start"] = 0 \/ b["send"] = 0
    /\ b["delete"] > 0 => b["away at start"] = 0

\* No outage puts a prompt back beside its row.
Quiet == /\ left["away"] = 0 /\ left["away at start"] = 0
         /\ \A s \in Sessions : active[s].stage \notin {"away", "requeued"}
         /\ \A a, b \in queue : a.prompt = b.prompt => a = b

Deleting == left["delete"] > 0 \/ \E c \in calls : c.kind = "delete"
Stopping == left["stop"] > 0 \/ lock.op = "stop" \/ \E c \in calls : c.kind = "stop"

\* The turn of s does not bring its prompt back.
Spared(s) == /\ left["away"] = 0 /\ active[s].stage \notin {"away", "requeued"}
             /\ active[s].stage \in {"claimed", "recorded"} => left["away at start"] = 0

\* A Stop waits for a turn that starts under the lock; any other is spared.
StopsInTime == /\ left["away"] = 0
               /\ left["away at start"] = 0 \/ left["send"] = 0
               /\ \A s \in Sessions : Busy(s) => Spared(s) \/ SentByHolder(s)

\* A halted prompt has no row and no turn that puts it back; the rows of the
\* prompt that a Stop is about to halt are its task's.
Halts == /\ \A p \in halted : /\ \A r \in queue : r.prompt # p
                              /\ \A s \in Sessions : Busy(s) /\ active[s].prompt = p => Spared(s)
         /\ lock.op = "stop" => \A r \in queue, c \in lock.call :
                                    r.prompt \in lock.turn => r.session = c.session

Halting == /\ Base /\ Halts
           /\ Deleting => Quiet
           /\ Stopping => StopsInTime

\* A call of a kind is a call of old, or one that the budget has left.
LEMMA CallsKnown ==
    ASSUME Typed, [Next]_vars, NEW c \in calls'
    PROVE  left[c.kind] > 0 \/ \E d \in calls : d.kind = c.kind /\ d.session = c.session
<1>1. \A d \in calls : \A x : [d EXCEPT !.at = x].kind = d.kind
                              /\ [d EXCEPT !.at = x].session = d.session
  BY DEF Typed, TypeOK, Call
<1>2. ASSUME NEW s \in Sessions, TurnStep(s)
      PROVE  \E d \in calls : d.kind = c.kind /\ d.session = c.session
  <2>1. CASE Release(s)
    <3>1. \/ c \in calls
          \/ \E d \in calls : c = [d EXCEPT !.at = "launched"]
      BY <2>1 DEF Release, Parked
    <3> QED BY ZenonT(40), <1>1, <3>1
  <2>2. CASE ~Release(s)
    BY <1>2, <2>2 DEF TurnStep, Record, Launch, FailStart, GoAway, Requeue, Hold, Finish, proc
  <2> QED BY <2>1, <2>2
<1>3. ASSUME HolderStep PROVE c \in calls
  BY <1>3 DEF HolderStep, Pick, ClaimRow, FindBusy, Refuse, DropRow, FailForced, ClearQueue,
              FinishCall, FallBack
<1>4. ASSUME NEW x \in calls, CallStep(x)
      PROVE  \E d \in calls : d.kind = c.kind /\ d.session = c.session
  <2>1. CASE ForceClaims(x)
    <3>1. c \in calls \/ \E a : c = [x EXCEPT !.at = a]
      BY <2>1 DEF ForceClaims
    <3> QED BY <1>1, <3>1
  <2>2. CASE ~ForceClaims(x)
    BY <1>4, <2>2 DEF CallStep, TakeForced, TakeStop, TakeDelete
  <2> QED BY <2>1, <2>2
<1>5. ASSUME UserStep PROVE c \in calls \/ left[c.kind] > 0
  <2>1. ASSUME NEW kind, NEW s, NEW id, NEW p, Ask(kind, s, id, p)
        PROVE  c \in calls \/ left[c.kind] > 0
    BY <2>1 DEF Ask, Spend
  <2>2. ASSUME Pause \/ \E s \in Sessions : Enqueue(s) \/ Send(s) PROVE c \in calls
    BY <2>2 DEF Pause, Enqueue, Send
  <2> QED BY <1>5, <2>1, <2>2 DEF UserStep, StopCalled, ForceCalled, DeleteCalled
<1>6. ASSUME \/ TakeSchedule \/ BecomeDue \/ RetryTick \/ Signal \/ Shutdown \/ Exit \/ Crash
             \/ Restart \/ UNCHANGED vars
      PROVE  c \in calls
  BY <1>6 DEF TakeSchedule, BecomeDue, RetryTick, Signal, Shutdown, Exit, Crash, Restart, Down,
              vars, proc
<1> QED BY <1>2, <1>3, <1>4, <1>5, <1>6 DEF Next

\* The lock is taken for a Stop from a call.
LEMMA LockStops ==
    ASSUME Base, [Next]_vars, lock'.op = "stop"
    PROVE  \/ \E c \in calls : TakeStop(c)
           \/ lock.op = "stop" /\ lock'.call = lock.call /\ lock'.turn = lock.turn
<1>1. Rests \/ (\E s \in Sessions : Enqueue(s) \/ Send(s)) \/ BecomeDue => lock' = lock
  BY DEF Rests, Enqueue, Send, BecomeDue, proc
<1>2. ~LetsGo /\ ~Takes
  BY DEF LetsGo, Takes
<1>3. ~DropRow /\ ~Crash /\ ~Exit
  BY DEF DropRow, Crash, Exit, Down, Free
<1>4. \A c \in calls : ~TakeDelete(c)
  <2> SUFFICES ASSUME NEW c \in calls, TakeDelete(c) PROVE FALSE
    OBVIOUS
  <2> DEFINE gone == {r \in queue : r.id = c.id /\ r.session = c.session}
  <2>1. CASE gone = {}
    BY <2>1 DEF TakeDelete, Free
  <2>2. CASE gone # {}
    BY <2>2 DEF TakeDelete, Free
  <2> QED BY <2>1, <2>2
<1>5. ClaimRow \/ Refuse => /\ lock'.op = lock.op /\ lock'.call = lock.call
                            /\ lock'.turn = lock.turn
  BY HolderMoves DEF ClaimRow, Refuse, Base
<1>6. ClearQueue => lock.op = "stop" /\ lock'.call = lock.call /\ lock'.turn = lock.turn
  BY Clears DEF ClearQueue, Base, Free
<1> QED BY <1>1, <1>2, <1>3, <1>4, <1>5, <1>6, Kinds1, TurnLock DEF Base

\* Whoever still stops or deletes did before.
LEMMA StillHalting ==
    ASSUME Base, [Next]_vars
    PROVE  (Stopping' => Stopping) /\ (Deleting' => Deleting)
<1>1. /\ left'["stop"] \in Nat /\ left["stop"] \in Nat /\ left'["stop"] <= left["stop"]
      /\ left'["delete"] \in Nat /\ left["delete"] \in Nat /\ left'["delete"] <= left["delete"]
  BY LeftFalls DEF Kinds, Base
<1>2. \A c \in calls' : left[c.kind] > 0 \/ \E d \in calls : d.kind = c.kind
  BY CallsKnown DEF Base
<1>3. lock'.op = "stop" => Stopping
  BY LockStops DEF Stopping, TakeStop
<1>4. Stopping' => Stopping
  BY <1>1, <1>2, <1>3 DEF Stopping
<1>5. Deleting' => Deleting
  BY <1>1, <1>2 DEF Deleting
<1> QED BY <1>4, <1>5

\* The rows after a step: rows of old, a new prompt's, or one that comes back.
LEMMA RowsKnown ==
    ASSUME Base, [Next]_vars
    PROVE  \/ \A r \in queue' : \E q \in queue : Alike(q, r)
           \/ \E s \in Sessions : Enqueue(s) \/ Requeue(s)
<1>1. Rests \/ LetsGo \/ Takes => queue' = queue
  BY DEF Rests, LetsGo, Takes, data
<1>2. \A s \in Sessions : Send(s) => queue' = queue
  BY DEF Send, db
<1>3. \A s \in Sessions : TurnStep(s) => Requeue(s) \/ queue' = queue
  BY DEF TurnStep, Record, Launch, FailStart, GoAway, Hold, Finish, Release, db
<1>4. \A c \in calls : TakeStop(c) \/ TakeDelete(c) => queue' \subseteq queue
  BY DEF TakeStop, TakeDelete, db
<1>5. ClaimRow \/ Refuse \/ DropRow \/ ClearQueue \/ Crash \/ Exit => queue' \subseteq queue
  BY DEF ClaimRow, Refuse, DropRow, RowDropped, ClearQueue, Crash, Exit, db
<1>6. BecomeDue => \A r \in queue' : \E q \in queue : Alike(q, r)
  <2>1. BecomeDue => \E r \in queue, d \in Row : Alike(r, d) /\ queue' = (queue \ {r}) \cup {d}
    BY Becomes DEF Base
  <2> QED BY <2>1 DEF Alike
<1>7. queue' \subseteq queue => \A r \in queue' : \E q \in queue : Alike(q, r)
  BY DEF Alike
<1> QED BY <1>1, <1>2, <1>3, <1>4, <1>5, <1>6, <1>7, Kinds1 DEF Base

\* What the budget has none of it never has.
LEMMA NoneLeft ==
    ASSUME Base, [Next]_vars, NEW k \in Kinds, left[k] = 0
    PROVE  left'[k] = 0
<1>1. left'[k] \in Nat /\ left'[k] <= left[k]
  BY LeftFalls DEF Base
<1> QED BY <1>1

\* The turns after a step: one of old, or one that a prompt begins.
LEMMA TurnsKnown ==
    ASSUME Base, [Next]_vars, NEW s \in Sessions, Busy(s)'
    PROVE  \/ Busy(s) /\ Same(s)
           \/ TurnStep(s) /\ Busy(s) /\ active'[s].prompt = active[s].prompt
           \/ Send(s)
           \/ ClaimRow /\ \E r \in lock.row : r.session = s
<1>1. Same(s) => Busy(s)
  BY DEF Same, Busy
<1>2. Rests \/ LetsGo \/ Takes => Same(s)
  BY DEF Rests, LetsGo, Takes
<1>3. \/ \E t \in Sessions : Enqueue(t)
      \/ \E c \in calls : TakeStop(c) \/ TakeDelete(c)
      \/ Refuse \/ DropRow \/ ClearQueue \/ BecomeDue
      => Same(s)
  BY DEF Enqueue, TakeStop, TakeDelete, Refuse, DropRow, ClearQueue, BecomeDue, proc, Same
<1>4. ~Crash /\ ~Exit
  BY DEF Crash, Exit, Down, Busy, NoTurn
<1>5. ASSUME NEW t \in Sessions, Send(t) PROVE s = t \/ Same(s)
  <2>1. accepted + 1 \in Prompts /\ Claim(t, accepted + 1, 0, "direct")
    BY <1>5 DEF Send
  <2> QED BY <2>1, Claims DEF Base
<1>6. ASSUME ClaimRow PROVE Same(s) \/ \E r \in lock.row : r.session = s
  <2>1. PICK r \in lock.row : Claim(r.session, r.prompt, r.retries, lock.op)
    BY <1>6 DEF ClaimRow
  <2>2. r.session \in Sessions /\ r.prompt \in Prompts
    BY InHand
  <2> QED BY <2>1, <2>2, Claims DEF Base
<1>7. ASSUME NEW t \in Sessions, TurnStep(t)
      PROVE  Same(s) \/ (s = t /\ Busy(s) /\ active'[s].prompt = active[s].prompt)
  <2>1. FewerTurns /\ \A u \in Sessions : u # t => Same(u)
    BY <1>7, TurnMoves, FewerMoves DEF Base, TurnStep, Moves
  <2> QED BY <2>1 DEF FewerTurns
<1> QED BY <1>1, <1>2, <1>3, <1>4, <1>5, <1>6, <1>7, Kinds1 DEF Base

\* The stage a turn goes to.
LEMMA StagesKnown ==
    ASSUME Typed, NEW s \in Sessions, TurnStep(s)
    PROVE  \/ active[s].stage = "claimed" /\ active'[s].stage = "recorded"
           \/ active'[s].stage \in {"none", "running", "settled"}
           \/ active'[s].stage = "away" /\ active[s].stage = "recorded" /\ left["away at start"] # 0
           \/ active'[s].stage = "away" /\ active[s].stage = "running" /\ left["away"] # 0
           \/ active'[s].stage = "requeued" /\ active[s].stage = "away"
<1>1. Release(s) => active'[s].stage = "none"
  BY DEF Release, Typed, TypeOK, NoTurn
<1>2. Record(s) => active[s].stage = "claimed" /\ active'[s].stage = "recorded"
  BY TurnMoves DEF TurnStep, Record, Moves
<1>3. Launch(s) \/ FailStart(s) \/ Hold(s) \/ Finish(s) => active'[s].stage \in {"running", "settled"}
  BY TurnMoves DEF TurnStep, Moves
<1>4. GoAway(s) => /\ active'[s].stage = "away"
                   /\ \/ active[s].stage = "recorded" /\ left["away at start"] # 0
                      \/ active[s].stage = "running" /\ left["away"] # 0
  <2>1. ASSUME NEW k, Spend(k) PROVE left[k] # 0
    <3>1. left[k] > 0
      BY <2>1 DEF Spend
    <3> QED BY <3>1
  <2> QED BY <2>1, TurnMoves DEF TurnStep, Moves, GoAway
<1>5. Requeue(s) => active'[s].stage = "requeued" /\ active[s].stage = "away"
  BY TurnMoves DEF TurnStep, Moves, Requeue
<1> QED BY <1>1, <1>2, <1>3, <1>4, <1>5 DEF TurnStep

\* A try begins with a prompt that is sent or whose row is claimed.
LEMMA TriesKnown ==
    ASSUME Base, [Next]_vars
    PROVE  tries' = tries \/ ClaimRow \/ \E s \in Sessions : Send(s)
<1>1. Rests \/ LetsGo \/ Takes => tries' = tries
  BY DEF Rests, LetsGo, Takes, data
<1>2. \A s \in Sessions : Enqueue(s) \/ TurnStep(s) => tries' = tries
  BY DEF Enqueue, TurnStep, Record, Launch, FailStart, GoAway, Requeue, Hold, Finish, Release,
         ghost
<1>3. \A c \in calls : TakeStop(c) \/ TakeDelete(c) => tries' = tries
  BY DEF TakeStop, TakeDelete, ghost
<1>4. Refuse \/ DropRow \/ ClearQueue \/ BecomeDue \/ Crash \/ Exit => tries' = tries
  BY DEF Refuse, DropRow, ClearQueue, BecomeDue, Crash, Exit, ghost
<1> QED BY <1>1, <1>2, <1>3, <1>4, Kinds1 DEF Base

\* A turn that does not bring its prompt back never will.
LEMMA SparedKept ==
    ASSUME Base, [Next]_vars, NEW s \in Sessions, Busy(s), Busy(s)', Spared(s),
           Same(s) \/ TurnStep(s)
    PROVE  Spared(s)'
<1>1. /\ left["away"] = 0 => left'["away"] = 0
      /\ left["away at start"] = 0 => left'["away at start"] = 0
  BY NoneLeft DEF Kinds
<1>4. CASE Same(s)
  BY <1>1, <1>4 DEF Same, Spared
<1>5. CASE TurnStep(s)
  BY <1>1, <1>5, StagesKnown DEF Spared, Base
<1> QED BY <1>4, <1>5

\* Without outages no prompt gets a second row.
LEMMA QuietKept == ASSUME Base, [Next]_vars, Quiet PROVE Quiet'
<1>1. left'["away"] = 0 /\ left'["away at start"] = 0
  BY NoneLeft DEF Kinds, Quiet
<1>3. ASSUME NEW s \in Sessions, Busy(s)' PROVE active'[s].stage \notin {"away", "requeued"}
  <2>1. CASE Busy(s) /\ Same(s)
    BY <2>1 DEF Same, Quiet
  <2>2. CASE TurnStep(s)
    BY <2>2, StagesKnown DEF Quiet, Base
  <2>3. CASE Send(s)
    <3>1. accepted + 1 \in Prompts /\ Claim(s, accepted + 1, 0, "direct")
      BY <2>3 DEF Send
    <3> QED BY <3>1, Claims DEF Base
  <2>4. CASE ClaimRow /\ \E r \in lock.row : r.session = s
    <3>1. PICK r \in lock.row : Claim(r.session, r.prompt, r.retries, lock.op)
      BY <2>4 DEF ClaimRow
    <3>2. r.session = s /\ r.prompt \in Prompts
      BY <2>4, InHand
    <3> QED BY <3>1, <3>2, Claims DEF Base
  <2> QED BY <1>3, <2>1, <2>2, <2>3, <2>4, TurnsKnown
<1>4. \A s \in Sessions : active'[s].stage \notin {"away", "requeued"}
  BY <1>3 DEF Busy
<1>5. \A a, b \in queue' : a.prompt = b.prompt => a = b
  <2>1. CASE \A r \in queue' : \E q \in queue : Alike(q, r)
    <3>1. RowsApart'
      BY BaseKept DEF Base
    <3>2. ASSUME NEW a \in queue', NEW b \in queue', a.prompt = b.prompt PROVE a.id = b.id
      <4>1. PICK q \in queue, x \in queue : Alike(q, a) /\ Alike(x, b)
        BY <2>1
      <4>2. q = x
        BY <3>2, <4>1 DEF Quiet, Alike
      <4> QED BY <4>1, <4>2 DEF Alike
    <3> QED BY <3>1, <3>2 DEF RowsApart
  <2>2. ASSUME NEW s \in Sessions, Enqueue(s)
        PROVE  \A a, b \in queue' : a.prompt = b.prompt => a = b
    <3>1. PICK r : Adds(r) /\ r.prompt = accepted + 1
      BY <2>2, Queues DEF Base
    <3>2. \A q \in queue : q.prompt # r.prompt
      <4>1. \A q \in queue : q.prompt \in Nat /\ q.prompt <= accepted
        BY PromptsAssumption DEF Base, Fresh, Typed, TypeOK, Row
      <4>2. accepted \in Nat
        BY DEF Base, Typed, TypeOK
      <4> QED BY <3>1, <4>1, <4>2
    <3> QED BY <3>1, <3>2 DEF Adds, Quiet
  <2>3. \A s \in Sessions : ~Requeue(s)
    BY DEF Requeue, Quiet
  <2> QED BY <2>1, <2>2, <2>3, RowsKnown
<1> QED BY <1>1, <1>4, <1>5 DEF Quiet

\* The turns that a Stop may meet are spared, or start under the lock.
LEMMA StopsKept == ASSUME Base, [Next]_vars, StopsInTime PROVE StopsInTime'
<1>1. /\ left["away at start"] = 0 => left'["away at start"] = 0
      /\ left["send"] = 0 => left'["send"] = 0
      /\ left["away"] = 0 => left'["away"] = 0
  BY NoneLeft DEF Kinds
<1>2. left'["away"] = 0 /\ (left'["away at start"] = 0 \/ left'["send"] = 0)
  BY <1>1 DEF StopsInTime
<1>3. ASSUME NEW s \in Sessions, Busy(s)' PROVE Spared(s)' \/ SentByHolder(s)'
  <2>1. CASE Busy(s) /\ (Same(s) \/ TurnStep(s))
    <3>1. CASE Spared(s)
      BY <1>3, <2>1, <3>1, SparedKept
    <3>2. CASE SentByHolder(s)
      <4>1. lock' = lock => SentByHolder(s)'
        BY <3>2 DEF SentByHolder
      <4>2. lock.pc = "sending" /\ lock.row # {} /\ lock.op \in {"dispatch", "forced"}
        BY <3>2 DEF SentByHolder, Base, Hands
      <4>3. Rests \/ (\E t \in Sessions : Enqueue(t) \/ Send(t)) \/ BecomeDue => lock' = lock
        BY DEF Rests, Enqueue, Send, BecomeDue, proc
      <4>4. ~LetsGo /\ ~Takes /\ ~ClaimRow /\ ~Refuse /\ ~DropRow /\ ~ClearQueue
        BY <4>2 DEF LetsGo, Takes, ClaimRow, Refuse, DropRow, ClearQueue
      <4>5. \A c \in calls : ~TakeStop(c) /\ ~TakeDelete(c)
        BY <4>2 DEF TakeStop, TakeDelete
      <4>6. ~Crash /\ ~Exit
        BY <1>3 DEF Crash, Exit, Down, Busy, NoTurn
      <4>7. ASSUME NEW t \in Sessions, TurnStep(t) PROVE Spared(s)' \/ SentByHolder(s)'
        <5>1. CASE lock' = lock
          BY <4>1, <5>1
        <5>2. CASE SentByHolder(t) /\ Launch(t)
          <6>1. s = t
            BY <3>2, <5>2, SentTurn DEF SentByHolder
          <6>2. active'[s].stage = "running"
            BY <4>7, <5>2, <6>1, TurnMoves DEF Base, Moves
          <6> QED BY <1>2, <6>2 DEF Spared
        <5>3. CASE SentByHolder(t) /\ Release(t)
          <6>1. s = t
            BY <3>2, <5>3, SentTurn DEF SentByHolder
          <6> QED BY <1>3, <4>7, <5>3, <6>1, TurnMoves DEF Base
        <5> QED BY <4>7, <5>1, <5>2, <5>3, TurnLock DEF Base
      <4> QED BY <4>1, <4>3, <4>4, <4>5, <4>6, <4>7, Kinds1 DEF Base
    <3> QED BY <2>1, <3>1, <3>2 DEF StopsInTime
  <2>2. CASE Send(s)
    <3>1. /\ accepted + 1 \in Prompts /\ Claim(s, accepted + 1, 0, "direct")
          /\ ~(left["send"] = 0)
      BY <2>2 DEF Send, Spend
    <3>2. left'["away at start"] = 0
      BY <1>1, <3>1 DEF StopsInTime
    <3>3. active'[s].stage = "claimed"
      BY <3>1, Claims DEF Base
    <3> QED BY <1>2, <3>2, <3>3 DEF Spared
  <2>3. CASE ClaimRow /\ \E r \in lock.row : r.session = s
    <3>1. lock'.pc = "sending" /\ lock'.row = lock.row
      BY <2>3, HolderMoves DEF ClaimRow, Base
    <3> QED BY <2>3, <3>1 DEF SentByHolder
  <2> QED BY <1>3, <2>1, <2>2, <2>3, TurnsKnown
<1> QED BY <1>2, <1>3 DEF StopsInTime

\* What was halted stays without a row, and nothing brings it back.
LEMMA HaltsKept == ASSUME Halting, [Next]_vars PROVE Halts'
<1>1. Base /\ Base' /\ Halts
  BY BaseKept DEF Halting
<1>2. ASSUME lock.op = "stop"
      PROVE  StopsInTime /\ \A s \in Sessions : Busy(s) => Spared(s)
  <2>1. StopsInTime
    BY <1>2 DEF Halting, Stopping
  <2> QED BY <1>1, <1>2, <2>1 DEF StopsInTime, SentByHolder, Base, Hands
<1>3. \A p \in halted : p <= accepted /\ p # accepted + 1
  BY <1>1, PromptsAssumption DEF Base, Fresh, Typed, TypeOK
<1>4. ASSUME NEW p \in halted, NEW r \in queue' PROVE r.prompt # p
  <2>1. ASSUME NEW s \in Sessions, Enqueue(s) PROVE r.prompt # p
    BY <1>1, <1>3, <1>4, <2>1, Queues DEF Halts, Base, Adds
  <2>2. ASSUME NEW s \in Sessions, Requeue(s) PROVE r.prompt # p
    <3>1. PICK x : Adds(x) /\ x.prompt = active[s].prompt
      BY <1>1, <2>2, Requeues DEF Base
    <3>2. active[s].prompt # p
      BY <1>1, <1>4, <2>2 DEF Halts, Spared, Requeue, Busy
    <3> QED BY <1>1, <1>4, <3>1, <3>2 DEF Halts, Adds
  <2>3. CASE \E q \in queue : Alike(q, r)
    BY <1>1, <1>4, <2>3 DEF Halts, Alike
  <2> QED BY <1>1, <1>4, <2>1, <2>2, <2>3, RowsKnown
<1>5. ASSUME NEW p \in halted, NEW s \in Sessions, Busy(s)', active'[s].prompt = p
      PROVE  Spared(s)'
  <2>1. CASE Busy(s) /\ (Same(s) \/ TurnStep(s)) /\ active'[s].prompt = active[s].prompt
    BY <1>1, <1>5, <2>1, SparedKept DEF Halts
  <2>2. ~Send(s)
    <3>1. Send(s) => accepted + 1 \in Prompts /\ Claim(s, accepted + 1, 0, "direct")
      BY DEF Send
    <3> QED BY <1>1, <1>3, <1>5, <3>1, Claims DEF Base
  <2>3. ~(ClaimRow /\ \E r \in lock.row : r.session = s)
    <3> SUFFICES ASSUME ClaimRow, NEW x \in lock.row, x.session = s PROVE FALSE
      OBVIOUS
    <3>1. PICK r \in lock.row : Claim(r.session, r.prompt, r.retries, lock.op)
      BY DEF ClaimRow
    <3>2. r = x /\ r.prompt \in Prompts /\ \E q \in queue : Alike(q, r)
      BY <1>1, InHand
    <3>3. active'[s].prompt = r.prompt
      BY <1>1, <3>1, <3>2, Claims DEF Base
    <3> QED BY <1>1, <1>5, <3>2, <3>3 DEF Halts, Alike
  <2> QED BY <1>1, <1>5, <2>1, <2>2, <2>3, TurnsKnown DEF Same
<1>6. ASSUME NEW c \in calls, TakeDelete(c)
      PROVE  /\ \A p \in halted', r \in queue' : r.prompt # p
             /\ \A p \in halted', s \in Sessions : Busy(s)' /\ active'[s].prompt = p => Spared(s)'
  <2> DEFINE gone == {r \in queue : r.id = c.id /\ r.session = c.session}
  <2>1. /\ active' = active /\ left' = left /\ queue' = queue \ gone
        /\ halted' = halted \cup {r.prompt : r \in gone}
    BY <1>6 DEF TakeDelete
  <2>2. Quiet
    BY <1>6 DEF Halting, Deleting, TakeDelete
  <2>3. \A s \in Sessions : Spared(s)'
    BY <2>1, <2>2 DEF Quiet, Spared
  <2>4. \A p \in halted', r \in queue' : r.prompt # p
    BY <1>1, <2>1, <2>2 DEF Quiet, Halts
  <2> QED BY <2>3, <2>4
<1>7. ASSUME ClearQueue
      PROVE  /\ \A p \in halted', r \in queue' : r.prompt # p
             /\ \A p \in halted', s \in Sessions : Busy(s)' /\ active'[s].prompt = p => Spared(s)'
  <2>1. PICK c \in lock.call :
           /\ queue' = queue \ RowsOf(queue, c.session)
           /\ halted' = halted \cup QueuedPrompts(c.session) \cup lock.turn
    BY <1>1, <1>7, Clears DEF Base
  <2>2. active' = active /\ left' = left /\ lock.op = "stop"
    BY <1>7 DEF ClearQueue
  <2>3. \A s \in Sessions : Busy(s)' => Spared(s)'
    BY <1>2, <2>2 DEF Busy, Spared
  <2>4. ASSUME NEW p \in halted', NEW r \in queue' PROVE r.prompt # p
    <3>1. r \in queue /\ r.session # c.session
      BY <2>1 DEF RowsOf
    <3>2. CASE p \in halted
      BY <1>1, <3>1, <3>2 DEF Halts
    <3>3. CASE p \in lock.turn
      BY <1>1, <2>2, <3>1, <3>3 DEF Halts
    <3>4. CASE p \in QueuedPrompts(c.session)
      <4>1. PICK q \in queue : q.session = c.session /\ q.prompt = p
        BY <3>4 DEF QueuedPrompts, RowsOf
      <4> QED BY <1>1, <3>1, <4>1 DEF Base, Homes
    <3> QED BY <2>1, <3>2, <3>3, <3>4
  <2> QED BY <2>3, <2>4
<1>8. halted' = halted \/ ClearQueue \/ \E c \in calls : TakeDelete(c)
  <2>1. Rests \/ LetsGo \/ Takes => halted' = halted
    BY DEF Rests, LetsGo, Takes, data
  <2>2. \A s \in Sessions : Enqueue(s) \/ Send(s) \/ TurnStep(s) => halted' = halted
    BY DEF Enqueue, Send, TurnStep, Record, Launch, FailStart, GoAway, Requeue, Hold, Finish,
           Release, ghost
  <2>3. (\E c \in calls : TakeStop(c)) \/ ClaimRow \/ Refuse \/ DropRow \/ BecomeDue \/ Crash \/ Exit
        => halted' = halted
    BY DEF TakeStop, ClaimRow, Refuse, DropRow, BecomeDue, Crash, Exit, ghost
  <2> QED BY <1>1, <2>1, <2>2, <2>3, Kinds1 DEF Base
<1>9. ASSUME lock'.op = "stop", NEW r \in queue', NEW c \in lock'.call, r.prompt \in lock'.turn
      PROVE  r.session = c.session
  <2>1. ASSUME NEW d \in calls, TakeStop(d) PROVE r.session = c.session
    <3>1. queue' = queue /\ lock'.call = {d} /\ lock'.turn = TurnSeen(d.session)
      BY <2>1 DEF TakeStop, db, Free
    <3>2. d.session \in Sessions
      BY <1>1 DEF Base, Typed, TypeOK, Call
    <3> QED BY <1>1, <1>9, <3>1, <3>2 DEF TurnSeen, Base, Homes
  <2>2. CASE lock.op = "stop" /\ lock'.call = lock.call /\ lock'.turn = lock.turn
    <3>1. CASE \E q \in queue : Alike(q, r)
      BY <1>1, <1>9, <2>2, <3>1 DEF Halts, Alike
    <3>2. ASSUME NEW s \in Sessions, Enqueue(s) PROVE r.session = c.session
      <4>1. PICK x : Adds(x) /\ x.prompt = accepted + 1
        BY <1>1, <3>2, Queues DEF Base
      <4>2. \A p \in lock.turn : p # accepted + 1
        BY <1>1, PromptsAssumption DEF Base, Fresh, Typed, TypeOK, Holder
      <4>3. r \in queue
        BY <1>9, <2>2, <4>1, <4>2 DEF Adds
      <4> QED BY <1>1, <1>9, <2>2, <4>3 DEF Halts
    <3>3. \A s \in Sessions : ~Requeue(s)
      BY <1>2, <2>2 DEF Spared, Requeue, Busy
    <3> QED BY <1>1, <1>9, <3>1, <3>2, <3>3, RowsKnown
  <2> QED BY <1>1, <1>9, <2>1, <2>2, LockStops
<1> QED BY <1>4, <1>5, <1>6, <1>7, <1>8, <1>9 DEF Halts

LEMMA HaltingKept == Halting /\ [Next]_vars => Halting'
<1> SUFFICES ASSUME Halting, [Next]_vars PROVE Halting'
  OBVIOUS
<1>1. Base /\ Base' /\ Halts'
  BY BaseKept, HaltsKept DEF Halting
<1>2. Deleting' => Quiet'
  BY <1>1, StillHalting, QuietKept DEF Halting
<1>3. Stopping' => StopsInTime'
  BY <1>1, StillHalting, StopsKept DEF Halting
<1> QED BY <1>1, <1>2, <1>3 DEF Halting

\* A prompt that was stopped or deleted, with its turn or out of the queue,
\* gets no turn any more, however Stop, delete, Send now, dispatch, retries and
\* crashes interleave, unless an outage puts it back (runner.go:1271, 1342).
THEOREM HaltedStayHalted == NoneReturns /\ Spec => HaltedForGood
<1>1. NoneReturns /\ Init => Halting
  <2> SUFFICES ASSUME NoneReturns, Init PROVE Halting
    OBVIOUS
  <2>1. /\ left \in Budgets /\ queue = {} /\ calls = {} /\ lock = Free /\ halted = {}
        /\ active = [s \in Sessions |-> NoTurn]
    BY DEF Init
  <2>2. /\ \A s \in Sessions : active[s].stage = "none" /\ ~Busy(s)
        /\ lock.op = "none"
    BY <2>1 DEF NoTurn, Busy, Free
  <2>3. Halts
    BY <2>1, <2>2 DEF Halts
  <2>4. left["stop"] \in Nat /\ left["delete"] \in Nat
    BY <2>1, BudgetAssumption DEF Kinds
  <2>5. Deleting => Quiet
    <3>1. Deleting => left["delete"] > 0 /\ left["stop"] + left["delete"] > 0
      BY <2>1, <2>4 DEF Deleting
    <3> QED BY <2>1, <2>2, <3>1 DEF NoneReturns, Quiet
  <2>6. Stopping => StopsInTime
    <3>1. Stopping => left["stop"] > 0 /\ left["stop"] + left["delete"] > 0
      BY <2>1, <2>2, <2>4 DEF Stopping
    <3> QED BY <2>1, <2>2, <3>1 DEF NoneReturns, StopsInTime
  <2> QED BY <2>3, <2>5, <2>6, BaseInit DEF Halting
<1>2. Halting /\ [Next]_vars => [\A p \in halted : tries'[p] = tries[p]]_vars
  <2> SUFFICES ASSUME Halting, [Next]_vars, NEW p \in halted PROVE tries'[p] = tries[p]
    OBVIOUS
  <2>1. Base /\ p \in Prompts /\ p # accepted + 1 /\ \A r \in queue : r.prompt # p
    <3>1. Base /\ \A r \in queue : r.prompt # p
      BY DEF Halting, Halts
    <3>2. p \in Prompts /\ p \in Nat /\ p <= accepted /\ accepted \in Nat
      BY <3>1, PromptsAssumption DEF Base, Fresh, Typed, TypeOK
    <3> QED BY <3>1, <3>2
  <2>2. ASSUME NEW s \in Sessions, Send(s) PROVE tries'[p] = tries[p]
    BY <2>1, <2>2, Claims DEF Send, Base
  <2>3. ASSUME ClaimRow PROVE tries'[p] = tries[p]
    <3>1. PICK r \in lock.row : Claim(r.session, r.prompt, r.retries, lock.op)
      BY <2>3 DEF ClaimRow
    <3>2. r.session \in Sessions /\ r.prompt \in Prompts /\ r.prompt # p
      BY <2>1, InHand DEF Alike
    <3> QED BY <2>1, <3>1, <3>2, Claims DEF Base
  <2> QED BY <2>1, <2>2, <2>3, TriesKnown
<1> QED BY <1>1, <1>2, HaltingKept, PTL DEF Spec, HaltedForGood

-----------------------------------------------------------------------------
(* Nobody sleeps over a prompt                                              *)

\* No start is refused but by a shutdown: a refused row leaves the queue
\* without a turn whose end would look at the next one.
NoneTurnedDown == \A b \in Budgets : b["refuse"] = 0

\* A row that is not due yet is a retry.
LateRows == \A r \in queue : ~r.due => r.retries > 0

\* Calls differ in their kind or number, and only a Send now goes on to wait.
CallsApart == /\ \A c, d \in calls : c.kind = d.kind /\ c.no = d.no => c = d
              /\ \A c \in calls : /\ c.no > left[c.kind]
                                  /\ c.at # "called" => c.kind = "force"

\* A Send now is served from its call, until its answer goes out.
Serving == lock.op = "forced" => \A c \in lock.call : c \in calls /\ c.at = "launched"

\* Stop and delete are what finishes by waking the dispatcher.
Finishing == lock.pc = "finish" => lock.op \in {"stop", "delete"}

\* A Send now, other than the one served, that goes for the lock.
Launched == {c \in calls : c.at = "launched" /\ (lock.op = "forced" => c \notin lock.call)}

\* Once the turn of a row is over, somebody follows the holder of the lock.
Followed == /\ lock.op \in {"dispatch", "forced"} /\ lock.pc \in {"started", "failed"}
            /\ ~ProjectBusy /\ ~stopping
            => wakes > 0 \/ Launched # {}

Wakeful == /\ Base /\ left["refuse"] = 0
           /\ LateRows /\ CallsApart /\ Serving /\ Finishing /\ Followed

\* A row that waits is a retry, as it is inserted and as long as it waits.
LEMMA LateRowsKept == ASSUME Base, LateRows, [Next]_vars PROVE LateRows'
<1>1. ASSUME NEW s \in Sessions, Enqueue(s) PROVE LateRows'
  BY <1>1, Queues DEF Base, Adds, LateRows
<1>2. ASSUME NEW s \in Sessions, Requeue(s) PROVE LateRows'
  BY <1>2, Requeues DEF Base, Adds, LateRows
<1>3. ASSUME BecomeDue PROVE LateRows'
  <2>1. PICK r \in queue, d \in Row : d.due /\ queue' = (queue \ {r}) \cup {d}
    BY <1>3, Becomes DEF Base
  <2> QED BY <2>1 DEF LateRows
<1>4. queue' \subseteq queue => LateRows'
  BY DEF LateRows
<1>5. Rests \/ LetsGo \/ Takes => queue' = queue
  BY DEF Rests, LetsGo, Takes, data
<1>6. \A s \in Sessions : Send(s) => queue' = queue
  BY DEF Send, db
<1>7. \A s \in Sessions : TurnStep(s) => Requeue(s) \/ queue' = queue
  BY DEF TurnStep, Record, Launch, FailStart, GoAway, Hold, Finish, Release, db
<1>8. \A c \in calls : TakeStop(c) \/ TakeDelete(c) => queue' \subseteq queue
  BY DEF TakeStop, TakeDelete, db
<1>9. ClaimRow \/ Refuse \/ DropRow \/ ClearQueue \/ Crash \/ Exit => queue' \subseteq queue
  BY DEF ClaimRow, Refuse, DropRow, RowDropped, ClearQueue, Crash, Exit, db
<1> QED BY <1>1, <1>2, <1>3, <1>4, <1>5, <1>6, <1>7, <1>8, <1>9, Kinds1 DEF Base

\* How the calls change: one is new, one that is parked or launched follows one
\* of old, or some return.
LEMMA CallsChange ==
    ASSUME Typed, [Next]_vars
    PROVE  \/ calls' \subseteq calls
           \/ \E kind \in {"stop", "delete", "force"}, s \in Sessions : \E id, p : Ask(kind, s, id, p)
           \/ \E s \in Sessions : Release(s)
           \/ \E c \in calls : ForceClaims(c)
<1>1. ASSUME NEW s \in Sessions, TurnStep(s), ~Release(s) PROVE calls' = calls
  BY <1>1 DEF TurnStep, Record, Launch, FailStart, GoAway, Requeue, Hold, Finish
<1>2. ASSUME HolderStep PROVE calls' \subseteq calls
  BY <1>2 DEF HolderStep, Pick, ClaimRow, FindBusy, Refuse, DropRow, FailForced, ClearQueue,
              FinishCall, FallBack
<1>3. ASSUME NEW x \in calls, CallStep(x), ~ForceClaims(x) PROVE calls' \subseteq calls
  BY <1>3 DEF CallStep, TakeForced, TakeStop, TakeDelete
<1>4. ASSUME NEW s \in Sessions, StopCalled(s)
      PROVE  \E kind \in {"stop", "delete", "force"}, t \in Sessions : \E id, p : Ask(kind, t, id, p)
  <2>1. Ask("stop", s, 0, 0)
    BY <1>4 DEF StopCalled
  <2> QED BY <2>1
<1>5. ASSUME NEW r \in queue, ForceCalled(r) \/ DeleteCalled(r)
      PROVE  \E kind \in {"stop", "delete", "force"}, t \in Sessions : \E id, p : Ask(kind, t, id, p)
  <2>1. Ask("force", r.session, r.id, r.prompt) \/ Ask("delete", r.session, r.id, r.prompt)
    BY <1>5 DEF ForceCalled, DeleteCalled
  <2>2. r.session \in Sessions
    BY DEF Typed, TypeOK, Row
  <2> QED BY <2>1, <2>2
<1>6. ASSUME Pause \/ \E s \in Sessions : Enqueue(s) \/ Send(s) PROVE calls' = calls
  BY <1>6 DEF Pause, Enqueue, Send
<1>7. ASSUME \/ TakeSchedule \/ BecomeDue \/ RetryTick \/ Signal \/ Shutdown \/ Exit \/ Crash
             \/ Restart \/ UNCHANGED vars
      PROVE  calls' \subseteq calls
  BY <1>7 DEF TakeSchedule, BecomeDue, RetryTick, Signal, Shutdown, Exit, Crash, Restart, Down,
              vars, proc
<1> QED BY <1>1, <1>2, <1>3, <1>4, <1>5, <1>6, <1>7 DEF Next, UserStep

\* A call that goes on to another place is the same call.
LEMMA CallMoves ==
    ASSUME Typed, NEW c \in calls, NEW x \in {"called", "parked", "launched"}
    PROVE  /\ [c EXCEPT !.at = x].kind = c.kind /\ [c EXCEPT !.at = x].no = c.no
           /\ [c EXCEPT !.at = x].session = c.session /\ [c EXCEPT !.at = x].at = x
           /\ c.kind \in Kinds /\ c.no \in Nat
BY DEF Typed, TypeOK, Call, Kinds

LEMMA CallsApartKept == ASSUME Base, CallsApart, [Next]_vars PROVE CallsApart'
<1>1. Typed /\ \A k \in Kinds : left'[k] \in Nat /\ left[k] \in Nat /\ left'[k] <= left[k]
  BY LeftFalls DEF Base
<1>2. \A c \in calls : c.kind \in Kinds /\ c.no \in Nat /\ c.no > left'[c.kind]
  <2>1. \A c \in calls : c.kind \in Kinds /\ c.no \in Nat /\ c.no > left[c.kind]
    BY <1>1, CallMoves DEF CallsApart
  <2> QED BY <1>1, <2>1
<1>3. CASE calls' \subseteq calls
  BY <1>2, <1>3 DEF CallsApart
<1>4. ASSUME NEW kind \in {"stop", "delete", "force"}, NEW s, NEW id, NEW p, Ask(kind, s, id, p)
      PROVE  CallsApart'
  <2>1. PICK n : /\ n.kind = kind /\ n.no = left[kind] /\ n.at = "called"
                 /\ calls' = calls \cup {n}
    BY <1>4 DEF Ask
  <2>2. left'[kind] = left[kind] - 1 /\ left[kind] \in Nat /\ left[kind] > 0
    BY <1>4 DEF Ask, Spend, Base, Typed, TypeOK, Kinds
  <2>3. \A c \in calls : c.kind = kind => c.no # n.no
    BY <1>1, <2>1, CallMoves DEF CallsApart
  <2>4. n.no > left'[n.kind]
    BY <2>1, <2>2
  <2> QED BY <1>2, <2>1, <2>3, <2>4 DEF CallsApart
<1>5. ASSUME NEW s \in Sessions, Release(s) PROVE CallsApart'
  <2>1. \A c \in calls' : \/ c \in calls \ Parked(s)
                          \/ \E d \in Parked(s) : c = [d EXCEPT !.at = "launched"]
    BY <1>5 DEF Release
  <2>2. \A c \in calls' : \E d \in calls :
            /\ c.kind = d.kind /\ c.no = d.no
            /\ c = d \/ d \in Parked(s)
            /\ c = IF d \in Parked(s) THEN [d EXCEPT !.at = "launched"] ELSE d
    <3>1. \A d \in Parked(s) : /\ [d EXCEPT !.at = "launched"].kind = d.kind
                               /\ [d EXCEPT !.at = "launched"].no = d.no /\ d \in calls
      BY <1>1, CallMoves DEF Parked
    <3> QED BY <2>1, <3>1
  <2>3. \A c, d \in calls' : c.kind = d.kind /\ c.no = d.no => c = d
    BY <2>2 DEF CallsApart
  <2>4. \A c \in calls' : c.no > left'[c.kind] /\ (c.at # "called" => c.kind = "force")
    BY <1>2, <2>2 DEF CallsApart, Parked
  <2> QED BY <2>3, <2>4 DEF CallsApart
<1>6. ASSUME NEW x \in calls, ForceClaims(x) PROVE CallsApart'
  <2>1. PICK n : /\ n.kind = x.kind /\ n.no = x.no
                 /\ calls' = calls \ {x} \/ calls' = (calls \ {x}) \cup {n}
    <3>1. \A a \in {"parked", "launched"} : [x EXCEPT !.at = a].kind = x.kind
                                            /\ [x EXCEPT !.at = a].no = x.no
      BY <1>1, CallMoves
    <3>2. \/ calls' = calls \ {x} \/ calls' = (calls \ {x}) \cup {[x EXCEPT !.at = "parked"]}
          \/ calls' = (calls \ {x}) \cup {[x EXCEPT !.at = "launched"]}
      BY <1>6 DEF ForceClaims
    <3> QED BY <3>1, <3>2
  <2>2. x.kind = "force"
    BY <1>6 DEF ForceClaims
  <2> QED BY <1>2, <2>1, <2>2 DEF CallsApart
<1> QED BY <1>1, <1>3, <1>4, <1>5, <1>6, CallsChange

\* Where the lock goes.
LEMMA LockChange ==
    ASSUME Typed, [Next]_vars
    PROVE  \/ lock' = lock
           \/ lock'.op \in {"none", "dispatch"} /\ lock'.pc # "finish"
           \/ /\ lock'.op = lock.op /\ lock'.call = lock.call
              /\ lock'.pc = "finish" => lock.op = "stop"
           \/ \E c \in calls : /\ TakeForced(c) /\ calls' = calls
                               /\ lock'.call = {c} /\ lock'.pc = "claim"
           \/ lock'.op \in {"stop", "delete"}
<1>1. ASSUME NEW s \in Sessions, TurnStep(s)
      PROVE  /\ lock'.op = lock.op /\ lock'.call = lock.call
             /\ lock' = lock \/ lock'.pc \in {"started", "failed"}
  BY <1>1, TurnLock
<1>2. Free.op = "none" /\ Free.pc = "pick"
      /\ \A C : Dispatching(C).op = "dispatch" /\ Dispatching(C).pc = "pick"
  BY DEF Free, Dispatching
<1>3. CASE Pick
  <2> DEFINE next == IF Held THEN {} ELSE NextQueuedRun(queue, preferred)
  <2>1. lock.op = "dispatch"
        /\ lock' = IF next = {} THEN Free ELSE [lock EXCEPT !.pc = "claim", !.row = next]
    BY <1>3 DEF Pick
  <2>2. CASE next = {}
    <3>1. lock' = Free
      BY <2>1, <2>2
    <3> QED BY <1>2, <3>1
  <2>3. CASE next # {}
    <3>1. lock'.op = lock.op /\ lock'.call = lock.call /\ lock'.pc = "claim"
      BY <2>1, <2>3 DEF Typed, TypeOK, Holder
    <3> QED BY <3>1
  <2> QED BY <2>2, <2>3
<1>4. ASSUME ClaimRow \/ Refuse
      PROVE  lock'.op = lock.op /\ lock'.call = lock.call /\ lock'.pc # "finish"
  BY <1>4, HolderMoves DEF ClaimRow, Refuse
<1>5. ASSUME FindBusy \/ DropRow \/ FailForced \/ FinishCall
      PROVE  lock' = Free \/ \E C : lock' = Dispatching(C)
  BY <1>5 DEF FindBusy, DropRow, FailForced, FinishCall, FallBack
<1>6. ASSUME ClearQueue
      PROVE  lock' = Free \/ (lock'.op = lock.op /\ lock'.call = lock.call /\ lock.op = "stop")
  BY <1>6, Clears DEF ClearQueue
<1>7. ASSUME NEW c \in calls, CallStep(c)
      PROVE  \/ lock' = lock \/ lock' = Free \/ \E C : lock' = Dispatching(C)
             \/ TakeForced(c) /\ calls' = calls /\ lock'.call = {c} /\ lock'.pc = "claim"
             \/ lock'.op \in {"stop", "delete"}
  <2>1. CASE ForceClaims(c)
    BY <2>1 DEF ForceClaims
  <2>2. CASE TakeForced(c)
    <3>1. \/ lock' = Dispatching({c})
          \/ /\ lock' = [Free EXCEPT !.op = "forced", !.pc = "claim",
                                     !.row = RowFound(c), !.call = {c}]
             /\ calls' = calls
      BY <2>2 DEF TakeForced
    <3> QED BY <2>2, <3>1 DEF Free
  <2>3. CASE TakeStop(c)
    BY <2>3 DEF TakeStop, Free
  <2>4. CASE TakeDelete(c)
    <3> DEFINE gone == {r \in queue : r.id = c.id /\ r.session = c.session}
    <3>1. CASE gone = {}
      BY <2>4, <3>1 DEF TakeDelete
    <3>2. CASE gone # {}
      BY <2>4, <3>2 DEF TakeDelete, Free
    <3> QED BY <3>1, <3>2
  <2> QED BY <1>7, <2>1, <2>2, <2>3, <2>4 DEF CallStep
<1>8. ASSUME UserStep PROVE lock' = lock \/ lock' = Free \/ \E C : lock' = Dispatching(C)
  BY <1>8 DEF UserStep, Enqueue, Send, StopCalled, ForceCalled, DeleteCalled, Pause, Resumed
<1>9. ASSUME \/ TakeSchedule \/ BecomeDue \/ RetryTick \/ Signal \/ Shutdown \/ Exit \/ Crash
             \/ Restart \/ UNCHANGED vars
      PROVE  lock' = lock \/ lock' = Free \/ \E C : lock' = Dispatching(C)
  BY <1>9 DEF TakeSchedule, BecomeDue, RetryTick, Signal, Shutdown, Exit, Crash, Restart, Down,
              vars, proc
<1> QED BY <1>1, <1>2, <1>3, <1>4, <1>5, <1>6, <1>7, <1>8, <1>9 DEF Next, HolderStep

LEMMA FinishingKept == ASSUME Typed, Finishing, [Next]_vars PROVE Finishing'
BY LockChange DEF Finishing, TakeForced

\* A launched call waits until it is taken or answered.
LEMMA LaunchedWaits ==
    ASSUME Typed, CallsApart, [Next]_vars, NEW c \in calls, c.at = "launched"
    PROVE  \/ c \in calls'
           \/ lock.op = "none"
           \/ lock.op = "forced" /\ lock'.op # "forced" /\ lock'.pc = "pick" /\ c \in lock.call
           \/ lock'.op = "none" /\ lock'.pc = "pick" /\ ~up'
<1>1. ASSUME NEW s \in Sessions, TurnStep(s) PROVE c \in calls'
  <2>1. CASE Release(s)
    BY <2>1 DEF Release, Parked
  <2>2. CASE ~Release(s)
    BY <1>1, <2>2 DEF TurnStep, Record, Launch, FailStart, GoAway, Requeue, Hold, Finish
  <2> QED BY <2>1, <2>2
<1>2. Free.op = "none" /\ Free.pc = "pick"
      /\ \A C : Dispatching(C).op = "dispatch" /\ Dispatching(C).pc = "pick"
  BY DEF Free, Dispatching
<1>3. ASSUME HolderStep
      PROVE  \/ c \in calls'
             \/ /\ lock.op = "forced" /\ c \in lock.call
                /\ lock' = Free \/ \E C : lock' = Dispatching(C)
  <2>1. ASSUME Pick \/ ClaimRow \/ Refuse \/ ClearQueue \/ FinishCall PROVE calls' = calls
    BY <2>1 DEF Pick, ClaimRow, Refuse, ClearQueue, FinishCall
  <2> QED BY <1>3, <2>1 DEF HolderStep, FindBusy, DropRow, FailForced, FallBack
<1>4. ASSUME NEW x \in calls, CallStep(x) PROVE c \in calls' \/ lock.op = "none"
  BY <1>4 DEF CallStep, ForceClaims, TakeForced, TakeStop, TakeDelete
<1>5. ASSUME UserStep PROVE c \in calls'
  <2>1. ASSUME NEW kind, NEW s, NEW id, NEW p, Ask(kind, s, id, p) PROVE c \in calls'
    BY <2>1 DEF Ask
  <2> QED BY <1>5, <2>1 DEF UserStep, Enqueue, Send, StopCalled, ForceCalled, DeleteCalled, Pause
<1>6. ASSUME TakeSchedule \/ BecomeDue \/ RetryTick \/ Signal \/ Shutdown \/ Restart \/ UNCHANGED vars
      PROVE  calls' = calls
  BY <1>6 DEF TakeSchedule, BecomeDue, RetryTick, Signal, Shutdown, Restart, vars, proc
<1>7. ASSUME Exit \/ Crash PROVE lock' = Free /\ ~up'
  BY <1>7 DEF Exit, Crash, Down
<1> QED BY <1>1, <1>2, <1>3, <1>4, <1>5, <1>6, <1>7 DEF Next

LEMMA ServingKept == ASSUME Typed, CallsApart, Serving, [Next]_vars PROVE Serving'
<1> SUFFICES ASSUME lock'.op = "forced", NEW c \in lock'.call
             PROVE  c \in calls' /\ c.at = "launched"
  BY DEF Serving
<1>1. ASSUME NEW x \in calls, TakeForced(x), calls' = calls, lock'.call = {x}
      PROVE  c \in calls' /\ c.at = "launched"
  BY <1>1 DEF TakeForced
<1>2. ASSUME lock.op = "forced", lock'.call = lock.call PROVE c \in calls' /\ c.at = "launched"
  <2>1. c \in calls /\ c.at = "launched"
    BY <1>2 DEF Serving
  <2> QED BY <1>2, <2>1, LaunchedWaits
<1> QED BY <1>1, <1>2, LockChange

\* The end of a turn is followed by a look at the queue.
LEMMA ReleaseWakes ==
    ASSUME Typed, CallsApart, Serving, NEW s \in Sessions, Release(s), ~stopping
    PROVE  wakes' > 0 \/ Launched' # {}
<1>1. wakes \in Nat /\ wakes + 1 > 0
  BY DEF Typed, TypeOK
<1>2. CASE Parked(s) = {}
  BY <1>1, <1>2 DEF Release, WakesAfter
<1>3. CASE Parked(s) # {}
  <2>1. PICK d \in Parked(s) : TRUE
    BY <1>3
  <2> DEFINE e == [d EXCEPT !.at = "launched"]
  <2>2. d \in calls /\ d.at = "parked" /\ e \in calls'
    BY <2>1 DEF Release, Parked
  <2>3. e.at = "launched" /\ e.kind = d.kind /\ e.no = d.no
    BY <2>2, CallMoves
  <2>4. lock.op = "forced" => e \notin lock.call
    BY <2>2, <2>3 DEF Serving, CallsApart
  <2>5. lock'.op = lock.op /\ lock'.call = lock.call
    BY TurnLock DEF TurnStep
  <2> QED BY <2>2, <2>3, <2>4, <2>5 DEF Launched
<1> QED BY <1>2, <1>3

\* Steps with which the project is busy afterwards, or shuts down.
Occupies == ProjectBusy' \/ stopping'

LEMMA TurnOccupies ==
    ASSUME Typed, NEW s \in Sessions, TurnStep(s), ~Release(s)
    PROVE  Occupies
<1>1. \E x \in Stages : x # "none" /\ Moves(s, x)
  BY TurnMoves DEF TurnStep, Stages
<1> QED BY <1>1 DEF Occupies, ProjectBusy, Busy, Moves

LEMMA ClaimOccupies ==
    ASSUME Base, left["refuse"] = 0,
           ClaimRow \/ FindBusy \/ Refuse \/ Shutdown \/ \E s \in Sessions : Send(s)
    PROVE  Occupies
<1>1. ASSUME NEW s \in Sessions, NEW p \in Prompts, NEW n, NEW by, Claim(s, p, n, by)
      PROVE  Occupies
  <2>1. active'[s].stage = "claimed"
    BY <1>1, Claims DEF Base
  <2> QED BY <2>1 DEF Occupies, ProjectBusy, Busy
<1>2. CASE ClaimRow
  <2>1. PICK r \in lock.row : Claim(r.session, r.prompt, r.retries, lock.op)
    BY <1>2 DEF ClaimRow
  <2>2. r.session \in Sessions /\ r.prompt \in Prompts
    BY InHand
  <2> QED BY <1>1, <2>1, <2>2
<1>3. CASE FindBusy
  <2>1. PICK r \in lock.row : Busy(r.session) /\ active' = active
    BY <1>3 DEF FindBusy
  <2>2. r.session \in Sessions
    BY InHand
  <2> QED BY <2>1, <2>2 DEF Occupies, ProjectBusy, Busy
<1>4. CASE Refuse
  <2>1. ~Spend("refuse")
    <3>1. Spend("refuse") => 0 > 0
      BY DEF Spend
    <3> QED BY <3>1
  <2> QED BY <1>4, <2>1 DEF Refuse, Occupies
<1>5. CASE Shutdown
  BY <1>5 DEF Shutdown, Occupies
<1>6. ASSUME NEW s \in Sessions, Send(s) PROVE Occupies
  <2>1. accepted + 1 \in Prompts /\ Claim(s, accepted + 1, 0, "direct")
    BY <1>6 DEF Send
  <2> QED BY <1>1, <2>1
<1> QED BY <1>2, <1>3, <1>4, <1>5, <1>6

\* Steps that change nothing that tells whether somebody looks at the queue.
Looks == /\ \A t \in Sessions : Same(t)
         /\ stopping' = stopping /\ paused' = paused
         /\ queue' = queue /\ preferred' = preferred
         /\ wakes' = wakes
         /\ \A c \in calls : c.at = "launched" => c \in calls'

\* The steps that leave the lock alone, when the project is free.
LEMMA LockRests ==
    ASSUME Wakeful, [Next]_vars, lock' = lock, ~Occupies, lock.op # "none"
    PROVE  \/ Looks
           \/ wakes' > 0 \/ Launched' # {}
           \/ BecomeDue
           \/ Restart
<1>1. Typed /\ wakes \in Nat /\ (\A n \in Nat : n + 1 > 0) /\ CallsApart /\ Serving
      /\ (active' = active => \A t \in Sessions : Same(t))
  BY DEF Wakeful, Base, Typed, TypeOK, Same
<1>2. Free.op = "none" /\ \A C : Dispatching(C).op = "dispatch"
  BY DEF Free, Dispatching
<1>3. ASSUME NEW s \in Sessions, TurnStep(s) PROVE wakes' > 0 \/ Launched' # {}
  <2>1. Release(s) /\ ~stopping
    BY <1>1, <1>3, TurnOccupies DEF Release, Occupies
  <2> QED BY <1>1, <2>1, ReleaseWakes
<1>4. ASSUME HolderStep PROVE Looks \/ wakes' > 0
  <2>1. ~ClaimRow /\ ~FindBusy /\ ~Refuse
    BY ClaimOccupies DEF Wakeful
  <2>2. ~DropRow /\ ~FailForced
    <3>1. DropRow => lock' = Free
      BY DEF DropRow
    <3>2. FailForced => lock.op = "forced" /\ lock' = Dispatching(lock.call)
      BY DEF FailForced, FallBack
    <3> QED BY <1>2, <3>1, <3>2
  <2>3. ~Pick
    <3>1. CASE Pick
      <4> DEFINE next == IF Held THEN {} ELSE NextQueuedRun(queue, preferred)
      <4>1. lock.op = "dispatch" /\ lock.pc = "pick"
            /\ lock' = IF next = {} THEN Free ELSE [lock EXCEPT !.pc = "claim", !.row = next]
        BY <3>1 DEF Pick
      <4>2. [lock EXCEPT !.pc = "claim", !.row = next].pc = "claim" /\ Free.op = "none"
        BY <1>1 DEF Typed, TypeOK, Holder, Free
      <4>3. CASE next = {}
        BY <4>1, <4>2, <4>3
      <4>4. CASE next # {}
        BY <4>1, <4>2, <4>4
      <4> QED BY <4>3, <4>4
    <3> QED BY <3>1
  <2>4. ~ClearQueue
    <3>1. ClearQueue => lock.pc = "clear" /\ (lock' = Free \/ lock'.pc = "finish")
      BY <1>1, Clears DEF ClearQueue
    <3> QED BY <1>2, <3>1
  <2>5. FinishCall => wakes' > 0
    BY <1>1 DEF FinishCall
  <2> QED BY <1>4, <2>1, <2>2, <2>3, <2>4, <2>5 DEF HolderStep
<1>5. ASSUME NEW c \in calls, CallStep(c) PROVE Looks
  <2>1. ForceClaims(c)
    BY <1>5 DEF CallStep, TakeForced, TakeStop, TakeDelete
  <2>2. \A t \in Sessions : Same(t)
    BY <1>1, <2>1, CancelledRests DEF ForceClaims
  <2>3. \A d \in calls : d.at = "launched" => d \in calls'
    BY <2>1 DEF ForceClaims
  <2> QED BY <2>1, <2>2, <2>3 DEF ForceClaims, Looks, db
<1>6. ASSUME UserStep PROVE Looks \/ wakes' > 0
  <2>1. \A s \in Sessions : ~Send(s)
    BY ClaimOccupies DEF Wakeful
  <2>2. ASSUME NEW s \in Sessions, Enqueue(s) PROVE wakes' > 0
    BY <1>1, <2>2 DEF Enqueue
  <2>3. ~Pause
    BY DEF Pause
  <2>4. ASSUME \/ \E s \in Sessions : StopCalled(s)
               \/ \E r \in queue : ForceCalled(r) \/ DeleteCalled(r)
        PROVE  Looks
    <3>1. /\ active' = active /\ stopping' = stopping /\ paused' = paused /\ queue' = queue
          /\ preferred' = preferred /\ wakes' = wakes /\ calls \subseteq calls'
      BY <2>4 DEF StopCalled, ForceCalled, DeleteCalled, Ask, db
    <3> QED BY <1>1, <3>1 DEF Looks
  <2> QED BY <1>6, <2>1, <2>2, <2>3, <2>4 DEF UserStep
<1>7. ASSUME TakeSchedule \/ Exit \/ Crash PROVE FALSE
  BY <1>7 DEF TakeSchedule, Exit, Crash, Down, Free
<1>8. RetryTick => wakes' > 0
  BY <1>1 DEF RetryTick
<1>9. ASSUME Signal \/ UNCHANGED vars PROVE Looks
  <2>1. \A t \in Sessions : Same(t)
    BY <1>1, <1>9, CancelledRests DEF Signal, vars, proc
  <2> QED BY <1>9, <2>1 DEF Signal, vars, proc, db, Looks
<1>10. ~Shutdown
  BY ClaimOccupies DEF Wakeful
<1> QED BY <1>3, <1>4, <1>5, <1>6, <1>7, <1>8, <1>9, <1>10 DEF Next

\* Whoever holds the lock over the end of a turn is followed by somebody else.
LEMMA FollowedKept == ASSUME Wakeful, [Next]_vars PROVE Followed'
<1> SUFFICES ASSUME lock'.op \in {"dispatch", "forced"}, lock'.pc \in {"started", "failed"},
                    ~Occupies
             PROVE  wakes' > 0 \/ Launched' # {}
  BY DEF Followed, Occupies
<1>1. Typed /\ CallsApart /\ Serving /\ Followed
  BY DEF Wakeful, Base
<1>2. CASE lock' = lock
  <2>1. CASE Looks
    <3>1. wakes > 0 \/ Launched # {}
      BY <1>1, <1>2, <2>1 DEF Followed, Looks, Occupies, ProjectBusy, Busy, Same
    <3> QED BY <1>2, <2>1, <3>1 DEF Looks, Launched
  <2>2. CASE BecomeDue
    <3>1. ~ProjectBusy /\ ~stopping /\ wakes' = wakes /\ calls' = calls
      BY <2>2 DEF BecomeDue, proc, Occupies, ProjectBusy, Busy
    <3> QED BY <1>1, <1>2, <3>1 DEF Followed, Launched
  <2>3. CASE Restart
    <3>1. ~ProjectBusy /\ ~stopping /\ wakes' = wakes /\ calls' = calls
      BY <2>3 DEF Restart, Occupies, ProjectBusy, Busy
    <3> QED BY <1>1, <1>2, <3>1 DEF Followed, Launched
  <2> QED BY <1>2, <2>1, <2>2, <2>3, LockRests
<1>3. CASE lock' # lock
  <2>1. ASSUME NEW s \in Sessions, TurnStep(s) PROVE wakes' > 0 \/ Launched' # {}
    <3>1. Release(s) /\ ~stopping
      BY <1>1, <2>1, TurnOccupies DEF Release, Occupies
    <3> QED BY <1>1, <3>1, ReleaseWakes
  <2>2. ~LetsGo /\ ~Takes
    BY DEF LetsGo, Takes
  <2>3. ~Rests /\ ~BecomeDue /\ \A s \in Sessions : ~Enqueue(s) /\ ~Send(s)
    BY <1>3 DEF Rests, BecomeDue, proc, Enqueue, Send
  <2>4. \A c \in calls : ~TakeStop(c)
    BY DEF TakeStop, Free
  <2>5. \A c \in calls : ~TakeDelete(c)
    <3> SUFFICES ASSUME NEW c \in calls, TakeDelete(c) PROVE FALSE
      OBVIOUS
    <3> DEFINE gone == {r \in queue : r.id = c.id /\ r.session = c.session}
    <3>1. CASE gone = {}
      BY <3>1 DEF TakeDelete, Free
    <3>2. CASE gone # {}
      BY <3>2 DEF TakeDelete, Free
    <3> QED BY <3>1, <3>2
  <2>6. ~ClaimRow /\ ~Refuse
    BY ClaimOccupies DEF Wakeful
  <2>7. ~DropRow /\ ~Crash /\ ~Exit
    BY DEF DropRow, Crash, Exit, Down, Free
  <2>8. ~ClearQueue
    BY <1>1, Clears DEF ClearQueue, Free
  <2> QED BY <1>1, <2>1, <2>2, <2>3, <2>4, <2>5, <2>6, <2>7, <2>8, Kinds1 DEF Wakeful, Base
<1> QED BY <1>2, <1>3

LEMMA WakefulKept == Wakeful /\ [Next]_vars => Wakeful'
<1> SUFFICES ASSUME Wakeful, [Next]_vars PROVE Wakeful'
  OBVIOUS
<1>1. Base' /\ LateRows' /\ CallsApart' /\ Serving' /\ Finishing' /\ Followed'
  BY BaseKept, LateRowsKept, CallsApartKept, ServingKept, FinishingKept, FollowedKept
     DEF Wakeful, Base
<1>2. left'["refuse"] = 0
  BY NoneLeft DEF Wakeful, Kinds
<1> QED BY <1>1, <1>2 DEF Wakeful

\* Whether a row is next depends on the preferred task only if that has one.
LEMMA NobodyPreferred ==
    ASSUME NextQueuedRun(queue, preferred) = {}
    PROVE  NextQueuedRun(queue, 0) = {}
<1>1. CASE Retries(queue) # {}
  BY <1>1 DEF NextQueuedRun
<1>2. CASE Retries(queue) = {}
  <2>1. preferred \notin ReadyTasks(queue)
    BY <1>2 DEF NextQueuedRun, ReadyTasks
  <2>2. 0 \notin ReadyTasks(queue)
    BY SessionsAssumption DEF ReadyTasks
  <2> QED BY <1>2, <2>1, <2>2 DEF NextQueuedRun
<1> QED BY <1>1, <1>2

\* Somebody is about to look at the queue.
Awake == \/ wakes > 0
         \/ lock.op \in {"dispatch", "forced"} \/ lock.pc = "finish"
         \/ \E c \in calls : c.at = "launched"
         \/ \E r \in Retries(queue) : r.due

LEMMA LooksOn ==
    ASSUME Attended, Looks, ~Occupies, ~paused', NextQueuedRun(queue', preferred') # {},
           lock.op \in {"dispatch", "forced"} \/ lock.pc = "finish" => lock' = lock
    PROVE  Awake'
<1>1. Awake
  BY DEF Attended, Awake, Looks, Occupies, ProjectBusy, Busy, Same
<1> QED BY <1>1 DEF Looks, Awake

LEMMA AttendedKept == ASSUME Wakeful, Attended, [Next]_vars, up, up' PROVE Attended'
<1> SUFFICES ASSUME ~Occupies, ~paused', NextQueuedRun(queue', preferred') # {}
             PROVE  Awake'
  BY DEF Attended, Awake, Occupies
<1>1. Typed /\ CallsApart /\ Serving /\ Finishing /\ Followed /\ LateRows
      /\ wakes \in Nat /\ (\A n \in Nat : n + 1 > 0)
      /\ (active' = active => \A t \in Sessions : Same(t))
  BY DEF Wakeful, Base, Typed, TypeOK, Same
<1>2. \A C : Dispatching(C).op = "dispatch"
  BY DEF Dispatching, Free
<1>3. Launched' # {} => Awake'
  BY DEF Launched, Awake
<1>4. ASSUME NEW s \in Sessions, TurnStep(s) PROVE Awake'
  <2>1. Release(s) /\ ~stopping
    BY <1>1, <1>4, TurnOccupies DEF Release, Occupies
  <2>2. wakes' > 0 \/ Launched' # {}
    BY <1>1, <2>1, ReleaseWakes
  <2> QED BY <1>3, <2>2 DEF Awake
<1>5. CASE Pick
  <2> DEFINE next == IF Held THEN {} ELSE NextQueuedRun(queue, preferred)
  <2>1. /\ lock.op = "dispatch" /\ queue' = queue /\ active' = active /\ paused' = paused
        /\ lock' = IF next = {} THEN Free ELSE [lock EXCEPT !.pc = "claim", !.row = next]
        /\ preferred' = IF next = {} /\ ~Held THEN 0 ELSE preferred
    BY <1>5 DEF Pick, db
  <2>2. ~Held
    BY <2>1 DEF Held, Occupies, ProjectBusy, Busy
  <2>3. CASE next = {}
    <3>1. NextQueuedRun(queue, preferred) = {} /\ preferred' = 0
      BY <2>1, <2>2, <2>3
    <3> QED BY <2>1, <3>1, NobodyPreferred
  <2>4. CASE next # {}
    <3>1. lock'.op = "dispatch"
      BY <1>1, <2>1, <2>4 DEF Typed, TypeOK, Holder
    <3> QED BY <3>1 DEF Awake
  <2> QED BY <2>3, <2>4
<1>6. CASE DropRow
  <2>1. wakes > 0 \/ Launched # {}
    BY <1>1, <1>6 DEF DropRow, Followed, Occupies, ProjectBusy, Busy
  <2>2. \A c \in Launched : c \in calls'
    BY <1>6 DEF DropRow, Launched
  <2>3. wakes' = wakes
    BY <1>6 DEF DropRow
  <2> QED BY <2>1, <2>2, <2>3 DEF Awake, Launched
<1>7. CASE FailForced
  BY <1>2, <1>7 DEF FailForced, FallBack, Awake
<1>8. CASE ClearQueue
  <2>1. CASE lock'.pc = "finish"
    BY <2>1 DEF Awake
  <2>2. CASE lock'.pc # "finish"
    <3>1. PICK c \in lock.call : queue' = queue \ RowsOf(queue, c.session)
                                 /\ RowsOf(queue, c.session) = {}
      BY <1>1, <1>8, <2>2, Clears
    <3>2. Looks /\ lock.op = "stop" /\ lock.pc = "clear"
      BY <1>1, <1>8, <3>1 DEF ClearQueue, Looks
    <3> QED BY <3>2, LooksOn
  <2> QED BY <2>1, <2>2
<1>9. CASE FinishCall
  BY <1>1, <1>9 DEF FinishCall, Awake
<1>10. ASSUME NEW c \in calls, CallStep(c) PROVE Awake'
  <2>1. CASE ForceClaims(c)
    <3>1. \A t \in Sessions : Same(t)
      BY <1>1, <2>1, CancelledRests DEF ForceClaims
    <3>2. \A d \in calls : d.at = "launched" => d \in calls'
      BY <2>1 DEF ForceClaims
    <3>3. Looks /\ lock' = lock
      BY <2>1, <3>1, <3>2 DEF ForceClaims, Looks, db
    <3> QED BY <3>3, LooksOn
  <2>2. CASE TakeForced(c)
    <3>1. \/ lock' = Dispatching({c})
          \/ lock' = [Free EXCEPT !.op = "forced", !.pc = "claim",
                                  !.row = RowFound(c), !.call = {c}]
      BY <2>2 DEF TakeForced
    <3>2. lock'.op \in {"dispatch", "forced"}
      BY <1>2, <3>1 DEF Free
    <3> QED BY <3>2 DEF Awake
  <2>3. CASE TakeStop(c)
    <3>1. \A d \in calls : d.at = "launched" => d \in calls'
      BY <1>1, <2>3 DEF TakeStop, CallsApart
    <3>2. Looks /\ lock.op = "none" /\ lock.pc # "finish"
      BY <1>1, <2>3, <3>1 DEF TakeStop, Looks, db, Finishing
    <3> QED BY <3>2, LooksOn
  <2>4. CASE TakeDelete(c)
    <3> DEFINE gone == {r \in queue : r.id = c.id /\ r.session = c.session}
    <3>1. CASE gone = {}
      <4>1. /\ queue' = queue \ gone /\ active' = active /\ paused' = paused
            /\ stopping' = stopping /\ preferred' = preferred /\ wakes' = wakes
            /\ calls' = calls \ {c} /\ c.kind = "delete" /\ lock.op = "none"
        BY <2>4, <3>1 DEF TakeDelete
      <4>2. \A d \in calls : d.at = "launched" => d \in calls'
        BY <1>1, <4>1 DEF CallsApart
      <4>3. Looks /\ lock.pc # "finish"
        BY <1>1, <3>1, <4>1, <4>2 DEF Looks, Finishing
      <4> QED BY <4>1, <4>3, LooksOn
    <3>2. CASE gone # {}
      BY <2>4, <3>2 DEF TakeDelete, Awake, Free
    <3> QED BY <3>1, <3>2
  <2> QED BY <1>10, <2>1, <2>2, <2>3, <2>4 DEF CallStep
<1>11. CASE UserStep
  <2>1. ASSUME NEW s \in Sessions, Enqueue(s) PROVE Awake'
    BY <1>1, <2>1 DEF Enqueue, Awake
  <2>2. ASSUME \/ \E s \in Sessions : StopCalled(s)
               \/ \E r \in queue : ForceCalled(r) \/ DeleteCalled(r)
        PROVE  Awake'
    <3>1. /\ active' = active /\ stopping' = stopping /\ paused' = paused /\ queue' = queue
          /\ preferred' = preferred /\ wakes' = wakes /\ lock' = lock /\ calls \subseteq calls'
      BY <2>2 DEF StopCalled, ForceCalled, DeleteCalled, Ask, db
    <3>2. Looks
      BY <1>1, <3>1 DEF Looks
    <3> QED BY <3>1, <3>2, LooksOn
  <2>3. CASE Pause
    <3>1. paused
      BY <2>3 DEF Pause
    <3>2. lock' = Dispatching({})
      BY <2>3, <3>1 DEF Pause, Resumed
    <3> QED BY <1>2, <3>2 DEF Awake
  <2> QED BY <1>11, <2>1, <2>2, <2>3, ClaimOccupies DEF UserStep, Wakeful
<1>12. CASE TakeSchedule
  BY <1>2, <1>12 DEF TakeSchedule, Awake
<1>13. CASE BecomeDue
  <2>1. PICK r \in queue, d \in Row : /\ ~r.due /\ d.due /\ Alike(r, d)
                                      /\ queue' = (queue \ {r}) \cup {d}
    BY <1>1, <1>13, Becomes
  <2>2. d \in Retries(queue')
    BY <1>1, <2>1 DEF LateRows, Retries, Alike
  <2> QED BY <2>1, <2>2 DEF Awake
<1>14. CASE RetryTick
  BY <1>1, <1>14 DEF RetryTick, Awake
<1>15. ASSUME Signal \/ UNCHANGED vars PROVE Awake'
  <2>1. \A t \in Sessions : Same(t)
    BY <1>1, <1>15, CancelledRests DEF Signal, vars, proc
  <2>2. Looks /\ lock' = lock
    BY <1>15, <2>1 DEF Signal, vars, proc, db, Looks
  <2> QED BY <2>2, LooksOn
<1>16. ~Exit /\ ~Crash /\ ~Restart
  BY DEF Exit, Crash, Down, Restart
<1>17. ~ClaimRow /\ ~FindBusy /\ ~Refuse /\ ~Shutdown
  BY ClaimOccupies DEF Wakeful
<1> QED BY <1>4, <1>5, <1>6, <1>7, <1>8, <1>9, <1>10, <1>11, <1>12, <1>13, <1>14, <1>15,
           <1>16, <1>17 DEF Next, HolderStep

\* While the process runs, no step leaves a prompt that could start with nobody
\* to look at the queue: whatever frees the project, fills the queue, resumes
\* it or lets go of the dispatch lock is followed by a look (runner.go:872,
\* 940, 1271, 1342), unless a start is refused.
THEOREM NobodySleeps == NoneTurnedDown /\ Spec => NoLostWakeup
<1>1. NoneTurnedDown /\ Init => Wakeful
  <2> SUFFICES ASSUME NoneTurnedDown, Init PROVE Wakeful
    OBVIOUS
  <2>1. left["refuse"] = 0 /\ queue = {} /\ calls = {} /\ lock.op = "none" /\ lock.pc = "pick"
    BY FreeTyped DEF Init, NoneTurnedDown
  <2> QED BY <2>1, BaseInit DEF Wakeful, LateRows, CallsApart, Serving, Finishing, Followed
<1>2. Wakeful /\ [Next]_vars => [up /\ up' /\ Attended => Attended']_vars
  BY AttendedKept
<1> QED BY <1>1, <1>2, WakefulKept, PTL DEF Spec, NoLostWakeup

-----------------------------------------------------------------------------
(* A prompt is tried once, and once more for each setback                   *)

\* The process is not shut down, and no outage meets the start of a Send now:
\* both leave a row in the queue beside the turn that its prompt had.
NoRowStays == \A b \in Budgets : /\ b["shutdown"] = 0
                                 /\ b["force"] = 0 \/ b["away at start"] = 0

\* Nobody asks for a Send now, nor is one served.
NoForce == /\ left["force"] = 0 /\ lock.op # "forced"
           /\ \A c \in calls : c.kind # "force"

Calm == /\ left["shutdown"] = 0 /\ ~stopping
        /\ left["away at start"] = 0 \/ NoForce
        /\ lock.op = "forced" /\ lock.pc = "sending" =>
               \A r \in lock.row : active[r.session].stage \in {"claimed", "recorded", "settled"}

\* The row in hand was tried, and goes.
Dropping == \/ lock.pc \in {"sending", "started"}
            \/ lock.pc = "failed" /\ lock.op = "dispatch"

\* The rows from which prompt p may be tried.
Again(p) == {id \in RowIds : /\ \E r \in queue : r.id = id /\ r.prompt = p
                             /\ Dropping => \A h \in lock.row : h.id # id}

\* The turn of p is over, and its prompt may come back for it.
Due(s)    == \/ active[s].stage = "away"
             \/ active[s].stage = "settled" /\ lock.op = "forced" /\ SentByHolder(s)
Coming(p) == \E s \in Sessions : active[s].prompt = p /\ Due(s)

\* Each try and each row of a prompt is its first or is owed to a setback; a
\* prompt about to come back has a setback to spare.
Counts(p) == /\ IsFiniteSet(Again(p))
             /\ tries[p] + Cardinality(Again(p)) <= 1 + setbacks[p]
             /\ Coming(p) => tries[p] + Cardinality(Again(p)) <= setbacks[p]

Counted == Base /\ Calm /\ \A p \in Prompts : Counts(p)

\* The numbers of a prompt, and its rows after a step.
LEMMA CountTyped ==
    ASSUME Base, Base', NEW p \in Prompts, Counts(p)
    PROVE  /\ tries[p] \in Nat /\ tries'[p] \in Nat
           /\ setbacks[p] \in Nat /\ setbacks'[p] \in Nat
           /\ IsFiniteSet(Again(p)) /\ Cardinality(Again(p)) \in Nat
<1>1. IsFiniteSet(Again(p))
  BY DEF Counts
<1>2. Cardinality(Again(p)) \in Nat
  BY <1>1, FS_CardinalityType
<1> QED BY <1>1, <1>2 DEF Base, Typed, TypeOK

\* A prompt that gets no row and no try stays counted.
LEMMA CountsFewer ==
    ASSUME Base, Base', NEW p \in Prompts, Counts(p), Again(p)' \subseteq Again(p),
           tries'[p] = tries[p],
           \/ setbacks'[p] = setbacks[p] /\ (Coming(p)' => Coming(p))
           \/ setbacks'[p] = setbacks[p] + 1
    PROVE  Counts(p)'
<1> DEFINE n == Cardinality(Again(p))
           m == Cardinality(Again(p)')
<1>1. /\ IsFiniteSet(Again(p)) /\ n \in Nat
      /\ tries[p] \in Nat /\ setbacks[p] \in Nat
  BY CountTyped
<1>2. IsFiniteSet(Again(p)') /\ m <= n /\ m \in Nat
  BY <1>1, FS_Subset, FS_CardinalityType
<1>3. /\ tries[p] + n <= 1 + setbacks[p]
      /\ Coming(p) => tries[p] + n <= setbacks[p]
  BY DEF Counts
<1> HIDE DEF n, m
<1>4. /\ tries'[p] + m <= 1 + setbacks'[p]
      /\ Coming(p)' => tries'[p] + m <= setbacks'[p]
  BY <1>1, <1>2, <1>3
<1> QED BY <1>2, <1>4 DEF Counts, m

\* A prompt that comes back, or outlives a crash, gets one row.
LEMMA CountsRow ==
    ASSUME Base, Base', NEW p \in Prompts, Counts(p), NEW id,
           Again(p)' \subseteq Again(p) \cup {id},
           tries'[p] = tries[p], ~Coming(p)',
           \/ setbacks'[p] = setbacks[p] /\ Coming(p)
           \/ setbacks'[p] = setbacks[p] + 1
    PROVE  Counts(p)'
<1> DEFINE n == Cardinality(Again(p))
           m == Cardinality(Again(p)')
           k == Cardinality(Again(p) \cup {id})
<1>1. /\ IsFiniteSet(Again(p)) /\ n \in Nat
      /\ tries[p] \in Nat /\ setbacks[p] \in Nat
  BY CountTyped
<1>2. IsFiniteSet(Again(p) \cup {id}) /\ k <= n + 1 /\ k \in Nat
  BY SMTT(30), <1>1, FS_AddElement, FS_CardinalityType
<1>3. IsFiniteSet(Again(p)') /\ m <= k /\ m \in Nat
  BY <1>2, FS_Subset, FS_CardinalityType
<1>4. /\ tries[p] + n <= 1 + setbacks[p]
      /\ Coming(p) => tries[p] + n <= setbacks[p]
  BY DEF Counts
<1> HIDE DEF n, m, k
<1>5. tries'[p] + m <= 1 + setbacks'[p]
  BY <1>1, <1>2, <1>3, <1>4
<1> QED BY <1>3, <1>5 DEF Counts, m

\* A row that is claimed becomes a try.
LEMMA CountsTry ==
    ASSUME Base, Base', NEW p \in Prompts, Counts(p), NEW id \in Again(p),
           Again(p)' \subseteq Again(p) \ {id},
           tries'[p] = tries[p] + 1, setbacks'[p] = setbacks[p], Coming(p)' => Coming(p)
    PROVE  Counts(p)'
<1> DEFINE n == Cardinality(Again(p))
           m == Cardinality(Again(p)')
           k == Cardinality(Again(p) \ {id})
<1>1. /\ IsFiniteSet(Again(p)) /\ n \in Nat
      /\ tries[p] \in Nat /\ setbacks[p] \in Nat
  BY CountTyped
<1>2. IsFiniteSet(Again(p) \ {id}) /\ k = n - 1 /\ k \in Nat
  BY <1>1, FS_RemoveElement, FS_CardinalityType
<1>3. IsFiniteSet(Again(p)') /\ m <= k /\ m \in Nat
  BY <1>2, FS_Subset, FS_CardinalityType
<1>4. /\ tries[p] + n <= 1 + setbacks[p]
      /\ Coming(p) => tries[p] + n <= setbacks[p]
  BY DEF Counts
<1> HIDE DEF n, m, k
<1>5. /\ tries'[p] + m <= 1 + setbacks'[p]
      /\ Coming(p)' => tries'[p] + m <= setbacks'[p]
  BY <1>1, <1>2, <1>3, <1>4
<1> QED BY <1>3, <1>5 DEF Counts, m

\* A prompt that was just accepted has one row or one try.
LEMMA CountsNew ==
    ASSUME Base', NEW p \in Prompts, ~Coming(p)', setbacks'[p] \in Nat,
           \/ tries'[p] = 1 /\ Again(p)' = {}
           \/ tries'[p] = 0 /\ \E id : Again(p)' \subseteq {id}
    PROVE  Counts(p)'
<1> DEFINE m == Cardinality(Again(p)')
<1>1. CASE tries'[p] = 1 /\ Again(p)' = {}
  <2>1. IsFiniteSet(Again(p)') /\ m = 0
    BY <1>1, FS_EmptySet
  <2> HIDE DEF m
  <2>2. tries'[p] + m <= 1 + setbacks'[p]
    BY <1>1, <2>1
  <2> QED BY <2>1, <2>2 DEF Counts, m
<1>2. ASSUME tries'[p] = 0, NEW id, Again(p)' \subseteq {id} PROVE Counts(p)'
  <2>1. IsFiniteSet({id}) /\ Cardinality({id}) = 1
    BY FS_Singleton
  <2>2. IsFiniteSet(Again(p)') /\ m <= 1 /\ m \in Nat
    BY <1>2, <2>1, FS_Subset, FS_CardinalityType
  <2> HIDE DEF m
  <2>3. tries'[p] + m <= 1 + setbacks'[p]
    BY <1>2, <2>2
  <2> QED BY <2>2, <2>3 DEF Counts, m
<1> QED BY <1>1, <1>2

\* A turn in flight is the only one of its prompt.
LEMMA ComesAlone ==
    ASSUME Base, NEW s \in Sessions, Busy(s), NEW t \in Sessions,
           active[t].prompt = active[s].prompt, Due(t)
    PROVE  t = s
BY DEF Base, Homes, Due, Busy

\* Steps that leave the rows, the numbers and the turns alone.
LEMMA CountsStill ==
    ASSUME Counted, [Next]_vars, \A t \in Sessions : Same(t),
           queue' \subseteq queue, tries' = tries, setbacks' = setbacks,
           Dropping => \A h \in lock.row : Dropping' /\ h \in lock'.row,
           lock'.op = "forced" /\ lock'.pc = "sending" => lock' = lock
    PROVE  \A p \in Prompts : Counts(p)'
<1>1. Base /\ Base'
  BY BaseKept DEF Counted
<1>2. ASSUME NEW p \in Prompts PROVE Counts(p)'
  <2>1. Again(p)' \subseteq Again(p)
    BY DEF Again
  <2>2. Coming(p)' => Coming(p)
    BY DEF Coming, Due, Same, SentByHolder
  <2> QED BY <1>1, <2>1, <2>2, CountsFewer DEF Counted
<1> QED BY <1>2

LEMMA CountsEnqueue ==
    ASSUME Counted, NEW s \in Sessions, Enqueue(s)
    PROVE  \A p \in Prompts : Counts(p)'
<1>1. [Next]_vars /\ Base /\ Base' /\ Typed
  BY BaseKept DEF Counted, Next, UserStep, Base
<1>2. /\ active' = active /\ lock' = lock /\ tries' = tries /\ setbacks' = setbacks
      /\ accepted + 1 \in Prompts /\ accepted \in Nat
  BY <1>1 DEF Enqueue, Typed, TypeOK
<1>3. PICK r : Adds(r) /\ r.prompt = accepted + 1
  BY <1>1, Queues
<1>4. \A p : Coming(p)' <=> Coming(p)
  BY <1>2 DEF Coming, Due, SentByHolder
<1>5. Dropping' <=> Dropping
  BY <1>2 DEF Dropping
<1>6. ASSUME NEW p \in Prompts, p # accepted + 1 PROVE Counts(p)'
  <2>1. Again(p)' \subseteq Again(p)
    BY <1>2, <1>3, <1>5, <1>6 DEF Again, Adds
  <2> QED BY <1>1, <1>2, <1>4, <2>1, CountsFewer DEF Counted
<1>7. ASSUME NEW p \in Prompts, p = accepted + 1 PROVE Counts(p)'
  <2>1. tries'[p] = 0
    <3>1. p > accepted
      BY <1>2, <1>7
    <3> QED BY <1>1, <1>2, <3>1 DEF Base, Fresh
  <2>2. \A q \in queue : q.prompt # p
    <3>1. \A q \in queue : q.prompt \in Nat /\ q.prompt <= accepted
      BY <1>1, PromptsAssumption DEF Base, Fresh, Typed, TypeOK, Row
    <3> QED BY <1>2, <1>7, <3>1
  <2>3. ~Coming(p)
    <3>1. \A t \in Sessions : Busy(t) => active[t].prompt \in Nat /\ active[t].prompt <= accepted
      BY <1>1, PromptsAssumption DEF Base, Fresh, Typed, TurnHasPrompt
    <3> QED BY <1>2, <1>7, <3>1 DEF Coming, Due, Busy
  <2>4. Again(p)' \subseteq {r.id}
    BY <1>3, <1>7, <2>2 DEF Again, Adds
  <2>5. setbacks'[p] \in Nat
    BY <1>1 DEF Base, Typed, TypeOK
  <2> QED BY <1>1, <1>4, <2>1, <2>3, <2>4, <2>5, CountsNew
<1> QED BY <1>6, <1>7

LEMMA CountsSend ==
    ASSUME Counted, NEW s \in Sessions, Send(s)
    PROVE  \A p \in Prompts : Counts(p)'
<1>1. [Next]_vars /\ Base /\ Base' /\ Typed
  BY BaseKept DEF Counted, Next, UserStep, Base
<1>2. /\ queue' = queue /\ lock' = lock /\ setbacks' = setbacks
      /\ accepted + 1 \in Prompts /\ accepted \in Nat /\ Claim(s, accepted + 1, 0, "direct")
  BY <1>1 DEF Send, db, Typed, TypeOK
<1>3. /\ active'[s].stage = "claimed" /\ active'[s].prompt = accepted + 1
      /\ \A t \in Sessions : t # s => Same(t)
      /\ tries'[accepted + 1] = tries[accepted + 1] + 1
      /\ \A q \in Prompts : q # accepted + 1 => tries'[q] = tries[q]
  BY <1>1, <1>2, Claims
<1>4. \A p : Coming(p)' => Coming(p)
  BY <1>2, <1>3 DEF Coming, Due, SentByHolder, Same
<1>5. \A p : Again(p)' = Again(p)
  BY <1>2 DEF Again, Dropping
<1>6. ASSUME NEW p \in Prompts, p # accepted + 1 PROVE Counts(p)'
  BY <1>1, <1>2, <1>3, <1>4, <1>5, <1>6, CountsFewer DEF Counted
<1>7. ASSUME NEW p \in Prompts, p = accepted + 1 PROVE Counts(p)'
  <2>1. p > accepted /\ tries'[p] = 1
    <3>1. p > accepted
      BY <1>2, <1>7
    <3>2. tries[p] = 0
      BY <1>1, <3>1 DEF Base, Fresh
    <3> QED BY <1>3, <1>7, <3>1, <3>2
  <2>2. \A q \in queue : q.prompt # p
    <3>1. \A q \in queue : q.prompt \in Nat /\ q.prompt <= accepted
      BY <1>1, PromptsAssumption DEF Base, Fresh, Typed, TypeOK, Row
    <3> QED BY <1>2, <1>7, <3>1
  <2>3. ~Coming(p)
    <3>1. \A t \in Sessions : Busy(t) => active[t].prompt \in Nat /\ active[t].prompt <= accepted
      BY <1>1, PromptsAssumption DEF Base, Fresh, Typed, TurnHasPrompt
    <3> QED BY <1>2, <1>7, <3>1 DEF Coming, Due, Busy
  <2>4. Again(p)' = {}
    BY <1>5, <2>2 DEF Again
  <2>5. setbacks'[p] \in Nat
    BY <1>1 DEF Base, Typed, TypeOK
  <2> QED BY <1>1, <1>4, <2>1, <2>3, <2>4, <2>5, CountsNew
<1> QED BY <1>6, <1>7

LEMMA CountsClaim ==
    ASSUME Counted, ClaimRow
    PROVE  \A p \in Prompts : Counts(p)'
<1>1. [Next]_vars /\ Base /\ Base' /\ Typed
  BY BaseKept DEF Counted, Next, HolderStep, Base
<1>2. PICK r \in lock.row : Claim(r.session, r.prompt, r.retries, lock.op)
  BY DEF ClaimRow
<1>3. /\ r \in Row /\ r.session \in Sessions /\ r.prompt \in Prompts
      /\ \A h \in lock.row : h = r
  BY <1>1, InHand
<1>4. PICK q \in queue : Alike(q, r)
  BY <1>1, InHand
<1>5. /\ active'[r.session].stage = "claimed" /\ active'[r.session].prompt = r.prompt
      /\ \A t \in Sessions : t # r.session => Same(t)
      /\ tries'[r.prompt] = tries[r.prompt] + 1
      /\ \A p \in Prompts : p # r.prompt => tries'[p] = tries[p]
  BY <1>1, <1>2, <1>3, Claims
<1>6. /\ queue' = queue /\ setbacks' = setbacks /\ lock.pc = "claim"
      /\ lock'.pc = "sending" /\ lock'.row = lock.row /\ lock'.op = lock.op
  BY <1>1, HolderMoves DEF ClaimRow, db
<1>7. \A p : Coming(p)' => Coming(p)
  <2>1. \A t \in Sessions : SentByHolder(t)' => t = r.session
    BY <1>3, <1>6 DEF SentByHolder
  <2> QED BY <1>5, <2>1 DEF Coming, Due, Same
<1>8. ~Dropping /\ Dropping'
  BY <1>6 DEF Dropping
<1>9. ASSUME NEW p \in Prompts, p # r.prompt PROVE Counts(p)'
  <2>1. Again(p)' \subseteq Again(p)
    BY <1>6, <1>8 DEF Again
  <2> QED BY <1>1, <1>5, <1>6, <1>7, <1>9, <2>1, CountsFewer DEF Counted
<1>10. ASSUME NEW p \in Prompts, p = r.prompt PROVE Counts(p)'
  <2>1. r.id \in Again(p)
    BY <1>3, <1>4, <1>8, <1>10 DEF Again, Alike, Row
  <2>2. Again(p)' \subseteq Again(p) \ {r.id}
    <3>1. ASSUME NEW id \in Again(p)' PROVE id \in Again(p) /\ id # r.id
      BY <1>3, <1>6, <1>8 DEF Again
    <3> QED BY <3>1
  <2> QED BY <1>1, <1>5, <1>6, <1>7, <1>10, <2>1, <2>2, CountsTry DEF Counted
<1> QED BY <1>9, <1>10

\* A turn that starts, runs or ends without a setback.
LEMMA CountsTurn ==
    ASSUME Counted, NEW s \in Sessions, Record(s) \/ Launch(s) \/ Hold(s) \/ Finish(s)
    PROVE  \A p \in Prompts : Counts(p)'
<1>1. [Next]_vars /\ Base /\ Base' /\ Typed /\ TurnStep(s) /\ Busy(s)
  BY BaseKept, TurnMoves DEF Counted, Next, TurnStep, Base
<1>2. /\ queue' = queue /\ tries' = tries /\ setbacks' = setbacks
  BY DEF Record, Launch, Hold, Finish, ghost, db
<1>3. /\ lock'.op = lock.op /\ lock'.row = lock.row
      /\ lock' = lock \/ (lock.pc = "sending" /\ lock'.pc = "started")
  <2>1. ~Release(s)
    BY DEF Release, Record, Launch, Hold, Finish
  <2> QED BY <1>1, <2>1, TurnLock DEF SentByHolder
<1>4. \A t \in Sessions : t # s => Same(t)
  BY <1>1, TurnMoves DEF Moves
<1>5. ~Due(s)'
  <2>1. Record(s) \/ Launch(s) => active'[s].stage \in {"recorded", "running"}
    BY <1>1, TurnMoves DEF Moves
  <2>2. Hold(s) \/ Finish(s) => active'[s].stage = "settled" /\ active[s].stage \in {"requeued", "running"}
    BY <1>1, TurnMoves DEF Moves, Hold, Finish
  <2>3. SentByHolder(s) /\ lock.op = "forced" => active[s].stage \in {"claimed", "recorded", "settled"}
    BY <1>1, SentTurn DEF Counted, Calm, SentByHolder
  <2>4. SentByHolder(s)' => SentByHolder(s)
    BY <1>3 DEF SentByHolder
  <2> QED BY <1>3, <2>1, <2>2, <2>3, <2>4 DEF Due
<1>6. ASSUME NEW p \in Prompts PROVE Counts(p)'
  <2>1. Again(p)' \subseteq Again(p)
    BY <1>2, <1>3 DEF Again, Dropping
  <2>2. Coming(p)' => Coming(p)
    BY <1>3, <1>4, <1>5 DEF Coming, Due, Same, SentByHolder
  <2> QED BY <1>1, <1>2, <2>1, <2>2, CountsFewer DEF Counted
<1> QED BY <1>6

\* A setback of a turn lets its prompt come back once.
LEMMA CountsSetback ==
    ASSUME Counted, NEW s \in Sessions, FailStart(s) \/ GoAway(s)
    PROVE  \A p \in Prompts : Counts(p)'
<1>1. [Next]_vars /\ Base /\ Base' /\ Typed /\ TurnStep(s) /\ Busy(s)
  BY BaseKept, TurnMoves DEF Counted, Next, TurnStep, Base
<1>2. /\ queue' = queue /\ tries' = tries /\ lock' = lock
      /\ setbacks' = [setbacks EXCEPT ![active[s].prompt] = @ + 1]
  BY DEF FailStart, GoAway, db
<1>3. active[s].prompt \in Prompts /\ \A t \in Sessions : t # s => Same(t)
  BY <1>1, TurnMoves DEF Typed, TurnHasPrompt, Moves
<1>4. ASSUME NEW p \in Prompts PROVE Counts(p)'
  <2>1. Again(p)' \subseteq Again(p)
    BY <1>2 DEF Again, Dropping
  <2>2. CASE p = active[s].prompt
    <3>1. setbacks'[p] = setbacks[p] + 1
      BY <1>1, <1>2, <2>2 DEF Typed, TypeOK
    <3> QED BY <1>1, <1>2, <2>1, <3>1, CountsFewer DEF Counted
  <2>3. CASE p # active[s].prompt
    <3>1. setbacks'[p] = setbacks[p]
      BY <1>1, <1>2, <2>3 DEF Typed, TypeOK
    <3>2. active'[s].prompt = active[s].prompt
      BY <1>1, TurnMoves DEF Moves
    <3>3. Coming(p)' => Coming(p)
      BY <1>2, <1>3, <2>3, <3>2 DEF Coming, Due, Same, SentByHolder
    <3> QED BY <1>1, <1>2, <2>1, <3>1, <3>3, CountsFewer DEF Counted
  <2> QED BY <2>2, <2>3
<1> QED BY <1>4

\* A prompt that was away comes back with one row.
LEMMA CountsRequeue ==
    ASSUME Counted, NEW s \in Sessions, Requeue(s)
    PROVE  \A p \in Prompts : Counts(p)'
<1>1. [Next]_vars /\ Base /\ Base' /\ Typed /\ TurnStep(s) /\ Busy(s)
  BY BaseKept, TurnMoves DEF Counted, Next, TurnStep, Base
<1>2. /\ tries' = tries /\ setbacks' = setbacks /\ lock' = lock /\ active[s].stage = "away"
  BY DEF Requeue, ghost
<1>3. active'[s].stage = "requeued" /\ active'[s].prompt = active[s].prompt
      /\ \A t \in Sessions : t # s => Same(t)
  BY <1>1, TurnMoves DEF Moves
<1>4. PICK r : Adds(r) /\ r.prompt = active[s].prompt
  BY <1>1, Requeues
<1>5. Dropping' <=> Dropping
  BY <1>2 DEF Dropping
<1>6. ASSUME NEW p \in Prompts, p # active[s].prompt PROVE Counts(p)'
  <2>1. Again(p)' \subseteq Again(p)
    BY <1>2, <1>4, <1>5, <1>6 DEF Again, Adds
  <2>2. Coming(p)' => Coming(p)
    BY <1>2, <1>3, <1>6 DEF Coming, Due, Same, SentByHolder
  <2> QED BY <1>1, <1>2, <2>1, <2>2, CountsFewer DEF Counted
<1>7. ASSUME NEW p \in Prompts, p = active[s].prompt PROVE Counts(p)'
  <2>1. Again(p)' \subseteq Again(p) \cup {r.id}
    BY <1>2, <1>4, <1>5 DEF Again, Adds
  <2>2. Coming(p)
    BY <1>2, <1>7 DEF Coming, Due
  <2>3. ~Coming(p)'
    <3>1. \A t \in Sessions : active[t].prompt = p /\ Due(t) => t = s
      BY <1>1, <1>7, ComesAlone
    <3>2. ~Due(s)'
      BY <1>3 DEF Due
    <3> QED BY <1>2, <1>3, <3>1, <3>2 DEF Coming, Due, Same, SentByHolder
  <2> QED BY <1>1, <1>2, <2>1, <2>2, <2>3, CountsRow DEF Counted
<1> QED BY <1>6, <1>7

\* A Send now that failed to start leaves its row, and the setback for it.
LEMMA CountsRelease ==
    ASSUME Counted, NEW s \in Sessions, Release(s)
    PROVE  \A p \in Prompts : Counts(p)'
<1>1. [Next]_vars /\ Base /\ Base' /\ Typed /\ TurnStep(s) /\ Busy(s)
  BY BaseKept, TurnMoves DEF Counted, Next, TurnStep, Base
<1>2. /\ queue' = queue /\ tries' = tries /\ setbacks' = setbacks
      /\ active[s].stage = "settled"
  BY DEF Release, ghost, db
<1>3. ~Busy(s)' /\ \A t \in Sessions : t # s => Same(t)
  BY <1>1, TurnMoves
<1>4. /\ lock'.op = lock.op /\ lock'.row = lock.row
      /\ \/ lock' = lock /\ ~SentByHolder(s)
         \/ SentByHolder(s) /\ lock'.pc = "failed"
  <2>1. ~Launch(s)
    BY <1>2 DEF Launch
  <2> QED BY <1>1, <2>1, TurnLock
<1>5. ~Due(s)'
  BY <1>3 DEF Due, Busy
<1>6. \A p : Coming(p)' => Coming(p)
  BY <1>3, <1>4, <1>5 DEF Coming, Due, Same, SentByHolder
<1>7. CASE ~(SentByHolder(s) /\ lock.op = "forced")
  <2>1. \A p : Again(p)' \subseteq Again(p)
    <3>1. CASE lock' = lock
      BY <1>2, <3>1 DEF Again, Dropping
    <3>2. CASE SentByHolder(s) /\ lock'.pc = "failed"
      <4>1. lock.op = "dispatch"
        BY <1>1, <1>7, <3>2 DEF SentByHolder, Base, Hands
      <4>2. Dropping'
        BY <1>4, <3>2, <4>1 DEF Dropping
      <4> QED BY <1>2, <1>4, <4>2 DEF Again
    <3> QED BY <1>4, <3>1, <3>2
  <2> QED BY <1>1, <1>2, <1>6, <2>1, CountsFewer DEF Counted
<1>8. CASE SentByHolder(s) /\ lock.op = "forced"
  <2>1. PICK r \in lock.row : r.session = s
    BY <1>8 DEF SentByHolder
  <2>2. active[s].prompt = r.prompt /\ lock.pc = "sending" /\ \A h \in lock.row : h = r
    BY <1>1, <1>8, <2>1, SentTurn, InHand DEF SentByHolder
  <2>3. PICK q \in queue : Alike(q, r)
    BY <1>1, <2>1, InHand
  <2>4. ASSUME NEW p \in Prompts, p # r.prompt PROVE Counts(p)'
    <3>1. Again(p)' \subseteq Again(p)
      BY <1>1, <1>2, <2>2, <2>3, <2>4 DEF Again, Alike, Base, RowsApart
    <3> QED BY <1>1, <1>2, <1>6, <3>1, CountsFewer DEF Counted
  <2>5. ASSUME NEW p \in Prompts, p = r.prompt PROVE Counts(p)'
    <3>1. Again(p)' \subseteq Again(p) \cup {r.id}
      BY <1>2, <2>2 DEF Again
    <3>2. Coming(p)
      BY <1>2, <1>8, <2>2, <2>5 DEF Coming, Due
    <3>3. ~Coming(p)'
      <4>1. \A t \in Sessions : active[t].prompt = p /\ Due(t) => t = s
        BY <1>1, <2>2, <2>5, ComesAlone
      <4> QED BY <1>3, <1>4, <1>5, <4>1 DEF Coming, Due, Same, SentByHolder
    <3> QED BY <1>1, <1>2, <3>1, <3>2, <3>3, CountsRow DEF Counted
  <2> QED BY <2>4, <2>5
<1> QED BY <1>7, <1>8

\* The rows in hand that were tried go.
LEMMA CountsDrop == ASSUME Counted, DropRow PROVE \A p \in Prompts : Counts(p)'
<1>1. Base /\ Base'
  BY BaseKept DEF Counted, Next, HolderStep
<1>2. /\ active' = active /\ tries' = tries /\ setbacks' = setbacks
      /\ queue' = {r \in queue : \A c \in lock.row : r.id # c.id}
      /\ lock' = Free
  BY DEF DropRow, RowDropped, ghost
<1>3. Free.pc = "pick" /\ Free.op = "none"
  BY DEF Free
<1>4. ASSUME NEW p \in Prompts PROVE Counts(p)'
  <2>1. Again(p)' \subseteq Again(p)
    BY <1>2 DEF Again
  <2>2. Coming(p)' => Coming(p)
    BY <1>2, <1>3 DEF Coming, Due
  <2> QED BY <1>1, <1>2, <2>1, <2>2, CountsFewer DEF Counted
<1> QED BY <1>4

\* A row in hand when the process crashes stays, for the setback of the crash.
LEMMA CountsCrash == ASSUME Counted, Crash PROVE \A p \in Prompts : Counts(p)'
<1>1. Base /\ Base' /\ Typed
  BY BaseKept DEF Counted, Next, Base
<1>2. /\ queue' = queue /\ tries' = tries
      /\ setbacks' = [p \in Prompts |-> IF \E r \in lock.row : r.prompt = p
                                        THEN setbacks[p] + 1 ELSE setbacks[p]]
      /\ \A s \in Sessions : active'[s].stage = "none"
  BY DEF Crash, Down, db, NoTurn
<1>3. \A p : ~Coming(p)'
  BY <1>2 DEF Coming, Due
<1>4. ASSUME NEW p \in Prompts, \A r \in lock.row : r.prompt # p PROVE Counts(p)'
  <2>1. Again(p)' \subseteq Again(p)
    <3> SUFFICES ASSUME NEW id \in RowIds, NEW x \in queue, x.id = id, x.prompt = p,
                        NEW h \in lock.row, h.id = id
                 PROVE  FALSE
      BY <1>2 DEF Again
    <3>1. PICK q \in queue : Alike(q, h)
      BY <1>1, InHand
    <3> QED BY <1>1, <1>4, <3>1 DEF Alike, Base, RowsApart
  <2>2. setbacks'[p] = setbacks[p]
    BY <1>2, <1>4
  <2> QED BY <1>1, <1>2, <1>3, <2>1, <2>2, CountsFewer DEF Counted
<1>5. ASSUME NEW p \in Prompts, NEW r \in lock.row, r.prompt = p PROVE Counts(p)'
  <2>1. Again(p)' \subseteq Again(p) \cup {r.id}
    <3>1. \A h \in lock.row : h = r
      BY <1>1, InHand
    <3> QED BY <1>2, <3>1 DEF Again
  <2>2. setbacks'[p] = setbacks[p] + 1
    BY <1>2, <1>5
  <2> QED BY <1>1, <1>2, <1>3, <2>1, <2>2, CountsRow DEF Counted
<1> QED BY <1>4, <1>5

LEMMA CountsDue == ASSUME Counted, BecomeDue PROVE \A p \in Prompts : Counts(p)'
<1>1. Base /\ Base'
  BY BaseKept DEF Counted, Next
<1>2. /\ active' = active /\ tries' = tries /\ setbacks' = setbacks /\ lock' = lock
  BY DEF BecomeDue, proc, ghost
<1>3. PICK r \in queue, d \in Row : Alike(r, d) /\ queue' = (queue \ {r}) \cup {d}
  BY <1>1, Becomes DEF Base
<1>4. ASSUME NEW p \in Prompts PROVE Counts(p)'
  <2>1. Again(p)' \subseteq Again(p)
    BY <1>2, <1>3 DEF Again, Dropping, Alike
  <2>2. Coming(p)' => Coming(p)
    BY <1>2 DEF Coming, Due, SentByHolder
  <2> QED BY <1>1, <1>2, <2>1, <2>2, CountsFewer DEF Counted
<1> QED BY <1>4

\* The steps that only free, take or move the lock.
LEMMA CountsLock ==
    ASSUME Counted, [Next]_vars,
           \/ Rests \/ LetsGo \/ Takes \/ Refuse \/ ClearQueue
           \/ \E c \in calls : TakeStop(c) \/ TakeDelete(c)
    PROVE  \A p \in Prompts : Counts(p)'
<1>1. Base
  BY DEF Counted
<1>2. CASE Rests \/ LetsGo \/ Takes
  <2>1. /\ \A t \in Sessions : Same(t)
        /\ queue' = queue /\ tries' = tries /\ setbacks' = setbacks
    BY <1>2 DEF Rests, LetsGo, Takes, data
  <2>2. CASE Rests
    <3>1. lock' = lock
      BY <2>2 DEF Rests
    <3> QED BY <2>1, <3>1, CountsStill DEF Dropping
  <2>3. CASE LetsGo \/ Takes
    <3>1. Dropping => lock.row = {}
      BY <1>1, <2>3 DEF LetsGo, Takes, Dropping, Base, Hands
    <3>2. ~(lock'.op = "forced" /\ lock'.pc = "sending")
      BY <2>3 DEF LetsGo, Takes
    <3> QED BY <2>1, <3>1, <3>2, CountsStill
  <2> QED BY <1>2, <2>2, <2>3
<1>3. CASE Refuse
  <2>1. /\ lock.pc = "claim" /\ lock'.pc = "failed" /\ active' = active
        /\ queue' = queue /\ tries' = tries /\ setbacks' = setbacks
    BY <1>1, <1>3, HolderMoves DEF Refuse, db, Base
  <2>2. ~Dropping /\ \A t \in Sessions : Same(t)
    BY <2>1 DEF Dropping, Same
  <2> QED BY <2>1, <2>2, CountsStill
<1>4. CASE ClearQueue
  <2>1. /\ lock.op = "stop" /\ active' = active /\ queue' \subseteq queue
        /\ tries' = tries /\ setbacks' = setbacks /\ lock.row = {}
        /\ lock'.op # "forced"
    BY <1>1, <1>4, Clears DEF ClearQueue, Base, Hands, Free
  <2> QED BY <2>1, CountsStill DEF Same
<1>5. ASSUME NEW c \in calls, TakeStop(c) \/ TakeDelete(c) PROVE \A p \in Prompts : Counts(p)'
  <2>1. /\ lock.op = "none" /\ active' = active /\ queue' \subseteq queue
        /\ tries' = tries /\ setbacks' = setbacks /\ lock.row = {}
    BY <1>1, <1>5 DEF TakeStop, TakeDelete, db, ghost, Base, Hands
  <2>2. lock'.op # "forced"
    <3>1. TakeStop(c) => lock'.op = "stop"
      BY DEF TakeStop, Free
    <3>2. ASSUME TakeDelete(c) PROVE lock'.op \in {"none", "delete"}
      <4> DEFINE gone == {r \in queue : r.id = c.id /\ r.session = c.session}
      <4>1. CASE gone = {}
        BY <3>2, <4>1 DEF TakeDelete, Free
      <4>2. CASE gone # {}
        BY <3>2, <4>2 DEF TakeDelete, Free
      <4> QED BY <4>1, <4>2
    <3> QED BY <1>5, <3>1, <3>2
  <2> QED BY <2>1, <2>2, CountsStill DEF Same
<1> QED BY <1>2, <1>3, <1>4, <1>5

\* Nothing but its budget brings a shutdown or a Send now.
LEMMA CalmKept == ASSUME Base, Calm, [Next]_vars PROVE Calm'
<1>1. left'["shutdown"] = 0 /\ ~stopping'
  <2>1. left["shutdown"] = 0 /\ ~stopping
    BY DEF Calm
  <2>2. ~(left["shutdown"] > 0)
    <3>1. ~(0 > 0)
      OBVIOUS
    <3> QED BY <2>1, <3>1
  <2> QED BY <2>1, <2>2, NoneLeft, StopsOnce DEF Kinds, Base
<1>2. left'["away at start"] = 0 \/ NoForce'
  <2>1. CASE left["away at start"] = 0
    BY <2>1, NoneLeft DEF Kinds
  <2>2. CASE NoForce
    <3>1. left'["force"] = 0 /\ left["force"] = 0 /\ ~(left["force"] > 0)
      <4>1. ~(0 > 0)
        OBVIOUS
      <4> QED BY <2>2, <4>1, NoneLeft DEF Kinds, NoForce
    <3>2. \A c \in calls' : c.kind # "force"
      BY <2>2, <3>1, CallsKnown DEF NoForce, Base
    <3>3. lock'.op # "forced"
      BY <2>2, LockChange DEF NoForce, TakeForced, Base
    <3> QED BY <3>1, <3>2, <3>3 DEF NoForce
  <2> QED BY <2>1, <2>2 DEF Calm
<1>3. ASSUME lock'.op = "forced", lock'.pc = "sending", NEW r \in lock'.row
      PROVE  active'[r.session].stage \in {"claimed", "recorded", "settled"}
  <2>1. left["away at start"] = 0 \/ lock.op # "forced"
    BY DEF Calm, NoForce
  <2>2. CASE ClaimRow
    <3>1. PICK x \in lock.row : Claim(x.session, x.prompt, x.retries, lock.op)
      BY <2>2 DEF ClaimRow
    <3>2. x.session \in Sessions /\ x.prompt \in Prompts /\ \A h \in lock.row : h = x
      BY InHand
    <3>3. lock'.row = lock.row
      BY <2>2, HolderMoves DEF ClaimRow, Base
    <3> QED BY <1>3, <3>1, <3>2, <3>3, Claims DEF Base
  <2>3. CASE lock' = lock
    <3>1. /\ r \in lock.row /\ r.session \in Sessions
          /\ active[r.session].stage \in {"claimed", "recorded", "settled"}
      BY <1>3, <2>3, InHand DEF Calm
    <3>2. CASE Busy(r.session)'
      <4>1. ~Send(r.session)
        BY <3>1 DEF Send, Claim, Busy
      <4>2. ~ClaimRow
        BY <1>3, <2>3 DEF ClaimRow
      <4>3. TurnStep(r.session) => active'[r.session].stage \in {"recorded", "settled", "running", "none"}
        BY <1>3, <2>1, <2>3, <3>1, StagesKnown DEF Base
      <4>4. TurnStep(r.session) => active'[r.session].stage # "running"
        <5>1. SentByHolder(r.session)
          BY <1>3, <2>3, <3>1 DEF SentByHolder
        <5>2. ~Launch(r.session)
          BY <1>3, <2>3, <3>1, <5>1, TurnLock DEF Base, TurnStep
        <5> QED BY <3>1, <5>2, TurnMoves DEF Base, TurnStep, Moves, Finish, Release, Busy
      <4> QED BY <3>1, <3>2, <4>1, <4>2, <4>3, <4>4, TurnsKnown DEF Same, Busy
    <3>3. CASE ~Busy(r.session)'
      <4>1. \E h \in lock.row : active'[h.session].stage # "none"
        BY <1>3, <2>3, BaseKept DEF Base, Sending
      <4>2. \A h \in lock.row : h = r
        BY <3>1, InHand
      <4> QED BY <3>3, <4>1, <4>2 DEF Busy
    <3> QED BY <3>2, <3>3
  <2>4. lock' = lock \/ ClaimRow
    <3>1. Rests \/ (\E t \in Sessions : Enqueue(t) \/ Send(t)) \/ BecomeDue => lock' = lock
      BY DEF Rests, Enqueue, Send, BecomeDue, proc
    <3>2. ~LetsGo /\ ~Takes
      BY <1>3 DEF LetsGo, Takes
    <3>3. \A t \in Sessions : TurnStep(t) => lock' = lock
      BY <1>3, TurnLock DEF Base
    <3>4. \A c \in calls : ~TakeStop(c)
      BY <1>3 DEF TakeStop, Free
    <3>5. \A c \in calls : ~TakeDelete(c)
      <4> SUFFICES ASSUME NEW c \in calls, TakeDelete(c) PROVE FALSE
        OBVIOUS
      <4> DEFINE gone == {q \in queue : q.id = c.id /\ q.session = c.session}
      <4>1. CASE gone = {}
        BY <1>3, <4>1 DEF TakeDelete, Free
      <4>2. CASE gone # {}
        BY <1>3, <4>2 DEF TakeDelete, Free
      <4> QED BY <4>1, <4>2
    <3>6. ~Refuse /\ ~ClearQueue
      BY <1>3, HolderMoves, Clears DEF Refuse, ClearQueue, Free, Base
    <3>7. ~DropRow /\ ~Crash /\ ~Exit
      BY <1>3 DEF DropRow, Crash, Exit, Down, Free
    <3> QED BY <3>1, <3>2, <3>3, <3>4, <3>5, <3>6, <3>7, Kinds1 DEF Base
  <2> QED BY <2>2, <2>3, <2>4
<1> QED BY <1>1, <1>2, <1>3 DEF Calm

LEMMA CountedKept == Counted /\ [Next]_vars => Counted'
<1> SUFFICES ASSUME Counted, [Next]_vars PROVE Counted'
  OBVIOUS
<1>1. Base /\ Base' /\ Calm' /\ Calm
  BY BaseKept, CalmKept DEF Counted
<1>2. ~Exit
  BY <1>1 DEF Exit, Calm
<1>3. ASSUME NEW s \in Sessions, TurnStep(s) PROVE \A p \in Prompts : Counts(p)'
  BY <1>3, CountsTurn, CountsSetback, CountsRequeue, CountsRelease DEF TurnStep
<1>4. \A p \in Prompts : Counts(p)'
  BY <1>1, <1>2, <1>3, Kinds1, CountsLock, CountsEnqueue, CountsSend, CountsClaim, CountsDrop,
     CountsDue, CountsCrash DEF Base
<1> QED BY <1>1, <1>4 DEF Counted

\* A prompt gets its first turn, and one more for each outage, failed start or
\* crash it met: over every order of dispatching, Send now, retrying and
\* stopping no prompt is run twice (runner.go:1016, 1185; outage.go:71), unless
\* the process is shut down or an outage meets the start of a Send now.
THEOREM PromptsRunOnce == NoRowStays /\ Spec => []TriedOncePerSetback
<1>1. NoRowStays /\ Init => Counted
  <2> SUFFICES ASSUME NoRowStays, Init PROVE Counted
    OBVIOUS
  <2>1. /\ queue = {} /\ lock = Free /\ tries = [p \in Prompts |-> 0] /\ calls = {}
        /\ setbacks = [p \in Prompts |-> 0] /\ left \in Budgets /\ ~stopping
        /\ \A s \in Sessions : active[s].stage = "none"
    BY DEF Init, NoTurn
  <2>2. Calm
    BY <2>1 DEF Calm, NoForce, NoRowStays, Free
  <2>3. ASSUME NEW p \in Prompts PROVE Counts(p)
    <3>1. Again(p) = {} /\ ~Coming(p)
      BY <2>1 DEF Again, Coming, Due
    <3>2. IsFiniteSet(Again(p)) /\ Cardinality(Again(p)) = 0
      BY <3>1, FS_EmptySet
    <3> QED BY <2>1, <3>1, <3>2 DEF Counts
  <2> QED BY <2>2, <2>3, BaseInit DEF Counted
<1>2. Counted => TriedOncePerSetback
  <2> SUFFICES ASSUME Counted, NEW p \in Prompts PROVE tries[p] <= 1 + setbacks[p]
    BY DEF TriedOncePerSetback
  <2>1. /\ tries[p] \in Nat /\ setbacks[p] \in Nat /\ IsFiniteSet(Again(p))
        /\ tries[p] + Cardinality(Again(p)) <= 1 + setbacks[p]
    BY DEF Counted, Counts, Base, Typed, TypeOK
  <2>2. Cardinality(Again(p)) \in Nat
    BY <2>1, FS_CardinalityType
  <2> QED BY <2>1, <2>2
<1> QED BY <1>1, <1>2, CountedKept, PTL DEF Spec
=============================================================================
