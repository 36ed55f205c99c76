# Verification of agenttik

agenttik runs coding agents (Claude Code, Codex, Copilot, OpenCode, direct model
APIs) from one local UI. A user keeps *tasks* (sessions) in *projects*, sends or
queues prompts, and the program turns each prompt into a *turn* of an agent.
This directory holds TLA+ models of the parts where steps of several goroutines,
crashes and providers that go away interleave, TLC runs over small instances of
them, and theorems proved with TLAPS for every instance.

    tlasany TaskQueue.tla
    tlc -workers 4 -config queueing.cfg MCTaskQueue.tla
    tlapm TaskQueueProofs.tla
    tlc -workers 4 -config joining.cfg MCFollowUps.tla

## 1. Inventory

| Component | State | Operations | What is hard about it |
|---|---|---|---|
| Scheduler, `runner/runner.go`, `runner/outage.go` | `Runner.active`, `preferred`, `forced`, `stopping`, one dispatch mutex per project | `Enqueue`, `Send`, `ForceQueued`, `DeleteQueued`, `Stop`, `SetProjectQueuePaused`, `dispatch`, `consume`, `release`, `RunQueueRetries`, `Shutdown` | Two locks (`Runner.mu`, the dispatch lock) and a database without a transaction across them; nobody polls, so every wakeup counts; failures at each step of a start |
| Queue store, `store/sessions.go` | `queued_messages`, `sessions.status` | enqueue, requeue, next row, remove, move to the transcript | Rows are named by ids that are given out again; a requeued prompt is a new row in an old place |
| Follow-ups, `runner/runner.go`, `unprocessed.go`, `store/messages.go` | `openTurn` (followUp, closing, pending, released) | `followUp`, `leaveUntaken`, `SendUnprocessed`, `QueueUnprocessed` | A prompt lives in the queue, in the transcript and in a CLI's memory in turn |
| Tool approvals, `runner/approvals.go` | pending requests with timers, what a task was allowed | `askUser`, `Answer`, `Hold`, countdown, withdraw, drop | Answer, timer, withdrawal and end of the turn race for one request |
| Event hub and streams, `runner/hub.go`, `server/sse.go`, `web/src/store.js` | subscribers by topic; the task on screen | `SubscribeMany`, `Publish`, unsubscribe; `resubscribe`, `onEvent`, `syncMessages` | A slow subscriber is dropped from several topics, and closed once; events and reads of the same task overtake each other |
| Updates, `update/service.go`, `install.go` | `updates.json`, a directory for each attempt, the executable | check, ignore, start, prepare; the helper's copy, wait and two renames | Two processes that share only files; the helper may be late, killed, or overtaken |
| Terminals, `terminals/terminals.go` | open terminals, scrollback, streams | `Open`, `Close`, `CloseProject`, `Shutdown`, `publish`, `attach`, `detach`, `Coalesce` | A reconnecting watcher must get every byte once; a stream is shared by several shells |
| Scheduled jobs, `runner/schedules.go` | `schedules`, `schedule_runs` | tick, fire, skip, run now, finish, advance | One slot, one run; run counters; crashes between the rows of a run |
| Access control, `netauth`, `netserver` | sessions, failed attempts, trusted keys | login, challenge, lockout, pairing | Sessions that end while requests are on their way |
| Remotes, `server/remotes.go`, `remote_*.go` | saved machines, addresses, sessions, a worker for each | connect, sign in, forward, add, delete | An address may be another machine's by now; several requests find one session over |
| Profiles, `server/profiles.go`, `store/move_project.go` | the catalog, a directory, a runner and clocks for each; `profileManager.mu`, `Runner.transfer` | route, create, rename, reorder, remove, move a project, tally the busy ones, close | Two reader-writer locks taken by requests, clocks and the end of the program; files and memory change one after the other |
| Flat view, `server/flat.go`, `flat_stream.go` | one list over all profiles and machines | merge of lists and events | Sources that come and go |
| File watcher, `server/watch.go` | watched folders by window | subscribe, debounce | Shared watches, late events |
| Screen sharing, `screen/manager.go`, `input.go`, `server/api_screen.go`, `web/src/screen.js` | the display, viewers with unacknowledged frames, keys held, the tab's decoder | `Watch`, `run`, `Ack`, `RequestKey`, `Inject`, `Close` of a viewer and of all; `flush`, `decode` | Frames build on the frame before, over a line that loses answers; the switch, the handler and the input of one viewer end it together |
| Quick tunnel, discovery, speech, smart search, tray | processes, sockets, devices | start, stop, poll | I/O; little state of their own |
| Provider adapters, `agent/*` | an external process per turn | `Run` and a stream of events | Translation; modelled by what the runner sees of it |
| Store, `store/*` | SQLite | single statements, short transactions | Modelled where it is used |
| Web UI, mobile app | a copy of what the API reports | | Terminals, the shared screen and the task on screen only |

How they interact: an HTTP handler calls the runner; the runner writes the store
and starts a provider; `consume` reads the provider's events, writes the store
and publishes to the hub; `release` frees the task and starts either a forced
prompt or the scheduler; the two clocks (`RunQueueRetries`, `RunSchedules`) call
the scheduler as well. The dispatch lock of a project orders dispatch, Stop,
delete, pause and the start of a forced prompt, but neither `Send` nor `release`.

What makes each component correct:

* scheduler: no accepted prompt is lost or run twice without a reason; one
  automatic turn per project; retries keep their place; stopped and deleted
  prompts stay stopped; the queue drains; shutdown ends;
* follow-ups: a prompt handed to a running turn is in the queue or in the
  transcript at any time, and in exactly one once the turn has ended;
* approvals: each request is answered at most once, and none outlives its turn;
* hub, terminals: no send on a closed channel, each channel closed once, what a
  watcher has is always a prefix or a suffix of what happened, without gaps; a
  window ends up with what the store holds, whatever events it missed;
* updates: a program is left to start at any time, nothing is installed that was
  given up, and what was promised is installed;
* schedules: at most one open run per job, one run per slot, the counter spent
  once per finished run, no run open without a cause;
* remotes: a session goes to the machine that gave it, a removed machine stays
  removed, what is shown of a machine settles on the truth;
* screen: a tab comes to show what the machine shows, no key stays down, off means
  off;
* profiles: a turn runs where its task is, in a profile that is open and has its
  directory, and nothing waits in a circle for locks;
* access control: no session without the password, no more attempts than the
  lockout allows.

## 2. Plan

| # | Module | Models | Status |
|---|---|---|---|
| 1 | `QueueStore` | rows, their order and ids, the choice of the next | done |
| 2 | `TaskQueue`, `MCTaskQueue`, `TaskQueueProofs` | the scheduler, on top of `QueueStore` | done |
| 3 | `Approvals`, `MCApprovals`, `ApprovalsProofs` | requests of several tasks, and who settles them | done |
| 4 | `FollowUps`, `FollowUpPlaces`, `MCFollowUps`, `FollowUpsProofs` | prompts that join a running turn, on the rows of `QueueStore`; implements `FollowUpPlaces` | done |
| 5 | `Terminals`, `MCTerminals`, `TerminalsProofs` | shells, scrollback, streams and the window that draws them | done |
| 6 | `Schedules`, `MCSchedules`, `TurnsProofs` | jobs, runs, counters and the clock | done |
| 7 | `Remotes`, `MCRemotes`, `MachinesProofs` | other machines, their addresses and our sessions with them | done |
| 8 | `Events`, `MCEvents`, `TurnsProofs` | hub, streams, and what a window reads again | done |
| 9 | `Updates`, `MCUpdates`, `MachinesProofs` | the helper that replaces the binary | done |
| 10 | `Screens`, `MCScreens`, `ScreensProofs` | a viewer of the shared screen, its input and its tab | done |
| 11 | `Profiles`, `MCProfiles`, `ProfilesProofs` | profiles, their two locks, and everybody who takes them | done |

Abstract specifications: `FollowUpPlaces` says where a prompt may go next, and
`FollowUps` implements it under a mapping of queue, transcript, turn and calls to
one place per prompt. Every safety property that a run checks is also a theorem;
four of `TaskQueue` have a hypothesis that leaves out the corners where the code
breaks them, and those of `FollowUps` one about time and, but for the promise
itself, one about what the user does (section 5).

`TurnsProofs` is about `Schedules` and about `Events`, `MachinesProofs` about
`Remotes` and about `Updates`. The two components of such a module share no state
and no argument, and neither's theorems rest on the other. So that both can be
extended at once, the second has names of its own for what every module has:
`EventsInit`, `EventsNext` and `EventsSpec`, `UpdatesInit`, `UpdatesNext` and
`UpdatesSpec`, and `Allowances`, `spare` and `Use` for `Budgets`, `left` and `Spend`.

## 3. What the modules model

### QueueStore

One project's rows of `queued_messages`. A prompt is the ordinal of its
acceptance (`created_at`), a task is its place in the sidebar. `RunsBefore` is
`queuedOrder`, `ReadyRow` is `NextQueuedMessage`, `NextQueuedRun` is the function
of that name, and `IsNewId` is how SQLite numbers rows of an
`INTEGER PRIMARY KEY`: one more than the largest present, so the id of the
newest row returns once that row is gone. `due` stands for `retry_at <= now`.

### TaskQueue

| Variable | Code |
|---|---|
| `queue` | `queued_messages` |
| `ran`, `unrun` | user messages with the turn they belong to, and without one |
| `status`, `paused` | `sessions.status`, `projects.queue_paused` |
| `up`, `stopping` | the process, `Runner.stopping` |
| `active` | `Runner.active` and where `send`, `consume` and `release` are |
| `lock` | the dispatch lock of the project, its holder and the row and call it serves |
| `wakes` | goroutines on their way into `schedule` |
| `calls` | `Stop`, `DeleteQueued` and `ForceQueued` in progress; parked ones are `Runner.forced` |
| `preferred` | `Runner.preferred` |
| `accepted`, `owed`, `tries`, `setbacks`, `halted` | observations the properties need; no guard but the numbering of prompts reads them |
| `left` | the budget of user actions and faults |

A step ends where the code releases `Runner.mu` or the dispatch lock, commits a
statement or a transaction another goroutine may read, or hands over to another
goroutine. What happens under one lock section is one step: `Claim` is the check
of `stopping` and `active` with the insertion, `Release` is the whole of
`release` up to the `go` statement. `Stop` and `DeleteQueued` are two or three
steps because the session is read before the dispatch lock is taken and the
status is written after the rows are gone.

| Action | Code |
|---|---|
| `Enqueue`, `Send` | `Enqueue`; `Send` up to the claim of the task |
| `Record`, `Launch`, `FailStart`, `GoAway`, `Requeue`, `Hold`, `Finish`, `Release` | the rest of `sendDuringTransferLock`, `consume`, `holdForOutage`, `release` |
| `TakeSchedule`, `Pick`, `ClaimRow`, `FindBusy`, `Refuse`, `DropRow` | `schedule`, `dispatch`, `sendQueued` |
| `BecomeDue`, `RetryTick` | time, and `RunQueueRetries` |
| `ForceCalled`, `ForceClaims`, `TakeForced`, `FailForced` | `ForceQueued`, `runForced` |
| `StopCalled`, `TakeStop`, `ClearQueue`, `FinishCall` | `Stop` |
| `DeleteCalled`, `TakeDelete`, `FinishCall` | `DeleteQueued` |
| `Pause` | `SetProjectQueuePaused` |
| `Signal`, `Shutdown`, `Exit`, `Crash`, `Restart` | `StopAll`, `Shutdown`, the end of `main`, a kill, the startup resets |

Left out: errors of the database itself; turns that stay open for follow-ups
(`FollowUps` has them); moving a project (`transfer`); the model and the
subscription of a prompt, which decide only whether a start is refused; the 30
seconds after which `ForceQueued` answers without waiting on (its prompt starts
all the same); archived tasks; events to windows.

### Approvals

| Variable | Code |
|---|---|
| `settings` | `GeneralConfig` (mode and timeout of approvals) and the project's run mode |
| `turn`, `open`, `events`, `asked`, `cancelled` | the provider: its turn, whether its host still writes answers, the channel of events, what it asked and took back |
| `consume` | the goroutine of the turn: where it is in `consume`, `askUser`, `dropApprovals` |
| `pending` | `Runner.approvals`; `counting` says that a request has a timer |
| `allowed` | `Runner.allowed`, per task: everything, tools, beginnings of commands |
| `timers` | `PendingApproval.timer`; `fired` while `autoAnswer` waits for `Runner.mu` |
| `replying` | calls of `Answer`, `autoAnswer` or `askUser` between `take` and `publishReply`, with the requests the same allow covers |
| `resending` | calls of `Hold` that have not published yet |
| `cards`, `heard`, `announced`, `recorded` | what windows show, what the provider was told, what was published as resolved, which questions are in the transcript |
| `grants`, `promised`, `held` | observations the properties need |

| Action | Code |
|---|---|
| `BeginTurn`, `Ask`, `Withdraw`, `Close` | the adapters, as `claudecode/host.go` and the Codex app server are used |
| `Receive`, `Decide`, `PublishRequest` | `consume` for one event, with `withdrawApproval`, `askUser` |
| `Drop`, `PublishTaken` | `dropApprovals` after the last event; the publication of what was withdrawn or dropped |
| `Answer`, `Hold`, `PublishHeld` | the methods behind the two HTTP handlers |
| `FireTimer`, `AutoAnswer` | `time.AfterFunc` and `autoAnswer` |
| `Answered` | `Approval.Answer` followed by `publishReply`, for one request |

`Receive` and `Decide` are two steps because `isAllowed` and the registration are
two lock sections, and a user may allow something in between. `Answered` is one
step although it writes and then publishes: the request has been taken and
nobody else holds it, so no other goroutine can tell the two apart. `take`
removes a request under `Runner.mu` and stops its timer, but a timer that fired
already runs `autoAnswer`, which finds nothing. `publishReply` writes to two
topics; they are one publication here, since a window follows either.

Left out: the texts of replies and the rules of `CheckReply` other than which
choices to remember a request offers; questions that Codex refuses by itself
while they wait; the list a newly opened window reads (`Approvals()`), which is
`pending`; and what a tool call does.

A question its provider withdraws is closed in the windows and not stored, while
one dropped with its turn is, against `specs/082-tool-approvals.md:284-285`; no
run shows it. The code has four races that the properties leave room for:

* a request held after its timer fired is answered by the countdown all the same
  (`Hold` ignores what `timer.Stop` returns, and `autoAnswer` looks only whether
  the request is in the map): `HeldWaits` is about requests held in time;
* a request that arrives while the user allows its tool may be registered after
  the allow looked at what waits, and waits although it is covered
  (`specs/082-tool-approvals.md:191-192` has pending calls allowed at once);
* when the answer that allows a tool for the task fails to be written, the
  requests the same allow took along are neither answered nor announced
  (`Swallowed`; by `specs/082-tool-approvals.md:179-180` every
  settlement is published); their provider has
  left by then, but their cards stay;
* a held request may be published after its resolution, and a window then shows
  a card that can no longer be answered.

### FollowUpPlaces and FollowUps

`FollowUpPlaces` is what the user can count on: a prompt is in the queue, held
by the running turn, part of a turn, or in the transcript as one the agent never
processed, and it moves between these places only in certain ways. Two more places
are where the code keeps less than it should. A prompt is `lost` if its row was
removed in place of another's that had the same id; nothing else takes a prompt
away but a delete. It is `crossed` once two calls had it in hand at the same time,
or one call had it under an id that was another's by then: it may then be in two
places, and no more is said of where it goes.

| Variable of `FollowUps` | Code |
|---|---|
| `queue`, `messages` | `queued_messages`, `messages` with the turn each belongs to |
| `turn`, `turns` | `Runner.active`, and the number of the latest turn |
| `open` | `openTurn`: `followUp`, `closing`, `pending` |
| `consume` | the goroutine of the turn: its loop, the prompt it moves, what an error interrupted |
| `calls` | `send`, `SendUnprocessed`, `QueueUnprocessed`, `ForceQueued` and the dispatcher on their way |
| `cli`, `waiting`, `closed`, `events` | the Claude process, `host.waiting`, `host.closed`, the channel of events |
| `accepted`, `owed`, `deleted`, `starts`, `setbacks`, `grabbed`, `displaced` | observations |

| Action | Code |
|---|---|
| `Enqueue`, `SendCalled`, `ResendCalled`, `ForceCalled`, `Dispatch` | the requests up to `followUp` |
| `Look`, `NotTaking`, `RefuseHandOver`, `HandOver`, `Write`, `WriteFails`, `Settle`, `Ended` | `followUp`, with `host.sendUser` |
| `QueueStored`, `Claim`, `Record`, `Discard`, `DropRow`, `Park`, `RunForced` | `queueStored`, `sendDuringTransferLock`, `sendQueued`, `ForceQueued`, `runForced` |
| `Stop`, `Delete` | `StopQueuedMessages` and the cancel; `DeleteQueued` |
| `CliSays`, `CliStartsTask`, `CliTaskEnds`, `CliResult`, `CliTakes`, `CliExits`, `CliDies` | the process and `streamParser`, with `closeIfTaken` and `took` |
| `OnText`, `OnTask`, `OnError`, `OnDone`, `OnTaken`, `Join`, `EventsOver`, `Leave`, `SettleUntaken`, `Release` | `consume` event by event, `holdForOutage`, `leaveUntaken`, `release` |
| `Crash` | a kill |

`openTurn.mu` is held from the check of a hand-over to its settling, and the steps
in between are one writer's; everybody else who needs the lock waits
(`Unlocked`). A step of the CLI is the line it prints. A reply takes longer than
the statements the dispatcher has still to execute, unless the budget grants
`overtake`, which no run does: TLC then has a provider take the prompt, fail on it
and go away before the dispatcher removes the row it has just handed over, and the
prompt, which came back under the same row id, is removed with it.

A Send now whose choice is not the turn's (`RefuseHandOver`) ends, or parks and
cancels the turn, as its `mismatch` says (runner.go:839-868); whose choice differs
is not modelled, so both may happen to any. A dispatcher that finds its row gone
goes on to remove the row id all the same (1016). A delete takes the Send now that
is parked on its row with it, which is answered with `ErrNotFound` (780-784).

What the module shows beside the properties, and the properties leave room for:

* a row is looked up again by its id alone after a wait (`ForceQueued`,
  `followUp`), and ids are given out again, so that a Send now may hand over a
  prompt it was not asked for;
* while a queued prompt is handed over, a Stop or a delete of its row and then a
  new prompt of the project reuse the row's id (`INTEGER PRIMARY KEY` without
  `AUTOINCREMENT`, migrate.go:96): `QueuedToMessage` (runner.go:392), which looks
  for the id alone, stores the text that was handed over and removes the row of
  the new prompt, which is then nowhere. The comment at store/messages.go:124
  has it that "of two callers after the same row, the second finds it gone". The
  budget with the delete in `joining` (three prompts, a background task, a Send now
  and a delete) gets there; `KeepsPromise` has such a prompt `lost`, and a TLC run
  without that place in `FollowUpPlaces` ends with the trace;
* a Stop between `followUp.Send` and `QueuedToMessage` leaves the prompt in the
  transcript twice, once as unprocessed and once in the turn (runner.go:391);
* a prompt the turn holds can be queued again while `consume` is between taking
  it off `pending` and moving its message (runner.go:1278-1287), although
  `specs/083-background-tasks.md` has both refused with 409; `StartedOnce`
  and `RightPromptJoins` leave out prompts that were taken by two hands (`grabbed`),
  and the promise has them `crossed`.

Left out: Codex, which takes follow-ups another way; attachments; what a model or
a subscription is; what `MoveMessageToEnd` does to the agent's own prose when a
message id was given out again and the prose had lost its turn; sub-tasks and threads; `PendingFollowUps`,
which only reads.

### Terminals

A byte of output is its number, so that a gap or a repetition shows. `kept` is
the length of `Terminal.tail`.

| Variable | Code |
|---|---|
| `opening`, `open`, `going`, `closing` | shells that run and are not listed; `Manager.open`; those taken off it and not stopped; `Server.closing` |
| `started`, `closed`, `written`, `kept`, `readers`, `watched`, `exited` | each terminal's process, `seen`, `tail`, `streams`, `watched`, `exited` |
| `stream` | each `stream`: its channel, whether it is closed, what the handler has flushed, and which terminals it attached to |
| `view`, `current` | `web/src/terminals.js`: what a window drew, the count it resumes from, its EventSource |

| Action | Code |
|---|---|
| `Start`, `Opened`, `Close`, `CloseProject`, `Shutdown`, `Stop` | `Open` before and after the append; the three ways to close; `stop` |
| `Output`, `Finish` | `pump` with `publish`, `remember`, `stream.send`; `finish` |
| `Attach`, `Attached`, `Flush`, `Abandon`, `Detach` | `SubscribeMany`, `attach`, `since`; the handler with `Coalesce`; `unsubscribe` |
| `Watch`, `Unwatch`, `Receive`, `Reconnect`, `Break` | `watchTerminal`, `open`, `onData`, `onExit`, `onerror` |

A terminal opened while the program shuts down is not closed by anybody
(terminals.go:193-211 against the comment at 378): the shell is started before it
is in the list. No property speaks of it.

Left out: input, resizing, titles, and the environment of a shell; two windows
draw independently of each other, so one is enough.

### Schedules

| Variable | Code |
|---|---|
| `now` | the clock, in ticks |
| `job`, `runs` | `schedules`, `schedule_runs` |
| `task` | the sessions jobs create: the prompts they wait with, their turn, and what `finishScheduledRun` has still to do |
| `tick` | where `tickSchedules` is, with the list it read |
| `forced`, `forcing`, `editing`, `deleting` | `Runner.forcedScheduleRuns`; calls of `RunScheduleNow`, `updateSchedule`, `deleteSession` in progress |
| `slot`, `ended`, `restarted` | observations; `ended` counts from what the counter was last set to |

| Action | Code |
|---|---|
| `DueRead`, `Book`, `Skip`, `Fire`, `QueuePrompt`, `TickDone` | `tickSchedules`, `fireSchedule` statement by statement |
| `RunScheduleNow`, `ForcePrompt` | `RunScheduleNow` |
| `Dispatch`, `RetryDue`, `Held`, `HeldTurnOver` | the scheduler of `TaskQueue`, as far as a run is concerned |
| `TurnEnds`, `SpendRun`, `PauseFinished` | `finishScheduledRun` |
| `Prompt`, `Stop`, `Withdraw`, `DeleteTask`, `TaskDeleted` | what a user does to a job's task |
| `Create`, `Pause`, `SetRemaining`, `Edit`, `Rebook`, `Archive`, `DeleteJob` | the handlers of `api_schedules.go`; `updateSchedule` writes the runs that remain, the clock and the next run one after the other |
| `Crash`, `Boot` | a kill, and `ResetRunningScheduleRuns` |

What the module shows beside the properties:

* that a run was asked for by hand is remembered in memory only
  (`forcedScheduleRuns`), so that one still queued over a restart spends the
  counter, where `specs/028-scheduled-jobs.md` says "It never spends the counter";
  `CounterIsExact` is exact only without a restart;
* a job paused after the tick has read it is fired once more, and a resume clears
  `paused` before it books the next run, so that the slot of before the pause may
  be fired;
* a prompt sent by hand in a job's task closes the run although the job's own
  prompt still waits;
* a crash between `CreateSession` and `StartScheduleRun` leaves a task without a
  run;
* `holdForOutage` puts the prompt of a run back into the queue while its turn is
  still active. A Stop in between takes it out again and leaves the run to the
  turn, which leaves it to the queue; deleting the prompt or the task does the same.
  Nobody then closes the run and the job is busy until the next start, where
  `specs/028-scheduled-jobs.md:149-152` has a stopped run closed as `interrupted`.
  `stranded` marks such a task, and `BusyHasCause` leaves it out.

Left out: months and weekdays (a calendar recurrence is "the next multiple");
the finish condition itself; other columns of a job; a pinned prompt; archived
projects.

### Remotes

| Variable | Code |
|---|---|
| `answers`, `gate`, `working` | the other machines: who answers at an address, `netauth` there, a busy profile there |
| `saved` | `remoteManager.remotes`: addresses, the one in use first, and the session |
| `keyMu`, `refused`, `down`, `activity` | the fields of `remoteManager` of these names |
| `call` | requests in progress, and each machine's worker |
| `issued` | number of the latest session |

A session is who gave it and its number; a third part, which no guard reads, says
for which machine the user sent the password that it answers.

| Action | Code |
|---|---|
| `Route`, `Connect`, `Login`, `Add`, `Delete` | the handlers |
| `Get`, `Reach`, `Send`, `Lock`, `SignIn`, `Resend` | `request`: the saved copy, `reach` and `locate`, the exchange, `keySignIn`, the second try |
| `SendPassword`, `Trusted` | `signInRemote` |
| `Done`, `SignedOut`, `Learn`, `WatchActivity` | `connect` |
| `Tick`, `Refreshed`, `PauseOver` | the worker of a machine and the pause after it was lost |
| `Move`, `EndSessions`, `RevokeKey`, `Work` | the other machines and the network |

A step is one exchange or one critical section; an exchange ends. In the code a
forwarded request has no deadline (remotes.go:782), so that a machine that
accepts a connection and never answers keeps `keyMu`, and with it every other
sign-in, for as long (245). Whoever answers at the address in use may refuse the
key, and the machine that was meant is then not asked again until a password
sign-in (269-288), where `specs/094` has "a remote that refuses"; `DotIsRight`
speaks of machines that are not marked so.

`signInRemote` posts the password to whoever answers at the address in use, without
asking which machine that is (remotes.go:545-575), and `Gate.login` looks at the
password and the code alone (gate.go:186-237). In `SendPassword` any machine may
therefore accept the form, as one with the same password does, or refuse it, the
right one as well; and the session of a machine that accepts is kept in the entry
of the one the user meant (remotes.go:326-335). `SessionIsTheirs` leaves room for
that session and no other: one that came from a sign-in with the key, however it was
triggered, is the machine's.

Left out: sign-ins of `learnAddresses` and `codeRequired` themselves, scans,
codes, bodies that are too large, and a timeout as an outcome of its own.

### Events

The transcript of a session is the number of writes made to it, and what a window
has of it the number its last read saw; `live` says that it has drawn events
since.

| Variable | Code |
|---|---|
| `phase`, `written`, `turns` | `Runner.active` and where `Launch` and `consume` are; `messages`; `turns` |
| `publishing`, `slow` | what a turn has still to publish, topic by topic; the subscribers `Publish` took off and has still to close |
| `byTopic`, `stream` | `Hub.byTopic`; each stream's channel, topics, and where its handler is |
| `refs`, `watching` | `projectWatch.refs`, the project's entry in `watchers.open` |
| `current`, `tab`, `reads`, `lastMoved` | `store.js`: the stream in use, the task on screen, reads in flight, `lastTurnEvent` |
| `announced` | observation: the transcript when a turn last ended |

| Action | Code |
|---|---|
| `Launch`, `Refuse`, `Started`, `Say`, `Finish`, `Release` | `sendDuringTransferLock`, `consume`, `release`, as far as they write and publish |
| `Publish`, `CloseSlow` | `Hub.Publish` inside and after its lock |
| `Subscribe`, `Leave`, `Unsubscribe` | `streamAll` with `watchers.acquire`; the end of `stream`, whose deferred calls release the watcher, then the topics |
| `GetSession` | `getSession`, one query at a time |
| `Synced`, `ReadFails` | `syncMessages` from its answer |
| `Opened`, `Break`, `ConnectAgain` | `onopen`, and EventSource |
| `OpenTask`, `ShowTask`, `CloseTask` | `openTask`, `setContextTab`, `closeTab`, each with `resubscribe` |
| `Deliver` | `onEvent` with `onSessionEvent` |

What the code shows beside the properties, and they leave room for (`doubt`,
`announced`):

* a read answered after the end of a turn was published and before `release` took
  the turn off (runner.go:1366, 594) says that the turn runs; nothing is published
  afterwards, so the tab goes on showing it until its next read, although
  "Re-reading at the end of a turn is what reconciles anything the stream and the
  store disagree about" (store.js:3514);
* a start that is refused after `StartTurn` writes rows and publishes nothing, so
  they are on screen only after the next read;
* a read that fails leaves the tab as it is, to the next read.

Left out: the start of a window, where the first stream does not read again
(`refreshOnOpen`) and the end of a turn between a restored tab's read and its
subscription is missed; the window that sends a prompt and draws it before it is
answered; threads, approval cards and lists; other kinds of events. Two tasks of
one project stand for any, and two windows do not share a stream.

### Updates

An executable is a release and an identity (file and time of change, which
`os.SameFile` and `ModTime` compare).

| Variable | Code |
|---|---|
| `life`, `up`, `version` | the process of the program, its pid and release |
| `offer`, `ignored`, `status`, `preparing` | `saved`, `Service.status`, where `prepare` is |
| `target`, `previous`, `staged` | the installed path; the backup and the replacement in each helper's staging directory |
| `plan`, `marks` | `plan.json` of each attempt, and the `.ready`, `.error`, `.done`, `.cancel` beside it |
| `helper`, `original` | where each helper is, and the executable it found |
| `told`, `installed`, `trouble` | observations |

| Action | Code |
|---|---|
| `Check`, `Ignore`, `Start` | `check`, `Ignore`, `Start` |
| `DownloadFails`, `LaunchHelper`, `LaunchFails`, `SeeError`, `SeeReady`, `GiveUp`, `Cancel`, `CancelFails` | `prepare` with `download`, `launchHelper` and the deferred marker |
| `Begin`, `Stage`, `StageFails`, `WaitFails`, `MoveAside`, `StandBack`, `Place`, `PlaceFails` | `Helper` with `waitParent`, `replace` and the two deferred functions; `WaitFails` is an error of `waitParent` or of the first rename |
| `Kill` | a helper that is killed or refused, with the `cmd.Wait` of a program that still runs |
| `End`, `Open` | the end of the program; `New` with `collectResults` |
| `Publish`, `Change` | a new release; an executable installed by hand |

What the code shows beside the properties:

* a program that ends while it prepares leaves no `.cancel`, and neither does one
  whose write of it fails, an error that service.go:316 drops; a helper that gets
  its permission late then installs that attempt, of which the user may have been told
  that it failed, perhaps in place of a newer release (`Orphan`, `unmarked`;
  `specs/070-automatic-updates.md:40-41`). `FailedNeverInstalls` and `NoGoingBack`
  speak of the others;
* the helper compares with the executable it found when it started, so that one
  changed by hand between the offer and that moment is replaced;
* a kill between the two renames leaves only the backup (`ACopySurvives` says no
  more than that it is there).

Left out: bundles and the Windows helper; a process id that is given out again
while `waitParent` polls; a change between the helper's last look and its rename,
which are one step.

### Screens

A picture of the screen is a value; one key stands for keys and buttons.

| Variable | Code |
|---|---|
| `picture`, `damage`, `down` | the machine: what it shows, `Display.Changes`, whether the key is down |
| `enabled`, `display`, `opened`, `shut`, `switch` | `ScreenEnabled`; `Manager.display`, numbered as they are opened, and those closed; `putScreen` in progress, with `Manager.Close` if it turns sharing off |
| `view`, `closers` | each `Viewer` with its handler and the locals of `run`; calls of `Viewer.Close` in progress |
| `stream`, `post` | messages on their way to the tab; its one request in flight |
| `tab`, `screen` | `InputQueue` and the EventSource; the decoder and what is drawn |
| `late`, `lost`, `missed`, `slipped` | observations that say what a property leaves out |

| Action | Code |
|---|---|
| `Check`, `Open`, `Register` | `screenManager`, `Manager.Display`, the rest of `Watch` |
| `Look`, `Grab`, `Fault`, `Send`, `Refine`, `TimeOut`, `End` | `run` with `ready`, `sendFrame` and the second encoding of a still screen |
| `HandlerLeaves`, `Cancel`, `Forget`, `TakeKeys`, `LetGo` | the end of `streamScreen`, and `Viewer.Close` |
| `TurnOff`, `TakeAll`, `CloseNext`, `CloseDisplay` | `putScreen` that turns sharing off, with `Manager.Close` |
| `TurnOn`, `AnswerOn` | `putScreen` that turns it on: the store, and the answer, for which `Info` opens the display |
| `Arrive`, `PostAck`, `PostKey`, `Note`, `Touch`, `PostEnds`, `Lose` | `screenInput` with `Ack`, `RequestKey`, `apply`; a request that fails |
| `OnHello`, `OnFrame`, `Drawn`, `Garble` | `setViewer`, `decode`, the decoder's output, `failDecoder` |
| `Press`, `Break`, `Reconnect`, `Stop` | the user, the connection, `onError`, `stop` |

What the code shows beside the properties:

* `run` reads `wantKey` before it grabs and clears it after it has sent, so that a
  request for a key frame in between comes to nothing; so does one whose POST
  fails, which is not sent again; and one that waits because the viewer is behind
  waits for ever on a still screen if the acknowledgement it waits for is lost,
  since giving up on acknowledgements (`ready`) does not look at it (`lost`). The tab then draws nothing until the
  next key frame;
* a grab or an encoding that fails has counted its changes as seen, so that they
  reach the tab with the next change only (`missed`);
* input applied between `Close`'s swap of the held keys and their release, or
  released on a display that is closed by then, leaves a key down (`slipped`). The
  second is what happens to the handler of a viewer that the switch closes too, and
  to a viewer that an earlier turn of the switch missed;
* a viewer past the check registers after the switch was turned, with a display
  opened for it, and stays although sharing is off (`late`);
* a tab whose EventSource is refused while sharing is off does not try again when
  it is on (the stream used behind a tunnel does, and is not modelled).

Left out: how long a frame lasts and the other half of the rate control; JPEG,
whose frames stand alone; sound, clipboard, pointer and what agents do with the
screen; two tabs, which share the display and the switch only. `CloseDisplay`
closes the display and opens it again in one step (`Info`), since the request does
both. A request that turns sharing on runs beside one that turns it off, step by
step, as two devices may send them; two that turn it off do not overlap, nor two that
turn it on, and the display that the `GET` of a page opens in passing is left out.

### Profiles

A project stands for its tasks as well, and a goroutine for whatever it is called
for: `at` is where it is in the code, and `job` what it is about. A read lock that
is taken and given back within a step is one guard (`Number`, `Tick`).

| Variable | Code |
|---|---|
| `catalog`, `dirs`, `home`, `queued` | `profiles.json`; the directories; which database has the project; its `queued_messages` |
| `running`, `closed`, `life`, `ticking` | `profileManager.running` and `closed`; runner and store of a profile (`stopping` as in `Runner.stopping`); its clocks |
| `turns` | `Runner.active` |
| `mu`, `transfer` | `profileManager.mu` and `Runner.transfer`: readers, and the writer that has the lock or waits for it |

| Action | Code |
|---|---|
| `Boot`, `Create`, `CreateSaves` | `EnableProfiles`; `createProfile` with `open` |
| `RouteProfile`, `Served` | `routeProfile` and the handler it calls |
| `Enter`, `ReadTask`, `Number`, `StartTurn`, `EndTurn`, `Tick` | `send`, `sendDuringTransferLock` with `FlatProjectID`, `release`, a clock |
| `Delete`, `Halt`, `StopTurns`, `CloseRuntime`, `Erase` | `deleteProfile` with `profileRuntime.close` |
| `FindProfiles`, `Quiet`, `Move` | `moveProjectProfile`, `WithIdleProject`, the checks of `MoveProjectTo` |
| `Glance` | `reorderProfiles`, `renameProfile`, `ProvidersChanged`, and `OnBusy` for its lock |
| `Shutdown`, `CloseProfiles`, `Exit` | `Server.Shutdown`, `CloseProfiles`, the end of `main` |

What the code shows beside the properties:

* there is a circle, which `NoOtherCircle` names as the only one. A prompt to
  Default's orchestrator reads the list of profiles (flat.go:95, called from
  runner.go:571) with the transfer lock in its hands (runner.go:481), and
  `moveProjectProfile` asks for the transfer lock with the lock of that list in
  its hands: a move out of Default and such a prompt wait for each other for
  good, although the clock gives up its own transfer lock before it dispatches
  "so a waiting project move cannot deadlock" (schedules.go:61). When the prompt came through `routeProfile` it has that lock for
  reading already (profiles.go:243) and asks again: then any writer that waits in
  between, `ProvidersChanged` or `CloseProfiles` among them, closes the circle;
* `Shutdown` calls `CloseProfiles` first, which waits for the handlers of all
  routed requests; its timeout, of which server.go:410 says that it is "a
  backstop: a stuck client must never keep the app alive after the window is
  closed", starts after that, so a handler that clones a repository holds up the
  end of the program;
* a handler of Default that waits for git or for another machine holds
  `profileManager.mu` for reading; once anybody waits to write it, as
  `ProvidersChanged` does by itself, no request of any profile is answered until
  the handler comes back;
* `createProfile` leaves its directory behind when `open` fails half-way, and a
  crash between its directory and its catalog, or between catalog and `RemoveAll`
  in `deleteProfile`, leaves one as well; nothing looks for it again;
* `MoveProjectTo` commits to two databases, which a crash of the machine may tear
  apart (`specs/067-local-profiles.md` says so); the model moves in one step.

Left out: names and their order; the tally of busy runners for the tray; what a move copies; the import of accounts; two
calls that `addAPIProvider` makes on a profile's own listener, where waiting for
the lock is cut short by the three seconds of `ShutdownWithTimeout`.

## 4. Runs

A run's budget says how often each user action and each fault may happen; most
runs have several budgets, of which `Init` chooses one: once is enough for each
race of two, and a budget combines the kinds that race. Deadlock is not an error
in any run: once the budget is spent the program waits for the user.

| Run | Instance and budgets | Shows |
|---|---|---|
| `queueing` | two tasks, two prompts; an outage, a failed start and a Send now; a Stop, a delete, a Send now and a pause; a crash, an outage at the start, a Stop and a signal | Nothing lost; a prompt tried once per setback; no lost wakeup; what was stopped or deleted never runs again |
| `draining` (fair) | the same; a send, a Stop and an outage; a send, a Send now, a refused start and a shutdown | The queue drains if agents end; every request returns and a shutdown ends even if they do not |
| `asking` (fair) | one task, one turn or two; two tool calls of which an allow for the first may cover the second, or a call and a question; countdown, immediate answers or a project that asks; a Hold, a withdrawal or a change of the settings | Each request is announced exactly once, shown as long as it waits, and answered by an allow only if the allow covers it; nobody answers what only the user may; a countdown ends; a turn whose provider has left ends |
| `joining` (fair) | three prompts, two turns, one background task; two sends and some prose; an outage; two Send nows; a Stop; a delete of a prompt that is handed over and a new prompt after it; a resend and a requeue after a Stop; a crash | The refinement of `FollowUpPlaces`; the right prompt joins; an orderly end leaves none; none is started twice; none is held for ever |
| `drawing` (fair) | two terminals, one window, two streams of two frames, a scrollback of one byte (kept up to two), reads of up to two bytes; a broken connection and an exit; two terminals on a stream; closes | The screen is a run of the output; queries are answered once; the window catches up |
| `firing` | two jobs of two runs each, three tasks, four ticks; a crash with a forced run and a failure, an edit of the clock or of the runs that remain, an outage, a Stop, a delete, an outage with either | One automatic run at a time, one per slot, an exact counter, no open run without a cause |
| `roaming` (fair) | two machines, two addresses, two requests; sessions that end, keys that are revoked, machines that move, are removed and added, and work | Sessions are the machine's, but for a password sent to another; removed is removed; one sign-in per expired session; the dot ends up right |
| `following` (fair) | two tasks, one window, two streams of three events; two turns; a turn that says something and a broken connection; a start that may be refused, another task shown, a read that fails | Streams leave no closed subscriber and no watcher behind; once nothing more is to come the task on screen is the stored one; the window catches up |
| `updating` (fair) | two attempts, three releases; helpers given up and overtaken; an executable changed by hand; a helper killed; a step that fails, the mark of a given-up attempt among them; an offer ignored | A copy of the program survives; what was given up is not installed; no older release is installed over a newer one; what is ready is installed |
| `sharing` (fair) | one tab, two viewers, two pictures, a window of two frames; a decoder that fails with a lost request and a change; a failed grab and two changes; a broken connection; the tab closed or sharing turned off while a key is held; off, on and off, by devices that do not wait for each other | Off means off; no key stays down; the tab comes to show what the machine shows |
| `profiles` | Default and one added profile, an ordinary project and Default's orchestrator; three requests, two at a time, and a tick of a clock; two and two ticks; two, a tick and a crash | A turn runs where its task is, in a profile that is open and has its directory; nothing waits in a circle but for the one of flat.go:95 |
| `refused` | two tasks, a refused start | What a queued prompt loses when its start is refused |

Two tasks are what preference, sidebar order and "another task's turn" need;
the two prompts may be in the same task or not. `RowIds`, `MsgIds` and `Streams`
are as large as the number of rows, messages and streams that can exist, so
nothing is cut off. `MaxWakes` bounds only the retry clock, `MaxTurns` the turns of
`FollowUps`, `MaxNow` the clock. Two requests of one task suffice for the races of the
approvals, which are about one request and at most one other that an allow takes
along; that an allow stays in its task is, across tasks, the theorem `GrantsStay`, as
the run has one task; a second turn is what a request could wrongly survive into. A third prompt
is what a follow-up overtakes. A stream of two frames and a scrollback of a byte
are exceeded within the four bytes that are printed. Three events fill a stream
of `following` (256 in the code) while two turns publish eight. Two attempts are
a late helper and the one that overtook it. With two machines and two
addresses each can take the other's place. A tab that comes back is its second
viewer, two unacknowledged frames are a window that fills, and two pictures tell a
stale one from the present one. One added profile is created, removed and moved to and
from, and two requests with the clocks and the end of the program are readers and
writers of both locks, which is enough for a circle of four.

No run lists `TypeOK`. It is proved for `TaskQueue`, `Approvals`, `Profiles`,
`Updates`, `Schedules`, `Events` and `Terminals`, is part of another invariant in the later modules where there is one that can carry it, and
was checked once by TLC where there is none.

One run expects a violation of what the repository says and the code does not do.
In `refused` a queued prompt that cannot start is dropped and lost
(`dispatch` removes the row after every outcome but `ErrBusy`; `errShuttingDown`
is one of those outcomes as well).

Divergences of the queue that were found on the way and have no run: a stopped
turn that fails with an outage is queued again, so a prompt runs after Stop
(`holdForOutage`, outage.go:71, does not ask whether the turn was cancelled;
`specs/021-stop-active-tasks.md:6-7`); a Send now that meets an outage at the
start keeps its row beside the requeued one (runner.go:904); a Send now that
failed to start keeps its row, and the dispatch that follows at once may pick it,
fail again, and drop it; a crash between `RequeueTaken` and the removal of the
row queues a prompt twice; and after a restart only retries and scheduled prompts
are looked at before the next user action.

The budgets of the passing runs leave out exactly those combinations: no refused
start where `NothingLost` or `QueueDrains` is checked, no outage together with a
Stop where `HaltedForGood` is, no outage at the start together with a Send now. That the dispatcher starts nothing
beside a turn is not a property of the code: `dispatch` looks for turns before it
claims a task, under another lock, so a `Send` in between does run beside the
prompt that is then dispatched. `OneAutomaticTurn` is what remains true with
sends, and is proved.

### Fairness

`FairSpec` of `TaskQueue` asks for weak fairness of each turn's own steps, except that a running
agent need not end unless it was cancelled (a cancelled process is killed), of
the lock holder, of the clock and of the exit. The lock is asked for strong
fairness by schedulers and by calls: a Go mutex hands over to a waiter that has
waited for a millisecond, so nobody starves. No user action and no fault is fair.
That agents end by themselves is a premise of `QueueDrains` alone (`AgentsEnd`).

`FairSpec` of `Approvals` asks for weak fairness of each task's `consume`, of
each request's timer with its `autoAnswer`, and of each reply that was begun: all
are goroutines, or timers of the runtime, that nothing blocks. Writing to a
provider that left fails and does not block. That users answer, that providers
ask, withdraw or end, and that a held request is shown again is not assumed.

`FairSpec` of `FollowUps` asks for weak fairness of the requests, of `consume`,
and of an agent that ends its replies and reads its stdin. The work it leaves in
the background may go on for ever. `FairSpec` of `Terminals` asks for weak
fairness of the goroutines, of a shell that was hung up, and of a browser that
reads its stream and reconnects. `FairSpec` of `Remotes` asks for strong fairness
of a request's steps, since `keyMu` is handed over as the dispatch lock is, and
for weak fairness of the tickers. `FairEventsSpec` of `Events` asks for weak fairness of
the turns, which end, of the handlers and of the browser, which hands on events,
answers and reconnects. `FairUpdatesSpec` of `Updates` asks for weak fairness of `prepare`
and of each helper while they live; that the program ends is not assumed.
`FairSpec` of `Screens` asks for weak fairness of a viewer's loop, of the handlers
and of whoever closes a viewer, of a request unless a fault takes it, of giving up
on acknowledgements that are late, and of a browser that decodes what it gets and
reconnects. That the screen changes, and that a user does anything, is not assumed.
`Profiles` states no fairness: a handler may take as long as git or another
machine does, so that calls end is not promised, and what could hold them for
ever is looked for as a circle in `NoOtherCircle`.

## 5. Proofs

`TaskQueueProofs` proves for every set of tasks, prompts and row ids and every
budget (the assumptions are those named in `QueueStore` and `TaskQueue`):

| Theorem | Property | Argument |
|---|---|---|
| `TypeCorrect` | `TypeOK` | with `TurnHasPrompt` (a busy task has a prompt, or `Release` and `FailStart` would index `tries` outside its domain) and `Starting` (only the dispatcher and a Send now claim rows) |
| `OneDispatchedTurn` | `OneAutomaticTurn` | `ClaimAlone`: between `Pick` and `ClaimRow` there is no dispatched turn, since only the holder of the lock makes one and `Pick` saw none; `FreeIsDirect` makes the claim visible in `by` alone |
| `PauseHoldsDispatch` | `PauseHolds` | the same invariant: a dispatcher at its claim has the lock, so the project is not paused |
| `ParkedCallHasTurn` | `ParkedHasTurn` | a call parks and finds the turn in one lock section; `Release` takes the turn and its parked calls together |
| `RunningTaskHasTurn` | `RunningHasTurn` | strengthened to the stages before the outcome is stored; `Restart` resets what a crash left |

Its second part proves the promises about a prompt. The code breaks each of
them in a corner (section 4), so each theorem has a hypothesis on the budgets
that leaves just that corner out; every budget of `queueing` meets all four, and
the number of tasks, prompts, faults and calls is arbitrary. On top of `Base`
(a row has its id alone, a prompt belongs to one task, what the holder of the
lock serves is in the queue, the next prompt is new, and who sends a row waits
for its turn) there is an inductive invariant for each theorem, which TLC agreed
with before it was proved:

| Theorem | Property | Hypothesis | Argument |
|---|---|---|---|
| `PromptsLast` | `NothingLost` | `NoneRefused`: no refused start, no shutdown | `Lasting`: a stored turn has its prompt in the transcript (`Written`), the holder drops a row only if its prompt is there or has another row (`MayGo`), and an outage puts the prompt back before its turn goes (`Returned`) |
| `PromptsRunOnce` | `TriedOncePerSetback` | `NoRowStays`: no shutdown, no outage at the start of a Send now | `Counted`: the tries of a prompt and its rows together are no more than one and its setbacks, and one less while its turn is about to come back |
| `HaltedStayHalted` | `HaltedForGood` | `NoneReturns`: no outage meets a turn that a Stop or a deletion may end | `Halting`: no row of a halted prompt is left, and no turn of one would put it back (`Quiet`, `StopsInTime`); a Stop takes the rows of its task alone |
| `NobodySleeps` | `NoLostWakeup` | `NoneTurnedDown`: no refused start | `Wakeful`: only retries wait, a Send now is served from the call that waits, and what the holder of the lock leaves behind somebody follows (`Followed`) |

The hypotheses name budgets and not states: without a refused start in the budget
there is none in the behaviour, while every other action stays as it is.

`ApprovalsProofs` proves every safety invariant of
`Approvals`, for every set of tasks, tools and requests, every choice of settings
and every budget. None of them is inductive. The inductive invariant `Inv` says
where a request can be: not asked, among the events on their way, in the hands
of `consume`, in the map, in exactly one reply, or settled; that it has no answer
and no announcement while it is in one of these places (`SettledOnce`,
`UnaskedPlaced`, `EventsPlaced`, `ConsumersPlaced`, `WaitingPlaced`,
`RepliesPlaced`); and that a turn that is over has no events left. There is one
lemma per action. TLC agrees with `Inv` on the instance of `asking`. What is proved
is not always in a run as well: `TypeOK` of both modules, `AnsweredOnce`,
`NothingOutlivesItsTurn` and `HeldWaits` rest on their proofs.

| Theorem | Property | Argument |
|---|---|---|
| `TypeCorrect` | `TypeOK` | part of `Inv`: a request is registered only by the `consume` that holds it, so it waits once |
| `OneAnswer` | `AnsweredOnce` | a reply holds its request alone and unanswered, and gives it up when it answers |
| `NoneOutlives` | `NothingOutlivesItsTurn` | `WaitingPlaced`: `Drop` takes everything of the task, and only a `consume` that reads registers |
| `NoneForgottenNorTwice` | `AnnouncedExactlyOnce` | at most once by `Inv`; at least once since an unannounced request is `Kept` somewhere, or `Lost` to an allow whose own answer failed (`NoneForgotten`, which also says that what a reply takes along is covered by a grant) |
| `TimersRunForWaiting` | `TimersStopped` | inductive on top of `Inv`: the steps that take or hold a request stop its timer in the same lock section |
| `WhatWaitsIsShown` | `WaitingIsShown` | inductive on top of `Inv`: a card goes only with an announcement, and what is announced no longer waits |
| `OnlyTheUser`, `HeldForGood` | `NeverForTheUser`, `HeldWaits` | `ReservedPlaced`: what is promised never has a timer, what was held in time has a stopped one, and no reply of another's holds either |
| `GrantsStay` | `GrantStaysInTask` | `GrantsPlaced`: whatever a task is allowed is covered by one of its grants (`AllowAdds`) |

`TurnsProofs` proves every safety property of `Schedules`, for every set of
jobs, tasks, recurrences, grants and budgets and every length of the clock. The inductive invariant
says where the task of an open run is and what will close it (`Owned`, `Turns`,
`Causes`), what the ticker still has in hand (`Ticking`), which slots have been used
(`Slots`), and which ends have been noted but not paid for (`Paid`).

| Theorem | Property | Argument |
|---|---|---|
| `RunsNeverOverlap` | `OneAutomaticRun` | `Alone`: the ticker fires only what its reading showed without an open run of the clock, and nothing but the ticker opens one |
| `CountersAreExact` | `CounterIsExact` | `Paid`: a task whose end is noted pays once, at `SpendRun`, and only if its run was not forced; when the number of runs is set, the ends that are noted and not paid are charged to the new number |
| `BusyForACause` | `BusyHasCause` | `Causes`: whatever takes the prompt, the turn or the call from an open run closes it or leaves another of them |
| `SlotsFireOnce` | `OncePerSlot` | `Slots`: a job is booked for later than its last slot, and a slot is fired only after the job was booked past it |

`MachinesProofs` proves the safety properties of `Remotes` (below), and the safety properties of `Updates` for any number of
attempts, releases and faults, among them two renames that may be interrupted.

| Theorem | Property | Argument |
|---|---|---|
| `CopiesSurvive` | `ACopySurvives` | `Copies`: the installed path is empty only between two renames, and then the helper that made it so has its backup |
| `FailuresStayOut` | `FailedNeverInstalls` | `Helpers`, `GivenUp`: past its last check a helper has its permission and no marker, and what was given up has a marker before the user is told, unless it could not be written (`unmarked`) |
| `ReleasesOnlyGetNewer` | `NoGoingBack` | `Newer`, `Found`: an attempt is for a newer release than the executable it found when it was planned, and a helper puts nothing over another one |

`ProfilesProofs` proves both properties of `Profiles` for any number of profiles,
projects, requests and faults (`ProfilesAssumption` keeps the model value for
nobody apart from the rest).

| Theorem | Property | Argument |
|---|---|---|
| `TypeCorrect` | `TypeOK` | with what each kind of job is about (`Fits`) |
| `TurnsKeepTheirProject` | `TurnHasItsProject` | who writes has the manager's lock (`WriterHasMu`), a prompt has the transfer lock from its read to its start (`ReadersOfTransfer`), and what is erased has no turn, no clock and no reader (`InUse`, `Dead`) |
| `NoOtherCircles` | `NoOtherCircle` | the holder of the manager's lock is in no circle; then nobody who waits for it is, and no move has a transfer lock |

`FollowUpsProofs` proves that `FollowUps` implements `FollowUpPlaces`, and its
three invariants, for any number of prompts, messages, rows, turns, calls and
faults. Two hypotheses are about the budgets:

* `InTime`, of every theorem: a reply takes longer than the statements the
  dispatcher has still to execute (no `overtake`). Nothing in the code enforces it;
  it compares an answer of a provider with two statements of SQLite, and section 3
  says what is lost where it fails;
* `NoneSentAgain`, of the three invariants and not of the promise: nobody resends or
  requeues an unprocessed prompt. The invariants speak of prompts that no two calls
  took (`grabbed`), and with a resend that takes an argument about the order of stdin
  that has not been made; the run has these cases.

That a row's id may be given out again while the row is handed over is assumed of
none of them: the promise has such a prompt `lost`, and says so of no other.

`Inv` has a part for each thing that can hold a prompt. `Apart`: ids are
in use once. `Stages`: what a turn has besides its stage. `Alone`: one call at most hands over, since it
holds `openTurn.mu`, has claimed the task, or runs for the dispatcher. `Outrun`: while
the dispatcher is on its way no reply ends. `RunRow`: its row stays until it drops it.
`SentAlone`: what `send` stored and has not settled is nowhere else. `Holds`: what the
turn holds are messages without a turn, each once. `Replying`: what `consume` would put
back is in the transcript. `Barren`: a turn that has produced nothing has taken
nothing. `MayDrop`: the dispatcher drops a row whose prompt is
elsewhere. `HandedOver`: what is being handed over was stored, is or was a row. Of a prompt
that a resend or a requeue may have crossed with another call (`Crossed`) these say
nothing but for its ids.

`StartedOnce` needs a count. `ToStart` adds up the starts a prompt may still have: its
rows, except one whose prompt the CLI already has (`Marked`); its places in stdin,
or, once the turn is closed, among what it never took (`Waits`); a new prompt on its way
(`Sending`); a row that went while its prompt was handed over (`Gone`); and a failed
reply that an outage may put back (`Back`). `Within` says that starts had and starts to
come are one more than setbacks at most. A step that moves a prompt takes it
from one term to another: a hand-over from `Sending`, `Gone` or the row to `Waits`,
an outage from `Back` to a row, `Leave` from stdin to what is untaken, for which it
needs `Line`. For `Back`, `Follows` says that what `consume` will take to be replied to
when it comes to the last event is what the CLI replies to, so a failure is charged to
the prompt that comes back.

| Theorem | Property | Argument |
|---|---|---|
| `TypeCorrect` | `TypeOK` | part of `Inv`, with what each kind of call is about (`Fits`) |
| `PromiseIsKept` | `KeepsPromise` | `Inv` holds initially and is kept (`StepInv`); each step moves every prompt as `FollowUpPlaces!Next` lets it (`MayMove`), and one-prompt moves are joined to a step of it by the function of their places (`PlaceMoves`); a row that goes under its id alone takes its prompt to `lost` only if the prompt was not the one handed over (`Others`) |
| `JoinsWhatIsTaken` | `RightPromptJoins` | `Line`: the prompts the turn holds are, in order, those that the events on their way echo and then those in stdin, the last of which may be written and not held yet |
| `NoneLeftBehind` | `OrderlyEndTakesAll` | `Shut`: unless the CLI died, a closed stdin has nothing in it; with `Line` nothing is then held but what the events echo |
| `StartsAreCounted` | `StartedOnce` | `Tallied`: no prompt has had, and has to come, more starts than its setbacks allow (`Within`), and `consume` charges a failure to the prompt it was a reply to (`Follows`) |

`MachinesProofs` proves the safety properties of `Remotes` for any number of machines,
addresses, requests and faults (`NobodyAssumption` keeps the model value for nobody
apart from the rest). `Inv` says what the copies are worth that a request works with:
its session was given out by somebody (`Requests`), and one that waits for `keyMu`
after a refusal has a session that is over (`Refusals`), since a session that is over
never becomes valid again.

| Theorem | Property | Argument |
|---|---|---|
| `SessionsAreTheirs` | `SessionIsTheirs` | `Theirs`: what a sign-in with the key saves is what the machine that answered gave, and it is saved for that machine; what a password saves is kept for the machine it was sent for, whoever gave it |
| `SignInsAreNeeded` | `NoNeedlessSignIn` | `Refusals`, and the second look under `keyMu`: a session other than the refused one is taken over, so who goes on has the same one, which is over |
| `RemovedMachinesStay` | `RemovedStaysRemoved` | `Watched`: a worker belongs to a saved entry; every write but the one of Add is for an entry that is there |
| `OneSignsIn` | | `KeyHeld`: a request is signing in exactly if it has `keyMu`, also when its machine is removed meanwhile |

`ScreensProofs` proves both invariants of `Screens` for any number of viewers,
displays, pictures, frames and faults; a tab has asked for viewer 1 (`ScreenAssumption`).
The positions of the switch may overlap, one off and one on at a time.

| Theorem | Property | Argument |
|---|---|---|
| `OffIsOff` | `OffMeansOff` | `InTime`: who is registered has the display that is open, and sharing is on or the switch has still to take it; `Leaving`: who runs and is not registered any more has the display the switch took, and is on the list it closes before that display (`Going`) |
| `KeysComeUp` | `NothingStaysPressed` | `Pressed`: a key that is down is noted for a viewer with a Close to come, or taken by a Close, or in a request's hand, and in the first two cases the display is still open or the release counts as slipped (`Releaser`). `InHand`, `Begins`: a key in hand is noted unless a Close has taken the notes; `Newcomers`: who registers while the switch closes the others has no key yet when the display goes |

`TurnsProofs` also proves the invariant of `Events`, for any number of tasks, streams,
turns, reads and breaks, and any buffer. `EventsAssumption` says that the first stream is one of
`Streams`, since `EventsInit` has it open. `EventsInv` says where a stream can be that the
hub knows, or that somebody is about to close (`Registered`, `Ending`), and that
`refs` is the number of streams that look at the project (`Counted`, by the theorems on
finite sets). TLC agreed with it on 1 449 967 states of `following`.

| Theorem | Property | Argument |
|---|---|---|
| `StreamsAreClean` | `StreamsLeaveNothing` | a stream leaves every topic in the lock section that drops it, before it is closed, and its number is free again only when nobody is left who would close it; `Subscribe` and `Leave` change `refs` and the set it counts by one each |

`TerminalsProofs` proves both invariants of `Terminals`, for any number of shells,
windows and streams, any output, and any sizes of the scrollback, the channels and
the joined frames. What a view shows, what is on the wire of its stream and what waits
in the channel are pieces of one output. `Leads` says that frames take a view from
one byte count to another, each frame from where the one before it ended or with a new screen, and
`Coming` that wire and channel lead a view in this way to the end of the output,
unless the stream was dropped. `Hears` and `Alone` say that a window listens to what it shows and that
nobody else listens to its stream; `Attaches` follows a stream through `Attach`,
which catches up with one terminal after the other while they go on printing. TLC
agreed with `Inv` on 1 157 769 states of an instance of `drawing`.

That `Coalesce` leads where its frames lead is an induction over their number. The
library's induction theorems take an operator, which the provers cannot instantiate;
that a set of numbers has a least element is `WFMin` of a relation, which they can, and
the lemma `Induction` follows from it. `Coalesce` is therefore written as a
recursive function.

| Theorem | Property | Argument |
|---|---|---|
| `ScreensAreTrue` | `ScreenIsTrue` | `Listening`: the next frame that a view receives begins where the view ends or replaces it, and is a piece of the output (`DrawnIsTrue`); a replay begins at the count the view has asked for, or has all that the server keeps (`Scrolled`) |
| `AnswersAreGivenOnce` | `QueriesAnsweredOnce` | `Answers` and `Right`: what was answered is behind the view, and a view that begins anew is sent a replay, which is not answered, up to all it has answered before |

Model-checked only: liveness (`CatchesUp`, `HeldEnds` and their like), since TLAPS has no
support for ENABLED and therefore none for fairness; the invariants of
`FollowUps` in a budget with a resend or a requeue; and the lists of addresses in `TypeOK` of `Remotes`, which are made
with `SelectSeq`, a recursive operator of the library.

## 6. Not modelled

The translation of providers' output, the direct API runtime, HTTP handlers that
only validate and forward, git and file operations, smart search, speech, the
tray and the rest of the front ends have little state of their own, or state that
one process writes in order. The capture of the screen, its encoders and sound, the
tunnel, discovery and what the file watcher reports are made of calls into the operating system and the network. The flat
view merges lists that the modules above write.
