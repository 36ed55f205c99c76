------------------------------ MODULE Profiles ------------------------------
(***************************************************************************)
(* The profiles of one program (server/profiles.go): data directories,     *)
(* each with a database, a runner and two clocks, behind one port.  The    *)
(* built-in profile is Default, and the others are added and removed while *)
(* requests, clocks and turns go on in all of them.                        *)
(*                                                                         *)
(* Two kinds of locks keep this in order, both sync.RWMutex: the manager's *)
(* mu, which a routed request reads for as long as its handler runs, and   *)
(* the transfer lock of each runner.  A writer that waits keeps new        *)
(* readers out.  Everything else the code locks is held for one step.      *)
(*                                                                         *)
(* A project stands for its tasks as well: it has one turn at a time.  The *)
(* names and the order of profiles are left out, so renaming and ordering  *)
(* them only takes the lock, as ProvidersChanged does, which is called for *)
(* a CLI whose list of models has changed, and OnBusy for the tray.        *)
(***************************************************************************)
EXTENDS FiniteSets, Naturals

CONSTANTS
    Default,        \* the built-in profile
    Added,          \* ids that other profiles may get
    Projects,       \* projects, Default's orchestrator perhaps among them
    Orchestrator,   \* that one: a prompt to it names its number in the flat view
    Requests,       \* requests and other goroutines that come and go
    Budgets,        \* how many requests come, clocks tick and crashes happen
    Nobody          \* no process, no profile, no project

Profiles == {Default} \cup Added
Clock(p) == <<"clock", p>>
Main == <<"main">>          \* the end of the program
Request(i) == <<"request", i>>
Callers == {Request(i) : i \in Requests}
Procs == Callers \cup {Clock(p) : p \in Profiles} \cup {Main}

ASSUME ProfilesAssumption ==
    /\ Default \notin Added /\ Nobody \notin Profiles \cup Projects \cup Procs
    /\ Budgets \subseteq [{"request", "tick", "crash"} -> Nat]

VARIABLES
    \* on disk
    catalog,        \* profiles.json, Default left out
    dirs,           \* directories of added profiles
    home,           \* project -> the profile whose database has it
    queued,         \* projects with a prompt in the queue
    \* in the program
    up,             \* it runs
    running,        \* profileManager.running
    closed,         \* profileManager.closed
    life,           \* profile -> its runner and store: none, open, stopping
    ticking,        \* profiles whose clocks have not been cancelled
    turns,          \* profile -> Runner.active
    mu,             \* profileManager.mu
    transfer,       \* profile -> Runner.transfer
    at,             \* process -> where it is
    job,            \* process -> what it is about
    left            \* what is left of the budget

disk == <<catalog, dirs, home, queued>>
runners == <<life, ticking, turns>>
locks == <<mu, transfer>>
vars == <<disk, up, running, closed, runners, locks, at, job, left>>

Free == [readers |-> {}, next |-> Nobody]
NoJob == [op |-> "none", p |-> Nobody, k |-> Nobody, to |-> Nobody]
Job(op, p, k, to) == [op |-> op, p |-> p, k |-> k, to |-> to]

\* No writer has the lock or waits for it, so a reader may come in.
Readable(lock) == lock.next = Nobody
Read(lock, x) == [lock EXCEPT !.readers = @ \cup {x}]
Unread(lock, x) == [lock EXCEPT !.readers = @ \ {x}]
Ask(lock, x) == [lock EXCEPT !.next = x]
Obtained(lock, x) == lock.next = x /\ lock.readers = {}

Go(x, where) == at' = [at EXCEPT ![x] = where]
Leave(x) == Go(x, "idle") /\ job' = [job EXCEPT ![x] = NoJob]

Start(catalogued) ==
    /\ up' = TRUE /\ running' = catalogued /\ closed' = FALSE
    /\ life' = [p \in Profiles |-> IF p \in catalogued \cup {Default} THEN "open" ELSE "none"]
    /\ ticking' = catalogued \cup {Default}
    /\ dirs' = dirs \cup catalogued
    /\ UNCHANGED <<catalog, home, queued, turns, locks, at, job, left>>

Init ==
    /\ catalog \in SUBSET Added /\ dirs = catalog /\ queued = {}
    /\ home \in [Projects -> catalog \cup {Default}]
    /\ Orchestrator \in Projects => home[Orchestrator] = Default
    /\ up = FALSE /\ running = {} /\ closed = FALSE
    /\ life = [p \in Profiles |-> "none"] /\ ticking = {}
    /\ turns = [p \in Profiles |-> {}]
    /\ mu = Free /\ transfer = [p \in Profiles |-> Free]
    /\ at = [x \in Procs |-> "idle"] /\ job = [x \in Procs |-> NoJob]
    /\ left \in Budgets

\* EnableProfiles: every profile of the catalog opens, its directory made if
\* it is not there.
Boot == ~up /\ Start(catalog)

\* What is left when the process is gone.
Vanish ==
    /\ up' = FALSE /\ running' = {} /\ closed' = FALSE
    /\ life' = [p \in Profiles |-> "none"] /\ ticking' = {}
    /\ turns' = [p \in Profiles |-> {}]
    /\ mu' = Free /\ transfer' = [p \in Profiles |-> Free]
    /\ at' = [x \in Procs |-> "idle"] /\ job' = [x \in Procs |-> NoJob]
    /\ UNCHANGED disk

Spend(what) == left[what] > 0 /\ left' = [left EXCEPT ![what] = @ - 1]

Crash == up /\ Spend("crash") /\ Vanish

-----------------------------------------------------------------------------
(* Requests, and prompts that start turns.                                 *)

\* What a request may be about.  "send" and "slow" are routed; "own" is a
\* prompt that did not come through routeProfile: a call on a profile's own
\* listener, or the scheduler that release starts.
Jobs ==
    {Job("slow", p, Nobody, Nobody) : p \in Profiles}
    \cup {Job(op, p, k, Nobody) : op \in {"send", "own"}, p \in Profiles, k \in Projects}
    \cup {Job("create", p, Nobody, Nobody) : p \in Added}
    \cup {Job("delete", p, Nobody, Nobody) : p \in Added}
    \cup {Job("order", Nobody, Nobody, Nobody)}
    \cup {Job("move", p, k, to) : p \in Profiles, k \in Projects, to \in Profiles}
Routed == {"slow", "send"}
Managing == {"create", "delete", "order", "move"}

\* A new profile's id is a fresh UUID; a move names two profiles; what comes
\* by a profile's own listener finds it open.
Possible(j) ==
    /\ j.op = "create" => j.p \notin dirs \cup catalog
                          /\ \A x \in Procs : j.p \notin {job[x].p, job[x].to}
    /\ j.op = "move" => j.p # j.to
    /\ j.op = "own" => life[j.p] = "open"

Arrive(x) ==
    /\ up /\ at[x] = "idle" /\ Spend("request")
    /\ \E j \in Jobs :
          /\ Possible(j)
          /\ job' = [job EXCEPT ![x] = j]
          /\ Go(x, IF j.op \in Routed THEN "route" ELSE IF j.op = "own" THEN "enter" ELSE "lock")
    /\ UNCHANGED <<disk, up, running, closed, runners, locks>>

RouteProfile(x) ==
    /\ at[x] = "route" /\ Readable(mu)
    /\ IF closed \/ job[x].p \notin running \cup {Default}
       THEN Leave(x) /\ UNCHANGED mu
       ELSE /\ mu' = Read(mu, x) /\ UNCHANGED job
            /\ Go(x, IF job[x].op = "slow" THEN "serve" ELSE "enter")
    /\ UNCHANGED <<disk, up, running, closed, runners, transfer, left>>

\* A handler that calls git, a CLI or another machine comes back.
Served(x) ==
    /\ at[x] = "serve"
    /\ mu' = Unread(mu, x) /\ Leave(x)
    /\ UNCHANGED <<disk, up, running, closed, runners, transfer, left>>

\* mutant: send takes no transfer lock
EnterUnlocked(x) ==
    /\ at[x] = "enter" /\ Go(x, "read")
    /\ UNCHANGED <<disk, up, running, closed, runners, locks, job, left>>

\* Runner.send
Enter(x) ==
    LET p == job[x].p
    IN /\ at[x] = "enter" /\ Readable(transfer[p])
       /\ transfer' = [transfer EXCEPT ![p] = Read(@, x)]
       /\ Go(x, "read")
       /\ UNCHANGED <<disk, up, running, closed, runners, mu, job, left>>

Return(x) ==
    /\ transfer' = [transfer EXCEPT ![job[x].p] = Unread(@, x)]
    /\ mu' = Unread(mu, x)
    /\ Leave(x)

\* mutant: every prompt names the number of its project
ReadTaskNumbered(x) ==
    LET p == job[x].p k == job[x].k
    IN /\ at[x] = "read"
       /\ IF life[p] = "none" \/ home[k] # p
          THEN Return(x)
          ELSE Go(x, "number") /\ UNCHANGED <<locks, job>>
       /\ UNCHANGED <<disk, up, running, closed, runners, left>>

\* The task is read from the profile's database.
ReadTask(x) ==
    LET p == job[x].p k == job[x].k
    IN /\ at[x] = "read"
       /\ IF life[p] = "none" \/ home[k] # p
          THEN Return(x)
          ELSE /\ Go(x, IF p = Default /\ k = Orchestrator THEN "number" ELSE "start")
               /\ UNCHANGED <<locks, job>>
       /\ UNCHANGED <<disk, up, running, closed, runners, left>>

\* FlatProjectID lists the profiles under the manager's lock.
Number(x) ==
    /\ at[x] = "number" /\ Readable(mu)
    /\ Go(x, "start")
    /\ UNCHANGED <<disk, up, running, closed, runners, locks, job, left>>

StartTurn(x) ==
    LET p == job[x].p k == job[x].k
        refused == life[p] # "open" \/ k \in turns[p]
    IN /\ at[x] = "start"
       /\ Return(x)
       /\ IF refused
          THEN UNCHANGED <<turns, queued>>
          ELSE turns' = [turns EXCEPT ![p] = @ \cup {k}] /\ queued' = queued \ {k}
       /\ UNCHANGED <<catalog, dirs, home, up, running, closed, life, ticking, left>>

EndTurn(p, k) ==
    /\ k \in turns[p]
    /\ turns' = [turns EXCEPT ![p] = @ \ {k}]
    /\ UNCHANGED <<disk, up, running, closed, life, ticking, locks, at, job, left>>

\* A clock of profile p: a schedule is due and queues its prompt, or a prompt
\* that waits has its turn; both are then sent.
Tick(p) ==
    LET x == Clock(p)
    IN /\ at[x] = "idle" /\ p \in ticking /\ Spend("tick")
       /\ \E k \in Projects :
             /\ home[k] = p
             /\ \/ Readable(transfer[p]) /\ queued' = queued \cup {k}
                \/ k \in queued /\ UNCHANGED queued
             /\ job' = [job EXCEPT ![x] = Job("own", p, k, Nobody)]
       /\ Go(x, "enter")
       /\ UNCHANGED <<catalog, dirs, home, up, running, closed, runners, locks>>

-----------------------------------------------------------------------------
(* Writers of the manager's lock.                                          *)

\* Shutdown comes to CloseProfiles.
Shutdown ==
    /\ up /\ at[Main] = "idle"
    /\ Go(Main, "lock")
    /\ UNCHANGED <<disk, up, running, closed, runners, locks, job, left>>

Lock(x) ==
    /\ at[x] = "lock" /\ mu.next = Nobody
    /\ mu' = Ask(mu, x) /\ Go(x, "await")
    /\ UNCHANGED <<disk, up, running, closed, runners, transfer, job, left>>

Holds(x, op) == at[x] = "await" /\ Obtained(mu, x) /\ job[x].op = op
Unlock(x) == mu' = Ask(mu, Nobody) /\ Leave(x)

\* ProvidersChanged, reorderProfiles and renameProfile leave nothing else.
Glance(x) ==
    /\ Holds(x, "order") /\ Unlock(x)
    /\ UNCHANGED <<disk, up, running, closed, runners, transfer, left>>

\* createProfile, and profileManager.open
Create(x) ==
    LET p == job[x].p
    IN /\ Holds(x, "create")
       /\ \/ /\ closed /\ Unlock(x)
             /\ UNCHANGED <<dirs, runners, transfer>>
          \/ /\ ~closed                       \* open fails half-way
             /\ dirs' = dirs \cup {p} /\ Unlock(x)
             /\ UNCHANGED <<runners, transfer>>
          \/ /\ ~closed
             /\ dirs' = dirs \cup {p}
             /\ life' = [life EXCEPT ![p] = "open"] /\ ticking' = ticking \cup {p}
             /\ Go(x, "save")
             /\ UNCHANGED <<turns, locks, job>>
       /\ UNCHANGED <<catalog, home, queued, up, running, closed, left>>

CreateSaves(x) ==
    LET p == job[x].p
    IN /\ at[x] = "save" /\ job[x].op = "create"
       /\ \/ /\ catalog' = catalog \cup {p} /\ running' = running \cup {p}
             /\ Unlock(x)
          \/ /\ Go(x, "halt")                 \* the save failed
             /\ UNCHANGED <<catalog, running, mu, job>>
       /\ UNCHANGED <<dirs, home, queued, up, closed, runners, transfer, left>>

\* deleteProfile
Delete(x) ==
    LET p == job[x].p
    IN /\ Holds(x, "delete")
       /\ \/ p \in running /\ catalog' = catalog \ {p} /\ Go(x, "halt") /\ UNCHANGED <<mu, job>>
          \/ Unlock(x) /\ UNCHANGED catalog   \* it is gone, or the save failed
       /\ UNCHANGED <<dirs, home, queued, up, running, closed, runners, transfer, left>>

\* profileRuntime.close: the clocks are told to stop,
Halt(x) ==
    /\ at[x] = "halt"
    /\ ticking' = ticking \ {job[x].p}
    /\ Go(x, "clocks")
    /\ UNCHANGED <<disk, up, running, closed, life, turns, locks, job, left>>

\* and waited for; Runner.Shutdown refuses new turns and cancels the others,
StopTurns(x) ==
    LET p == job[x].p
    IN /\ at[x] = "clocks" /\ at[Clock(p)] = "idle"
       /\ life' = [life EXCEPT ![p] = "stopping"]
       /\ Go(x, "turns")
       /\ UNCHANGED <<disk, up, running, closed, ticking, turns, locks, job, left>>

\* waits for them, and the store closes.
CloseRuntime(x) ==
    LET p == job[x].p
    IN /\ at[x] = "turns" /\ p # Default /\ turns[p] = {}
       /\ life' = [life EXCEPT ![p] = "none"]
       /\ running' = running \ {p}
       /\ Go(x, IF x = Main THEN "close" ELSE "erase")
       /\ UNCHANGED <<disk, up, closed, ticking, turns, locks, job, left>>

Erase(x) ==
    LET p == job[x].p
    IN /\ at[x] = "erase"
       /\ \/ /\ dirs' = dirs \ {p}
             /\ home' = [k \in Projects |-> IF home[k] = p THEN Nobody ELSE home[k]]
             /\ queued' = {k \in queued : home[k] # p}
          \/ UNCHANGED <<dirs, home, queued>> \* RemoveAll failed
       /\ Unlock(x)
       /\ UNCHANGED <<catalog, up, running, closed, runners, transfer, left>>

\* moveProjectProfile finds both profiles and asks for the source's transfer
\* lock,
FindProfiles(x) ==
    LET j == job[x]
    IN /\ Holds(x, "move")
       /\ IF closed \/ ~({j.p, j.to} \subseteq running \cup {Default})
          THEN Unlock(x)
          ELSE Go(x, "quiet") /\ UNCHANGED <<mu, job>>
       /\ UNCHANGED <<disk, up, running, closed, runners, transfer, left>>

Quiet(x) ==
    LET p == job[x].p
    IN /\ at[x] = "quiet" /\ Readable(transfer[p])
       /\ transfer' = [transfer EXCEPT ![p] = Ask(@, x)]
       /\ Go(x, "move")
       /\ UNCHANGED <<disk, up, running, closed, runners, mu, job, left>>

\* and under it WithIdleProject and MoveProjectTo refuse what is at work.
Movable(p, k) == home[k] = p /\ k # Orchestrator /\ k \notin turns[p] /\ k \notin queued

Move(x) ==
    LET j == job[x]
    IN /\ at[x] = "move" /\ Obtained(transfer[j.p], x)
       /\ home' = IF Movable(j.p, j.k) THEN [home EXCEPT ![j.k] = j.to] ELSE home
       /\ transfer' = [transfer EXCEPT ![j.p] = Ask(@, Nobody)]
       /\ Unlock(x)
       /\ UNCHANGED <<catalog, dirs, queued, up, running, closed, runners, left>>

\* CloseProfiles closes one profile after the other under the lock,
CloseProfiles ==
    /\ \/ Holds(Main, "none")
       \/ at[Main] = "close"
    /\ closed' = TRUE
    /\ IF running = {}
       THEN /\ mu' = Ask(mu, Nobody) /\ Go(Main, "turns")
            /\ job' = [job EXCEPT ![Main] = Job("exit", Default, Nobody, Nobody)]
            /\ life' = [life EXCEPT ![Default] = "stopping"] /\ ticking' = ticking \ {Default}
       ELSE /\ \E p \in running : job' = [job EXCEPT ![Main] = Job("exit", p, Nobody, Nobody)]
            /\ Go(Main, "halt")
            /\ UNCHANGED <<mu, life, ticking>>
    /\ UNCHANGED <<disk, up, running, turns, transfer, left>>

\* and then the rest of Shutdown waits a moment for connections, and main for
\* Default's turns.
Exit ==
    /\ at[Main] = "turns" /\ job[Main].p = Default /\ turns[Default] = {}
    /\ Vanish /\ UNCHANGED left
-----------------------------------------------------------------------------
Routing(x) == RouteProfile(x) \/ Served(x)
Sending(x) == Enter(x) \/ ReadTask(x) \/ Number(x) \/ StartTurn(x)
Closing(x) == Halt(x) \/ StopTurns(x) \/ CloseRuntime(x)
Changing(x) ==
    \/ Glance(x) \/ Create(x) \/ CreateSaves(x) \/ Delete(x) \/ Erase(x)
    \/ FindProfiles(x) \/ Quiet(x) \/ Move(x)

Next ==
    \/ Boot \/ Crash \/ Shutdown \/ CloseProfiles \/ Exit
    \/ \E x \in Callers : Arrive(x) \/ Routing(x)
    \/ \E x \in Procs : Sending(x) \/ Lock(x) \/ Changing(x) \/ Closing(x)
    \/ \E p \in Profiles : Tick(p) \/ \E k \in Projects : EndTurn(p, k)

Spec == Init /\ [][Next]_vars

-----------------------------------------------------------------------------
(* Properties.                                                             *)

Places == {"idle", "route", "serve", "enter", "read", "number", "start", "lock", "await",
           "save", "halt", "clocks", "turns", "close", "erase", "quiet", "move"}
LockType == [readers : SUBSET Procs, next : Procs \cup {Nobody}]

TypeOK ==
    /\ catalog \subseteq Added /\ dirs \subseteq Added
    /\ home \in [Projects -> Profiles \cup {Nobody}] /\ queued \subseteq Projects
    /\ up \in BOOLEAN /\ running \subseteq Added /\ closed \in BOOLEAN
    /\ life \in [Profiles -> {"none", "open", "stopping"}] /\ ticking \subseteq Profiles
    /\ turns \in [Profiles -> SUBSET Projects]
    /\ mu \in LockType /\ transfer \in [Profiles -> LockType]
    /\ at \in [Procs -> Places] /\ DOMAIN job = Procs
    /\ left \in [{"request", "tick", "crash"} -> Nat]

\* A turn runs in the profile whose database has its task, which has not been
\* closed and whose directory is there: no move takes a task from under its
\* agent, no agent starts on a task that has just moved away, and none works on
\* for a profile that was removed (profiles.go:437, profiles.go:483,
\* runner.go:481).
TurnHasItsProject ==
    \A p \in Profiles : \A k \in turns[p] :
        home[k] = p /\ life[p] # "none" /\ p \in dirs \cup {Default}

\* Whoever waits, waits for another one of S, so that none of them goes on.
WaitsFor(x, y) ==
    /\ x # y
    /\ \/ at[x] \in {"route", "number", "lock"} /\ mu.next = y
       \/ at[x] = "await" /\ y \in mu.readers
       \/ at[x] \in {"enter", "quiet"} /\ transfer[job[x].p].next = y
       \/ at[x] = "move" /\ y \in transfer[job[x].p].readers
       \/ at[x] = "clocks" /\ y = Clock(job[x].p) /\ at[y] # "idle"
Stuck(S) == \A x \in S : \E y \in S : WaitsFor(x, y)

\* Whatever the order in which requests, clocks, moves, removals and the end of
\* the program take the two kinds of locks, they never wait for one another in
\* a circle, but for one case that the code has: a prompt to Default's
\* orchestrator reads the list of profiles (flat.go:95) under the transfer
\* lock, and when it was routed under the manager's too, while a writer waits.
Numbering(x) == at[x] = "number" /\ job[x].p = Default /\ job[x].k = Orchestrator
NoOtherCircle ==
    \A S \in (SUBSET Procs) \ {{}} : Stuck(S) => \E x \in S : Numbering(x)
=============================================================================
