--------------------------- MODULE ProfilesProofs ---------------------------
(***************************************************************************)
(* Turns stay with their project, and nothing waits in a circle but for    *)
(* the one prompt that reads the list of profiles, for any number of       *)
(* profiles, projects, requests and faults.                                *)
(***************************************************************************)
EXTENDS Profiles, TLAPS

\* What a job is about, as far as its kind says.
Ops == {"none", "exit", "slow", "send", "own", "create", "delete", "order", "move"}
JobType == [op : Ops, p : Profiles \cup {Nobody}, k : Projects \cup {Nobody},
            to : Profiles \cup {Nobody}]
Fits(j) ==
    /\ j \in JobType
    /\ j.op \in {"slow", "send", "own", "move", "exit"} => j.p \in Profiles
    /\ j.op \in {"send", "own", "move"} => j.k \in Projects
    /\ j.op \in {"create", "delete"} => j.p \in Added
    /\ j.op = "move" => j.to \in Profiles

Typed == TypeOK /\ job \in [Procs -> JobType] /\ \A x \in Procs : Fits(job[x])

\* Where a process is says what it is about.
Sends == {"enter", "read", "number", "start"}
Reads == {"read", "number", "start"}
Closes == {"halt", "clocks", "turns", "erase"}
Placed(x) ==
    /\ at[x] = "idle" => job[x].op = "none"
    /\ at[x] = "route" => job[x].op \in Routed
    /\ at[x] \in Sends => job[x].op \in {"send", "own"}
    /\ at[x] \in {"quiet", "move"} => job[x].op = "move"
    /\ at[x] = "save" => job[x].op = "create"
    /\ at[x] \in {"save"} \cup Closes => job[x].p \in Profiles /\ job[x].p \in dirs \cup {Default}
    /\ at[x] = "number" => job[x].p = Default /\ job[x].k = Orchestrator
    /\ x \notin Callers \cup {Main} => at[x] \in Sends \cup {"idle"}

\* Past its wait a writer of the manager's lock has it, but for the end of the
\* program once it waits for Default's turns.
Writes == {"await", "save", "halt", "clocks", "erase", "quiet", "move", "close"}
WriterHasMu ==
    \A x \in Procs : at[x] \in Writes \/ (at[x] = "turns" /\ job[x].p # Default) => mu.next = x
ReadersOfMu == \A x \in mu.readers : at[x] \in Sends \cup {"serve"}

\* A prompt has its transfer lock for reading from its read to its start, and
\* only a move asks for it as a writer.
ReadersOfTransfer ==
    /\ \A x \in Procs : at[x] \in Reads => x \in transfer[job[x].p].readers
    /\ \A p \in Profiles : \A x \in transfer[p].readers : at[x] \in Reads /\ job[x].p = p
WriterOfTransfer ==
    \A p \in Profiles : transfer[p].next # Nobody =>
        at[transfer[p].next] = "move" /\ job[transfer[p].next].p = p

\* What is in use has its directory, and what is erased is in no use.
InUse ==
    /\ running \subseteq dirs /\ ticking \subseteq dirs \cup {Default}
    /\ \A p \in Profiles : life[p] # "none" => p \in dirs \cup {Default}
    /\ \A x \in Procs :
          /\ at[x] \in {"clocks", "turns", "erase"} => job[x].p \notin ticking
          /\ at[x] = "erase" => job[x].p \notin running /\ life[job[x].p] = "none"

\* The id of a profile that is about to be created is used for nothing else.
Creating(x) == at[x] \in {"lock", "await"} /\ job[x].op = "create"
Fresh ==
    \A x \in Procs : Creating(x) =>
        /\ job[x].p \notin dirs
        /\ \A y \in Procs : y # x /\ job[y].p = job[x].p =>
              at[y] \in {"idle", "route", "lock", "await"} /\ job[y].op # "create"

\* A prompt that has read its task finds it where it was, if anything runs there.
TaskStays ==
    \A x \in Procs : at[x] \in {"number", "start"} /\ life[job[x].p] = "open" =>
        home[job[x].k] = job[x].p

Dead == ~up => /\ ticking = {} /\ \A p \in Profiles : turns[p] = {}
               /\ \A x \in Procs : at[x] = "idle"

AllPlaced == \A x \in Procs : Placed(x)
Inv ==
    /\ Typed /\ AllPlaced
    /\ WriterHasMu /\ ReadersOfMu /\ ReadersOfTransfer /\ WriterOfTransfer
    /\ InUse /\ Fresh /\ TaskStays /\ Dead /\ TurnHasItsProject

\* What a process may rely on where it is.
LEMMA About ==
    ASSUME Inv, NEW x \in Procs
    PROVE  /\ at[x] \in Sends \cup {"route", "quiet", "move"} => job[x].p \in Profiles
           /\ at[x] \in Sends \cup {"quiet", "move"} => job[x].k \in Projects
           /\ at[x] = "move" => job[x].to \in Profiles
           /\ at[x] \in {"save"} \cup Closes =>
                 job[x].p \in Profiles /\ job[x].p \in dirs \cup {Default}
           /\ job[x].op \in {"create", "delete"} => job[x].p \in Profiles /\ job[x].p # Default
BY ProfilesAssumption DEF Inv, Typed, AllPlaced, Fits, Placed, Sends, Closes, Routed, Profiles

\* Whom a lock admits and whom it leaves out.
LEMMA Locks ==
    ASSUME NEW l \in LockType, NEW x \in Procs
    PROVE  /\ Read(l, x) \in LockType /\ Unread(l, x) \in LockType
           /\ Ask(l, x) \in LockType /\ Ask(l, Nobody) \in LockType
           /\ Read(l, x).readers = l.readers \cup {x} /\ Read(l, x).next = l.next
           /\ Unread(l, x).readers = l.readers \ {x} /\ Unread(l, x).next = l.next
           /\ Ask(l, x).readers = l.readers /\ Ask(l, x).next = x
           /\ Ask(l, Nobody).readers = l.readers /\ Ask(l, Nobody).next = Nobody
BY DEF LockType, Read, Unread, Ask

\* A process without a job.
LEMMA Jobless == NoJob \in JobType /\ Fits(NoJob) /\ NoJob.op = "none" /\ NoJob.p = Nobody
BY DEF NoJob, JobType, Fits, Ops

\* The end of the program is about one profile after the other.
LEMMA ExitFits ==
    ASSUME NEW p \in Profiles
    PROVE  LET j == Job("exit", p, Nobody, Nobody)
           IN  j \in JobType /\ Fits(j) /\ j.op = "exit" /\ j.p = p
BY DEF Job, JobType, Fits, Ops

\* What a request is about fits its kind.
LEMMA JobsFit == \A j \in Jobs : Fits(j)
BY DEF Jobs, Job, Fits, JobType, Ops, Profiles


\* Everybody but x is where they were.
Others(x) == \A y \in Procs : y # x => at'[y] = at[y] /\ job'[y] = job[y]
Aside == {"idle", "route", "lock", "await"}

\* The id of a profile to be created stays unused as long as whoever begins to
\* work is about a profile that exists.
LEMMA FreshKept ==
    ASSUME Inv, NEW x \in Procs, Others(x), dirs' \subseteq dirs,
           job'[x] \in {job[x], NoJob},
           at'[x] = "lock" => at[x] \in {"idle", "lock"} /\ job[x].op # "create",
           at'[x] = "await" => at[x] = "lock",
           at'[x] \in Aside \/ at[x] \notin Aside \/ job[x].p \in dirs \cup {Default}
    PROVE  Fresh'
<1> SUFFICES ASSUME NEW y \in Procs, Creating(y)'
             PROVE  /\ job'[y].p \notin dirs'
                    /\ \A z \in Procs : z # y /\ job'[z].p = job'[y].p =>
                          at'[z] \in Aside /\ job'[z].op # "create"
  BY DEF Fresh, Aside
<1>1. Creating(y) /\ job'[y] = job[y]
  BY Jobless DEF Creating, Others
<1>2. job[y].p \in Profiles /\ job[y].p # Default /\ job[y].p # Nobody
  BY <1>1, About, ProfilesAssumption DEF Creating
<1>3. /\ job[y].p \notin dirs
      /\ \A z \in Procs : z # y /\ job[z].p = job[y].p => at[z] \in Aside /\ job[z].op # "create"
  BY <1>1 DEF Inv, Fresh, Aside
<1>4. ASSUME NEW z \in Procs, z # y, z # x, job'[z].p = job'[y].p
      PROVE  at'[z] \in Aside /\ job'[z].op # "create"
  BY <1>1, <1>3, <1>4 DEF Others
<1>5. x # y /\ job'[x].p = job'[y].p => at'[x] \in Aside /\ job'[x].op # "create"
  BY <1>1, <1>2, <1>3, Jobless
<1>6. QED
  BY <1>1, <1>3, <1>4, <1>5

\* The transfer locks are as they were, and so is whoever holds or asks for one.
LEMMA TransferKept ==
    ASSUME Inv, NEW x \in Procs, Others(x), transfer' = transfer,
           at'[x] \in Reads <=> at[x] \in Reads, at[x] # "move",
           at[x] \in Reads => job'[x] = job[x]
    PROVE  ReadersOfTransfer' /\ WriterOfTransfer'
<1>1. ASSUME NEW y \in Procs
      PROVE  /\ at'[y] \in Reads <=> at[y] \in Reads
             /\ at[y] \in Reads => job'[y] = job[y]
             /\ at[y] = "move" => at'[y] = "move" /\ job'[y] = job[y]
  BY DEF Others
<1>2. ReadersOfTransfer'
  <2>1. \A p \in Profiles : transfer[p].readers \subseteq Procs
    BY DEF Inv, Typed, TypeOK, LockType
  <2>2. QED
    BY <1>1, <2>1 DEF Inv, ReadersOfTransfer
<1>3. WriterOfTransfer'
  <2>1. \A p \in Profiles : transfer[p].next \in Procs \cup {Nobody}
    BY DEF Inv, Typed, TypeOK, LockType
  <2>2. QED
    BY <1>1, <2>1 DEF Inv, WriterOfTransfer
<1>4. QED
  BY <1>2, <1>3

\* A writer that has the manager's lock gives it back and is done.
LEMMA Unlocked ==
    ASSUME Inv, NEW x \in Procs, mu.next = x, at[x] \in Writes, Unlock(x)
    PROVE  /\ at' \in [Procs -> Places] /\ job' \in [Procs -> JobType] /\ mu' \in LockType
           /\ at'[x] = "idle" /\ job'[x] = NoJob /\ Others(x)
           /\ WriterHasMu' /\ ReadersOfMu'
<1>1. at \in [Procs -> Places] /\ job \in [Procs -> JobType] /\ mu \in LockType
  BY DEF Inv, Typed, TypeOK
<1>2. /\ at' \in [Procs -> Places] /\ job' \in [Procs -> JobType]
      /\ at'[x] = "idle" /\ job'[x] = NoJob /\ Others(x)
  BY <1>1, Jobless DEF Unlock, Leave, Go, Others, Places
<1>3. mu' \in LockType /\ mu'.readers = mu.readers
  BY <1>1, Locks DEF Unlock
<1>4. WriterHasMu'
  BY <1>2 DEF Inv, WriterHasMu, Writes, Others
<1>5. x \notin mu.readers
  BY DEF Inv, ReadersOfMu, Sends, Writes
<1>6. QED
  BY <1>1, <1>2, <1>3, <1>4, <1>5 DEF Inv, LockType, ReadersOfMu, WriterHasMu, Sends, Writes, Others

\* Nobody but the writer that has the manager's lock does a writer's work.
LEMMA Alone ==
    ASSUME Inv, NEW x \in Procs, mu.next = x, NEW y \in Procs, y # x
    PROVE  at[y] \notin Writes /\ (at[y] = "turns" => job[y].p = Default)
BY DEF Inv, WriterHasMu

\* A writer goes on with the lock in its hands.
LEMMA GoesOn ==
    ASSUME Inv, NEW x \in Procs, mu.next = x, at[x] \in Writes \cup {"turns"}, mu' = mu,
           NEW w \in Places \ Sends, Go(x, w), job' = job
    PROVE  /\ at' \in [Procs -> Places] /\ job' \in [Procs -> JobType] /\ mu' \in LockType
           /\ at'[x] = w /\ job'[x] = job[x] /\ Others(x)
           /\ WriterHasMu' /\ ReadersOfMu'
<1>1. at \in [Procs -> Places] /\ job \in [Procs -> JobType] /\ mu \in LockType
  BY DEF Inv, Typed, TypeOK
<1>2. at' \in [Procs -> Places] /\ at'[x] = w /\ Others(x)
  BY <1>1 DEF Go, Others
<1>3. WriterHasMu'
  BY <1>2 DEF Inv, WriterHasMu, Writes, Others
<1>4. x \notin mu.readers
  BY DEF Inv, ReadersOfMu, Sends, Writes
<1>5. QED
  BY <1>1, <1>2, <1>3, <1>4 DEF Inv, LockType, ReadersOfMu, WriterHasMu, Others

LEMMA ArriveInv ==
    ASSUME Inv, NEW x \in Callers, Arrive(x)
    PROVE  Inv'
<1>1. PICK j \in Jobs :
        /\ Possible(j)
        /\ job' = [job EXCEPT ![x] = j]
        /\ at' = [at EXCEPT ![x] = IF j.op \in Routed THEN "route"
                                   ELSE IF j.op = "own" THEN "enter" ELSE "lock"]
  BY DEF Arrive, Go
<1>2. /\ up /\ at[x] = "idle" /\ left' \in [{"request", "tick", "crash"} -> Nat]
      /\ UNCHANGED <<catalog, dirs, home, queued, up, running, closed, life, ticking, turns,
                     mu, transfer>>
  BY DEF Arrive, Spend, Inv, Typed, TypeOK, disk, runners, locks
<1>3. x \in Procs /\ at \in [Procs -> Places] /\ job \in [Procs -> JobType] /\ Fits(j)
  BY JobsFit DEF Procs, Inv, Typed, TypeOK
<1>4. /\ at'[x] \in {"route", "enter", "lock"} /\ job'[x] = j
      /\ at'[x] = "route" => j.op \in Routed
      /\ at'[x] = "enter" => j.op = "own"
      /\ Others(x) /\ at' \in [Procs -> Places] /\ job' \in [Procs -> JobType]
  BY <1>1, <1>3 DEF Others, Places, Fits
<1>5. Typed'
  BY <1>2, <1>3, <1>4 DEF Inv, Typed, TypeOK, Others
<1>6. AllPlaced'
  BY <1>2, <1>3, <1>4 DEF Inv, AllPlaced, Placed, Others, Sends, Closes, Routed
<1>7. WriterHasMu' /\ ReadersOfMu' /\ ReadersOfTransfer' /\ WriterOfTransfer'
  <2>1. WriterHasMu' /\ ReadersOfMu'
    BY <1>2, <1>3, <1>4 DEF Inv, Typed, TypeOK, LockType, WriterHasMu, ReadersOfMu, Writes,
       Sends, Others
  <2>2. QED
    BY <1>2, <1>3, <1>4, <2>1, TransferKept DEF Reads
<1>8. InUse' /\ TaskStays' /\ Dead' /\ TurnHasItsProject'
  BY <1>2, <1>3, <1>4 DEF Inv, InUse, TaskStays, Dead, TurnHasItsProject, Others
<1>9. Fresh'
  <2> SUFFICES ASSUME NEW y \in Procs, Creating(y)'
               PROVE  /\ job'[y].p \notin dirs'
                      /\ \A z \in Procs : z # y /\ job'[z].p = job'[y].p =>
                            at'[z] \in Aside /\ job'[z].op # "create"
    BY DEF Fresh, Aside
  <2>1. CASE y = x
    BY <1>1, <1>2, <1>4, <2>1 DEF Possible, Creating, Others
  <2>2. CASE y # x
    <3>1. Creating(y) /\ job'[y] = job[y]
      BY <1>4, <2>2 DEF Creating, Others
    <3>2. /\ job[y].p \in Profiles /\ job[y].p # Default /\ job[y].p \notin dirs
          /\ \A z \in Procs : z # y /\ job[z].p = job[y].p =>
                at[z] \in Aside /\ job[z].op # "create"
      BY <3>1, About DEF Inv, Creating, Fresh, Aside
    <3>3. ASSUME NEW z \in Procs, z # y, z # x, job'[z].p = job'[y].p
          PROVE  at'[z] \in Aside /\ job'[z].op # "create"
      BY <1>2, <1>4, <3>1, <3>2, <3>3 DEF Others
    <3>4. ASSUME j.p = job[y].p
          PROVE  at'[x] \in Aside /\ j.op # "create"
      <4>1. j.op # "create"
        BY <1>1, <3>4 DEF Possible
      <4>2. j.op # "own"
        BY <1>1, <3>2, <3>4 DEF Possible, Inv, InUse
      <4>3. QED
        BY <1>2, <1>4, <3>1, <3>2, <3>4, <4>1, <4>2 DEF Aside
    <3>5. QED
      BY <1>2, <1>4, <3>1, <3>2, <3>3, <3>4
  <2>3. QED
    BY <2>1, <2>2
<1>10. QED
  BY <1>5, <1>6, <1>7, <1>8, <1>9 DEF Inv

LEMMA RouteProfileInv ==
    ASSUME Inv, NEW x \in Callers, RouteProfile(x)
    PROVE  Inv'
<1>1. /\ x \in Procs /\ at \in [Procs -> Places] /\ job \in [Procs -> JobType]
      /\ mu \in LockType /\ job[x].p \in Profiles
  BY About DEF Procs, Inv, Typed, TypeOK, RouteProfile
<1>2. UNCHANGED <<catalog, dirs, home, queued, up, running, closed, life, ticking, turns,
                  transfer, left>>
  BY DEF RouteProfile, disk, runners
<1>3. \/ /\ at'[x] = "idle" /\ job'[x] = NoJob /\ mu' = mu
      \/ /\ at'[x] \in {"serve", "enter"} /\ job'[x] = job[x] /\ mu' = Read(mu, x)
         /\ at'[x] = "enter" => job[x].op # "slow"
         /\ job[x].p \in running \cup {Default}
  BY <1>1 DEF RouteProfile, Go, Leave
<1>4. at' \in [Procs -> Places] /\ job' \in [Procs -> JobType] /\ Others(x)
  BY <1>1, Jobless DEF RouteProfile, Go, Leave, Places, Others
<1>5. mu' \in LockType /\ mu'.next = mu.next /\ mu'.readers \subseteq mu.readers \cup {x}
  BY <1>1, <1>3, Locks
<1>6. /\ at[x] = "route" /\ job[x].op \in Routed /\ x \notin mu.readers
      /\ at'[x] = "idle" => mu'.readers = mu.readers
  BY <1>1, <1>3 DEF Inv, AllPlaced, Placed, ReadersOfMu, RouteProfile, Sends
<1>7. Typed'
  BY <1>1, <1>2, <1>3, <1>4, <1>5, Jobless DEF Inv, Typed, TypeOK, Others
<1>8. AllPlaced'
  BY <1>1, <1>2, <1>3, <1>4, <1>6, Jobless DEF Inv, AllPlaced, Placed, Others, Sends, Closes, Routed
<1>9. WriterHasMu' /\ ReadersOfMu'
  BY <1>1, <1>3, <1>4, <1>5, <1>6 DEF Inv, Typed, TypeOK, LockType, WriterHasMu, ReadersOfMu,
     Writes, Sends, Others
<1>10. ReadersOfTransfer' /\ WriterOfTransfer'
  BY <1>1, <1>2, <1>3, <1>4, TransferKept DEF RouteProfile, Reads
<1>11. InUse' /\ TaskStays' /\ Dead' /\ TurnHasItsProject'
  BY <1>1, <1>2, <1>3, <1>4, <1>6 DEF Inv, InUse, TaskStays, Dead, TurnHasItsProject, Others
<1>12. Fresh'
  BY <1>1, <1>2, <1>3, <1>4, <1>6, FreshKept DEF Inv, InUse, Aside
<1>13. QED
  BY <1>7, <1>8, <1>9, <1>10, <1>11, <1>12 DEF Inv

LEMMA ServedInv ==
    ASSUME Inv, NEW x \in Callers, Served(x)
    PROVE  Inv'
<1>1. /\ x \in Procs /\ at[x] = "serve"
      /\ at \in [Procs -> Places] /\ job \in [Procs -> JobType] /\ mu \in LockType
      /\ UNCHANGED <<catalog, dirs, home, queued, up, running, closed, life, ticking, turns,
                     transfer, left>>
  BY DEF Served, Procs, Inv, Typed, TypeOK, disk, runners
<1>2. /\ at' \in [Procs -> Places] /\ job' \in [Procs -> JobType]
      /\ at'[x] = "idle" /\ job'[x] = NoJob /\ Others(x)
  BY <1>1, Jobless DEF Served, Leave, Go, Others, Places
<1>3. mu' \in LockType /\ mu'.next = mu.next /\ mu'.readers = mu.readers \ {x}
  BY <1>1, Locks DEF Served
<1>4. Typed'
  BY <1>1, <1>2, <1>3, Jobless DEF Inv, Typed, TypeOK, Others
<1>5. AllPlaced'
  BY <1>1, <1>2, Jobless DEF Inv, AllPlaced, Placed, Others, Sends, Closes, Routed
<1>6. WriterHasMu' /\ ReadersOfMu'
  BY <1>1, <1>2, <1>3 DEF Inv, LockType, WriterHasMu, ReadersOfMu, Writes, Others
<1>7. ReadersOfTransfer' /\ WriterOfTransfer'
  BY <1>1, <1>2, TransferKept DEF Reads
<1>8. InUse' /\ TaskStays' /\ Dead' /\ TurnHasItsProject'
  BY <1>1, <1>2 DEF Inv, InUse, TaskStays, Dead, TurnHasItsProject, Others
<1>9. Fresh'
  BY <1>1, <1>2, FreshKept DEF Aside
<1>10. QED
  BY <1>4, <1>5, <1>6, <1>7, <1>8, <1>9 DEF Inv

LEMMA EnterInv ==
    ASSUME Inv, NEW x \in Procs, Enter(x)
    PROVE  Inv'
<1> DEFINE p == job[x].p
<1>1. /\ at[x] = "enter" /\ at \in [Procs -> Places] /\ job \in [Procs -> JobType]
      /\ mu \in LockType /\ transfer \in [Profiles -> LockType]
      /\ UNCHANGED <<catalog, dirs, home, queued, up, running, closed, life, ticking, turns,
                     mu, job, left>>
  BY DEF Enter, Inv, Typed, TypeOK, disk, runners
<1>2. p \in Profiles
  BY <1>1, About DEF Sends
<1>3. at' \in [Procs -> Places] /\ at'[x] = "read" /\ Others(x)
  BY <1>1 DEF Enter, Go, Others, Places
<1>4. /\ transfer' \in [Profiles -> LockType]
      /\ \A q \in Profiles : /\ transfer'[q].next = transfer[q].next
                             /\ q # p => transfer'[q].readers = transfer[q].readers
      /\ transfer'[p].readers = transfer[p].readers \cup {x}
  <2>1. transfer' = [transfer EXCEPT ![p] = Read(transfer[p], x)]
    BY DEF Enter
  <2>2. transfer[p] \in LockType
    BY <1>1, <1>2
  <2>3. /\ Read(transfer[p], x) \in LockType
        /\ Read(transfer[p], x).readers = transfer[p].readers \cup {x}
        /\ Read(transfer[p], x).next = transfer[p].next
    BY <2>2, Locks
  <2>4. QED
    BY <1>1, <1>2, <2>1, <2>3
<1>5. Typed'
  BY <1>1, <1>3, <1>4 DEF Inv, Typed, TypeOK
<1>6. AllPlaced'
  BY <1>1, <1>3 DEF Inv, AllPlaced, Placed, Others, Sends, Closes, Routed
<1>7. WriterHasMu' /\ ReadersOfMu'
  BY <1>1, <1>3 DEF Inv, LockType, WriterHasMu, ReadersOfMu, Writes, Sends, Others
<1>8. ReadersOfTransfer'
  <2>1. ASSUME NEW y \in Procs, at'[y] \in Reads
        PROVE  y \in transfer'[job[y].p].readers
    <3>1. CASE y = x
      BY <1>4, <3>1
    <3>2. CASE y # x
      <4>1. at[y] \in Reads /\ job[y].p \in Profiles
        BY <1>3, <2>1, <3>2, About DEF Others, Reads, Sends
      <4>2. QED
        BY <1>4, <4>1 DEF Inv, ReadersOfTransfer
    <3>3. QED
      BY <3>1, <3>2
  <2>2. ASSUME NEW q \in Profiles, NEW y \in transfer'[q].readers
        PROVE  at'[y] \in Reads /\ job[y].p = q
    <3>1. CASE y \in transfer[q].readers
      BY <1>1, <1>3, <3>1 DEF Inv, ReadersOfTransfer, Others, LockType, Reads
    <3>2. CASE y \notin transfer[q].readers
      BY <1>3, <1>4, <2>2, <3>2 DEF Reads
    <3>3. QED
      BY <3>1, <3>2
  <2>3. QED
    BY <1>1, <2>1, <2>2 DEF ReadersOfTransfer
<1>9. WriterOfTransfer'
  <2>1. \A q \in Profiles : transfer[q].next # x
    BY <1>1, ProfilesAssumption DEF Inv, WriterOfTransfer
  <2>2. \A q \in Profiles : transfer[q].next \in Procs \cup {Nobody}
    BY <1>1 DEF LockType
  <2>3. QED
    BY <1>1, <1>3, <1>4, <2>1, <2>2 DEF Inv, WriterOfTransfer, Others
<1>10. InUse' /\ TaskStays' /\ Dead' /\ TurnHasItsProject'
  BY <1>1, <1>3 DEF Inv, InUse, TaskStays, Dead, TurnHasItsProject, Others
<1>11. Fresh'
  BY <1>1, <1>3, FreshKept DEF Aside
<1>12. QED
  BY <1>5, <1>6, <1>7, <1>8, <1>9, <1>10, <1>11 DEF Inv

\* send gives back both locks, whether or not a turn has started.
LEMMA Returned ==
    ASSUME Inv, NEW x \in Procs, at[x] \in Reads, Return(x), queued' \subseteq Projects,
           UNCHANGED <<catalog, dirs, home, up, running, closed, life, ticking, left>>,
           turns' \in [Profiles -> SUBSET Projects]
    PROVE  /\ Typed' /\ AllPlaced' /\ WriterHasMu' /\ ReadersOfMu' /\ ReadersOfTransfer'
           /\ WriterOfTransfer' /\ InUse' /\ Fresh' /\ TaskStays' /\ Dead'
<1>1. /\ at \in [Procs -> Places] /\ job \in [Procs -> JobType]
      /\ mu \in LockType /\ transfer \in [Profiles -> LockType]
  BY DEF Inv, Typed, TypeOK
<1>2. job[x].p \in Profiles /\ up
  BY About DEF Inv, Dead, Reads, Sends
<1>3. /\ at' \in [Procs -> Places] /\ job' \in [Procs -> JobType]
      /\ at'[x] = "idle" /\ job'[x] = NoJob /\ Others(x)
  BY <1>1, Jobless DEF Return, Leave, Go, Others, Places
<1>4. mu' \in LockType /\ mu'.next = mu.next /\ mu'.readers = mu.readers \ {x}
  BY <1>1, Locks DEF Return
<1>5. /\ transfer' \in [Profiles -> LockType]
      /\ \A p \in Profiles : /\ transfer'[p].next = transfer[p].next
                             /\ p # job[x].p => transfer'[p].readers = transfer[p].readers
      /\ transfer'[job[x].p].readers = transfer[job[x].p].readers \ {x}
  <2>1. transfer[job[x].p] \in LockType
    BY <1>1, <1>2
  <2>2. transfer' = [transfer EXCEPT ![job[x].p] = Unread(transfer[job[x].p], x)]
    BY DEF Return
  <2>3. /\ Unread(transfer[job[x].p], x) \in LockType
        /\ Unread(transfer[job[x].p], x).readers = transfer[job[x].p].readers \ {x}
        /\ Unread(transfer[job[x].p], x).next = transfer[job[x].p].next
    BY <2>1, Locks
  <2>4. QED
    BY <1>1, <1>2, <2>2, <2>3
<1>6. Typed'
  BY <1>2, <1>3, <1>4, <1>5, Jobless DEF Inv, Typed, TypeOK, Others
<1>7. AllPlaced'
  BY <1>3, Jobless DEF Inv, AllPlaced, Placed, Others, Sends, Closes, Routed
<1>8. WriterHasMu' /\ ReadersOfMu'
  BY <1>1, <1>3, <1>4 DEF Inv, LockType, WriterHasMu, ReadersOfMu, Writes, Sends, Others
<1>9. ReadersOfTransfer'
  <2>1. ASSUME NEW y \in Procs, at'[y] \in Reads
        PROVE  y \in transfer'[job'[y].p].readers
    <3>1. y # x /\ at[y] \in Reads /\ job'[y] = job[y] /\ job[y].p \in Profiles
      BY <1>3, <2>1, About DEF Others, Reads, Sends
    <3>2. QED
      BY <1>5, <3>1 DEF Inv, ReadersOfTransfer
  <2>2. ASSUME NEW p \in Profiles, NEW y \in transfer'[p].readers
        PROVE  at'[y] \in Reads /\ job'[y].p = p
    <3>1. y \in Procs /\ y \in transfer[p].readers
      BY <1>1, <1>5 DEF LockType
    <3>2. y # x
      BY <1>5, <3>1, <2>2 DEF Inv, ReadersOfTransfer
    <3>3. QED
      BY <1>3, <3>1, <3>2 DEF Inv, ReadersOfTransfer, Others
  <2>3. QED
    BY <2>1, <2>2 DEF ReadersOfTransfer
<1>10. WriterOfTransfer'
  <2>1. ASSUME NEW p \in Profiles, transfer'[p].next # Nobody
        PROVE  at'[transfer'[p].next] = "move" /\ job'[transfer'[p].next].p = p
    <3>1. transfer[p].next \in Procs /\ transfer'[p].next = transfer[p].next
      BY <1>1, <1>5, <2>1 DEF LockType
    <3>2. at[transfer[p].next] = "move" /\ job[transfer[p].next].p = p
      BY <2>1, <3>1 DEF Inv, WriterOfTransfer
    <3>3. QED
      BY <1>3, <3>1, <3>2 DEF Others, Reads
  <2>2. QED
    BY <2>1 DEF WriterOfTransfer
<1>11. InUse' /\ TaskStays' /\ Dead'
  BY <1>2, <1>3 DEF Inv, InUse, TaskStays, Dead, Others
<1>12. Fresh'
  BY <1>3, FreshKept DEF Aside
<1>13. QED
  BY <1>6, <1>7, <1>8, <1>9, <1>10, <1>11, <1>12

LEMMA ReadTaskInv ==
    ASSUME Inv, NEW x \in Procs, ReadTask(x)
    PROVE  Inv'
<1>1. CASE Return(x) /\ UNCHANGED <<disk, up, running, closed, runners, left>>
  <2>1. at[x] \in Reads
    BY DEF ReadTask, Reads
  <2>2. TurnHasItsProject'
    BY <1>1 DEF Inv, TurnHasItsProject, disk, runners
  <2>3. queued' \subseteq Projects /\ turns' \in [Profiles -> SUBSET Projects]
    BY <1>1 DEF Inv, Typed, TypeOK, disk, runners
  <2>4. QED
    BY <1>1, <2>1, <2>2, <2>3, Returned DEF Inv, disk, runners
<1>2. CASE /\ ~(life[job[x].p] = "none" \/ home[job[x].k] # job[x].p)
           /\ at' = [at EXCEPT ![x] = IF job[x].p = Default /\ job[x].k = Orchestrator
                                      THEN "number" ELSE "start"]
           /\ UNCHANGED <<disk, up, running, closed, runners, locks, job, left>>
  <2>1. at \in [Procs -> Places] /\ at[x] = "read"
    BY DEF Inv, Typed, TypeOK, ReadTask
  <2>2. /\ at'[x] \in {"number", "start"} /\ job'[x] = job[x]
        /\ at'[x] = "number" => job[x].p = Default /\ job[x].k = Orchestrator
        /\ at' \in [Procs -> Places] /\ Others(x)
    BY <1>2, <2>1 DEF Others, Places
  <2>3. Typed'
    BY <1>2, <2>2 DEF Inv, Typed, TypeOK, disk, runners, locks
  <2>4. AllPlaced'
    BY <1>2, <2>1, <2>2 DEF Inv, AllPlaced, Placed, Others, Sends, Closes, Routed, disk
  <2>5. WriterHasMu' /\ ReadersOfMu'
    BY <1>2, <2>1, <2>2 DEF Inv, Typed, TypeOK, LockType, WriterHasMu, ReadersOfMu, Writes,
       Sends, Others, locks
  <2>6. ReadersOfTransfer' /\ WriterOfTransfer'
    BY <1>2, <2>1, <2>2, TransferKept DEF Reads, locks
  <2>7. InUse' /\ TaskStays' /\ Dead' /\ TurnHasItsProject'
    BY <1>2, <2>1, <2>2 DEF Inv, InUse, TaskStays, Dead, TurnHasItsProject, Others, disk, runners
  <2>8. Fresh'
    BY <1>2, <2>1, <2>2, FreshKept DEF Aside, disk
  <2>9. QED
    BY <2>3, <2>4, <2>5, <2>6, <2>7, <2>8 DEF Inv
<1>3. QED
  BY <1>1, <1>2 DEF ReadTask, Go

LEMMA NumberInv ==
    ASSUME Inv, NEW x \in Procs, Number(x)
    PROVE  Inv'
<1>1. /\ at[x] = "number" /\ at \in [Procs -> Places] /\ mu \in LockType
      /\ UNCHANGED <<catalog, dirs, home, queued, up, running, closed, life, ticking, turns,
                     mu, transfer, job, left>>
  BY DEF Number, Inv, Typed, TypeOK, disk, runners, locks
<1>2. at' \in [Procs -> Places] /\ at'[x] = "start" /\ Others(x)
  BY <1>1 DEF Number, Go, Others, Places
<1>3. Typed' /\ AllPlaced'
  BY <1>1, <1>2 DEF Inv, Typed, TypeOK, AllPlaced, Placed, Others, Sends, Closes, Routed
<1>4. WriterHasMu' /\ ReadersOfMu'
  BY <1>1, <1>2 DEF Inv, LockType, WriterHasMu, ReadersOfMu, Writes, Sends, Others
<1>5. ReadersOfTransfer' /\ WriterOfTransfer'
  BY <1>1, <1>2, TransferKept DEF Reads
<1>6. InUse' /\ TaskStays' /\ Dead' /\ TurnHasItsProject'
  BY <1>1, <1>2 DEF Inv, InUse, TaskStays, Dead, TurnHasItsProject, Others
<1>7. Fresh'
  BY <1>1, <1>2, FreshKept DEF Aside
<1>8. QED
  BY <1>3, <1>4, <1>5, <1>6, <1>7 DEF Inv

LEMMA StartTurnInv ==
    ASSUME Inv, NEW x \in Procs, StartTurn(x)
    PROVE  Inv'
<1>1. /\ at[x] = "start" /\ Return(x)
      /\ UNCHANGED <<catalog, dirs, home, up, running, closed, life, ticking, left>>
      /\ at[x] \in Reads
  BY DEF StartTurn, Reads
<1>2. job[x].p \in Profiles /\ job[x].k \in Projects
  BY <1>1, About DEF Reads, Sends
<1>3. turns \in [Profiles -> SUBSET Projects] /\ queued \subseteq Projects
  BY DEF Inv, Typed, TypeOK
<1>4. CASE UNCHANGED <<turns, queued>>
  BY <1>1, <1>3, <1>4, Returned DEF Inv, TurnHasItsProject
<1>5. CASE /\ life[job[x].p] = "open"
           /\ turns' = [turns EXCEPT ![job[x].p] = @ \cup {job[x].k}]
           /\ queued' = queued \ {job[x].k}
  <2>1. /\ turns' \in [Profiles -> SUBSET Projects] /\ queued' \subseteq Projects
        /\ \A p \in Profiles : \A k \in turns'[p] :
              k \in turns[p] \/ (p = job[x].p /\ k = job[x].k)
    BY <1>2, <1>3, <1>5
  <2>2. home[job[x].k] = job[x].p /\ job[x].p \in dirs \cup {Default}
    BY <1>1, <1>2, <1>5 DEF Inv, TaskStays, InUse
  <2>3. TurnHasItsProject'
    BY <1>1, <1>5, <2>1, <2>2 DEF Inv, TurnHasItsProject
  <2>4. QED
    BY <1>1, <2>1, <2>3, Returned DEF Inv
<1>6. QED
  BY <1>4, <1>5 DEF StartTurn

LEMMA LockInv ==
    ASSUME Inv, NEW x \in Procs, Lock(x)
    PROVE  Inv'
<1>1. /\ at[x] = "lock" /\ mu.next = Nobody /\ at \in [Procs -> Places] /\ mu \in LockType
      /\ UNCHANGED <<catalog, dirs, home, queued, up, running, closed, life, ticking, turns,
                     transfer, job, left>>
  BY DEF Lock, Inv, Typed, TypeOK, disk, runners
<1>2. at' \in [Procs -> Places] /\ at'[x] = "await" /\ Others(x)
  BY <1>1 DEF Lock, Go, Others, Places
<1>3. mu' \in LockType /\ mu'.readers = mu.readers /\ mu'.next = x
  BY <1>1, Locks DEF Lock
<1>4. Typed' /\ AllPlaced'
  BY <1>1, <1>2, <1>3 DEF Inv, Typed, TypeOK, AllPlaced, Placed, Others, Sends, Closes, Routed
<1>5. WriterHasMu'
  <2>1. \A y \in Procs : ~(at[y] \in Writes \/ (at[y] = "turns" /\ job[y].p # Default))
    BY <1>1, ProfilesAssumption DEF Inv, WriterHasMu
  <2>2. QED
    BY <1>1, <1>2, <1>3, <2>1 DEF WriterHasMu, Others
<1>6. ReadersOfMu'
  BY <1>1, <1>2, <1>3 DEF Inv, LockType, ReadersOfMu, Sends, Others
<1>7. ReadersOfTransfer' /\ WriterOfTransfer'
  BY <1>1, <1>2, TransferKept DEF Reads
<1>8. InUse' /\ TaskStays' /\ Dead' /\ TurnHasItsProject'
  BY <1>1, <1>2 DEF Inv, InUse, TaskStays, Dead, TurnHasItsProject, Others
<1>9. Fresh'
  BY <1>1, <1>2, FreshKept DEF Aside
<1>10. QED
  BY <1>4, <1>5, <1>6, <1>7, <1>8, <1>9 DEF Inv

LEMMA GlanceInv ==
    ASSUME Inv, NEW x \in Procs, Glance(x)
    PROVE  Inv'
<1>1. /\ at[x] = "await" /\ mu.next = x /\ at[x] \in Writes /\ Unlock(x)
      /\ UNCHANGED <<catalog, dirs, home, queued, up, running, closed, life, ticking, turns,
                     transfer, left>>
  BY DEF Glance, Holds, Obtained, disk, runners, Writes
<1>2. /\ at' \in [Procs -> Places] /\ job' \in [Procs -> JobType] /\ mu' \in LockType
      /\ at'[x] = "idle" /\ job'[x] = NoJob /\ Others(x)
      /\ WriterHasMu' /\ ReadersOfMu'
  BY <1>1, Unlocked
<1>3. Typed' /\ AllPlaced'
  BY <1>1, <1>2, Jobless DEF Inv, Typed, TypeOK, AllPlaced, Placed, Others, Sends, Closes, Routed
<1>4. ReadersOfTransfer' /\ WriterOfTransfer'
  BY <1>1, <1>2, TransferKept DEF Reads
<1>5. InUse' /\ TaskStays' /\ Dead' /\ TurnHasItsProject'
  BY <1>1, <1>2 DEF Inv, InUse, TaskStays, Dead, TurnHasItsProject, Others
<1>6. Fresh'
  BY <1>1, <1>2, FreshKept DEF Aside
<1>7. QED
  BY <1>2, <1>3, <1>4, <1>5, <1>6 DEF Inv

LEMMA CreateInv ==
    ASSUME Inv, NEW x \in Procs, Create(x)
    PROVE  Inv'
<1> DEFINE p == job[x].p
<1>1. /\ at[x] = "await" /\ mu.next = x /\ job[x].op = "create" /\ x # Nobody
      /\ UNCHANGED <<catalog, home, queued, up, running, closed, left, turns, transfer>>
  BY ProfilesAssumption DEF Create, Holds, Obtained, runners, locks
<1>2. p \in Added /\ p \in Profiles /\ p # Default /\ p \notin dirs
  BY <1>1, About DEF Inv, Typed, Fits, Fresh, Creating
<1>3. \A y \in Procs : y # x /\ job[y].p = p => at[y] \in Aside /\ job[y].op # "create"
  BY <1>1 DEF Inv, Fresh, Creating, Aside
<1>4. life[p] = "none" /\ p \notin running /\ p \notin ticking
  BY <1>2 DEF Inv, InUse
<1>5. /\ dirs' \in {dirs, dirs \cup {p}}
      /\ \/ Unlock(x) /\ UNCHANGED <<life, ticking>>
         \/ /\ at' = [at EXCEPT ![x] = "save"] /\ UNCHANGED <<mu, job>>
            /\ dirs' = dirs \cup {p}
            /\ life' = [life EXCEPT ![p] = "open"] /\ ticking' = ticking \cup {p}
  BY DEF Create, Go, runners, locks
<1>6. /\ at' \in [Procs -> Places] /\ job' \in [Procs -> JobType] /\ mu' \in LockType
      /\ at'[x] \in {"idle", "save"} /\ Others(x) /\ WriterHasMu' /\ ReadersOfMu'
      /\ at'[x] = "idle" => job'[x] = NoJob /\ life' = life /\ ticking' = ticking
      /\ at'[x] = "save" => job'[x] = job[x] /\ dirs' = dirs \cup {p}
  <2>1. CASE Unlock(x)
    BY <1>1, <1>5, <2>1, Unlocked DEF Writes
  <2>2. CASE at' = [at EXCEPT ![x] = "save"] /\ UNCHANGED <<mu, job>>
    <3>1. at \in [Procs -> Places] /\ job \in [Procs -> JobType] /\ mu \in LockType
      BY DEF Inv, Typed, TypeOK
    <3>2. /\ at' \in [Procs -> Places] /\ at'[x] = "save" /\ Others(x)
      BY <3>1, <2>2 DEF Places, Others
    <3>3. WriterHasMu' /\ ReadersOfMu'
      BY <1>1, <2>2, <3>1, <3>2 DEF Inv, LockType, WriterHasMu, ReadersOfMu, Writes, Sends, Others
    <3>4. QED
      BY <1>5, <2>2, <3>1, <3>2, <3>3 DEF Unlock, Leave, Go
  <2>3. QED
    BY <1>5, <2>1, <2>2
<1>7. /\ life' \in [Profiles -> {"none", "open", "stopping"}]
      /\ \A q \in Profiles : q # p => life'[q] = life[q]
      /\ ticking' \subseteq ticking \cup {p} /\ dirs \subseteq dirs' /\ dirs' \subseteq Added
      /\ life'[p] # "none" \/ ticking' # ticking => p \in dirs'
  BY <1>2, <1>4, <1>5 DEF Inv, Typed, TypeOK
<1>8. Typed'
  BY <1>1, <1>2, <1>6, <1>7, Jobless DEF Inv, Typed, TypeOK, Others
<1>9. AllPlaced'
  BY <1>1, <1>2, <1>6, <1>7, Jobless DEF Inv, AllPlaced, Placed, Others, Sends, Closes, Routed
<1>10. ReadersOfTransfer' /\ WriterOfTransfer'
  BY <1>1, <1>6, TransferKept DEF Reads
<1>11. InUse'
  <2>1. /\ running' \subseteq dirs' /\ ticking' \subseteq dirs' \cup {Default}
        /\ \A q \in Profiles : life'[q] # "none" => q \in dirs' \cup {Default}
    BY <1>1, <1>5, <1>7 DEF Inv, InUse
  <2>2. ASSUME NEW y \in Procs, at'[y] \in {"clocks", "turns", "erase"}
        PROVE  /\ job'[y].p \notin ticking'
               /\ at'[y] = "erase" => job'[y].p \notin running' /\ life'[job'[y].p] = "none"
    <3>1. y # x /\ at'[y] = at[y] /\ job'[y] = job[y] /\ job[y].p # p /\ job[y].p \in Profiles
      BY <1>3, <1>6, <2>2, About DEF Others, Aside, Closes
    <3>2. QED
      BY <1>1, <1>7, <2>2, <3>1 DEF Inv, InUse
  <2>3. QED
    BY <2>1, <2>2 DEF InUse
<1>12. TaskStays'
  <2>1. ASSUME NEW y \in Procs, at'[y] \in {"number", "start"}, life'[job'[y].p] = "open"
        PROVE  home'[job'[y].k] = job'[y].p
    <3>1. y # x /\ at'[y] = at[y] /\ job'[y] = job[y] /\ job[y].p # p /\ job[y].p \in Profiles
      BY <1>3, <1>6, <2>1, About DEF Others, Aside, Sends
    <3>2. QED
      BY <1>1, <1>7, <2>1, <3>1 DEF Inv, TaskStays
  <2>2. QED
    BY <2>1 DEF TaskStays
<1>13. Fresh'
  <2> SUFFICES ASSUME NEW y \in Procs, Creating(y)'
               PROVE  /\ job'[y].p \notin dirs'
                      /\ \A z \in Procs : z # y /\ job'[z].p = job'[y].p =>
                            at'[z] \in Aside /\ job'[z].op # "create"
    BY DEF Fresh, Aside
  <2>1. y # x /\ Creating(y) /\ job'[y] = job[y] /\ job[y].p # p
    BY <1>1, <1>3, <1>6 DEF Creating, Others
  <2>2. /\ job[y].p \notin dirs
        /\ \A z \in Procs : z # y /\ job[z].p = job[y].p =>
              at[z] \in Aside /\ job[z].op # "create"
    BY <2>1 DEF Inv, Fresh, Aside
  <2>3. job[y].p # Nobody
    BY <2>1, About, ProfilesAssumption DEF Creating
  <2>4. QED
    BY <1>5, <1>6, <2>1, <2>2, <2>3, Jobless DEF Others
<1>14. Dead' /\ TurnHasItsProject'
  BY <1>1, <1>2, <1>4, <1>6, <1>7 DEF Inv, Dead, TurnHasItsProject, Others, Typed, TypeOK
<1>15. QED
  BY <1>6, <1>8, <1>9, <1>10, <1>11, <1>12, <1>13, <1>14 DEF Inv

LEMMA CreateSavesInv ==
    ASSUME Inv, NEW x \in Procs, CreateSaves(x)
    PROVE  Inv'
<1> DEFINE p == job[x].p
<1>1. /\ at[x] = "save" /\ mu.next = x /\ job[x].op = "create" /\ at[x] \in Writes
      /\ UNCHANGED <<dirs, home, queued, up, closed, life, ticking, turns, transfer, left>>
  BY DEF CreateSaves, runners, Inv, WriterHasMu, Writes
<1>2. p \in Added /\ p \in Profiles /\ p # Default /\ p \in dirs
  BY <1>1, About DEF Inv, Typed, Fits
<1>3. \A y \in Procs : y # x => at[y] \notin Writes
  BY <1>1, Alone
<1>4. \/ Unlock(x) /\ catalog' = catalog \cup {p} /\ running' = running \cup {p}
      \/ Go(x, "halt") /\ UNCHANGED <<catalog, running, mu, job>>
  BY DEF CreateSaves
<1>5. /\ at' \in [Procs -> Places] /\ job' \in [Procs -> JobType] /\ mu' \in LockType
      /\ at'[x] \in {"idle", "halt"} /\ Others(x) /\ WriterHasMu' /\ ReadersOfMu'
      /\ job'[x] \in {job[x], NoJob}
      /\ at'[x] = "idle" => job'[x] = NoJob
      /\ at'[x] = "halt" => job'[x] = job[x]
      /\ running' \in {running, running \cup {p}} /\ catalog' \subseteq catalog \cup {p}
  <2>1. CASE Unlock(x)
    BY <1>1, <1>4, <2>1, Unlocked
  <2>2. CASE Go(x, "halt") /\ UNCHANGED <<catalog, running, mu, job>>
    BY <1>1, <2>2, GoesOn DEF Places, Sends
  <2>3. QED
    BY <1>4, <2>1, <2>2
<1>6. Typed'
  BY <1>1, <1>2, <1>5, Jobless DEF Inv, Typed, TypeOK, Others
<1>7. AllPlaced'
  BY <1>1, <1>2, <1>5, Jobless DEF Inv, AllPlaced, Placed, Others, Sends, Closes, Routed
<1>8. ReadersOfTransfer' /\ WriterOfTransfer'
  BY <1>1, <1>5, TransferKept DEF Reads
<1>9. InUse'
  <2>1. ASSUME NEW y \in Procs, at'[y] \in {"clocks", "turns", "erase"}
        PROVE  y # x /\ at'[y] = at[y] /\ job'[y] = job[y] /\ at[y] # "erase"
    BY <1>3, <1>5, <2>1 DEF Others, Writes
  <2>2. QED
    BY <1>1, <1>2, <1>5, <2>1 DEF Inv, InUse
<1>10. TaskStays' /\ Dead' /\ TurnHasItsProject'
  BY <1>1, <1>5 DEF Inv, TaskStays, Dead, TurnHasItsProject, Others
<1>11. Fresh'
  BY <1>1, <1>2, <1>5, FreshKept DEF Aside
<1>12. QED
  BY <1>5, <1>6, <1>7, <1>8, <1>9, <1>10, <1>11 DEF Inv

LEMMA DeleteInv ==
    ASSUME Inv, NEW x \in Procs, Delete(x)
    PROVE  Inv'
<1> DEFINE p == job[x].p
<1>1. /\ at[x] = "await" /\ mu.next = x /\ job[x].op = "delete" /\ at[x] \in Writes
      /\ UNCHANGED <<dirs, home, queued, up, running, closed, life, ticking, turns, transfer,
                     left>>
  BY DEF Delete, Holds, Obtained, runners, Writes
<1>2. p \in Added /\ p \in Profiles /\ p # Default
  BY <1>1, About DEF Inv, Typed, Fits
<1>3. \/ Unlock(x) /\ catalog' = catalog
      \/ p \in running /\ Go(x, "halt") /\ catalog' = catalog \ {p} /\ UNCHANGED <<mu, job>>
  BY DEF Delete
<1>4. /\ at' \in [Procs -> Places] /\ job' \in [Procs -> JobType] /\ mu' \in LockType
      /\ at'[x] \in {"idle", "halt"} /\ Others(x) /\ WriterHasMu' /\ ReadersOfMu'
      /\ job'[x] \in {job[x], NoJob}
      /\ at'[x] = "idle" => job'[x] = NoJob
      /\ at'[x] = "halt" => job'[x] = job[x] /\ p \in dirs
      /\ catalog' \subseteq catalog
  <2>1. CASE Unlock(x)
    BY <1>1, <1>3, <2>1, Unlocked DEF Unlock, Leave, Go
  <2>2. CASE p \in running /\ Go(x, "halt") /\ catalog' = catalog \ {p} /\ UNCHANGED <<mu, job>>
    BY <1>1, <2>2, GoesOn DEF Places, Sends, Inv, InUse
  <2>3. QED
    BY <1>3, <2>1, <2>2
<1>5. Typed'
  BY <1>1, <1>2, <1>4, Jobless DEF Inv, Typed, TypeOK, Others
<1>6. AllPlaced'
  BY <1>1, <1>2, <1>4, Jobless DEF Inv, AllPlaced, Placed, Others, Sends, Closes, Routed
<1>7. ReadersOfTransfer' /\ WriterOfTransfer'
  BY <1>1, <1>4, TransferKept DEF Reads
<1>8. InUse' /\ TaskStays' /\ Dead' /\ TurnHasItsProject'
  BY <1>1, <1>4 DEF Inv, InUse, TaskStays, Dead, TurnHasItsProject, Others
<1>9. Fresh'
  <2>1. at'[x] = "halt" => p \in dirs
    BY <1>4
  <2>2. QED
    BY <1>1, <1>4, <2>1, FreshKept DEF Aside
<1>10. QED
  BY <1>4, <1>5, <1>6, <1>7, <1>8, <1>9 DEF Inv

\* Closing a profile, its writer has the manager's lock, unless the profile is
\* Default and nobody can tell.
LEMMA CloserHasMu ==
    ASSUME Inv, NEW x \in Procs, at[x] \in {"halt", "clocks"}
    PROVE  /\ mu.next = x /\ at[x] \in Writes
           /\ job[x].p \in Profiles /\ job[x].p \in dirs \cup {Default}
           /\ \A y \in Procs : y # x => at[y] # "erase"
BY About, Alone DEF Inv, WriterHasMu, Writes, Closes

LEMMA HaltInv ==
    ASSUME Inv, NEW x \in Procs, Halt(x)
    PROVE  Inv'
<1>1. /\ at[x] = "halt" /\ ticking' = ticking \ {job[x].p} /\ Go(x, "clocks")
      /\ UNCHANGED <<catalog, dirs, home, queued, up, running, closed, life, turns, mu,
                     transfer, job, left>>
  BY DEF Halt, disk, locks
<1>2. mu.next = x /\ at[x] \in Writes
  BY <1>1, CloserHasMu
<1>3. /\ at' \in [Procs -> Places] /\ at'[x] = "clocks" /\ Others(x)
      /\ WriterHasMu' /\ ReadersOfMu'
  BY <1>1, <1>2, GoesOn DEF Places, Sends
<1>4. Typed' /\ AllPlaced'
  BY <1>1, <1>3 DEF Inv, Typed, TypeOK, AllPlaced, Placed, Others, Sends, Closes, Routed
<1>5. ReadersOfTransfer' /\ WriterOfTransfer'
  BY <1>1, <1>3, TransferKept DEF Reads
<1>6. InUse' /\ TaskStays' /\ Dead' /\ TurnHasItsProject'
  BY <1>1, <1>3 DEF Inv, InUse, TaskStays, Dead, TurnHasItsProject, Others
<1>7. Fresh'
  BY <1>1, <1>3, FreshKept DEF Aside
<1>8. QED
  BY <1>3, <1>4, <1>5, <1>6, <1>7 DEF Inv

LEMMA StopTurnsInv ==
    ASSUME Inv, NEW x \in Procs, StopTurns(x)
    PROVE  Inv'
<1> DEFINE p == job[x].p
<1>1. /\ at[x] = "clocks" /\ life' = [life EXCEPT ![p] = "stopping"] /\ Go(x, "turns")
      /\ UNCHANGED <<catalog, dirs, home, queued, up, running, closed, ticking, turns, mu,
                     transfer, job, left>>
  BY DEF StopTurns, disk, locks
<1>2. /\ mu.next = x /\ at[x] \in Writes /\ p \in Profiles /\ p \in dirs \cup {Default}
      /\ \A y \in Procs : y # x => at[y] # "erase"
  BY <1>1, CloserHasMu
<1>3. /\ at' \in [Procs -> Places] /\ at'[x] = "turns" /\ Others(x)
      /\ WriterHasMu' /\ ReadersOfMu'
  BY <1>1, <1>2, GoesOn DEF Places, Sends
<1>4. /\ life' \in [Profiles -> {"none", "open", "stopping"}] /\ life'[p] = "stopping"
      /\ \A q \in Profiles : q # p => life'[q] = life[q]
  BY <1>1, <1>2 DEF Inv, Typed, TypeOK
<1>5. Typed' /\ AllPlaced'
  BY <1>1, <1>3, <1>4 DEF Inv, Typed, TypeOK, AllPlaced, Placed, Others, Sends, Closes, Routed
<1>6. ReadersOfTransfer' /\ WriterOfTransfer'
  BY <1>1, <1>3, TransferKept DEF Reads
<1>7. InUse' /\ Dead' /\ TurnHasItsProject'
  BY <1>1, <1>2, <1>3, <1>4 DEF Inv, InUse, Dead, TurnHasItsProject, Others
<1>8. TaskStays'
  <2>1. ASSUME NEW y \in Procs, at'[y] \in {"number", "start"}, life'[job[y].p] = "open"
        PROVE  home[job[y].k] = job[y].p
    <3>1. at[y] = at'[y] /\ job[y].p \in Profiles
      BY <1>3, <2>1, About DEF Others, Sends
    <3>2. QED
      BY <1>4, <2>1, <3>1 DEF Inv, TaskStays
  <2>2. QED
    BY <1>1, <2>1 DEF TaskStays
<1>9. Fresh'
  BY <1>1, <1>3, FreshKept DEF Aside
<1>10. QED
  BY <1>3, <1>5, <1>6, <1>7, <1>8, <1>9 DEF Inv

LEMMA CloseRuntimeInv ==
    ASSUME Inv, NEW x \in Procs, CloseRuntime(x)
    PROVE  Inv'
<1> DEFINE p == job[x].p
<1>1. /\ at[x] = "turns" /\ p # Default /\ turns[p] = {}
      /\ life' = [life EXCEPT ![p] = "none"] /\ running' = running \ {p}
      /\ \E w \in {"close", "erase"} : Go(x, w)
      /\ UNCHANGED <<catalog, dirs, home, queued, up, closed, ticking, turns, mu, transfer,
                     job, left>>
  BY DEF CloseRuntime, disk, locks
<1>2. mu.next = x /\ p \in Profiles /\ p \in dirs \cup {Default} /\ p \notin ticking
  BY <1>1, About DEF Inv, WriterHasMu, InUse, Closes
<1>3. /\ at' \in [Procs -> Places] /\ at'[x] \in {"close", "erase"} /\ Others(x)
      /\ WriterHasMu' /\ ReadersOfMu'
  BY <1>1, <1>2, GoesOn DEF Places, Sends
<1>4. /\ life' \in [Profiles -> {"none", "open", "stopping"}] /\ life'[p] = "none"
      /\ \A q \in Profiles : q # p => life'[q] = life[q]
  BY <1>1, <1>2 DEF Inv, Typed, TypeOK
<1>5. Typed' /\ AllPlaced'
  BY <1>1, <1>3, <1>4 DEF Inv, Typed, TypeOK, AllPlaced, Placed, Others, Sends, Closes, Routed
<1>6. ReadersOfTransfer' /\ WriterOfTransfer'
  BY <1>1, <1>3, TransferKept DEF Reads
<1>7. InUse'
  <2>1. /\ running' \subseteq dirs' /\ ticking' \subseteq dirs' \cup {Default}
        /\ \A q \in Profiles : life'[q] # "none" => q \in dirs' \cup {Default}
    BY <1>1, <1>2, <1>4 DEF Inv, InUse
  <2>2. ASSUME NEW y \in Procs, at'[y] \in {"clocks", "turns", "erase"}
        PROVE  /\ job[y].p \notin ticking
               /\ at'[y] = "erase" => job[y].p \notin running' /\ life'[job[y].p] = "none"
    <3>1. CASE y = x
      BY <1>1, <1>2, <1>4, <3>1
    <3>2. CASE y # x
      BY <1>2, <1>3, <2>2, <3>2, Alone DEF Inv, InUse, Others, Writes
    <3>3. QED
      BY <3>1, <3>2
  <2>3. QED
    BY <1>1, <2>1, <2>2 DEF InUse
<1>8. TaskStays'
  <2>1. ASSUME NEW y \in Procs, at'[y] \in {"number", "start"}, life'[job[y].p] = "open"
        PROVE  home[job[y].k] = job[y].p
    <3>1. at[y] = at'[y] /\ job[y].p \in Profiles
      BY <1>3, <2>1, About DEF Others, Sends
    <3>2. QED
      BY <1>4, <2>1, <3>1 DEF Inv, TaskStays
  <2>2. QED
    BY <1>1, <2>1 DEF TaskStays
<1>9. Fresh'
  BY <1>1, <1>3, FreshKept DEF Aside
<1>10. Dead' /\ TurnHasItsProject'
  BY <1>1, <1>2, <1>3, <1>4 DEF Inv, Dead, TurnHasItsProject, Others
<1>11. QED
  BY <1>3, <1>5, <1>6, <1>7, <1>8, <1>9, <1>10 DEF Inv

LEMMA EraseInv ==
    ASSUME Inv, NEW x \in Procs, Erase(x)
    PROVE  Inv'
<1> DEFINE p == job[x].p
<1>1. /\ at[x] = "erase" /\ mu.next = x /\ at[x] \in Writes /\ Unlock(x)
      /\ UNCHANGED <<catalog, up, running, closed, life, ticking, turns, transfer, left>>
  BY DEF Erase, runners, Inv, WriterHasMu, Writes
<1>2. /\ p \in Profiles /\ p \notin running /\ p \notin ticking /\ life[p] = "none"
  BY <1>1, About DEF Inv, InUse, Closes
<1>3. \A y \in Procs : y # x => at[y] \notin Writes /\ (at[y] = "turns" => job[y].p = Default)
  BY <1>1, Alone
<1>4. /\ home \in [Projects -> Profiles \cup {Nobody}]
      /\ dirs \ {p} \subseteq dirs' /\ dirs' \subseteq dirs /\ queued' \subseteq queued
      /\ home' \in [Projects -> Profiles \cup {Nobody}]
      /\ \A k \in Projects : home'[k] = home[k] \/ home[k] = p
  BY DEF Erase, Inv, Typed, TypeOK
<1>5. /\ at' \in [Procs -> Places] /\ job' \in [Procs -> JobType] /\ mu' \in LockType
      /\ at'[x] = "idle" /\ Others(x) /\ WriterHasMu' /\ ReadersOfMu' /\ job'[x] = NoJob
  BY <1>1, Unlocked
<1>6. Typed'
  BY <1>1, <1>4, <1>5, Jobless DEF Inv, Typed, TypeOK, Others
<1>7. AllPlaced'
  <2>1. ASSUME NEW y \in Procs, y # x, at[y] \in {"save"} \cup Closes
        PROVE  at[y] = "turns" /\ job[y].p = Default
    BY <1>3, <2>1 DEF Writes, Closes
  <2>2. ASSUME NEW y \in Procs, y # x
        PROVE  Placed(y)'
    BY <1>5, <2>1, <2>2 DEF Inv, AllPlaced, Placed, Others, Sends, Closes, Routed, Profiles
  <2>3. Placed(x)'
    BY <1>5, Jobless DEF Placed, Sends, Closes
  <2>4. QED
    BY <2>2, <2>3 DEF AllPlaced
<1>8. ReadersOfTransfer' /\ WriterOfTransfer'
  BY <1>1, <1>5, TransferKept DEF Reads
<1>9. InUse'
  BY <1>1, <1>2, <1>4, <1>5 DEF Inv, InUse, Others
<1>10. TaskStays'
  <2>1. ASSUME NEW y \in Procs, at'[y] \in {"number", "start"}, life'[job'[y].p] = "open"
        PROVE  home'[job'[y].k] = job'[y].p
    <3>1. /\ at'[y] = at[y] /\ job'[y] = job[y]
          /\ job[y].p \in Profiles /\ job[y].k \in Projects
      BY <1>5, <2>1, About DEF Others, Sends
    <3>2. home[job[y].k] = job[y].p /\ job[y].p # p
      BY <1>1, <1>2, <2>1, <3>1 DEF Inv, TaskStays
    <3>3. QED
      BY <1>4, <3>1, <3>2
  <2>2. QED
    BY <2>1 DEF TaskStays
<1>11. TurnHasItsProject'
  <2>1. ASSUME NEW q \in Profiles, NEW k \in turns[q]
        PROVE  /\ home'[k] = q /\ life[q] # "none" /\ q \in dirs' \cup {Default}
    <3>1. k \in Projects /\ home[k] = q /\ life[q] # "none" /\ q \in dirs \cup {Default}
      BY DEF Inv, Typed, TypeOK, TurnHasItsProject
    <3>2. q # p
      BY <1>2, <3>1
    <3>3. QED
      BY <1>4, <3>1, <3>2
  <2>2. QED
    BY <1>1, <2>1 DEF TurnHasItsProject
<1>12. Fresh' /\ Dead'
  BY <1>1, <1>4, <1>5, FreshKept DEF Aside, Inv, Dead, Others
<1>13. QED
  BY <1>5, <1>6, <1>7, <1>8, <1>9, <1>10, <1>11, <1>12 DEF Inv

LEMMA FindProfilesInv ==
    ASSUME Inv, NEW x \in Procs, FindProfiles(x)
    PROVE  Inv'
<1>1. /\ at[x] = "await" /\ mu.next = x /\ job[x].op = "move" /\ at[x] \in Writes
      /\ UNCHANGED <<catalog, dirs, home, queued, up, running, closed, life, ticking, turns,
                     transfer, left>>
  BY DEF FindProfiles, Holds, Obtained, disk, runners, Writes
<1>2. \/ Unlock(x)
      \/ job[x].p \in running \cup {Default} /\ Go(x, "quiet") /\ UNCHANGED <<mu, job>>
  BY DEF FindProfiles
<1>3. /\ at' \in [Procs -> Places] /\ job' \in [Procs -> JobType] /\ mu' \in LockType
      /\ at'[x] \in {"idle", "quiet"} /\ Others(x) /\ WriterHasMu' /\ ReadersOfMu'
      /\ job'[x] \in {job[x], NoJob}
      /\ at'[x] = "idle" => job'[x] = NoJob
      /\ at'[x] = "quiet" => job'[x] = job[x] /\ job[x].p \in dirs \cup {Default}
  <2>1. CASE Unlock(x)
    BY <1>1, <2>1, Unlocked DEF Unlock, Leave, Go
  <2>2. CASE job[x].p \in running \cup {Default} /\ Go(x, "quiet") /\ UNCHANGED <<mu, job>>
    BY <1>1, <2>2, GoesOn DEF Places, Sends, Inv, InUse
  <2>3. QED
    BY <1>2, <2>1, <2>2
<1>4. Typed'
  BY <1>1, <1>3, Jobless DEF Inv, Typed, TypeOK, Others
<1>5. AllPlaced'
  BY <1>1, <1>3, Jobless DEF Inv, AllPlaced, Placed, Others, Sends, Closes, Routed
<1>6. ReadersOfTransfer' /\ WriterOfTransfer'
  BY <1>1, <1>3, TransferKept DEF Reads
<1>7. InUse' /\ TaskStays' /\ Dead' /\ TurnHasItsProject'
  BY <1>1, <1>3 DEF Inv, InUse, TaskStays, Dead, TurnHasItsProject, Others
<1>8. Fresh'
  BY <1>1, <1>3, FreshKept DEF Aside
<1>9. QED
  BY <1>3, <1>4, <1>5, <1>6, <1>7, <1>8 DEF Inv

LEMMA QuietInv ==
    ASSUME Inv, NEW x \in Procs, Quiet(x)
    PROVE  Inv'
<1> DEFINE p == job[x].p
<1>1. /\ at[x] = "quiet" /\ Go(x, "move") /\ transfer[p].next = Nobody
      /\ transfer' = [transfer EXCEPT ![p] = Ask(transfer[p], x)]
      /\ UNCHANGED <<catalog, dirs, home, queued, up, running, closed, life, ticking, turns,
                     mu, job, left>>
  BY DEF Quiet, Readable, disk, runners
<1>2. p \in Profiles /\ mu.next = x /\ at[x] \in Writes /\ transfer \in [Profiles -> LockType]
  BY <1>1, About DEF Inv, Typed, TypeOK, WriterHasMu, Writes
<1>3. /\ at' \in [Procs -> Places] /\ at'[x] = "move" /\ Others(x)
      /\ WriterHasMu' /\ ReadersOfMu'
  BY <1>1, <1>2, GoesOn DEF Places, Sends
<1>4. /\ transfer' \in [Profiles -> LockType]
      /\ \A q \in Profiles : /\ transfer'[q].readers = transfer[q].readers
                             /\ q # p => transfer'[q].next = transfer[q].next
      /\ transfer'[p].next = x
  <2>1. transfer[p] \in LockType
    BY <1>2
  <2>2. /\ Ask(transfer[p], x) \in LockType
        /\ Ask(transfer[p], x).readers = transfer[p].readers /\ Ask(transfer[p], x).next = x
    BY <2>1, Locks
  <2>3. QED
    BY <1>1, <1>2, <2>2
<1>5. Typed' /\ AllPlaced'
  BY <1>1, <1>3, <1>4 DEF Inv, Typed, TypeOK, AllPlaced, Placed, Others, Sends, Closes, Routed
<1>6. ReadersOfTransfer'
  <2>1. ASSUME NEW y \in Procs, at'[y] \in Reads
        PROVE  y \in transfer'[job[y].p].readers
    <3>1. at[y] \in Reads /\ job[y].p \in Profiles
      BY <1>3, <2>1, About DEF Others, Reads, Sends
    <3>2. QED
      BY <1>4, <3>1 DEF Inv, ReadersOfTransfer
  <2>2. \A q \in Profiles : \A y \in transfer[q].readers : y \in Procs /\ y # x
    BY <1>1, <1>2 DEF Inv, LockType, ReadersOfTransfer, Reads
  <2>3. QED
    BY <1>1, <1>3, <1>4, <2>1, <2>2 DEF Inv, ReadersOfTransfer, Others
<1>7. WriterOfTransfer'
  <2>1. \A q \in Profiles : transfer[q].next \in Procs \cup {Nobody}
    BY <1>2 DEF LockType
  <2>2. QED
    BY <1>1, <1>2, <1>3, <1>4, <2>1 DEF Inv, WriterOfTransfer, Others
<1>8. InUse' /\ TaskStays' /\ Dead' /\ TurnHasItsProject'
  BY <1>1, <1>3 DEF Inv, InUse, TaskStays, Dead, TurnHasItsProject, Others
<1>9. Fresh'
  BY <1>1, <1>3, FreshKept DEF Aside
<1>10. QED
  BY <1>3, <1>5, <1>6, <1>7, <1>8, <1>9 DEF Inv

LEMMA MoveInv ==
    ASSUME Inv, NEW x \in Procs, Move(x)
    PROVE  Inv'
<1> DEFINE p == job[x].p
           k == job[x].k
<1>1. /\ at[x] = "move" /\ Unlock(x)
      /\ transfer[p].next = x /\ transfer[p].readers = {}
      /\ transfer' = [transfer EXCEPT ![p] = Ask(transfer[p], Nobody)]
      /\ UNCHANGED <<catalog, dirs, queued, up, running, closed, life, ticking, turns, left>>
  BY DEF Move, Obtained, runners
<1>2. /\ p \in Profiles /\ k \in Projects /\ job[x].to \in Profiles
      /\ mu.next = x /\ at[x] \in Writes
      /\ transfer \in [Profiles -> LockType] /\ home \in [Projects -> Profiles \cup {Nobody}]
  BY <1>1, About DEF Inv, Typed, TypeOK, WriterHasMu, Writes
<1>3. \/ home' = home
      \/ home' = [home EXCEPT ![k] = job[x].to] /\ home[k] = p /\ k \notin turns[p]
  BY DEF Move, Movable
<1>4. /\ at' \in [Procs -> Places] /\ job' \in [Procs -> JobType] /\ mu' \in LockType
      /\ at'[x] = "idle" /\ job'[x] = NoJob /\ Others(x)
      /\ WriterHasMu' /\ ReadersOfMu'
  BY <1>1, <1>2, Unlocked
<1>5. /\ transfer' \in [Profiles -> LockType]
      /\ \A q \in Profiles : /\ transfer'[q].readers = transfer[q].readers
                             /\ q # p => transfer'[q].next = transfer[q].next
      /\ transfer'[p].next = Nobody
  <2>1. /\ Ask(transfer[p], Nobody) \in LockType
        /\ Ask(transfer[p], Nobody).readers = transfer[p].readers
        /\ Ask(transfer[p], Nobody).next = Nobody
    BY <1>2, Locks
  <2>2. QED
    BY <1>1, <1>2, <2>1
<1>6. Typed'
  <2>1. home' \in [Projects -> Profiles \cup {Nobody}]
    BY <1>2, <1>3
  <2>2. QED
    BY <1>1, <1>4, <1>5, <2>1, Jobless DEF Inv, Typed, TypeOK, Others
<1>7. AllPlaced'
  BY <1>1, <1>4, Jobless DEF Inv, AllPlaced, Placed, Others, Sends, Closes, Routed
<1>8. ReadersOfTransfer'
  <2>1. ASSUME NEW y \in Procs, at'[y] \in Reads
        PROVE  y \in transfer'[job'[y].p].readers
    <3>1. at[y] \in Reads /\ job'[y] = job[y] /\ job[y].p \in Profiles
      BY <1>4, <2>1, About DEF Others, Reads, Sends
    <3>2. QED
      BY <1>5, <3>1 DEF Inv, ReadersOfTransfer
  <2>2. \A q \in Profiles : \A y \in transfer[q].readers : y \in Procs /\ y # x
    BY <1>1, <1>2 DEF Inv, LockType, ReadersOfTransfer, Reads
  <2>3. QED
    BY <1>1, <1>4, <1>5, <2>1, <2>2 DEF Inv, ReadersOfTransfer, Others
<1>9. WriterOfTransfer'
  <2>1. \A q \in Profiles : transfer[q].next \in Procs \cup {Nobody}
    BY <1>2 DEF LockType
  <2>2. QED
    BY <1>1, <1>2, <1>4, <1>5, <2>1, ProfilesAssumption DEF Inv, WriterOfTransfer, Others
<1>10. TaskStays'
  <2>1. ASSUME NEW y \in Procs, at'[y] \in {"number", "start"}, life'[job'[y].p] = "open"
        PROVE  home'[job'[y].k] = job'[y].p
    <3>1. /\ at'[y] = at[y] /\ job'[y] = job[y] /\ job[y].p \in Profiles
          /\ job[y].k \in Projects
      BY <1>4, <2>1, About DEF Others, Sends
    <3>2. y \in transfer[job[y].p].readers /\ home[job[y].k] = job[y].p
      BY <1>1, <2>1, <3>1 DEF Inv, ReadersOfTransfer, Reads, TaskStays
    <3>3. job[y].p # p
      BY <1>1, <3>2
    <3>4. QED
      BY <1>2, <1>3, <3>1, <3>2, <3>3
  <2>2. QED
    BY <2>1 DEF TaskStays
<1>11. TurnHasItsProject'
  <2>1. ASSUME NEW q \in Profiles, NEW m \in turns[q]
        PROVE  home'[m] = q
    <3>1. m \in Projects /\ home[m] = q
      BY DEF Inv, Typed, TypeOK, TurnHasItsProject
    <3>2. m = k /\ home[k] = p => m \in turns[p]
      BY <3>1
    <3>3. QED
      BY <1>2, <1>3, <3>1, <3>2
  <2>2. QED
    BY <1>1, <2>1 DEF Inv, TurnHasItsProject
<1>12. InUse' /\ Dead'
  BY <1>1, <1>4 DEF Inv, InUse, Dead, Others
<1>13. Fresh'
  BY <1>1, <1>4, FreshKept DEF Aside
<1>14. QED
  BY <1>4, <1>6, <1>7, <1>8, <1>9, <1>10, <1>11, <1>12, <1>13 DEF Inv

LEMMA CloseProfilesInv ==
    ASSUME Inv, CloseProfiles
    PROVE  Inv'
<1>1. /\ at[Main] \in {"await", "close"} /\ at[Main] \in Writes /\ Main \in Procs
      /\ UNCHANGED <<catalog, dirs, home, queued, up, running, turns, transfer, left>>
      /\ closed' = TRUE
  BY DEF CloseProfiles, Holds, disk, Procs, Writes
<1>2. mu.next = Main /\ Main # Nobody
  BY <1>1, ProfilesAssumption DEF Inv, WriterHasMu
<1>3. /\ at \in [Procs -> Places] /\ job \in [Procs -> JobType] /\ mu \in LockType
      /\ life \in [Profiles -> {"none", "open", "stopping"}]
  BY DEF Inv, Typed, TypeOK
<1>4. PICK p \in Profiles :
        /\ job' = [job EXCEPT ![Main] = Job("exit", p, Nobody, Nobody)]
        /\ \/ /\ p = Default /\ mu' = Ask(mu, Nobody) /\ at' = [at EXCEPT ![Main] = "turns"]
              /\ life' = [life EXCEPT ![Default] = "stopping"]
              /\ ticking' = ticking \ {Default}
           \/ /\ p \in running /\ at' = [at EXCEPT ![Main] = "halt"]
              /\ UNCHANGED <<mu, life, ticking>>
  <2>1. running \subseteq Profiles /\ Default \in Profiles
    BY DEF Inv, Typed, TypeOK, Profiles
  <2>2. QED
    BY <2>1 DEF CloseProfiles, Go
<1>5. LET j == Job("exit", p, Nobody, Nobody)
      IN  j \in JobType /\ Fits(j) /\ j.op = "exit" /\ j.p = p
  BY ExitFits
<1>6. /\ at' \in [Procs -> Places] /\ job' \in [Procs -> JobType] /\ Others(Main)
      /\ at'[Main] \in {"halt", "turns"}
      /\ job'[Main].op = "exit" /\ job'[Main].p = p /\ Fits(job'[Main])
      /\ p \in dirs \cup {Default}
      /\ at'[Main] = "turns" => p = Default
      /\ life' \in [Profiles -> {"none", "open", "stopping"}] /\ ticking' \subseteq ticking
      /\ \A q \in Profiles : q # Default => life'[q] = life[q]
      /\ life'[Default] = life[Default] \/ life'[Default] = "stopping"
      /\ at'[Main] = "turns" => Default \notin ticking'
  BY <1>1, <1>3, <1>4, <1>5 DEF Others, Places, Inv, InUse
<1>7. /\ mu' \in LockType /\ mu'.readers = mu.readers
      /\ at'[Main] = "halt" => mu'.next = Main
  BY <1>1, <1>2, <1>3, <1>4, Locks
<1>8. \A y \in Procs : y # Main =>
         at[y] \notin Writes /\ (at[y] = "turns" => job[y].p = Default)
  BY <1>1, <1>2, Alone
<1>9. Typed'
  BY <1>1, <1>3, <1>6, <1>7 DEF Inv, Typed, TypeOK, Others
<1>10. AllPlaced'
  BY <1>1, <1>6 DEF Inv, AllPlaced, Placed, Others, Sends, Closes, Routed
<1>11. WriterHasMu'
  BY <1>6, <1>7, <1>8 DEF WriterHasMu, Others, Writes
<1>12. ReadersOfMu'
  <2>1. Main \notin mu.readers
    BY <1>1 DEF Inv, ReadersOfMu, Sends
  <2>2. QED
    BY <1>3, <1>6, <1>7, <2>1 DEF Inv, LockType, ReadersOfMu, Others
<1>13. ReadersOfTransfer' /\ WriterOfTransfer'
  BY <1>1, <1>6, TransferKept DEF Reads
<1>14. InUse'
  <2>1. ASSUME NEW y \in Procs, at'[y] \in {"clocks", "turns", "erase"}
        PROVE  job'[y].p \notin ticking' /\ at'[y] # "erase"
    <3>1. CASE y = Main
      BY <1>6, <2>1, <3>1
    <3>2. CASE y # Main
      BY <1>6, <1>8, <2>1, <3>2 DEF Inv, InUse, Others, Writes
    <3>3. QED
      BY <3>1, <3>2
  <2>2. QED
    BY <1>1, <1>6, <2>1 DEF Inv, InUse
<1>15. TaskStays'
  <2>1. ASSUME NEW y \in Procs, at'[y] \in {"number", "start"}, life'[job'[y].p] = "open"
        PROVE  home'[job'[y].k] = job'[y].p
    <3>1. at'[y] = at[y] /\ job'[y] = job[y] /\ job[y].p \in Profiles
      BY <1>6, <2>1, About DEF Others, Sends
    <3>2. life[job[y].p] = "open"
      BY <1>6, <2>1, <3>1
    <3>3. QED
      BY <1>1, <2>1, <3>1, <3>2 DEF Inv, TaskStays
  <2>2. QED
    BY <2>1 DEF TaskStays
<1>16. Fresh'
  <2> SUFFICES ASSUME NEW y \in Procs, Creating(y)'
               PROVE  /\ job'[y].p \notin dirs'
                      /\ \A z \in Procs : z # y /\ job'[z].p = job'[y].p =>
                            at'[z] \in Aside /\ job'[z].op # "create"
    BY DEF Fresh, Aside
  <2>1. y # Main /\ Creating(y) /\ job'[y] = job[y]
    BY <1>6 DEF Creating, Others
  <2>2. /\ job[y].p \notin dirs /\ job[y].p # Default
        /\ \A z \in Procs : z # y /\ job[z].p = job[y].p =>
              at[z] \in Aside /\ job[z].op # "create"
    BY <2>1, About DEF Inv, Fresh, Aside, Creating
  <2>3. QED
    BY <1>1, <1>6, <2>1, <2>2 DEF Others
<1>17. Dead'
  BY <1>1 DEF Inv, Dead
<1>18. TurnHasItsProject'
  BY <1>1, <1>6 DEF Inv, TurnHasItsProject, Typed, TypeOK
<1>19. QED
  BY <1>9, <1>10, <1>11, <1>12, <1>13, <1>14, <1>15, <1>16, <1>17, <1>18 DEF Inv

LEMMA ShutdownInv ==
    ASSUME Inv, Shutdown
    PROVE  Inv'
<1>1. /\ Main \in Procs /\ at[Main] = "idle" /\ up /\ at \in [Procs -> Places]
      /\ at' = [at EXCEPT ![Main] = "lock"]
      /\ UNCHANGED <<catalog, dirs, home, queued, up, running, closed, life, ticking, turns,
                     mu, transfer, job, left>>
  BY DEF Shutdown, Go, Procs, Inv, Typed, TypeOK, disk, runners, locks
<1>2. at' \in [Procs -> Places] /\ at'[Main] = "lock" /\ Others(Main)
  BY <1>1 DEF Others, Places
<1>3. job[Main].op = "none"
  BY <1>1 DEF Inv, AllPlaced, Placed
<1>4. Typed' /\ AllPlaced'
  BY <1>1, <1>2 DEF Inv, Typed, TypeOK, AllPlaced, Placed, Others, Sends, Closes, Routed
<1>5. WriterHasMu' /\ ReadersOfMu'
  BY <1>1, <1>2 DEF Inv, Typed, TypeOK, LockType, WriterHasMu, ReadersOfMu, Writes, Sends, Others
<1>6. ReadersOfTransfer' /\ WriterOfTransfer'
  BY <1>1, <1>2, TransferKept DEF Reads
<1>7. InUse' /\ TaskStays' /\ Dead' /\ TurnHasItsProject'
  BY <1>1, <1>2 DEF Inv, InUse, TaskStays, Dead, TurnHasItsProject, Others
<1>8. Fresh'
  BY <1>1, <1>2, <1>3, FreshKept DEF Aside
<1>9. QED
  BY <1>4, <1>5, <1>6, <1>7, <1>8 DEF Inv

LEMMA TickInv ==
    ASSUME Inv, NEW p \in Profiles, Tick(p)
    PROVE  Inv'
<1> DEFINE x == Clock(p)
<1>1. /\ at[x] = "idle" /\ p \in ticking /\ left' \in [{"request", "tick", "crash"} -> Nat]
      /\ UNCHANGED <<catalog, dirs, home, up, running, closed, life, ticking, turns, mu,
                     transfer>>
  BY DEF Tick, Spend, Inv, Typed, TypeOK, runners, locks
<1>2. PICK k \in Projects :
        /\ queued' \in {queued, queued \cup {k}}
        /\ job' = [job EXCEPT ![x] = Job("own", p, k, Nobody)]
  BY DEF Tick
<1>3. /\ x \in Procs /\ at \in [Procs -> Places] /\ job \in [Procs -> JobType]
      /\ at' = [at EXCEPT ![x] = "enter"]
  BY DEF Procs, Inv, Typed, TypeOK, Tick, Go
<1>4. LET j == Job("own", p, k, Nobody)
      IN  j \in JobType /\ Fits(j) /\ j.op = "own" /\ j.p = p
  BY DEF Job, JobType, Fits, Ops
<1>5. /\ at' \in [Procs -> Places] /\ job' \in [Procs -> JobType] /\ Others(x)
      /\ at'[x] = "enter" /\ job'[x].op = "own" /\ job'[x].p = p /\ Fits(job'[x])
  BY <1>2, <1>3, <1>4 DEF Others, Places
<1>6. up
  BY <1>1 DEF Inv, Dead
<1>7. Typed'
  BY <1>1, <1>2, <1>5 DEF Inv, Typed, TypeOK, Others
<1>8. AllPlaced'
  BY <1>1, <1>5 DEF Inv, AllPlaced, Placed, Others, Sends, Closes, Routed
<1>9. WriterHasMu' /\ ReadersOfMu'
  BY <1>1, <1>3, <1>5 DEF Inv, Typed, TypeOK, LockType, WriterHasMu, ReadersOfMu, Writes,
     Sends, Others
<1>10. ReadersOfTransfer' /\ WriterOfTransfer'
  BY <1>1, <1>3, <1>5, TransferKept DEF Reads
<1>11. InUse' /\ TaskStays' /\ TurnHasItsProject' /\ Dead'
  BY <1>1, <1>5, <1>6 DEF Inv, InUse, TaskStays, TurnHasItsProject, Others, Dead
<1>12. Fresh'
  <2> SUFFICES ASSUME NEW y \in Procs, Creating(y)'
               PROVE  /\ job'[y].p \notin dirs'
                      /\ \A z \in Procs : z # y /\ job'[z].p = job'[y].p =>
                            at'[z] \in Aside /\ job'[z].op # "create"
    BY DEF Fresh, Aside
  <2>1. y # x /\ Creating(y) /\ job'[y] = job[y]
    BY <1>5 DEF Creating, Others
  <2>2. /\ job[y].p \notin dirs /\ job[y].p # Default
        /\ \A z \in Procs : z # y /\ job[z].p = job[y].p =>
              at[z] \in Aside /\ job[z].op # "create"
    BY <2>1, About DEF Inv, Fresh, Aside, Creating
  <2>3. p # job[y].p
    BY <1>1, <2>2 DEF Inv, InUse
  <2>4. QED
    BY <1>1, <1>5, <2>1, <2>2, <2>3 DEF Others
<1>13. QED
  BY <1>7, <1>8, <1>9, <1>10, <1>11, <1>12 DEF Inv

LEMMA EndTurnInv ==
    ASSUME Inv, NEW p \in Profiles, NEW k \in Projects, EndTurn(p, k)
    PROVE  Inv'
<1>1. /\ turns' = [turns EXCEPT ![p] = @ \ {k}]
      /\ UNCHANGED <<catalog, dirs, home, queued, up, running, closed, life, ticking, mu,
                     transfer, at, job, left>>
  BY DEF EndTurn, disk, locks
<1>2. /\ turns' \in [Profiles -> SUBSET Projects]
      /\ \A q \in Profiles : turns'[q] \subseteq turns[q]
  BY <1>1 DEF Inv, Typed, TypeOK
<1>3. Typed' /\ AllPlaced'
  BY <1>1, <1>2 DEF Inv, Typed, TypeOK, AllPlaced, Placed
<1>4. WriterHasMu' /\ ReadersOfMu' /\ ReadersOfTransfer' /\ WriterOfTransfer'
  BY <1>1 DEF Inv, WriterHasMu, ReadersOfMu, ReadersOfTransfer, WriterOfTransfer
<1>5. InUse' /\ TaskStays' /\ Fresh' /\ Dead' /\ TurnHasItsProject'
  BY <1>1, <1>2 DEF Inv, InUse, TaskStays, Fresh, Creating, Dead, TurnHasItsProject
<1>6. QED
  BY <1>3, <1>4, <1>5 DEF Inv

LEMMA BootInv ==
    ASSUME Inv, Boot
    PROVE  Inv'
<1>1. /\ \A p \in Profiles : turns[p] = {}
      /\ \A x \in Procs : at[x] = "idle"
  BY DEF Inv, Dead, Boot
<1>2. /\ up' = TRUE /\ running' = catalog /\ closed' = FALSE
      /\ life' = [p \in Profiles |-> IF p \in catalog \cup {Default} THEN "open" ELSE "none"]
      /\ ticking' = catalog \cup {Default} /\ dirs' = dirs \cup catalog
      /\ UNCHANGED <<catalog, home, queued, turns, mu, transfer, at, job, left>>
  BY DEF Boot, Start, locks
<1>3. /\ life' \in [Profiles -> {"none", "open", "stopping"}]
      /\ \A p \in Profiles : life'[p] # "none" => p \in catalog \cup {Default}
  BY <1>2
<1>4. Typed'
  <2>1. catalog \subseteq Added /\ dirs' \subseteq Added /\ ticking' \subseteq Profiles
    BY <1>2 DEF Inv, Typed, TypeOK, Profiles
  <2>2. QED
    BY <1>2, <1>3, <2>1 DEF Inv, Typed, TypeOK
<1>5. AllPlaced'
  BY <1>1, <1>2 DEF Inv, AllPlaced, Placed, Sends, Closes
<1>6. WriterHasMu' /\ ReadersOfMu' /\ ReadersOfTransfer' /\ WriterOfTransfer'
  BY <1>2 DEF Inv, WriterHasMu, ReadersOfMu, ReadersOfTransfer, WriterOfTransfer
<1>7. InUse' /\ Fresh' /\ TaskStays' /\ Dead' /\ TurnHasItsProject'
  BY <1>1, <1>2, <1>3 DEF InUse, Fresh, Creating, TaskStays, Dead, TurnHasItsProject
<1>8. QED
  BY <1>4, <1>5, <1>6, <1>7 DEF Inv

LEMMA VanishInv ==
    ASSUME Inv, Vanish, left' \in [{"request", "tick", "crash"} -> Nat]
    PROVE  Inv'
<1>1. /\ up' = FALSE /\ running' = {} /\ closed' = FALSE /\ ticking' = {}
      /\ life' = [p \in Profiles |-> "none"] /\ turns' = [p \in Profiles |-> {}]
      /\ mu' = Free /\ transfer' = [p \in Profiles |-> Free]
      /\ at' = [x \in Procs |-> "idle"] /\ job' = [x \in Procs |-> NoJob]
      /\ UNCHANGED <<catalog, dirs, home, queued>>
  BY DEF Vanish, disk
<1>2. Free \in LockType /\ Free.readers = {} /\ Free.next = Nobody
  BY DEF Free, LockType
<1>3. /\ \A x \in Procs : at'[x] = "idle" /\ job'[x] = NoJob
      /\ \A p \in Profiles : transfer'[p] = Free /\ turns'[p] = {} /\ life'[p] = "none"
  BY <1>1
<1>4. Typed'
  <2>1. at' \in [Procs -> Places] /\ job' \in [Procs -> JobType]
    BY <1>1, Jobless DEF Places
  <2>2. /\ transfer' \in [Profiles -> LockType] /\ turns' \in [Profiles -> SUBSET Projects]
        /\ life' \in [Profiles -> {"none", "open", "stopping"}] /\ mu' \in LockType
    BY <1>1, <1>2
  <2>3. QED
    BY <1>1, <1>3, <2>1, <2>2, Jobless DEF Inv, Typed, TypeOK
<1>5. AllPlaced'
  BY <1>3, Jobless DEF AllPlaced, Placed, Sends, Closes
<1>6. WriterHasMu' /\ ReadersOfMu'
  BY <1>1, <1>2, <1>3 DEF WriterHasMu, ReadersOfMu, Writes
<1>7. ReadersOfTransfer' /\ WriterOfTransfer'
  BY <1>2, <1>3 DEF ReadersOfTransfer, WriterOfTransfer, Reads
<1>8. InUse' /\ Fresh' /\ TaskStays' /\ Dead' /\ TurnHasItsProject'
  BY <1>1, <1>3 DEF InUse, Fresh, Creating, TaskStays, Dead, TurnHasItsProject
<1>9. QED
  BY <1>4, <1>5, <1>6, <1>7, <1>8 DEF Inv

\* Nothing has begun.
LEMMA InitInv == Init => Inv
<1> SUFFICES ASSUME Init PROVE Inv
  OBVIOUS
<1>1. Free \in LockType /\ Free.readers = {} /\ Free.next = Nobody
  BY DEF Free, LockType
<1>2. /\ \A x \in Procs : at[x] = "idle" /\ job[x] = NoJob
      /\ \A p \in Profiles : transfer[p] = Free /\ turns[p] = {} /\ life[p] = "none"
  BY DEF Init
<1>3. Typed
  <2>1. at \in [Procs -> Places] /\ job \in [Procs -> JobType]
    BY Jobless DEF Init, Places
  <2>2. /\ transfer \in [Profiles -> LockType] /\ turns \in [Profiles -> SUBSET Projects]
        /\ life \in [Profiles -> {"none", "open", "stopping"}] /\ mu \in LockType
    BY <1>1 DEF Init
  <2>3. /\ catalog \subseteq Added /\ home \in [Projects -> Profiles \cup {Nobody}]
        /\ left \in [{"request", "tick", "crash"} -> Nat]
    BY ProfilesAssumption DEF Init, Profiles
  <2>4. QED
    BY <1>2, <2>1, <2>2, <2>3, Jobless DEF Init, Typed, TypeOK
<1>4. AllPlaced
  BY <1>2, Jobless DEF AllPlaced, Placed, Sends, Closes
<1>5. WriterHasMu /\ ReadersOfMu /\ ReadersOfTransfer /\ WriterOfTransfer
  BY <1>1, <1>2 DEF Init, WriterHasMu, ReadersOfMu, ReadersOfTransfer, WriterOfTransfer, Writes,
     Reads
<1>6. InUse /\ Fresh /\ TaskStays /\ Dead /\ TurnHasItsProject
  BY <1>2 DEF Init, InUse, Fresh, Creating, TaskStays, Dead, TurnHasItsProject
<1>7. QED
  BY <1>3, <1>4, <1>5, <1>6 DEF Inv

LEMMA StepInv == Inv /\ [Next]_vars => Inv'
<1> SUFFICES ASSUME Inv, [Next]_vars PROVE Inv'
  OBVIOUS
<1>1. CASE UNCHANGED vars
  BY <1>1 DEF vars, disk, runners, locks, Inv, Typed, TypeOK, AllPlaced, Placed, WriterHasMu,
     ReadersOfMu, ReadersOfTransfer, WriterOfTransfer, InUse, Fresh, Creating, TaskStays, Dead,
     TurnHasItsProject
<1>2. CASE Boot
  BY <1>2, BootInv
<1>3. CASE Crash
  BY <1>3, VanishInv DEF Crash, Spend, Inv, Typed, TypeOK
<1>4. CASE Exit
  BY <1>4, VanishInv DEF Exit, Inv, Typed, TypeOK
<1>5. CASE Shutdown \/ CloseProfiles
  BY <1>5, ShutdownInv, CloseProfilesInv
<1>6. ASSUME NEW x \in Callers, Arrive(x) \/ Routing(x)
      PROVE  Inv'
  BY <1>6, ArriveInv, RouteProfileInv, ServedInv DEF Routing
<1>7. ASSUME NEW x \in Procs, Sending(x) \/ Lock(x)
      PROVE  Inv'
  BY <1>7, EnterInv, ReadTaskInv, NumberInv, StartTurnInv, LockInv DEF Sending
<1>8. ASSUME NEW x \in Procs, Changing(x)
      PROVE  Inv'
  BY <1>8, GlanceInv, CreateInv, CreateSavesInv, DeleteInv, EraseInv, FindProfilesInv, QuietInv,
     MoveInv DEF Changing
<1>9. ASSUME NEW x \in Procs, Closing(x)
      PROVE  Inv'
  BY <1>9, HaltInv, StopTurnsInv, CloseRuntimeInv DEF Closing
<1>10. ASSUME NEW p \in Profiles, Tick(p) \/ \E k \in Projects : EndTurn(p, k)
       PROVE  Inv'
  BY <1>10, TickInv, EndTurnInv
<1>11. QED
  BY <1>1, <1>2, <1>3, <1>4, <1>5, <1>6, <1>7, <1>8, <1>9, <1>10 DEF Next

LEMMA Invariance == Spec => []Inv
<1>1. Init => Inv
  BY InitInv
<1>2. Inv /\ [Next]_vars => Inv'
  BY StepInv
<1>3. QED
  BY <1>1, <1>2, PTL DEF Spec

\* The types of all variables, whatever happens to the profiles.
THEOREM TypeCorrect == Spec => []TypeOK
<1>1. Inv => TypeOK
  BY DEF Inv, Typed
<1>2. QED
  BY <1>1, Invariance, PTL

\* No move, no removal and no end of the program takes a task, a store or a
\* directory from under a turn (moveProjectProfile, deleteProfile, send).
THEOREM TurnsKeepTheirProject == Spec => []TurnHasItsProject
<1>1. Inv => TurnHasItsProject
  BY DEF Inv
<1>2. QED
  BY <1>1, Invariance, PTL

\* A set of processes each of which waits for another one of them: whoever has
\* the manager's lock is not among them, so nobody who waits for it or works
\* under it is, and then no move has a transfer lock.
LEMMA NoCircle == Inv => NoOtherCircle
<1> SUFFICES ASSUME Inv, NEW S \in SUBSET Procs, S # {}, Stuck(S),
                    \A x \in S : ~Numbering(x)
             PROVE  FALSE
  BY DEF NoOtherCircle
<1>1. ASSUME NEW x \in S PROVE at[x] # "number"
  BY DEF Inv, AllPlaced, Placed, Numbering
<1>2. ASSUME NEW x \in S, NEW y \in S, x # y, at[x] \in {"enter", "quiet"},
             transfer[job[x].p].next = y
      PROVE  at[y] = "move" /\ mu.next = y
  <2>1. job[x].p \in Profiles /\ y # Nobody
    BY <1>2, About, ProfilesAssumption DEF Sends
  <2>2. QED
    BY <1>2, <2>1 DEF Inv, WriterOfTransfer, WriterHasMu, Writes
<1>3. ASSUME NEW h \in S, mu.next = h, at[h] \in Writes
      PROVE  FALSE
  <2>1. PICK y \in S : WaitsFor(h, y)
    BY DEF Stuck
  <2>2. at[h] \in {"await", "quiet", "move", "clocks"}
    BY <1>3, <2>1 DEF WaitsFor, Writes
  <2>3. at[y] \in Sends \cup {"serve"}
    <3>1. CASE at[h] = "await"
      BY <2>1, <3>1 DEF WaitsFor, Inv, ReadersOfMu
    <3>2. CASE at[h] = "quiet"
      BY <1>2, <1>3, <2>1, <3>2 DEF WaitsFor
    <3>3. CASE at[h] = "move"
      BY <2>1, <3>3, About DEF WaitsFor, Inv, ReadersOfTransfer, Reads, Sends
    <3>4. CASE at[h] = "clocks"
      <4>1. y = Clock(job[h].p) /\ at[y] # "idle"
        BY <2>1, <3>4 DEF WaitsFor
      <4>2. y \notin Callers \cup {Main}
        BY <4>1 DEF Clock, Callers, Request, Main
      <4>3. QED
        BY <4>1, <4>2 DEF Inv, AllPlaced, Placed
    <3>5. QED
      BY <2>2, <3>1, <3>2, <3>3, <3>4
  <2>4. PICK z \in S : WaitsFor(y, z)
    BY DEF Stuck
  <2>5. at[y] = "enter" /\ transfer[job[y].p].next = z /\ y # z
    BY <1>1, <2>3, <2>4 DEF WaitsFor, Sends
  <2>6. at[z] = "move" /\ mu.next = z
    BY <1>2, <2>5
  <2>7. z = h /\ at[h] = "move"
    BY <1>3, <2>6
  <2>8. y \in transfer[job[h].p].readers
    BY <2>1, <2>7 DEF WaitsFor
  <2>9. QED
    BY <2>5, <2>7, <2>8, About DEF Inv, ReadersOfTransfer, Reads
<1>4. ASSUME NEW h \in S, mu.next = h
      PROVE  FALSE
  <2>1. h # Nobody /\ h \in Procs
    BY ProfilesAssumption
  <2>2. PICK y \in S : WaitsFor(h, y)
    BY DEF Stuck
  <2>3. CASE at[h] \in Writes
    BY <1>3, <1>4, <2>3
  <2>4. CASE at[h] \in {"route", "lock", "number"}
    BY <1>4, <2>2, <2>4 DEF WaitsFor
  <2>5. CASE at[h] = "enter"
    BY <1>2, <1>4, <2>2, <2>5 DEF WaitsFor
  <2>6. QED
    BY <2>2, <2>3, <2>4, <2>5 DEF WaitsFor, Writes
<1>5. PICK x \in S : TRUE
  OBVIOUS
<1>6. PICK y \in S : WaitsFor(x, y)
  BY DEF Stuck
<1>7. CASE at[x] \in {"route", "number", "lock"} /\ mu.next = y
  BY <1>4, <1>7
<1>8. CASE at[x] \in {"await", "move", "clocks"}
  BY <1>4, <1>8 DEF Inv, WriterHasMu, Writes
<1>9. CASE at[x] \in {"enter", "quiet"}
  BY <1>2, <1>4, <1>6, <1>9 DEF WaitsFor
<1>10. QED
  BY <1>6, <1>7, <1>8, <1>9 DEF WaitsFor

\* Requests, clocks, moves, removals and the end of the program never wait for
\* one another in a circle, but for the one of a prompt that names the number of
\* its project (FlatProjectID under the transfer lock).
THEOREM NoOtherCircles == Spec => []NoOtherCircle
<1>1. QED
  BY NoCircle, Invariance, PTL
=============================================================================
