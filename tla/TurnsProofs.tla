---------------------------- MODULE TurnsProofs ----------------------------
(***************************************************************************)
(* Turns that begin on a schedule, and what windows hear of turns: two     *)
(* components that share no state.  Each has an inductive invariant of its *)
(* own.                                                                    *)
(*                                                                         *)
(* Schedules: no job has two runs of its clock, no slot fires twice, no    *)
(* run is left busy and the counter is exact, for any number of jobs,      *)
(* tasks, edits, outages and restarts.                                     *)
(*                                                                         *)
(* Events: no stream that is over stays behind in the hub or keeps the     *)
(* folder watched, for any number of tasks, streams, turns and breaks.     *)
(***************************************************************************)
EXTENDS Schedules, Events, FiniteSetTheorems, SequenceTheorems, TLAPS

-----------------------------------------------------------------------------
(* Schedules                                                                *)

RunType == [task : {{}} \cup {{s} : s \in Tasks}, status : Statuses, count : Nat]
JobType == [exists : BOOLEAN, paused : BOOLEAN, archived : BOOLEAN, remaining : Int,
            rec : Recurrences \cup {NoEdit}, next : Nat]
TaskType == [job : {{}} \cup {{j} : j \in Jobs}, waiting : Seq({"job", "user"}),
             held : BOOLEAN, turn : {"none", "job", "user"},
             then : {"none", "held", "pause"} \cup Closings, gone : BOOLEAN, byHand : BOOLEAN,
             stranded : BOOLEAN]
Tally == [clock : Nat, hand : Nat, granted : Int]
DueType == [job : Jobs, next : Nat, rec : Recurrences, running : BOOLEAN]
TickType == [pc : {"idle", "book", "fire", "queue"}, due : SUBSET DueType, at : Nat,
             cur : SUBSET DueType, task : SUBSET Tasks]

Typed ==
    /\ now \in 0..MaxNow /\ up \in BOOLEAN /\ restarted \in BOOLEAN
    /\ job \in [Jobs -> JobType] /\ runs \in [Jobs -> Seq(RunType)]
    /\ task \in [Tasks -> TaskType] /\ tick \in TickType
    /\ forced \subseteq Tasks /\ forcing \subseteq Tasks /\ deleting \subseteq Tasks
    /\ editing \in [Jobs -> Recurrences \cup {NoEdit}]
    /\ left \in [Kinds -> Nat] /\ slot \in [Jobs -> Nat]
    /\ ended \in [Jobs -> Tally]

\* The rows of a job's runs: a skip has no task, and no skip follows a skip.
Rows ==
    \A j \in Jobs :
        /\ \A i \in DOMAIN runs[j] : runs[j][i].task = {} <=> runs[j][i].status = "skipped"
        /\ \A i \in 2..Len(runs[j]) :
              ~(runs[j][i].status = "skipped" /\ runs[j][i - 1].status = "skipped")

\* Where the ticker is says what it has in hand, and it has each job once.
Ticking ==
    /\ tick.pc # "fire" => tick.cur = {}
    /\ tick.pc # "queue" => tick.task = {}
    /\ \A d, e \in tick.cur : d = e
    /\ \A s, u \in tick.task : s = u
    /\ \A d, e \in tick.due : d.job = e.job => d = e
    /\ \A d \in tick.cur, e \in tick.due : d.job # e.job

\* A program that does not run has nothing in memory.
Halted ==
    ~up => /\ tick = Idle /\ forcing = {} /\ deleting = {}
           /\ \A s \in Tasks : task[s].turn = "none"

\* Turns.  What a turn does on its way out it does as a turn.
Turns ==
    /\ \A s \in Tasks : task[s].then # "none" => task[s].turn # "none"
    /\ \A s \in forcing : task[s].turn = "none" /\ task[s].waiting = <<>>

Blank(j) == [clock |-> 0, hand |-> 0, granted |-> Granted[j]]

\* Everything belongs to a job that was created, and to one only.
RunsRooted == \A j \in Jobs : \A i \in DOMAIN runs[j] : \A s \in runs[j][i].task : task[s].job = {j}
Unborn ==
    \A s \in Tasks :
        task[s].job = {} => /\ task[s].turn = "none" /\ task[s].waiting = <<>>
                            /\ s \notin forced \cup forcing \cup deleting \cup tick.task
                            /\ ~task[s].held
Unmade ==
    \A j \in Jobs :
        /\ job[j] # NoJob => job[j].rec \in Recurrences
        /\ job[j] = NoJob =>
              /\ ended[j] = Blank(j)
              /\ \A s \in Tasks : task[s].job # {j}
              /\ \A d \in tick.due \cup tick.cur : d.job # j
\* Tasks of the clock are no tasks of the user's.
HandMade == /\ \A s \in forced \cup forcing : task[s].byHand
            /\ \A s \in tick.task : ~task[s].byHand
Owned == RunsRooted /\ Unborn /\ Unmade /\ HandMade

\* A job that exists is booked for a slot later than the last one it was fired for.
Slots ==
    /\ \A j \in Jobs : slot[j] <= now /\ (job[j].exists => slot[j] < job[j].next)
    /\ \A d \in tick.due : slot[d.job] < d.next
    /\ \A d \in tick.due \cup tick.cur : d.next <= tick.at
    /\ tick.at <= now

\* Runs the clock opened that are open; there is one at most, and none when the
\* ticker has seen none.
ByClock(j) == {i \in Open(j) : \A s \in runs[j][i].task : ~task[s].byHand}
Alone ==
    /\ \A j \in Jobs : \A i, k \in ByClock(j) : i = k
    /\ \A d \in tick.due \cup tick.cur : ~d.running => ByClock(d.job) = {}

\* What keeps a run open, and what ends with its turn.
Cause(s) == \/ task[s].waiting # <<>> \/ task[s].turn # "none" \/ task[s].stranded
            \/ s \in forcing \/ s \in tick.task
HasRun(s) == \E j \in Jobs : \E i \in Open(j) : s \in runs[j][i].task
Causes ==
    /\ up => \A s \in Tasks : HasRun(s) => Cause(s)
    /\ \A s \in Tasks :
          /\ task[s].then = "held" => task[s].waiting # <<>> \/ task[s].stranded
          /\ task[s].then \in Closings \cup {"pause"} => ~HasRun(s)

\* Runs whose end has been noted and not been spent yet.
Pending(j) == {s \in Tasks : task[s].job = {j} /\ task[s].then \in Closings}
Paid ==
    /\ \A j \in Jobs :
          /\ IsFiniteSet(Pending(j))
          /\ ended[j].granted >= -1
          /\ ended[j].granted >= 0 => job[j].remaining >= 0
          /\ ended[j].granted = -1 /\ job[j] # NoJob => job[j].remaining = -1
          /\ Spent(j) + Cardinality(Pending(j)) <= ended[j].clock + ended[j].hand
          /\ ~restarted /\ ended[j].granted >= 0 /\ job[j] # NoJob =>
                LET paid == ended[j].clock - Cardinality(Unpaid(j))
                IN  Spent(j) <= paid /\ (Spent(j) = ended[j].granted \/ Spent(j) = paid)
    /\ ~restarted => \A s \in Tasks : task[s].byHand /\ (HasRun(s) \/ task[s].then \in Closings) =>
                        s \in forced

Inv ==
    /\ Typed /\ Rows /\ Ticking /\ Halted /\ Turns /\ Owned /\ Slots /\ Alone /\ Causes
    /\ Paid

\* The rows are those of before, or without a task, and none was opened.
Fewer ==
    /\ runs' \in [Jobs -> Seq(RunType)] /\ Rows'
    /\ \A j \in Jobs : \A i \in DOMAIN runs'[j] : \A s \in runs'[j][i].task :
          i \in DOMAIN runs[j] /\ s \in runs[j][i].task
    /\ \A j \in Jobs : \A i \in Open(j)' : i \in Open(j) /\ runs'[j][i].task = runs[j][i].task

\* Rows whose statuses have changed, but for the skips.
LEMMA SameRows ==
    ASSUME Inv, runs' = [j \in Jobs |-> [i \in DOMAIN runs[j] |-> runs'[j][i]]],
           \A j \in Jobs : \A i \in DOMAIN runs[j] :
              /\ runs'[j][i].task = runs[j][i].task /\ runs'[j][i] \in RunType
              /\ runs'[j][i].status = "skipped" <=> runs[j][i].status = "skipped"
              /\ runs'[j][i].status = "running" => runs[j][i].status = "running"
    PROVE  Fewer /\ \A j \in Jobs : DOMAIN runs'[j] = DOMAIN runs[j]
<1>1. \A j \in Jobs : /\ runs[j] \in Seq(RunType) /\ DOMAIN runs[j] = 1..Len(runs[j])
                      /\ Len(runs[j]) \in Nat
  BY LenProperties DEF Inv, Typed
<1>2. \A j \in Jobs : DOMAIN runs'[j] = DOMAIN runs[j] /\ runs'[j] \in [1..Len(runs[j]) -> RunType]
  BY <1>1
<1>3. \A j \in Jobs : runs'[j] \in Seq(RunType) /\ Len(runs'[j]) = Len(runs[j])
  BY <1>1, <1>2, SeqDef
<1>4. runs' \in [Jobs -> Seq(RunType)]
  BY <1>3
<1>5. Rows'
  <2>1. \A j \in Jobs : \A i \in 2..Len(runs[j]) : i \in DOMAIN runs[j] /\ i - 1 \in DOMAIN runs[j]
    BY <1>1
  <2>2. QED
    BY <1>2, <1>3, <2>1 DEF Inv, Rows
<1>6. QED
  BY <1>2, <1>4, <1>5 DEF Fewer, Open

\* Closing the run of a task opens none.
LEMMA ClosedFewer ==
    ASSUME Inv, NEW s \in Tasks, NEW status \in Statuses \ {"running", "skipped"},
           runs' = Closed(s, status)
    PROVE  Fewer /\ ~HasRun(s)'
<1>1. \A j \in Jobs : \A i \in DOMAIN runs[j] :
         /\ runs[j][i] \in RunType
         /\ runs'[j][i] = IF runs[j][i].task = {s} /\ runs[j][i].status = "running"
                          THEN [runs[j][i] EXCEPT !.status = status] ELSE runs[j][i]
  <2>1. \A j \in Jobs : runs[j] \in Seq(RunType)
    BY DEF Inv, Typed
  <2>2. \A j \in Jobs : \A i \in DOMAIN runs[j] : runs[j][i] \in RunType
    BY <2>1, LenProperties, ElementOfSeq
  <2>3. QED
    BY <2>2 DEF Closed
<1>2. runs' = [j \in Jobs |-> [i \in DOMAIN runs[j] |-> runs'[j][i]]]
  BY DEF Closed
<1>3. \A j \in Jobs : \A i \in DOMAIN runs[j] :
         /\ runs'[j][i].task = runs[j][i].task /\ runs'[j][i] \in RunType
         /\ runs'[j][i].status = "skipped" <=> runs[j][i].status = "skipped"
         /\ runs'[j][i].status = "running" => runs[j][i].status = "running"
         /\ runs'[j][i].status = "running" => s \notin runs[j][i].task
  <2> SUFFICES ASSUME NEW j \in Jobs, NEW i \in DOMAIN runs[j]
               PROVE  LET r == runs[j][i]
                          q == runs'[j][i]
                      IN  /\ q.task = r.task /\ q \in RunType
                          /\ q.status = "skipped" <=> r.status = "skipped"
                          /\ q.status = "running" => r.status = "running" /\ s \notin r.task
    OBVIOUS
  <2> DEFINE r == runs[j][i]
             q == runs'[j][i]
  <2>1. r \in RunType
    BY <1>1
  <2>2. CASE r.task = {s} /\ r.status = "running"
    <3>1. q = [r EXCEPT !.status = status]
      BY <1>1, <2>2
    <3>2. QED
      BY <2>1, <2>2, <3>1 DEF RunType, Statuses
  <2>3. CASE ~(r.task = {s} /\ r.status = "running")
    <3>1. q = r
      BY <1>1, <2>3
    <3>2. r.task = {} \/ \E u \in Tasks : r.task = {u}
      BY <2>1 DEF RunType
    <3>3. QED
      BY <2>1, <2>3, <3>1, <3>2
  <2>4. QED
    BY <2>2, <2>3
<1>4. Fewer /\ \A j \in Jobs : DOMAIN runs'[j] = DOMAIN runs[j]
  BY <1>2, <1>3, SameRows
<1>5. QED
  BY <1>3, <1>4 DEF HasRun, Open

\* A restart opens no run, and leaves open those whose prompts wait.
LEMMA ResetFewer ==
    ASSUME Inv, runs' = Reset
    PROVE  Fewer /\ \A s \in Tasks : HasRun(s)' => task[s].waiting # <<>>
<1>1. \A j \in Jobs : \A i \in DOMAIN runs[j] :
         /\ runs[j][i] \in RunType
         /\ runs'[j][i] = IF /\ runs[j][i].status = "running"
                             /\ \A s \in runs[j][i].task : task[s].waiting = <<>>
                          THEN [runs[j][i] EXCEPT !.status = "interrupted"] ELSE runs[j][i]
  <2>1. \A j \in Jobs : runs[j] \in Seq(RunType)
    BY DEF Inv, Typed
  <2>2. \A j \in Jobs : \A i \in DOMAIN runs[j] : runs[j][i] \in RunType
    BY <2>1, LenProperties, ElementOfSeq
  <2>3. QED
    BY <2>2 DEF Reset
<1>2. runs' = [j \in Jobs |-> [i \in DOMAIN runs[j] |-> runs'[j][i]]]
  BY DEF Reset
<1>3. \A j \in Jobs : \A i \in DOMAIN runs[j] :
         /\ runs'[j][i].task = runs[j][i].task /\ runs'[j][i] \in RunType
         /\ runs'[j][i].status = "skipped" <=> runs[j][i].status = "skipped"
         /\ runs'[j][i].status = "running" => runs[j][i].status = "running"
         /\ runs'[j][i].status = "running" =>
               \A s \in runs[j][i].task : task[s].waiting # <<>>
  <2> SUFFICES ASSUME NEW j \in Jobs, NEW i \in DOMAIN runs[j]
               PROVE  LET r == runs[j][i]
                          q == runs'[j][i]
                      IN  /\ q.task = r.task /\ q \in RunType
                          /\ q.status = "skipped" <=> r.status = "skipped"
                          /\ q.status = "running" => r.status = "running"
                          /\ q.status = "running" => \A s \in r.task : task[s].waiting # <<>>
    OBVIOUS
  <2> DEFINE r == runs[j][i]
             q == runs'[j][i]
  <2>1. r \in RunType
    BY <1>1
  <2>2. CASE r.status = "running" /\ \A s \in r.task : task[s].waiting = <<>>
    <3>1. q = [r EXCEPT !.status = "interrupted"]
      BY <1>1, <2>2
    <3>2. QED
      BY <2>1, <2>2, <3>1 DEF RunType, Statuses
  <2>3. CASE ~(r.status = "running" /\ \A s \in r.task : task[s].waiting = <<>>)
    <3>1. q = r
      BY <1>1, <2>3
    <3>2. r.task = {} \/ \E u \in Tasks : r.task = {u}
      BY <2>1 DEF RunType
    <3>3. QED
      BY <2>1, <2>3, <3>1, <3>2
  <2>4. QED
    BY <2>2, <2>3
<1>4. Fewer /\ \A j \in Jobs : DOMAIN runs'[j] = DOMAIN runs[j]
  BY <1>2, <1>3, SameRows
<1>5. QED
  BY <1>3, <1>4 DEF HasRun, Open

\* Queues of prompts.
LEMMA Queues ==
    ASSUME NEW w \in Seq({"job", "user"}), NEW p \in {"job", "user"}
    PROVE  /\ Append(w, p) \in Seq({"job", "user"}) /\ Append(w, p) # <<>>
           /\ <<p>> \o w \in Seq({"job", "user"}) /\ <<p>> \o w # <<>>
           /\ w # <<>> => Head(w) \in {"job", "user"} /\ Tail(w) \in Seq({"job", "user"})
           /\ \A i \in DOMAIN w : /\ RemoveAt(w, i) \in Seq({"job", "user"})
                                  /\ Len(w) # 1 => RemoveAt(w, i) # <<>>
           /\ <<>> \in Seq({"job", "user"})
<1> DEFINE S == {"job", "user"}
<1>2. Append(w, p) \in Seq(S) /\ Append(w, p) # <<>>
  BY AppendProperties
<1>3. <<p>> \o w \in Seq(S) /\ Len(<<p>> \o w) = 1 + Len(w) /\ Len(w) \in Nat
  BY ConcatProperties, LenProperties
<1>4. <<p>> \o w # <<>>
  BY <1>3
<1>5. w # <<>> => Head(w) \in S /\ Tail(w) \in Seq(S)
  BY HeadTailProperties
<1>6. ASSUME NEW i \in DOMAIN w
      PROVE  RemoveAt(w, i) \in Seq(S) /\ (Len(w) # 1 => RemoveAt(w, i) # <<>>)
  <2>1. i \in 1..Len(w) /\ Len(w) \in Nat /\ \A k \in 1..Len(w) : w[k] \in S
    BY LenProperties, ElementOfSeq
  <2> DEFINE a == SubSeq(w, 1, i - 1)
             b == SubSeq(w, i + 1, Len(w))
  <2>2. a \in Seq(S) /\ Len(a) = i - 1
    BY <2>1, SubSeqProperties
  <2>3. b \in Seq(S) /\ Len(b) = Len(w) - i
    BY <2>1, SubSeqProperties
  <2>5. RemoveAt(w, i) = a \o b
    BY DEF RemoveAt
  <2> HIDE DEF a, b, S
  <2>4. a \o b \in Seq(S) /\ Len(a \o b) = Len(w) - 1
    <3>1. a \o b \in Seq(S) /\ Len(a \o b) = Len(a) + Len(b)
      BY <2>2, <2>3, ConcatProperties
    <3>2. QED
      BY <2>1, <2>2, <2>3, <3>1
  <2>6. Len(w) # 1 => a \o b # <<>>
    BY <2>1, <2>4
  <2>7. QED
    BY <2>4, <2>5, <2>6
<1>7. QED
  BY <1>2, <1>3, <1>4, <1>5, <1>6

\* The jobs are those of before, but for their counters and pauses.
SameJobs ==
    /\ job' \in [Jobs -> JobType]
    /\ \A j \in Jobs : /\ job'[j].exists = job[j].exists /\ job'[j].rec = job[j].rec
                       /\ job'[j].next = job[j].next /\ (job'[j] = NoJob <=> job[j] = NoJob)

\* The ticker has in hand what it had, but for the task it makes.
SameSlots ==
    /\ tick' \in TickType /\ Ticking' /\ (~up => tick' = Idle)
    /\ tick'.due = tick.due /\ tick'.cur = tick.cur /\ tick'.at = tick.at

Others(s) == \A u \in Tasks : u # s => task'[u] = task[u]

\* With fewer open runs nothing that was alone or rooted ceases to be.
LEMMA Rooted ==
    ASSUME Inv, Fewer,
           \A s \in Tasks : task'[s].job = task[s].job /\ task'[s].byHand = task[s].byHand
    PROVE  /\ RunsRooted' /\ \A s \in Tasks : HasRun(s)' => HasRun(s)
           /\ \A j \in Jobs : ByClock(j)' \subseteq ByClock(j)
<1>1. \A j \in Jobs : \A i \in DOMAIN runs[j] : runs[j][i].task \subseteq Tasks
  <2>1. \A j \in Jobs : runs[j] \in Seq(RunType)
    BY DEF Inv, Typed
  <2>2. \A j \in Jobs : \A i \in DOMAIN runs[j] : runs[j][i] \in RunType
    BY <2>1, LenProperties, ElementOfSeq
  <2>3. QED
    BY <2>2 DEF RunType
<1>2. RunsRooted'
  BY <1>1 DEF Inv, Owned, RunsRooted, Fewer
<1>3. \A s \in Tasks : HasRun(s)' => HasRun(s)
  BY DEF HasRun, Fewer
<1>4. \A j \in Jobs : ByClock(j)' \subseteq ByClock(j)
  BY <1>1 DEF ByClock, Fewer, Open
<1>5. QED
  BY <1>2, <1>3, <1>4

\* A step of one task: what it is about stays, what is kept about it may go, and
\* its turn and its open run have what they need.
TaskMoves(s) ==
    /\ task' \in [Tasks -> TaskType] /\ Others(s) /\ task[s].job # {}
    /\ task'[s].job = task[s].job /\ task'[s].byHand = task[s].byHand
Drops(s) ==
    /\ forced' \subseteq forced /\ forcing' \in {forcing, forcing \ {s}}
    /\ deleting' \subseteq deleting \cup {s} /\ (up \/ deleting' = {})
    /\ SameSlots /\ tick'.task \in {tick.task, tick.task \ {s}}
Ends ==
    /\ left' \in [Kinds -> Nat] /\ ended' \in [Jobs -> Tally]
    /\ \A j \in Jobs : job[j] = NoJob => ended'[j] = ended[j]
    /\ UNCHANGED <<now, up, restarted, editing, slot>>
Turned(s) ==
    /\ up \/ task'[s].turn = "none"
    /\ task'[s].then # "none" => task'[s].turn # "none"
    /\ s \in forcing' => task'[s].turn = "none" /\ task'[s].waiting = <<>>
Caused(s) ==
    /\ up /\ HasRun(s)' => Cause(s)'
    /\ task'[s].then = "held" => task'[s].waiting # <<>> \/ task'[s].stranded
    /\ task'[s].then \in Closings \cup {"pause"} => ~HasRun(s)'

\* Such a step keeps everything but the accounts.
Sound == Typed /\ Rows /\ Ticking /\ Halted /\ Turns /\ Owned /\ Slots /\ Alone /\ Causes
LEMMA OneTask ==
    ASSUME Inv, NEW s \in Tasks, TaskMoves(s), Drops(s), Ends, Turned(s), Caused(s), Fewer, SameJobs
    PROVE  Sound'
<1>1. \A u \in Tasks : task'[u].job = task[u].job /\ task'[u].byHand = task[u].byHand
  BY DEF Others, TaskMoves
<1>2. /\ RunsRooted' /\ \A u \in Tasks : HasRun(u)' => HasRun(u)
      /\ \A j \in Jobs : ByClock(j)' \subseteq ByClock(j)
  BY <1>1, Rooted
<1>3. Typed' /\ Rows' /\ Ticking'
  BY DEF Inv, Typed, TaskMoves, Drops, Ends, SameSlots, SameJobs, Fewer
<1>4. Halted'
  BY DEF Inv, Halted, Others, TaskMoves, Drops, Ends, Turned, SameSlots
<1>5. Turns'
  BY DEF Inv, Typed, Turns, Others, TaskMoves, Drops, Turned
<1>6. Unborn'
  BY <1>1 DEF Inv, Owned, Unborn, Others, TaskMoves, Drops
<1>7. Unmade'
  <2>1. tick'.due = tick.due /\ tick'.cur = tick.cur
    BY DEF Drops, SameSlots
  <2>2. QED
    BY <1>1, <2>1 DEF Inv, Owned, Unmade, SameJobs, Ends
<1>8. HandMade'
  <2>1. /\ forced' \subseteq forced /\ tick'.task \subseteq tick.task /\ forced \subseteq Tasks
        /\ tick.task \subseteq Tasks /\ forcing' \subseteq forcing /\ forcing \subseteq Tasks
    BY DEF Inv, Typed, TickType, Drops
  <2>2. QED
    BY <1>1, <2>1 DEF Inv, Owned, HandMade
<1>9. Slots'
  BY DEF Inv, Slots, SameJobs, SameSlots, Drops, Ends
<1>10. Alone'
  <2>1. tick.due \subseteq DueType /\ tick.cur \subseteq DueType
    BY DEF Inv, Typed, TickType
  <2>2. \A d \in tick.due \cup tick.cur : d.job \in Jobs
    BY <2>1 DEF DueType
  <2>3. tick'.due = tick.due /\ tick'.cur = tick.cur
    BY DEF Drops, SameSlots
  <2>4. QED
    BY <1>2, <2>2, <2>3 DEF Inv, Alone
<1>11. Causes'
  <2>1. ASSUME NEW u \in Tasks, u # s
        PROVE  /\ up /\ HasRun(u)' => Cause(u)'
               /\ task'[u].then = "held" => task'[u].waiting # <<>> \/ task'[u].stranded
               /\ task'[u].then \in Closings \cup {"pause"} => ~HasRun(u)'
    BY <1>2, <2>1 DEF Inv, Causes, Cause, Others, TaskMoves, Drops
  <2>2. QED
    BY <2>1 DEF Causes, Caused, Ends
<1>12. QED
  BY <1>2, <1>3, <1>4, <1>5, <1>6, <1>7, <1>8, <1>9, <1>10, <1>11 DEF Sound, Owned

\* The accounts stand when no run is noted or spent.
LEMMA PaidKept ==
    ASSUME Inv, NEW s \in Tasks, Others(s), task'[s].job = task[s].job,
           task'[s].byHand = task[s].byHand,
           task'[s].then \in Closings <=> task[s].then \in Closings,
           \A u \in Tasks : HasRun(u)' => HasRun(u),
           \A j \in Jobs : job'[j].remaining = job[j].remaining /\ (job'[j] = NoJob <=> job[j] = NoJob),
           forced' = forced \/ (forced' = forced \ {s} /\ ~HasRun(s)' /\ task'[s].then \notin Closings),
           UNCHANGED <<ended, restarted>>
    PROVE  Paid'
<1>1. \A j \in Jobs : Pending(j)' = Pending(j) /\ Unpaid(j)' = Unpaid(j)
  BY DEF Pending, Unpaid, Others, Closings
<1>2. \A j \in Jobs : Spent(j)' = Spent(j)
  BY DEF Spent
<1>3. ASSUME NEW u \in Tasks, ~restarted, task'[u].byHand, HasRun(u)' \/ task'[u].then \in Closings
      PROVE  u \in forced'
  BY <1>3 DEF Inv, Paid, Others
<1>4. QED
  BY <1>1, <1>2, <1>3 DEF Inv, Paid

\* What is not touched is as sound as it was.
LEMMA Untouched ==
    ASSUME Inv
    PROVE  /\ runs' = runs => Fewer /\ \A s \in Tasks : HasRun(s)' <=> HasRun(s)
           /\ job' = job => SameJobs
           /\ tick' = tick => SameSlots
           /\ \A kind \in Kinds : Spend(kind) => left' \in [Kinds -> Nat]
           /\ left' = left => left' \in [Kinds -> Nat]
           /\ ended' = ended => ended' \in [Jobs -> Tally]
<1>1. runs' = runs => Fewer
  BY DEF Inv, Typed, Fewer, Rows, Open
<1>2. runs' = runs => \A s \in Tasks : HasRun(s)' <=> HasRun(s)
  BY DEF HasRun, Open
<1>3. job' = job => SameJobs
  BY DEF Inv, Typed, SameJobs
<1>4. tick' = tick => SameSlots
  BY DEF Inv, Typed, Halted, Ticking, SameSlots
<1>5. \A kind \in Kinds : Spend(kind) => left' \in [Kinds -> Nat]
  BY DEF Inv, Typed, Spend
<1>6. QED
  BY <1>1, <1>2, <1>3, <1>4, <1>5 DEF Inv, Typed

\* A step of a task that leaves the jobs, the ticker and what has ended alone.
LEMMA TaskAlone ==
    ASSUME Inv, NEW s \in Tasks, TaskMoves(s), Turned(s), Caused(s), Fewer,
           forced' = forced \/ (forced' = forced \ {s} /\ ~HasRun(s)' /\ task'[s].then \notin Closings),
           forcing' \in {forcing, forcing \ {s}}, deleting' \subseteq deleting \cup {s},
           up \/ deleting' \subseteq deleting,
           left' = left \/ \E kind \in Kinds : Spend(kind),
           task'[s].then \in Closings <=> task[s].then \in Closings,
           SameSlots, tick'.task \in {tick.task, tick.task \ {s}},
           UNCHANGED <<now, up, restarted, job, editing, slot, ended>>
    PROVE  Inv'
<1>1. left' \in [Kinds -> Nat] /\ ended' \in [Jobs -> Tally] /\ SameJobs
  BY Untouched
<1>2. Ends
  BY <1>1 DEF Ends
<1>3. Drops(s)
  BY DEF Drops, Inv, Halted, Typed
<1>4. Sound'
  BY <1>1, <1>2, <1>3, OneTask
<1>5. \A u \in Tasks : task'[u].job = task[u].job /\ task'[u].byHand = task[u].byHand
  BY DEF TaskMoves, Others
<1>6. \A u \in Tasks : HasRun(u)' => HasRun(u)
  BY <1>5, Rooted
<1>7. Paid'
  BY <1>5, <1>6, PaidKept DEF TaskMoves
<1>8. QED
  BY <1>4, <1>7 DEF Inv, Sound

\* One task has another record.
LEMMA Changed ==
    ASSUME Inv, NEW s \in Tasks, task[s].job # {}, NEW t \in TaskType,
           t.job = task[s].job, t.byHand = task[s].byHand,
           task' = [task EXCEPT ![s] = t]
    PROVE  TaskMoves(s) /\ task'[s] = t
BY DEF Inv, Typed, TaskMoves, Others

\* What the invariant says of one task.
LEMMA Told ==
    ASSUME Inv, NEW s \in Tasks
    PROVE  /\ task[s] \in TaskType /\ task[s].waiting \in Seq({"job", "user"})
           /\ task[s].then # "none" => task[s].turn # "none"
           /\ task[s].turn # "none" => up /\ task[s].job # {}
           /\ s \in forcing => /\ task[s].turn = "none" /\ task[s].waiting = <<>>
                               /\ up /\ task[s].job # {}
           /\ s \in deleting => up /\ task[s].job # {}
           /\ task[s].held => task[s].job # {}
           /\ task[s].then = "held" => task[s].waiting # <<>> \/ task[s].stranded
           /\ task[s].then \in Closings \cup {"pause"} => ~HasRun(s)
           /\ up /\ HasRun(s) => Cause(s)
BY DEF Inv, Typed, TaskType, Turns, Halted, Owned, Unborn, Causes

\* The retry of a prompt that waits is due.
LEMMA RetryDueInv == ASSUME Inv, NEW s \in Tasks, RetryDue(s) PROVE Inv'
<1> DEFINE t == [task[s] EXCEPT !.held = FALSE]
<1>1. /\ task[s].held /\ task' = [task EXCEPT ![s] = t]
      /\ UNCHANGED <<now, up, job, runs, tick, forced, forcing, editing, deleting, left, restarted,
                     slot, ended>>
  BY DEF RetryDue, memory, ghosts
<1>2. /\ t \in TaskType /\ t.job = task[s].job /\ t.byHand = task[s].byHand
      /\ t.waiting = task[s].waiting /\ t.turn = task[s].turn /\ t.then = task[s].then
      /\ t.stranded = task[s].stranded
  BY Told DEF TaskType
<1> HIDE DEF t
<1>3. TaskMoves(s) /\ task'[s] = t
  BY <1>1, <1>2, Told, Changed
<1>4. Turned(s) /\ Caused(s)
  BY <1>1, <1>2, <1>3, Told, Untouched DEF Turned, Caused, Cause
<1>5. QED
  BY <1>1, <1>2, <1>3, <1>4, TaskAlone, Untouched

\* The prompt goes back to the queue, and the turn is on its way out.
LEMMA HeldInv == ASSUME Inv, NEW s \in Tasks, Held(s) PROVE Inv'
<1> DEFINE t == [task[s] EXCEPT !.waiting = <<task[s].turn>> \o @, !.held = TRUE, !.then = "held"]
<1>1. /\ task[s].turn # "none" /\ task[s].then = "none" /\ task' = [task EXCEPT ![s] = t]
      /\ UNCHANGED <<now, up, job, runs, tick, forced, forcing, editing, deleting, restarted,
                     slot, ended>>
  BY DEF Held, memory, ghosts
<1>2. \E kind \in Kinds : Spend(kind)
  BY DEF Held, Kinds
<1>3. task[s].turn \in {"job", "user"}
  BY <1>1, Told DEF TaskType
<1>4. /\ <<task[s].turn>> \o task[s].waiting \in Seq({"job", "user"})
      /\ <<task[s].turn>> \o task[s].waiting # <<>>
  BY <1>3, Told, Queues
<1>5. /\ t \in TaskType /\ t.job = task[s].job /\ t.byHand = task[s].byHand
      /\ t.waiting # <<>> /\ t.turn = task[s].turn /\ t.then = "held"
  BY <1>4, Told DEF TaskType
<1> HIDE DEF t
<1>6. TaskMoves(s) /\ task'[s] = t
  BY <1>1, <1>5, Told, Changed
<1>7. Turned(s) /\ Caused(s)
  BY <1>1, <1>5, <1>6, Told, Untouched DEF Turned, Caused, Cause, Closings
<1>8. QED
  BY <1>1, <1>2, <1>5, <1>6, <1>7, TaskAlone, Untouched DEF Closings

\* A turn that is over leaves its open run to the prompt that waits.
LEMMA HeldTurnOverInv == ASSUME Inv, NEW s \in Tasks, HeldTurnOver(s) PROVE Inv'
<1> DEFINE t == [task[s] EXCEPT !.then = "none", !.turn = "none"]
<1>1. /\ task[s].then = "held" /\ task' = [task EXCEPT ![s] = t]
      /\ UNCHANGED <<now, up, job, runs, tick, forced, forcing, editing, deleting, left, restarted,
                     slot, ended>>
  BY DEF HeldTurnOver, memory, ghosts
<1>2. /\ t \in TaskType /\ t.job = task[s].job /\ t.byHand = task[s].byHand
      /\ t.waiting = task[s].waiting /\ t.turn = "none" /\ t.then = "none"
      /\ t.stranded = task[s].stranded
  BY Told DEF TaskType
<1> HIDE DEF t
<1>3. TaskMoves(s) /\ task'[s] = t
  BY <1>1, <1>2, Told, Changed
<1>4. Turned(s) /\ Caused(s)
  BY <1>1, <1>2, <1>3, Told, Untouched DEF Turned, Caused, Cause, Closings
<1>5. QED
  BY <1>1, <1>2, <1>3, <1>4, TaskAlone, Untouched DEF Closings

\* A prompt by hand runs at once or waits.
LEMMA PromptInv == ASSUME Inv, NEW s \in Tasks, Prompt(s) PROVE Inv'
<1>1. /\ up /\ task[s].job # {} /\ s \notin forcing
      /\ UNCHANGED <<now, up, job, runs, tick, forced, forcing, editing, deleting, restarted,
                     slot, ended>>
  BY DEF Prompt, Shown, Known, memory, ghosts
<1>2. \E kind \in Kinds : Spend(kind)
  BY DEF Prompt, Kinds
<1>3. Append(task[s].waiting, "user") \in Seq({"job", "user"}) /\ Append(task[s].waiting, "user") # <<>>
  BY Told, Queues
<1>4. PICK t \in TaskType :
         /\ task' = [task EXCEPT ![s] = t] /\ t.job = task[s].job /\ t.byHand = task[s].byHand
         /\ t.stranded = task[s].stranded /\ t.then = task[s].then
         /\ \/ t.turn # "none" /\ t.waiting = task[s].waiting
            \/ t.turn = task[s].turn /\ t.waiting # <<>>
  <2>1. CASE ~Active(s) /\ task' = [task EXCEPT ![s].turn = "user"]
    <3> DEFINE t == [task[s] EXCEPT !.turn = "user"]
    <3>1. task' = [task EXCEPT ![s] = t]
      BY <2>1
    <3>2. t \in TaskType
      BY Told DEF TaskType
    <3>3. QED
      BY <3>1, <3>2, Told DEF TaskType
  <2>2. CASE task' = [task EXCEPT ![s].waiting = Append(@, "user")]
    <3> DEFINE t == [task[s] EXCEPT !.waiting = Append(@, "user")]
    <3>1. task' = [task EXCEPT ![s] = t]
      BY <2>2
    <3>2. t \in TaskType /\ t.waiting # <<>>
      BY <1>3, Told DEF TaskType
    <3>3. QED
      BY <3>1, <3>2, Told DEF TaskType
  <2>3. QED
    BY <2>1, <2>2 DEF Prompt
<1>5. TaskMoves(s) /\ task'[s] = t
  BY <1>1, <1>4, Told, Changed
<1>6. Turned(s) /\ Caused(s)
  BY <1>1, <1>4, <1>5, Told, Untouched DEF Turned, Caused, Cause
<1>7. QED
  BY <1>1, <1>2, <1>4, <1>5, <1>6, TaskAlone, Untouched

\* Closing the open run of a task that will not start.
LEMMA ClosesUnstarted ==
    ASSUME Inv, NEW s \in Tasks, NEW status \in Statuses \ {"running", "skipped"},
           CloseUnstarted(s, status)
    PROVE  Fewer /\ ~HasRun(s)' /\ forced' = forced \ {s}
BY ClosedFewer DEF CloseUnstarted

LEMMA Unstarts ==
    ASSUME Inv, NEW s \in Tasks, Unstarted(s)
    PROVE  /\ Fewer
           /\ forced' = forced \/ (forced' = forced \ {s} /\ ~HasRun(s)' /\ task[s].turn = "none")
           /\ HasRun(s)' => HasRun(s) /\ (task[s].turn # "none" \/ task[s].waiting = <<>>)
<1>1. CASE ~Active(s) /\ task[s].waiting # <<>>
  <2>1. CloseUnstarted(s, "interrupted")
    BY <1>1 DEF Unstarted
  <2>2. QED
    BY <1>1, <2>1, ClosesUnstarted DEF Active, Statuses
<1>2. CASE ~(~Active(s) /\ task[s].waiting # <<>>)
  BY <1>2, Untouched DEF Unstarted, Active
<1>3. QED
  BY <1>1, <1>2

\* The prompt of a forced run waits, starts, or fails and closes the run.
LEMMA ForcePromptInv == ASSUME Inv, NEW s \in Tasks, ForcePrompt(s) PROVE Inv'
<1>1. /\ s \in forcing /\ forcing' = forcing \ {s} /\ up /\ task[s].turn = "none"
      /\ task[s].waiting = <<>> /\ task[s].then = "none"
      /\ UNCHANGED <<now, up, job, tick, editing, deleting, restarted, slot, ended>>
  BY Told DEF ForcePrompt, ghosts
<1>2. left' = left \/ \E kind \in Kinds : Spend(kind)
  BY DEF ForcePrompt, Kinds
<1>3. Append(task[s].waiting, "job") \in Seq({"job", "user"}) /\ Append(task[s].waiting, "job") # <<>>
  BY Told, Queues
<1>4. /\ Fewer
      /\ forced' = forced \/ (forced' = forced \ {s} /\ ~HasRun(s)')
      /\ \/ task' = [task EXCEPT ![s].waiting = Append(@, "job")]
         \/ task' = [task EXCEPT ![s].turn = "job"]
         \/ task' = [task EXCEPT ![s].waiting = Append(@, "job"), ![s].held = TRUE]
         \/ task' = task /\ ~HasRun(s)'
  <2>1. CASE task' = task /\ CloseUnstarted(s, "error")
    BY <2>1, ClosesUnstarted DEF Statuses
  <2>2. CASE /\ UNCHANGED <<runs, forced>>
             /\ \/ task' = [task EXCEPT ![s].waiting = Append(@, "job")]
                \/ task' = [task EXCEPT ![s].turn = "job"]
                \/ task' = [task EXCEPT ![s].waiting = Append(@, "job"), ![s].held = TRUE]
    BY <2>2, Untouched
  <2>3. QED
    BY <2>1, <2>2 DEF ForcePrompt
<1>5. PICK t \in TaskType :
         /\ task' = [task EXCEPT ![s] = t] /\ t.job = task[s].job /\ t.byHand = task[s].byHand
         /\ t.then = "none" /\ (t.turn # "none" \/ t.waiting # <<>> \/ ~HasRun(s)')
  <2>1. CASE task' = [task EXCEPT ![s].waiting = Append(@, "job")]
    <3> DEFINE t == [task[s] EXCEPT !.waiting = Append(@, "job")]
    <3>1. t \in TaskType /\ task' = [task EXCEPT ![s] = t] /\ t.waiting # <<>>
      BY <1>3, <2>1, Told DEF TaskType
    <3>2. QED
      BY <1>1, <3>1, Told DEF TaskType
  <2>2. CASE task' = [task EXCEPT ![s].turn = "job"]
    <3> DEFINE t == [task[s] EXCEPT !.turn = "job"]
    <3>1. t \in TaskType /\ task' = [task EXCEPT ![s] = t] /\ t.turn = "job"
      BY <2>2, Told DEF TaskType
    <3>2. QED
      BY <1>1, <3>1, Told DEF TaskType
  <2>3. CASE task' = [task EXCEPT ![s].waiting = Append(@, "job"), ![s].held = TRUE]
    <3> DEFINE t == [task[s] EXCEPT !.waiting = Append(@, "job"), !.held = TRUE]
    <3>1. t \in TaskType /\ task' = [task EXCEPT ![s] = t] /\ t.waiting # <<>>
      BY <1>3, <2>3, Told DEF TaskType
    <3>2. QED
      BY <1>1, <3>1, Told DEF TaskType
  <2>4. CASE task' = task /\ ~HasRun(s)'
    <3>1. task' = [task EXCEPT ![s] = task[s]]
      BY <2>4 DEF Inv, Typed
    <3>2. QED
      BY <1>1, <2>4, <3>1, Told
  <2>5. QED
    BY <1>4, <2>1, <2>2, <2>3, <2>4
<1>6. TaskMoves(s) /\ task'[s] = t
  BY <1>1, <1>5, Told, Changed
<1>7. Turned(s) /\ Caused(s)
  BY <1>1, <1>4, <1>5, <1>6 DEF Turned, Caused, Cause, Closings
<1>8. QED
  BY <1>1, <1>2, <1>4, <1>5, <1>6, <1>7, TaskAlone, Untouched DEF Closings

\* A prompt that waits becomes the turn, or fails and closes the run.
LEMMA DispatchInv == ASSUME Inv, NEW s \in Tasks, Dispatch(s) PROVE Inv'
<1> DEFINE w == Tail(task[s].waiting)
<1>1. /\ up /\ task[s].job # {} /\ task[s].waiting # <<>> /\ task[s].turn = "none"
      /\ task[s].then = "none" /\ s \notin forcing
      /\ UNCHANGED <<now, up, job, tick, forcing, editing, deleting, restarted, slot, ended>>
  BY Told DEF Dispatch, Known, Active, ghosts
<1>2. left' = left \/ \E kind \in Kinds : Spend(kind)
  BY DEF Dispatch, Kinds
<1>3. Head(task[s].waiting) \in {"job", "user"} /\ w \in Seq({"job", "user"})
  BY <1>1, Told, Queues
<1>4. CASE /\ task' = [task EXCEPT ![s].waiting = Tail(@), ![s].turn = Head(task[s].waiting)]
           /\ UNCHANGED <<runs, forced, left>>
  <2> DEFINE t == [task[s] EXCEPT !.waiting = w, !.turn = Head(task[s].waiting)]
  <2>1. /\ t \in TaskType /\ task' = [task EXCEPT ![s] = t] /\ t.turn # "none" /\ t.then = "none"
        /\ t.job = task[s].job /\ t.byHand = task[s].byHand
    BY <1>1, <1>3, <1>4, Told DEF TaskType
  <2> HIDE DEF t
  <2>2. TaskMoves(s) /\ task'[s] = t
    BY <1>1, <2>1, Told, Changed
  <2>3. Turned(s) /\ Caused(s)
    BY <1>1, <2>1, <2>2 DEF Turned, Caused, Cause, Closings
  <2>4. QED
    BY <1>1, <1>2, <1>4, <2>1, <2>2, <2>3, TaskAlone, Untouched DEF Closings
<1>5. CASE task' = [task EXCEPT ![s].waiting = Tail(@)] /\ CloseUnstarted(s, "error")
  <2> DEFINE t == [task[s] EXCEPT !.waiting = w]
  <2>1. /\ t \in TaskType /\ task' = [task EXCEPT ![s] = t] /\ t.turn = "none" /\ t.then = "none"
        /\ t.job = task[s].job /\ t.byHand = task[s].byHand
    BY <1>1, <1>3, <1>5, Told DEF TaskType
  <2> HIDE DEF t
  <2>2. TaskMoves(s) /\ task'[s] = t
    BY <1>1, <2>1, Told, Changed
  <2>3. Fewer /\ ~HasRun(s)' /\ forced' = forced \ {s}
    BY <1>5, ClosesUnstarted DEF Statuses
  <2>4. Turned(s) /\ Caused(s)
    BY <1>1, <2>1, <2>2, <2>3 DEF Turned, Caused, Cause, Closings
  <2>5. QED
    BY <1>1, <1>2, <2>1, <2>2, <2>3, <2>4, TaskAlone, Untouched DEF Closings
<1>6. QED
  BY <1>4, <1>5 DEF Dispatch

\* A task whose prompts are taken away: an open run is left only to a turn, or
\* to a cause the prompts were not.
LEMMA EmptiedInv ==
    ASSUME Inv, NEW s \in Tasks, up, task[s].job # {}, NEW t \in TaskType,
           s \in forcing => t.waiting = <<>>,
           task' = [task EXCEPT ![s] = t],
           t.job = task[s].job, t.byHand = task[s].byHand, t.turn = task[s].turn,
           t.then = task[s].then, t.then = "held" => t.stranded \/ t.waiting # <<>>,
           task[s].stranded => t.stranded,
           \/ Unstarted(s)
           \/ /\ UNCHANGED <<runs, forced>>
              /\ task[s].waiting # <<>> => t.waiting # <<>> \/ t.stranded,
           deleting' \subseteq deleting \cup {s},
           left' = left \/ \E kind \in Kinds : Spend(kind),
           UNCHANGED <<now, up, job, tick, forcing, editing, restarted, slot, ended>>
    PROVE  Inv'
<1>1. TaskMoves(s) /\ task'[s] = t
  BY Changed
<1>2. /\ Fewer
      /\ forced' = forced \/ (forced' = forced \ {s} /\ ~HasRun(s)' /\ task[s].turn = "none")
      /\ HasRun(s)' => HasRun(s) /\ (task[s].turn # "none" \/ task[s].waiting = <<>>
                                     \/ t.waiting # <<>> \/ t.stranded)
  BY Unstarts, Untouched
<1>3. Turned(s) /\ Caused(s)
  BY <1>1, <1>2, Told DEF Turned, Caused, Cause, Closings
<1>4. QED
  BY <1>1, <1>2, <1>3, Told, TaskAlone, Untouched DEF Closings

LEMMA StopInv == ASSUME Inv, NEW s \in Tasks, Stop(s) \/ DeleteTask(s) PROVE Inv'
<1> DEFINE t == [task[s] EXCEPT !.waiting = <<>>, !.held = FALSE, !.stranded = Strands(s)]
<1>1. /\ up /\ task[s].job # {} /\ s \notin forcing /\ Unstarted(s)
      /\ deleting' \subseteq deleting \cup {s}
      /\ task' = [task EXCEPT ![s] = t]
      /\ UNCHANGED <<now, up, job, tick, forcing, editing, restarted, slot, ended>>
  BY DEF Stop, DeleteTask, Emptied, Shown, Known, ghosts
<1>2. \E kind \in Kinds : Spend(kind)
  BY DEF Stop, DeleteTask, Kinds
<1>3. /\ t \in TaskType /\ t.job = task[s].job /\ t.byHand = task[s].byHand
      /\ t.turn = task[s].turn /\ t.then = task[s].then
      /\ t.then = "held" => t.stranded
      /\ task[s].stranded => t.stranded
  <2>1. <<>> \in Seq({"job", "user"}) /\ Strands(s) \in BOOLEAN
    BY Told, EmptySeq DEF Strands, TaskType
  <2>2. QED
    BY <2>1, Told DEF TaskType, Strands
<1> HIDE DEF t
<1>4. QED
  BY <1>1, <1>2, <1>3, EmptiedInv

LEMMA TaskDeletedInv == ASSUME Inv, NEW s \in Tasks, TaskDeleted(s) PROVE Inv'
<1> DEFINE t == [task[s] EXCEPT !.waiting = <<>>, !.held = FALSE, !.gone = TRUE,
                                !.stranded = Strands(s) \/ task[s].waiting # <<>>]
<1>1. /\ s \in deleting /\ deleting' = deleting \ {s}
      /\ UNCHANGED <<now, up, job, runs, tick, forced, forcing, editing, left, restarted, slot, ended>>
  BY DEF TaskDeleted, ghosts
<1>2. task' = [task EXCEPT ![s] = t]
  <2> DEFINE e == [task[s] EXCEPT !.waiting = <<>>, !.held = FALSE, !.stranded = Strands(s)]
  <2>1. task \in [Tasks -> TaskType]
    BY DEF Inv, Typed
  <2>2. Emptied(s) = [task EXCEPT ![s] = e]
    BY DEF Emptied
  <2>3. task' = [[task EXCEPT ![s] = e] EXCEPT ![s].gone = TRUE,
                                               ![s].stranded = @ \/ task[s].waiting # <<>>]
    BY <2>2 DEF TaskDeleted
  <2>4. t = [e EXCEPT !.gone = TRUE, !.stranded = @ \/ task[s].waiting # <<>>]
    BY <2>1 DEF TaskType
  <2> HIDE DEF e, t
  <2>5. QED
    BY <2>1, <2>3, <2>4
<1>3. /\ t \in TaskType /\ t.job = task[s].job /\ t.byHand = task[s].byHand
      /\ t.turn = task[s].turn /\ t.then = task[s].then
      /\ t.then = "held" => t.stranded
      /\ task[s].stranded => t.stranded
      /\ task[s].waiting # <<>> => t.stranded
      /\ t.waiting = <<>>
  <2>1. <<>> \in Seq({"job", "user"}) /\ Strands(s) \in BOOLEAN
    BY Told, EmptySeq DEF Strands, TaskType
  <2>2. QED
    BY <2>1, Told DEF TaskType, Strands
<1> HIDE DEF t
<1>4. QED
  BY <1>1, <1>2, <1>3, Told, EmptiedInv

LEMMA WithdrawInv == ASSUME Inv, NEW s \in Tasks, Withdraw(s) PROVE Inv'
<1>1. PICK i \in DOMAIN task[s].waiting :
         /\ task' = [task EXCEPT ![s].waiting = RemoveAt(@, i),
                                ![s].held = @ /\ i # 1,
                                ![s].stranded = @ \/ (i = 1 /\ Strands(s))]
         /\ IF Len(task[s].waiting) = 1 THEN Unstarted(s) ELSE UNCHANGED <<runs, forced>>
  BY DEF Withdraw
<1> DEFINE t == [task[s] EXCEPT !.waiting = RemoveAt(@, i), !.held = @ /\ i # 1,
                                !.stranded = @ \/ (i = 1 /\ Strands(s))]
<1>2. /\ up /\ task[s].job # {} /\ s \notin forcing
      /\ UNCHANGED <<now, up, job, tick, forcing, editing, deleting, restarted, slot, ended>>
  BY DEF Withdraw, Shown, Known, ghosts
<1>3. \E kind \in Kinds : Spend(kind)
  BY DEF Withdraw, Kinds
<1>4. task' = [task EXCEPT ![s] = t]
  BY <1>1
<1>5. /\ RemoveAt(task[s].waiting, i) \in Seq({"job", "user"})
      /\ Len(task[s].waiting) # 1 => RemoveAt(task[s].waiting, i) # <<>>
  BY Told, Queues
<1>6. /\ t \in TaskType /\ t.job = task[s].job /\ t.byHand = task[s].byHand
      /\ t.turn = task[s].turn /\ t.then = task[s].then
      /\ task[s].stranded => t.stranded
      /\ t.waiting = RemoveAt(task[s].waiting, i)
      /\ t.stranded = (task[s].stranded \/ (i = 1 /\ Strands(s)))
  BY <1>5, Told DEF TaskType
<1> HIDE DEF t
<1>7. t.then = "held" => t.stranded \/ t.waiting # <<>>
  <2>1. i # 1 => Len(task[s].waiting) # 1
    BY Told, LenProperties
  <2>2. QED
    BY <1>5, <1>6, <2>1 DEF Strands
<1>8. QED
  BY <1>1, <1>2, <1>3, <1>4, <1>5, <1>6, <1>7, EmptiedInv

\* A run is of one task.
LEMMA OneEach ==
    ASSUME Inv, NEW j \in Jobs, NEW i \in DOMAIN runs[j], NEW s \in runs[j][i].task
    PROVE  s \in Tasks /\ runs[j][i].task = {s} /\ task[s].job = {j} /\ job[j] # NoJob
<1>1. runs[j] \in Seq(RunType)
  BY DEF Inv, Typed
<1>2. runs[j][i] \in RunType
  BY <1>1, LenProperties, ElementOfSeq
<1>3. s \in Tasks /\ runs[j][i].task = {s}
  BY <1>2 DEF RunType
<1>4. QED
  BY <1>3 DEF Inv, Owned, RunsRooted, Unmade

\* A recurrence is not of a job that was never created.
LEMMA Recurs == \A rec \in Recurrences : rec.step \in Nat /\ rec.step > 0 /\ rec # NoJob.rec
                                         /\ rec.calendar \in BOOLEAN
BY RecurrenceAssumption DEF NoJob

\* Unpaid runs are runs whose end was noted.
LEMMA Finitely ==
    ASSUME Inv, NEW j \in Jobs
    PROVE  /\ IsFiniteSet(Pending(j)) /\ IsFiniteSet(Unpaid(j))
           /\ Cardinality(Pending(j)) \in Nat /\ Cardinality(Unpaid(j)) \in Nat
           /\ job[j].remaining \in Int /\ ended[j].granted \in Int /\ Spent(j) \in Int
           /\ ended[j].clock \in Nat /\ ended[j].hand \in Nat
<1>1. IsFiniteSet(Pending(j)) /\ Unpaid(j) \subseteq Pending(j)
  BY DEF Inv, Paid, Pending, Unpaid, Closings
<1>2. IsFiniteSet(Unpaid(j))
  BY <1>1, FS_Subset
<1>3. /\ job[j].remaining \in Int /\ ended[j].granted \in Int
      /\ ended[j].clock \in Nat /\ ended[j].hand \in Nat
  BY DEF Inv, Typed, JobType, Tally
<1>4. QED
  BY <1>1, <1>2, <1>3, FS_CardinalityType DEF Spent

\* The end of a turn is noted once, for the job whose run it closes.
LEMMA TurnEndsInv == ASSUME Inv, NEW s \in Tasks, NEW status \in Closings, TurnEnds(s, status)
                     PROVE  Inv'
<1> DEFINE Of(j) == \E i \in Open(j) : runs[j][i].task = {s}
           t == [task[s] EXCEPT !.turn = IF ClosesRun(s) THEN @ ELSE "none",
                                !.then = IF ClosesRun(s) THEN status ELSE "none"]
<1>1. /\ task[s].turn # "none" /\ task[s].then = "none" /\ runs' = Closed(s, status)
      /\ task' = [task EXCEPT ![s] = t]
      /\ UNCHANGED <<now, up, job, tick, forced, forcing, editing, deleting, left, restarted, slot>>
  BY DEF TurnEnds, memory
<1>2. \A j \in Jobs : ended'[j] =
         IF Of(j) THEN IF task[s].byHand THEN [ended[j] EXCEPT !.hand = @ + 1]
                       ELSE [ended[j] EXCEPT !.clock = @ + 1]
         ELSE ended[j]
  BY DEF TurnEnds
<1>3. Fewer /\ ~HasRun(s)'
  BY <1>1, ClosedFewer DEF Statuses, Closings
<1>4. \A j \in Jobs : Of(j) <=> HasRun(s) /\ task[s].job = {j}
  <2>1. \A j \in Jobs : \A i \in DOMAIN runs[j] : s \in runs[j][i].task <=> runs[j][i].task = {s}
    BY OneEach
  <2>2. \A j \in Jobs : \A i \in DOMAIN runs[j] : s \in runs[j][i].task => task[s].job = {j}
    BY OneEach
  <2>3. \A j \in Jobs, k \in Jobs : {j} = {k} => j = k
    OBVIOUS
  <2>4. QED
    BY <2>1, <2>2, <2>3 DEF HasRun, Open
<1>5. ClosesRun(s) <=> HasRun(s)
  <2>1. \A j \in Jobs : \A i \in DOMAIN runs[j] : s \in runs[j][i].task <=> runs[j][i].task = {s}
    BY OneEach
  <2>2. QED
    BY <2>1 DEF HasRun, Open, ClosesRun
<1>6. /\ t \in TaskType /\ t.job = task[s].job /\ t.byHand = task[s].byHand
      /\ t.waiting = task[s].waiting
      /\ HasRun(s) => t.turn = task[s].turn /\ t.then = status
      /\ ~HasRun(s) => t.turn = "none" /\ t.then = "none"
  BY <1>5, Told DEF TaskType
<1>7. /\ ended' \in [Jobs -> Tally]
      /\ \A j \in Jobs :
            /\ ended'[j].granted = ended[j].granted
            /\ ~Of(j) => ended'[j] = ended[j]
            /\ Of(j) => ended'[j].clock + ended'[j].hand = ended[j].clock + ended[j].hand + 1
            /\ Of(j) => ended'[j].clock = ended[j].clock + (IF task[s].byHand THEN 0 ELSE 1)
  <2>1. DOMAIN ended' = Jobs /\ ended' = [j \in Jobs |-> ended'[j]]
    BY DEF TurnEnds
  <2>2. \A j \in Jobs : ended[j] \in Tally
    BY DEF Inv, Typed
  <2> HIDE DEF Of
  <2>3. QED
    BY <1>2, <2>1, <2>2 DEF Tally
<1> HIDE DEF t, Of
<1>8. TaskMoves(s) /\ task'[s] = t
  BY <1>1, <1>6, Told, Changed
<1>9. Sound'
  <2>1. Turned(s) /\ Caused(s)
    BY <1>1, <1>3, <1>6, <1>8, Told DEF Turned, Caused, Closings
  <2>2. Ends
    BY <1>1, <1>4, <1>7, Untouched DEF Ends, Inv, Owned, Unmade
  <2>3. Drops(s)
    BY <1>1, Untouched DEF Drops, Inv, Halted
  <2>4. QED
    BY <1>1, <1>3, <1>8, <2>1, <2>2, <2>3, OneTask, Untouched
<1>10. Paid'
  <2>1. \A u \in Tasks : HasRun(u)' => HasRun(u)
    BY <1>3, <1>8, Rooted DEF TaskMoves, Others
  <2>2. ASSUME NEW j \in Jobs
        PROVE  /\ Of(j) => Pending(j)' = Pending(j) \cup {s} /\ s \notin Pending(j)
               /\ ~Of(j) => Pending(j)' = Pending(j)
               /\ Of(j) /\ ~task[s].byHand => Unpaid(j)' = Unpaid(j) \cup {s} /\ s \notin Unpaid(j)
               /\ ~Of(j) \/ task[s].byHand => Unpaid(j)' = Unpaid(j)
    BY <1>1, <1>4, <1>6, <1>8 DEF TaskMoves, Others, Pending, Unpaid, Closings
  <2>3. ASSUME NEW j \in Jobs
        PROVE  /\ IsFiniteSet(Pending(j)')
               /\ Of(j) => Cardinality(Pending(j)') = Cardinality(Pending(j)) + 1
               /\ ~Of(j) => Cardinality(Pending(j)') = Cardinality(Pending(j))
               /\ Of(j) /\ ~task[s].byHand => Cardinality(Unpaid(j)') = Cardinality(Unpaid(j)) + 1
               /\ ~Of(j) \/ task[s].byHand => Cardinality(Unpaid(j)') = Cardinality(Unpaid(j))
    <3>1. IsFiniteSet(Pending(j)) /\ IsFiniteSet(Unpaid(j))
          /\ Cardinality(Pending(j)) \in Nat /\ Cardinality(Unpaid(j)) \in Nat
      BY Finitely
    <3>2. /\ IsFiniteSet(Pending(j) \cup {s})
          /\ s \notin Pending(j) => Cardinality(Pending(j) \cup {s}) = Cardinality(Pending(j)) + 1
      BY <3>1, FS_AddElement
    <3>3. s \notin Unpaid(j) => Cardinality(Unpaid(j) \cup {s}) = Cardinality(Unpaid(j)) + 1
      BY <3>1, FS_AddElement
    <3>4. IsFiniteSet(Pending(j)')
      BY <2>2, <3>1, <3>2
    <3>5. /\ Of(j) => Cardinality(Pending(j)') = Cardinality(Pending(j)) + 1
          /\ ~Of(j) => Cardinality(Pending(j)') = Cardinality(Pending(j))
      BY <2>2, <3>1, <3>2
    <3>6. /\ Of(j) /\ ~task[s].byHand => Cardinality(Unpaid(j)') = Cardinality(Unpaid(j)) + 1
          /\ ~Of(j) \/ task[s].byHand => Cardinality(Unpaid(j)') = Cardinality(Unpaid(j))
      BY <2>2, <3>1, <3>3
    <3>7. QED
      BY <3>4, <3>5, <3>6
  <2>4. \A j \in Jobs : Spent(j)' = Spent(j)
    BY <1>1, <1>7 DEF Spent
  <2>5. ASSUME NEW j \in Jobs
        PROVE  Spent(j) + Cardinality(Pending(j)') <= ended'[j].clock + ended'[j].hand
    BY <1>7, <2>3, Finitely DEF Inv, Paid
  <2>6. ASSUME NEW j \in Jobs
        PROVE  ended'[j].clock - Cardinality(Unpaid(j)') = ended[j].clock - Cardinality(Unpaid(j))
    BY <1>7, <2>3, Finitely
  <2>7. ASSUME NEW u \in Tasks, ~restarted, task'[u].byHand, HasRun(u)' \/ task'[u].then \in Closings
        PROVE  u \in forced'
    <3>1. task[u].byHand /\ (HasRun(u) \/ task[u].then \in Closings)
      BY <1>1, <1>6, <1>8, <2>1, <2>7 DEF TaskMoves, Others, Closings
    <3>2. QED
      BY <1>1, <2>7, <3>1 DEF Inv, Paid
  <2>8. QED
    BY <1>1, <1>7, <2>3, <2>4, <2>5, <2>6, <2>7 DEF Inv, Paid
<1>11. QED
  BY <1>9, <1>10 DEF Inv, Sound

\* The counter goes down once for a run that was noted, unless it was forced.
LEMMA SpendRunInv == ASSUME Inv, NEW s \in Tasks, SpendRun(s) PROVE Inv'
<1> DEFINE t == IF task[s].then = "finished" THEN [task[s] EXCEPT !.then = "pause"]
                ELSE [task[s] EXCEPT !.then = "none", !.turn = "none"]
<1>1. /\ task[s].then \in Closings /\ forced' = forced \ {s}
      /\ job' = [j \in Jobs |->
            IF task[s].job = {j} /\ s \notin forced /\ job[j].remaining > 0
            THEN [job[j] EXCEPT !.remaining = @ - 1] ELSE job[j]]
      /\ task' = [task EXCEPT ![s] = t]
      /\ UNCHANGED <<now, up, runs, tick, forcing, editing, deleting, left, restarted, slot, ended>>
  BY DEF SpendRun, ghosts, Closings
<1>2. /\ t \in TaskType /\ t.job = task[s].job /\ t.byHand = task[s].byHand
      /\ t.then \in {"none", "pause"} /\ (t.then = "pause" => t.turn = task[s].turn)
      /\ t.turn \in {"none", task[s].turn}
  BY Told DEF TaskType
<1> HIDE DEF t
<1>3. /\ ~HasRun(s) /\ ~HasRun(s)' /\ up /\ task[s].job # {} /\ s \notin forcing
      /\ task[s].turn # "none" /\ Fewer
  BY <1>1, Told, Untouched DEF Closings
<1>4. TaskMoves(s) /\ task'[s] = t
  BY <1>1, <1>2, <1>3, Changed
<1>5. \A j \in Jobs : /\ job[j] \in JobType
                      /\ task[s].job = {j} => job[j] # NoJob /\ job[j].rec \in Recurrences
  BY DEF Inv, Typed, Owned, Unmade
<1>6. SameJobs
  <2>1. ASSUME NEW j \in Jobs
        PROVE  /\ job'[j] \in JobType
               /\ job'[j].exists = job[j].exists /\ job'[j].rec = job[j].rec
               /\ job'[j].next = job[j].next /\ (job'[j] = NoJob <=> job[j] = NoJob)
    <3>1. CASE task[s].job = {j} /\ s \notin forced /\ job[j].remaining > 0
      <4>1. job'[j] = [job[j] EXCEPT !.remaining = @ - 1]
        BY <1>1, <3>1
      <4>2. /\ job'[j] \in JobType /\ job'[j].exists = job[j].exists
            /\ job'[j].rec = job[j].rec /\ job'[j].next = job[j].next
        BY <1>5, <4>1 DEF JobType
      <4>3. job'[j] # NoJob
        BY <1>5, <3>1, <4>2, Recurs
      <4>4. QED
        BY <1>5, <3>1, <4>2, <4>3
    <3>2. CASE ~(task[s].job = {j} /\ s \notin forced /\ job[j].remaining > 0)
      BY <1>1, <1>5, <3>2
    <3>3. QED
      BY <3>1, <3>2
  <2>2. QED
    BY <1>1, <2>1 DEF SameJobs
<1>7. Sound'
  <2>1. Turned(s) /\ Caused(s)
    BY <1>1, <1>2, <1>3, <1>4 DEF Turned, Caused, Closings
  <2>2. Ends
    BY <1>1, Untouched DEF Ends
  <2>3. Drops(s)
    BY <1>1, Untouched DEF Drops, Inv, Halted
  <2>4. QED
    BY <1>3, <1>4, <1>6, <2>1, <2>2, <2>3, OneTask
<1>8. Paid'
  <2> DEFINE Of(j) == task[s].job = {j}
  <2>1. ASSUME NEW j \in Jobs
        PROVE  /\ Of(j) => Pending(j)' = Pending(j) \ {s} /\ s \in Pending(j)
               /\ ~Of(j) => Pending(j)' = Pending(j)
               /\ Of(j) /\ ~task[s].byHand => Unpaid(j)' = Unpaid(j) \ {s} /\ s \in Unpaid(j)
               /\ ~Of(j) \/ task[s].byHand => Unpaid(j)' = Unpaid(j)
    BY <1>1, <1>2, <1>4 DEF TaskMoves, Others, Pending, Unpaid, Closings
  <2>2. ASSUME NEW j \in Jobs
        PROVE  /\ IsFiniteSet(Pending(j)')
               /\ Of(j) => Cardinality(Pending(j)') = Cardinality(Pending(j)) - 1
               /\ ~Of(j) => Cardinality(Pending(j)') = Cardinality(Pending(j))
               /\ Of(j) /\ ~task[s].byHand => Cardinality(Unpaid(j)') = Cardinality(Unpaid(j)) - 1
               /\ ~Of(j) \/ task[s].byHand => Cardinality(Unpaid(j)') = Cardinality(Unpaid(j))
    <3>1. IsFiniteSet(Pending(j)) /\ IsFiniteSet(Unpaid(j))
          /\ Cardinality(Pending(j)) \in Nat /\ Cardinality(Unpaid(j)) \in Nat
      BY Finitely
    <3>2. /\ IsFiniteSet(Pending(j) \ {s})
          /\ s \in Pending(j) => Cardinality(Pending(j) \ {s}) = Cardinality(Pending(j)) - 1
      BY <3>1, FS_RemoveElement
    <3>3. s \in Unpaid(j) => Cardinality(Unpaid(j) \ {s}) = Cardinality(Unpaid(j)) - 1
      BY <3>1, FS_RemoveElement
    <3>4. IsFiniteSet(Pending(j)')
      BY <2>1, <3>1, <3>2
    <3>5. /\ Of(j) => Cardinality(Pending(j)') = Cardinality(Pending(j)) - 1
          /\ ~Of(j) => Cardinality(Pending(j)') = Cardinality(Pending(j))
      BY <2>1, <3>1, <3>2
    <3>6. /\ Of(j) /\ ~task[s].byHand => Cardinality(Unpaid(j)') = Cardinality(Unpaid(j)) - 1
          /\ ~Of(j) \/ task[s].byHand => Cardinality(Unpaid(j)') = Cardinality(Unpaid(j))
      BY <2>1, <3>1, <3>3
    <3>7. QED
      BY <3>4, <3>5, <3>6
  <2>3. ASSUME NEW j \in Jobs
        PROVE  /\ job[j].remaining > 0 /\ Of(j) /\ s \notin forced =>
                     job'[j].remaining = job[j].remaining - 1 /\ Spent(j)' = Spent(j) + 1
               /\ ~(job[j].remaining > 0 /\ Of(j) /\ s \notin forced) =>
                     job'[j].remaining = job[j].remaining /\ Spent(j)' = Spent(j)
    <3>1. job[j].remaining \in Int /\ ended[j].granted \in Int /\ ended' = ended
      BY <1>1, Finitely
    <3>2. /\ job[j].remaining > 0 /\ Of(j) /\ s \notin forced =>
                job'[j].remaining = job[j].remaining - 1
          /\ ~(job[j].remaining > 0 /\ Of(j) /\ s \notin forced) =>
                job'[j].remaining = job[j].remaining
      BY <1>1, <1>5 DEF JobType
    <3>3. (job'[j] = NoJob <=> job[j] = NoJob) /\ (Of(j) => job[j] # NoJob)
      BY <1>5, <1>6 DEF SameJobs
    <3>4. QED
      BY <3>1, <3>2, <3>3 DEF Spent
  <2> HIDE DEF Of
  <2>4. ASSUME NEW j \in Jobs
        PROVE  /\ ended[j].granted >= 0 => job'[j].remaining >= 0
               /\ ended[j].granted = -1 /\ job'[j] # NoJob => job'[j].remaining = -1
               /\ Spent(j)' + Cardinality(Pending(j)') <= ended'[j].clock + ended'[j].hand
    <3>1. job'[j] = NoJob <=> job[j] = NoJob
      BY <1>6 DEF SameJobs
    <3>2. /\ ended[j].granted >= 0 => job[j].remaining >= 0
          /\ ended[j].granted = -1 /\ job[j] # NoJob => job[j].remaining = -1
          /\ Spent(j) + Cardinality(Pending(j)) <= ended[j].clock + ended[j].hand
      BY DEF Inv, Paid
    <3>3. QED
      BY <1>1, <2>2, <2>3, <3>1, <3>2, Finitely
  <2>5. ASSUME NEW j \in Jobs, ~restarted, ended[j].granted >= 0, job'[j] # NoJob
        PROVE  LET paid == ended'[j].clock - Cardinality(Unpaid(j)')
               IN  Spent(j)' <= paid /\ (Spent(j)' = ended[j].granted \/ Spent(j)' = paid)
    <3>1. job[j] # NoJob
      BY <1>6, <2>5 DEF SameJobs
    <3> DEFINE paid == ended[j].clock - Cardinality(Unpaid(j))
    <3>2. /\ Spent(j) <= paid /\ (Spent(j) = ended[j].granted \/ Spent(j) = paid)
          /\ job[j].remaining >= 0 /\ Spent(j) = ended[j].granted - job[j].remaining
      BY <2>5, <3>1 DEF Inv, Paid, Spent
    <3>3. task[s].byHand <=> s \in forced
      BY <1>1, <2>5 DEF Inv, Paid, Owned, HandMade
    <3>4. QED
      BY <1>1, <2>2, <2>3, <3>2, <3>3, Finitely
  <2>6. ASSUME NEW u \in Tasks, ~restarted, task'[u].byHand, HasRun(u)' \/ task'[u].then \in Closings
        PROVE  u \in forced'
    <3>1. u # s
      BY <1>2, <1>3, <1>4, <2>6 DEF Closings
    <3>2. task[u].byHand /\ (HasRun(u) \/ task[u].then \in Closings)
      BY <1>1, <1>4, <2>6, <3>1, Untouched DEF TaskMoves, Others
    <3>3. QED
      BY <1>1, <2>6, <3>1, <3>2 DEF Inv, Paid
  <2>7. QED
    BY <1>1, <2>2, <2>4, <2>5, <2>6 DEF Inv, Paid
<1>9. QED
  BY <1>7, <1>8 DEF Inv, Sound

LEMMA PauseFinishedInv == ASSUME Inv, NEW s \in Tasks, PauseFinished(s) PROVE Inv'
<1> DEFINE t == [task[s] EXCEPT !.then = "none", !.turn = "none"]
<1>1. /\ task[s].then = "pause"
      /\ job' = [j \in Jobs |-> IF task[s].job = {j} THEN [job[j] EXCEPT !.paused = TRUE]
                                ELSE job[j]]
      /\ task' = [task EXCEPT ![s] = t]
      /\ UNCHANGED <<now, up, runs, tick, forced, forcing, editing, deleting, left, restarted, slot,
                     ended>>
  BY DEF PauseFinished, ghosts, memory
<1>2. /\ t \in TaskType /\ t.job = task[s].job /\ t.byHand = task[s].byHand
      /\ t.then = "none" /\ t.turn = "none"
  BY Told DEF TaskType
<1> HIDE DEF t
<1>3. /\ ~HasRun(s) /\ ~HasRun(s)' /\ up /\ task[s].job # {} /\ s \notin forcing /\ Fewer
  BY <1>1, Told, Untouched
<1>4. TaskMoves(s) /\ task'[s] = t
  BY <1>1, <1>2, <1>3, Changed
<1>5. ASSUME NEW j \in Jobs
      PROVE  /\ job'[j] \in JobType
             /\ job'[j].exists = job[j].exists /\ job'[j].rec = job[j].rec
             /\ job'[j].next = job[j].next /\ (job'[j] = NoJob <=> job[j] = NoJob)
             /\ job'[j].remaining = job[j].remaining
  <2>1. job[j] \in JobType /\ (task[s].job = {j} => job[j] # NoJob /\ job[j].rec \in Recurrences)
    BY DEF Inv, Typed, Owned, Unmade
  <2>2. CASE task[s].job = {j}
    <3>1. job'[j] = [job[j] EXCEPT !.paused = TRUE]
      BY <1>1, <2>2
    <3>2. QED
      BY <2>1, <2>2, <3>1, Recurs DEF JobType
  <2>3. CASE task[s].job # {j}
    BY <1>1, <2>1, <2>3
  <2>4. QED
    BY <2>2, <2>3
<1>6. SameJobs
  BY <1>1, <1>5 DEF SameJobs
<1>7. Sound'
  <2>1. Turned(s) /\ Caused(s)
    BY <1>1, <1>2, <1>3, <1>4 DEF Turned, Caused, Closings
  <2>2. Ends
    BY <1>1, Untouched DEF Ends
  <2>3. Drops(s)
    BY <1>1, Untouched DEF Drops, Inv, Halted
  <2>4. QED
    BY <1>3, <1>4, <1>6, <2>1, <2>2, <2>3, OneTask
<1>8. Paid'
  <2>1. \A u \in Tasks : HasRun(u)' => HasRun(u)
    BY <1>1, Untouched
  <2>2. QED
    BY <1>1, <1>2, <1>4, <1>5, <2>1, PaidKept DEF TaskMoves, Closings
<1>9. QED
  BY <1>7, <1>8 DEF Inv, Sound

\* A job is booked for a time to come.
LEMMA Later ==
    ASSUME NEW rec \in Recurrences, NEW prev \in Nat, NEW t \in Nat
    PROVE  /\ FirstRun(rec, t) \in Nat /\ FirstRun(rec, t) > t
           /\ prev <= t => AdvanceRun(rec, prev, t) \in Nat /\ AdvanceRun(rec, prev, t) > t
<1> DEFINE step == rec.step
<1>1. step \in Nat /\ step > 0 /\ rec.calendar \in BOOLEAN
  BY Recurs
<1>2. ASSUME NEW n \in Nat
      PROVE  (n \div step + 1) * step > n /\ (n \div step + 1) * step \in Nat
  <2> HIDE DEF step
  <2>1. (n \div step + 1) * step > n
    BY <1>1
  <2>2. n \div step \in Nat
    BY <1>1
  <2>3. QED
    BY <1>1, <2>1, <2>2
<1>3. FirstRun(rec, t) \in Nat /\ FirstRun(rec, t) > t
  <2>1. FirstRun(rec, t) = IF rec.calendar THEN (t \div step + 1) * step ELSE t + step
    BY DEF FirstRun
  <2>2. (t \div step + 1) * step > t /\ (t \div step + 1) * step \in Nat
    BY <1>2
  <2> HIDE DEF step
  <2>3. t + step \in Nat /\ t + step > t
    BY <1>1
  <2>4. QED
    BY <1>1, <2>1, <2>2, <2>3
<1>4. ASSUME prev <= t
      PROVE  AdvanceRun(rec, prev, t) \in Nat /\ AdvanceRun(rec, prev, t) > t
  <2> DEFINE next == prev + step
  <2>1. CASE rec.calendar
    BY <1>3, <2>1 DEF AdvanceRun
  <2>2. CASE ~rec.calendar /\ next > t
    BY <1>1, <2>2 DEF AdvanceRun
  <2>3. CASE ~rec.calendar /\ ~(next > t)
    <3>1. AdvanceRun(rec, prev, t) = next + step * ((t - next) \div step + 1)
      BY <2>3 DEF AdvanceRun
    <3>2. t - next \in Nat /\ next \in Nat
      BY <1>1, <2>3
    <3> DEFINE q == (t - next) \div step + 1
    <3>3. q * step > t - next /\ q * step \in Nat
      BY <1>2, <3>2
    <3>4. q \in Int
      BY <1>1, <3>2
    <3> HIDE DEF next, step, q
    <3>5. step * q = q * step
      BY <1>1, <3>4
    <3>6. AdvanceRun(rec, prev, t) = next + q * step
      BY <3>1, <3>5 DEF q
    <3>7. QED
      BY <3>2, <3>3, <3>6
  <2>4. QED
    BY <2>1, <2>2, <2>3
<1>5. QED
  BY <1>3, <1>4

\* A step that is not about tasks leaves them in order.
Still == /\ UNCHANGED <<up, restarted, task, forced, forcing, deleting, ended>>
         /\ tick'.task = tick.task /\ Fewer
LEMMA Aside ==
    ASSUME Inv, Still
    PROVE  /\ Rows' /\ Turns' /\ RunsRooted' /\ Unborn' /\ HandMade' /\ Causes'
           /\ \A j \in Jobs : ByClock(j)' \subseteq ByClock(j)
           /\ (\A j \in Jobs : /\ job'[j].remaining = job[j].remaining
                               /\ job'[j] = NoJob <=> job[j] = NoJob) => Paid'
<1>1. /\ RunsRooted' /\ \A s \in Tasks : HasRun(s)' => HasRun(s)
      /\ \A j \in Jobs : ByClock(j)' \subseteq ByClock(j)
  BY Rooted DEF Still
<1>2. Rows' /\ Turns' /\ Unborn' /\ HandMade'
  BY DEF Inv, Still, Fewer, Turns, Owned, Unborn, HandMade
<1>3. Causes'
  BY <1>1 DEF Inv, Still, Causes, Cause
<1>4. ASSUME \A j \in Jobs : job'[j].remaining = job[j].remaining /\ (job'[j] = NoJob <=> job[j] = NoJob)
      PROVE  Paid'
  <2>1. \A j \in Jobs : /\ Pending(j)' = Pending(j) /\ Unpaid(j)' = Unpaid(j)
                        /\ Spent(j)' = Spent(j)
    BY <1>4 DEF Still, Pending, Unpaid, Spent
  <2>2. QED
    BY <1>1, <1>4, <2>1 DEF Inv, Still, Paid
<1>5. QED
  BY <1>1, <1>2, <1>3, <1>4

LEMMA ElapseInv == ASSUME Inv, Elapse PROVE Inv'
<1>1. /\ now' = now + 1 /\ now < MaxNow
      /\ UNCHANGED <<up, job, runs, task, tick, forced, forcing, editing, deleting, left, restarted,
                     slot, ended>>
  BY DEF Elapse, memory, ghosts
<1>2. Still
  BY <1>1, Untouched DEF Still
<1>3. Typed' /\ Slots'
  <2>1. now \in Int /\ tick.at \in Nat /\ \A j \in Jobs : slot[j] \in Nat
    BY DEF Inv, Typed, TickType
  <2>2. Slots'
    BY <1>1, <2>1 DEF Inv, Slots
  <2>3. Typed'
    BY <1>1, MaxNowAssumption DEF Inv, Typed
  <2>4. QED
    BY <2>2, <2>3
<1>4. Ticking' /\ Halted' /\ Unmade' /\ Alone'
  BY <1>1 DEF Inv, Ticking, Halted, Owned, Unmade, Alone, ByClock, Open
<1>5. QED
  BY <1>1, <1>2, <1>3, <1>4, Aside DEF Inv, Owned

\* The ticker reads what is due, and which job has an open run.
LEMMA DueReadInv == ASSUME Inv, DueRead PROVE Inv'
<1> DEFINE D == {[job |-> j, next |-> job[j].next, rec |-> job[j].rec, running |-> Running(j)] :
                    j \in {k \in Jobs : Due(k)}}
<1>1. /\ up /\ tick.pc = "idle" /\ tick' = [Idle EXCEPT !.pc = "book", !.at = now, !.due = D]
      /\ UNCHANGED <<now, up, job, runs, task, forced, forcing, editing, deleting, left, restarted,
                     slot, ended>>
  BY DEF DueRead, memory, ghosts
<1>2. \A d \in D : /\ d.job \in Jobs /\ Due(d.job) /\ d.next = job[d.job].next
                   /\ d.rec = job[d.job].rec /\ d.running = Running(d.job)
                   /\ d = [job |-> d.job, next |-> d.next, rec |-> d.rec, running |-> d.running]
  OBVIOUS
<1> HIDE DEF D
<1>3. \A d \in D : /\ d \in DueType /\ job[d.job] # NoJob /\ slot[d.job] < d.next /\ d.next <= now
                   /\ ~d.running => Open(d.job) = {}
  <2>1. ASSUME NEW d \in D
        PROVE  /\ d \in DueType /\ job[d.job] # NoJob /\ slot[d.job] < d.next /\ d.next <= now
               /\ ~d.running => Open(d.job) = {}
    <3>1. job[d.job].exists /\ d.next <= now /\ d.running \in BOOLEAN
      BY <1>2 DEF Due, Running
    <3>2. job[d.job] # NoJob
      BY <3>1 DEF NoJob
    <3>3. job[d.job].rec \in Recurrences /\ job[d.job].next \in Nat
      BY <1>2, <3>2 DEF Inv, Typed, JobType, Owned, Unmade
    <3>4. d \in DueType
      BY <1>2, <3>1, <3>3 DEF DueType
    <3>5. slot[d.job] < d.next
      BY <1>2, <3>1 DEF Inv, Slots
    <3>6. QED
      BY <1>2, <3>1, <3>2, <3>4, <3>5 DEF Running
  <2>2. QED
    BY <2>1
<1>4. /\ tick'.pc = "book" /\ tick'.due = D /\ tick'.at = now /\ tick'.cur = {} /\ tick'.task = {}
      /\ tick' \in TickType /\ tick.task = {} /\ now \in Nat
  <2>1. D \subseteq DueType /\ now \in Nat /\ tick.task = {}
    BY <1>1, <1>3, MaxNowAssumption DEF Inv, Typed, Ticking
  <2>2. tick' = [pc |-> "book", due |-> D, at |-> now, cur |-> {}, task |-> {}]
    BY <1>1 DEF Idle
  <2>3. QED
    BY <2>1, <2>2 DEF TickType
<1>5. Still
  BY <1>1, <1>4, Untouched DEF Still
<1>6. Typed' /\ Ticking' /\ Halted'
  <2>1. \A d, e \in D : d.job = e.job => d = e
    <3>1. ASSUME NEW d \in D, NEW e \in D, d.job = e.job
          PROVE  d = e
      <4>1. d.next = e.next /\ d.rec = e.rec /\ d.running = e.running
        BY <1>2, <3>1
      <4>2. d \in DueType /\ e \in DueType
        BY <1>3
      <4>3. QED
        BY <3>1, <4>1, <4>2 DEF DueType
    <3>2. QED
      BY <3>1
  <2>2. Typed'
    BY <1>1, <1>4 DEF Inv, Typed
  <2>3. Ticking' /\ Halted'
    BY <1>1, <1>4, <2>1 DEF Ticking, Halted
  <2>4. QED
    BY <2>2, <2>3
<1>7. Unmade'
  BY <1>1, <1>3, <1>4 DEF Inv, Owned, Unmade
<1>8. Slots'
  BY <1>1, <1>3, <1>4 DEF Inv, Slots
<1>9. Alone'
  BY <1>1, <1>3, <1>4 DEF Inv, Alone, ByClock, Open
<1>10. QED
  BY <1>1, <1>5, <1>6, <1>7, <1>8, <1>9, Aside DEF Inv, Owned

LEMMA TickDoneInv == ASSUME Inv, TickDone PROVE Inv'
<1>1. /\ tick.pc = "book" /\ tick' = Idle
      /\ UNCHANGED <<now, up, job, runs, task, forced, forcing, editing, deleting, left, restarted,
                     slot, ended>>
  BY DEF TickDone, memory, ghosts
<1>2. /\ tick'.pc = "idle" /\ tick'.due = {} /\ tick'.at = 0 /\ tick'.cur = {} /\ tick'.task = {}
      /\ tick' \in TickType /\ tick.task = {} /\ now \in Nat
  BY <1>1, MaxNowAssumption DEF Idle, TickType, Inv, Typed, Ticking
<1>3. Still
  BY <1>1, <1>2, Untouched DEF Still
<1>4. Typed' /\ Ticking' /\ Halted' /\ Unmade'
  BY <1>1, <1>2 DEF Inv, Typed, Ticking, Halted, Owned, Unmade
<1>5. Slots' /\ Alone'
  BY <1>1, <1>2 DEF Inv, Slots, Alone, ByClock, Open
<1>6. QED
  BY <1>1, <1>3, <1>4, <1>5, Aside DEF Inv, Owned

\* The next run is booked for later than the slot that fires.
LEMMA BookInv == ASSUME Inv, Book PROVE Inv'
<1>1. PICK d \in tick.due :
         /\ job' = IF job[d.job].exists THEN [job EXCEPT ![d.job].next = Booked(d)] ELSE job
         /\ tick' = [tick EXCEPT !.pc = "fire", !.cur = {d}, !.due = @ \ {d}]
         /\ slot' = [slot EXCEPT ![d.job] = d.next]
  BY DEF Book
<1>2. /\ tick.pc = "book"
      /\ UNCHANGED <<now, up, runs, task, forced, forcing, editing, deleting, left, restarted, ended>>
  BY DEF Book, memory
<1>3. /\ d \in DueType /\ d.job \in Jobs /\ d.next \in Nat /\ d.rec \in Recurrences
      /\ tick.at \in Nat /\ tick.cur = {} /\ tick.task = {} /\ tick \in TickType /\ up
      /\ d.next <= tick.at /\ tick.at <= now /\ now \in Nat /\ job[d.job] # NoJob
  BY <1>2, MaxNowAssumption
     DEF Inv, Typed, TickType, DueType, Ticking, Halted, Idle, Slots, Owned, Unmade
<1>4. Booked(d) \in Nat /\ Booked(d) > tick.at
  BY <1>3, Later DEF Booked
<1>5. ASSUME NEW j \in Jobs
      PROVE  /\ job'[j] \in JobType /\ job'[j].exists = job[j].exists
             /\ job'[j].rec = job[j].rec /\ job'[j].remaining = job[j].remaining
             /\ job'[j].exists /\ j = d.job => job'[j].next = Booked(d)
             /\ j # d.job => job'[j].next = job[j].next
             /\ (job'[j] = NoJob <=> job[j] = NoJob)
  <2>1. job[j] \in JobType
    BY DEF Inv, Typed
  <2>2. CASE j = d.job /\ job[j].exists
    <3>1. job'[j] = [job[j] EXCEPT !.next = Booked(d)]
      BY <1>1, <2>2 DEF Inv, Typed
    <3>2. /\ job'[j] \in JobType /\ job'[j].exists = job[j].exists
          /\ job'[j].rec = job[j].rec /\ job'[j].remaining = job[j].remaining
          /\ job'[j].next = Booked(d)
      BY <1>4, <2>1, <3>1 DEF JobType
    <3>3. job[j].exists /\ job'[j].exists
      BY <2>2, <3>2
    <3>4. job[j] # NoJob
      BY <3>3 DEF NoJob
    <3>5. job'[j] # NoJob
      BY <3>3 DEF NoJob
    <3>6. QED
      BY <2>2, <3>2, <3>4, <3>5
  <2>3. CASE ~(j = d.job /\ job[j].exists)
    <3>1. job'[j] = job[j]
      BY <1>1, <2>3 DEF Inv, Typed
    <3>2. QED
      BY <2>1, <2>3, <3>1
  <2>4. QED
    BY <2>2, <2>3
<1>6. job' \in [Jobs -> JobType]
  <2>1. job' = [j \in Jobs |-> job'[j]]
    BY <1>1 DEF Inv, Typed
  <2>2. QED
    BY <1>5, <2>1
<1>7. /\ tick' \in TickType /\ tick'.pc = "fire" /\ tick'.cur = {d} /\ tick'.due = tick.due \ {d}
      /\ tick'.task = {} /\ tick'.at = tick.at
  BY <1>1, <1>3 DEF TickType
<1>8. Still
  BY <1>2, <1>3, <1>7, Untouched DEF Still
<1>9. /\ slot' \in [Jobs -> Nat] /\ slot'[d.job] = d.next
      /\ \A j \in Jobs : j # d.job => slot'[j] = slot[j]
  BY <1>1, <1>3 DEF Inv, Typed
<1>10. Typed' /\ Ticking' /\ Halted'
  BY <1>2, <1>3, <1>6, <1>7, <1>9 DEF Inv, Typed, Ticking, Halted
<1>11. Unmade'
  BY <1>2, <1>5, <1>7 DEF Inv, Owned, Unmade
<1>12. \A e \in tick.due : e # d => e.job # d.job /\ e.job \in Jobs
  BY <1>3 DEF Inv, Ticking, Typed, TickType, DueType
<1>13. Slots'
  <2>1. ASSUME NEW j \in Jobs
        PROVE  slot'[j] <= now /\ (job'[j].exists => slot'[j] < job'[j].next)
    BY <1>3, <1>4, <1>5, <1>9 DEF Inv, Slots
  <2>2. QED
    BY <1>2, <1>3, <1>7, <1>9, <1>12, <2>1 DEF Inv, Slots
<1>14. Alone'
  BY <1>2, <1>7 DEF Inv, Alone, ByClock, Open
<1>15. QED
  BY <1>5, <1>8, <1>10, <1>11, <1>13, <1>14, Aside DEF Inv, Owned

\* A skip after a skip extends it.
LEMMA SkippedFewer ==
    ASSUME Inv, NEW j \in Jobs, runs' = SkippedRun(j)
    PROVE  Fewer
<1>1. /\ runs \in [Jobs -> Seq(RunType)] /\ Len(runs[j]) \in Nat /\ DOMAIN runs[j] = 1..Len(runs[j])
      /\ \A i \in 1..Len(runs[j]) : runs[j][i] \in RunType
  BY LenProperties, ElementOfSeq DEF Inv, Typed
<1>2. CASE runs[j] # <<>> /\ Last(runs[j]).status = "skipped"
  <2> DEFINE n == Len(runs[j])
             r == [runs[j][n] EXCEPT !.count = @ + 1]
             q == [runs[j] EXCEPT ![n] = r]
  <2>1. n \in 1..n /\ runs[j][n].status = "skipped"
    <3>1. n # 0
      BY <1>1, <1>2, EmptySeq
    <3>2. n \in 1..n
      BY <1>1, <3>1
    <3>3. Last(runs[j]) = runs[j][n]
      BY DEF Last
    <3>4. QED
      BY <1>2, <3>2, <3>3
  <2>2. runs' = [runs EXCEPT ![j] = q]
    BY <1>2 DEF SkippedRun
  <2>3. r \in RunType /\ r.status = "skipped" /\ r.task = runs[j][n].task
    BY <1>1, <2>1 DEF RunType
  <2> HIDE DEF r
  <2>4. /\ q \in Seq(RunType) /\ Len(q) = n
        /\ \A i \in 1..n : q[i] = IF i = n THEN r ELSE runs[j][i]
    BY <1>1, <2>1, <2>3, ExceptSeq
  <2>5. DOMAIN q = 1..n
    BY <2>4, LenProperties
  <2> HIDE DEF q
  <2>6. /\ runs' \in [Jobs -> Seq(RunType)] /\ runs'[j] = q
        /\ \A k \in Jobs : k # j => runs'[k] = runs[k]
    BY <1>1, <2>2, <2>4
  <2>7. \A i \in 1..n : q[i].status = runs[j][i].status /\ q[i].task = runs[j][i].task
    BY <2>1, <2>3, <2>4
  <2>8. Rows'
    <3>1. \A i \in 2..n : i \in 1..n /\ i - 1 \in 1..n
      BY <1>1
    <3>2. /\ \A i \in 1..n : q[i].task = {} <=> q[i].status = "skipped"
          /\ \A i \in 2..n : ~(q[i].status = "skipped" /\ q[i - 1].status = "skipped")
      BY SMTT(30), <1>1, <2>7, <3>1 DEF Inv, Rows
    <3>3. QED
      BY SMTT(30), <2>4, <2>5, <2>6, <3>2 DEF Inv, Rows
  <2>9. QED
    BY <1>1, <2>5, <2>6, <2>7, <2>8 DEF Fewer, Open
<1>3. CASE ~(runs[j] # <<>> /\ Last(runs[j]).status = "skipped")
  <2> DEFINE n == Len(runs[j])
             r == [task |-> {}, status |-> "skipped", count |-> 1]
             q == Append(runs[j], r)
  <2>1. runs' = [runs EXCEPT ![j] = q]
    BY <1>3 DEF SkippedRun
  <2>2. r \in RunType /\ r.status = "skipped" /\ r.task = {}
    BY DEF RunType, Statuses
  <2> HIDE DEF r
  <2>3. /\ q \in Seq(RunType) /\ Len(q) = n + 1 /\ q[n + 1] = r
        /\ \A i \in 1..n : q[i] = runs[j][i]
    BY <1>1, <2>2, AppendProperties
  <2>4. DOMAIN q = 1..(n + 1)
    BY <2>3, LenProperties
  <2> HIDE DEF q
  <2>5. /\ runs' \in [Jobs -> Seq(RunType)] /\ runs'[j] = q
        /\ \A k \in Jobs : k # j => runs'[k] = runs[k]
    BY <1>1, <2>1, <2>3
  <2>6. n # 0 => runs[j][n].status # "skipped"
    BY <1>1, <1>3, EmptySeq DEF Last
  <2>7. Rows'
    <3>1. \A i \in 1..(n + 1) : q[i].task = {} <=> q[i].status = "skipped"
      BY <1>1, <2>2, <2>3 DEF Inv, Rows
    <3>2. \A i \in 2..(n + 1) : ~(q[i].status = "skipped" /\ q[i - 1].status = "skipped")
      <4>1. ASSUME NEW i \in 2..(n + 1)
            PROVE  ~(q[i].status = "skipped" /\ q[i - 1].status = "skipped")
        <5>1. CASE i = n + 1
          <6>1. i - 1 = n /\ n \in 1..n
            BY <1>1, <5>1
          <6>2. QED
            BY <2>3, <2>6, <6>1
        <5>2. CASE i # n + 1
          <6>1. i \in 2..n /\ i \in 1..n /\ i - 1 \in 1..n
            BY <1>1, <5>2
          <6>2. QED
            BY <2>3, <6>1 DEF Inv, Rows
        <5>3. QED
          BY <5>1, <5>2
      <4>2. QED
        BY <4>1
    <3>3. QED
      BY <2>3, <2>4, <2>5, <3>1, <3>2 DEF Inv, Rows
  <2>8. \A i \in 1..(n + 1) : i \in 1..n \/ i = n + 1
    BY <1>1
  <2>9. QED
    BY <1>1, <2>2, <2>3, <2>4, <2>5, <2>7, <2>8 DEF Fewer, Open
<1>4. QED
  BY <1>2, <1>3

\* A slot that is skipped leaves a row and opens no run.
LEMMA SkipInv == ASSUME Inv, Skip PROVE Inv'
<1>1. PICK d \in tick.cur : runs' = IF job[d.job].exists THEN SkippedRun(d.job) ELSE runs
  BY DEF Skip
<1>2. /\ tick.pc = "fire" /\ tick' = [tick EXCEPT !.pc = "book", !.cur = {}]
      /\ UNCHANGED <<now, up, job, task, forced, forcing, editing, deleting, left, restarted,
                     slot, ended>>
  BY DEF Skip, memory, ghosts
<1>3. d.job \in Jobs /\ up /\ tick \in TickType /\ tick.task = {}
  BY <1>2 DEF Inv, Typed, TickType, DueType, Halted, Idle, Ticking
<1>4. Fewer
  BY <1>1, <1>3, SkippedFewer, Untouched
<1>5. /\ tick' \in TickType /\ tick'.pc = "book" /\ tick'.cur = {} /\ tick'.due = tick.due
      /\ tick'.task = {} /\ tick'.at = tick.at
  BY <1>2, <1>3 DEF TickType
<1>6. Still
  BY <1>2, <1>3, <1>4, <1>5 DEF Still
<1>7. Typed' /\ Ticking' /\ Halted' /\ Unmade'
  BY <1>2, <1>3, <1>4, <1>5 DEF Inv, Typed, Fewer, Ticking, Halted, Owned, Unmade
<1>8. Slots'
  BY <1>2, <1>5 DEF Inv, Slots
<1>9. Alone'
  <2>1. \A e \in tick.due : e.job \in Jobs
    BY DEF Inv, Typed, TickType, DueType
  <2>2. QED
    BY <1>5, <1>6, <2>1, Aside DEF Inv, Alone
<1>10. QED
  BY <1>2, <1>6, <1>7, <1>8, <1>9, Aside DEF Inv, Owned

\* The prompt of the clock's run waits, or fails and closes the run.
LEMMA QueuePromptInv == ASSUME Inv, QueuePrompt PROVE Inv'
<1>1. PICK s \in tick.task :
         \/ /\ task' = [task EXCEPT ![s].waiting = Append(@, "job")]
            /\ UNCHANGED <<runs, forced, left>>
         \/ /\ Spend("failure")
            /\ CloseUnstarted(s, "error")
            /\ UNCHANGED task
  BY DEF QueuePrompt
<1>2. /\ tick.pc = "queue" /\ tick' = [tick EXCEPT !.pc = "book", !.task = {}]
      /\ UNCHANGED <<now, up, job, forcing, editing, deleting, restarted, slot, ended>>
  BY DEF QueuePrompt, ghosts
<1>3. /\ s \in Tasks /\ up /\ tick \in TickType /\ tick.task = {s} /\ tick.cur = {}
      /\ task[s].job # {} /\ s \notin forced \cup forcing
  <2>1. tick \in TickType /\ s \in Tasks
    BY DEF Inv, Typed, TickType
  <2>2. up
    BY <1>2 DEF Inv, Halted, Idle
  <2>3. tick.cur = {} /\ \A u \in tick.task : u = s
    BY <1>2 DEF Inv, Ticking
  <2>4. tick.task = {s}
    BY <2>3
  <2>5. task[s].job # {}
    BY <2>1 DEF Inv, Owned, Unborn
  <2>6. s \notin forced \cup forcing
    BY DEF Inv, Owned, HandMade
  <2>7. QED
    BY <2>1, <2>2, <2>3, <2>4, <2>5, <2>6
<1>4. /\ tick' \in TickType /\ tick'.pc = "book" /\ tick'.cur = {} /\ tick'.due = tick.due
      /\ tick'.task = {} /\ tick'.at = tick.at
  BY <1>2, <1>3 DEF TickType
<1>5. SameSlots /\ tick'.task = tick.task \ {s}
  BY <1>3, <1>4 DEF SameSlots, Ticking, Inv
<1>6. left' = left \/ \E kind \in Kinds : Spend(kind)
  BY <1>1 DEF Kinds
<1>7. CASE task' = [task EXCEPT ![s].waiting = Append(@, "job")] /\ UNCHANGED <<runs, forced, left>>
  <2> DEFINE t == [task[s] EXCEPT !.waiting = Append(@, "job")]
  <2>1. Append(task[s].waiting, "job") \in Seq({"job", "user"})
        /\ Append(task[s].waiting, "job") # <<>>
    BY <1>3, Told, Queues
  <2>2. /\ t \in TaskType /\ task' = [task EXCEPT ![s] = t] /\ t.waiting # <<>>
        /\ t.job = task[s].job /\ t.byHand = task[s].byHand /\ t.turn = task[s].turn
        /\ t.then = task[s].then
    BY <1>3, <1>7, <2>1, Told DEF TaskType
  <2> HIDE DEF t
  <2>3. TaskMoves(s) /\ task'[s] = t
    BY <1>3, <2>2, Changed
  <2>4. s \notin forcing
    BY <1>3
  <2>5. Turned(s) /\ Caused(s)
    BY <1>2, <1>3, <1>7, <2>2, <2>3, <2>4, Told, Untouched DEF Turned, Caused, Cause
  <2>6. QED
    BY <1>2, <1>3, <1>5, <1>6, <1>7, <2>2, <2>3, <2>5, TaskAlone, Untouched
<1>8. CASE CloseUnstarted(s, "error") /\ task' = task
  <2>1. Fewer /\ ~HasRun(s)' /\ forced' = forced
    BY <1>3, <1>8, ClosesUnstarted DEF Statuses
  <2>2. TaskMoves(s) /\ task'[s] = task[s]
    BY <1>3, <1>8 DEF Inv, Typed, TaskMoves, Others
  <2>3. Turned(s) /\ Caused(s)
    BY <1>2, <1>3, <2>1, <2>2, Told DEF Turned, Caused
  <2>4. QED
    BY <1>2, <1>3, <1>5, <1>6, <2>1, <2>2, <2>3, TaskAlone
<1>9. QED
  BY <1>1, <1>7, <1>8

\* A run starts as one more row, open and with its task.
LEMMA StartedInv ==
    ASSUME Inv, NEW j \in Jobs, NEW s \in Tasks, runs' = StartedRun(j, s)
    PROVE  /\ runs' \in [Jobs -> Seq(RunType)] /\ Rows'
           /\ \A k \in Jobs : k # j => runs'[k] = runs[k]
           /\ \E n : /\ DOMAIN runs'[j] = DOMAIN runs[j] \cup {n}
                     /\ runs'[j][n].task = {s} /\ runs'[j][n].status = "running"
                     /\ \A i \in DOMAIN runs[j] : runs'[j][i] = runs[j][i]
<1> DEFINE n == Len(runs[j])
           r == [task |-> {s}, status |-> "running", count |-> 1]
           q == Append(runs[j], r)
<1>1. /\ runs \in [Jobs -> Seq(RunType)] /\ n \in Nat /\ DOMAIN runs[j] = 1..n
      /\ runs[j] \in Seq(RunType)
  BY LenProperties DEF Inv, Typed
<1>2. runs' = [runs EXCEPT ![j] = q]
  BY DEF StartedRun
<1>3. r \in RunType /\ r.status = "running" /\ r.task = {s}
  BY DEF RunType, Statuses
<1> HIDE DEF r
<1>4. /\ q \in Seq(RunType) /\ Len(q) = n + 1 /\ q[n + 1] = r
      /\ \A i \in 1..n : q[i] = runs[j][i]
  BY <1>1, <1>3, AppendProperties
<1>5. DOMAIN q = 1..(n + 1)
  BY <1>4, LenProperties
<1> HIDE DEF q
<1>6. /\ runs' \in [Jobs -> Seq(RunType)] /\ runs'[j] = q
      /\ \A k \in Jobs : k # j => runs'[k] = runs[k]
  BY <1>1, <1>2, <1>4
<1>7. 1..(n + 1) = (1..n) \cup {n + 1}
  BY <1>1
<1>8. Rows'
  <2>1. ASSUME NEW i \in 1..(n + 1)
        PROVE  q[i].task = {} <=> q[i].status = "skipped"
    <3>1. CASE i = n + 1
      BY <1>3, <1>4, <3>1
    <3>2. CASE i # n + 1
      BY <1>1, <1>4, <1>7, <3>2 DEF Inv, Rows
    <3>3. QED
      BY <3>1, <3>2
  <2>2. ASSUME NEW i \in 2..(n + 1)
        PROVE  ~(q[i].status = "skipped" /\ q[i - 1].status = "skipped")
    <3>1. CASE i = n + 1
      BY <1>3, <1>4, <3>1
    <3>2. CASE i # n + 1
      <4>1. i \in 2..n /\ i \in 1..n /\ i - 1 \in 1..n
        BY <1>1, <3>2
      <4>2. QED
        BY <1>4, <4>1 DEF Inv, Rows
    <3>3. QED
      BY <3>1, <3>2
  <2>3. QED
    BY <1>4, <1>5, <1>6, <2>1, <2>2 DEF Inv, Rows
<1>9. QED
  BY <1>1, <1>3, <1>4, <1>5, <1>6, <1>7, <1>8

\* A task that is created is new to everything, and so is its run.
LEMMA Births ==
    ASSUME Inv, NEW j \in Jobs, NEW s \in Tasks, NEW b \in BOOLEAN, Created(j, s, b),
           runs' = runs \/ runs' = StartedRun(j, s)
    PROVE  /\ task' \in [Tasks -> TaskType] /\ Others(s) /\ task[s].job = {}
           /\ task'[s].job = {j} /\ task'[s].byHand = b /\ task'[s].turn = "none"
           /\ task[s].then = "none" /\ task'[s].then = "none" /\ task'[s].waiting = <<>>
           /\ s \notin forced \cup forcing \cup deleting \cup tick.task
           /\ runs' \in [Jobs -> Seq(RunType)] /\ Rows' /\ RunsRooted'
           /\ runs' = runs => ~HasRun(s)'
           /\ \A u \in Tasks : u # s => (HasRun(u)' <=> HasRun(u))
           /\ \A k \in Jobs : k # j => ByClock(k)' = ByClock(k)
           /\ \A i, k \in ByClock(j)' : i \in ByClock(j) \/ k \in ByClock(j) \/ i = k
           /\ b => ByClock(j)' \subseteq ByClock(j)
<1> DEFINE t == [task[s] EXCEPT !.job = {j}, !.byHand = b]
<1>1. task[s].job = {} /\ task' = [task EXCEPT ![s] = t]
  BY DEF Created
<1>2. /\ task[s].turn = "none" /\ task[s].waiting = <<>> /\ task[s].then = "none"
      /\ s \notin forced \cup forcing \cup deleting \cup tick.task
  BY <1>1 DEF Inv, Owned, Unborn, Turns
<1>3. /\ t \in TaskType /\ t.job = {j} /\ t.byHand = b /\ t.turn = "none" /\ t.then = "none"
      /\ t.waiting = <<>>
  BY <1>2, Told DEF TaskType
<1> HIDE DEF t
<1>4. task' \in [Tasks -> TaskType] /\ Others(s) /\ task'[s] = t
  BY <1>1, <1>3 DEF Inv, Typed, Others
<1>5. \A k \in Jobs : \A i \in DOMAIN runs[k] : s \notin runs[k][i].task
  BY <1>1 DEF Inv, Owned, RunsRooted
<1>6. \A k \in Jobs : \A i \in DOMAIN runs[k] : runs[k][i].task \subseteq Tasks
  <2>1. \A k \in Jobs : runs[k] \in Seq(RunType)
    BY DEF Inv, Typed
  <2>2. \A k \in Jobs : \A i \in DOMAIN runs[k] : runs[k][i] \in RunType
    BY <2>1, LenProperties, ElementOfSeq
  <2>3. QED
    BY <2>2 DEF RunType
<1>7. \A k \in Jobs : \A i \in DOMAIN runs[k] : \A u \in runs[k][i].task : task'[u] = task[u]
  BY <1>4, <1>5, <1>6 DEF Others
<1>8. CASE runs' = runs
  <2>1. Rows' /\ RunsRooted'
    BY <1>7, <1>8 DEF Inv, Rows, Owned, RunsRooted
  <2>2. \A u \in Tasks : HasRun(u)' <=> HasRun(u)
    BY <1>8, Untouched
  <2>3. ~HasRun(s)
    BY <1>5 DEF HasRun, Open
  <2>4. \A k \in Jobs : ByClock(k)' = ByClock(k)
    BY <1>7, <1>8 DEF ByClock, Open
  <2>5. QED
    BY <1>1, <1>2, <1>3, <1>4, <1>8, <2>1, <2>2, <2>3, <2>4 DEF Inv, Typed
<1>9. CASE runs' = StartedRun(j, s)
  <2>1. /\ runs' \in [Jobs -> Seq(RunType)] /\ Rows'
        /\ \A k \in Jobs : k # j => runs'[k] = runs[k]
    BY <1>9, StartedInv
  <2>2. PICK n : /\ DOMAIN runs'[j] = DOMAIN runs[j] \cup {n}
                 /\ runs'[j][n].task = {s} /\ runs'[j][n].status = "running"
                 /\ \A i \in DOMAIN runs[j] : runs'[j][i] = runs[j][i]
    BY <1>9, StartedInv
  <2>3. RunsRooted'
    <3>1. ASSUME NEW k \in Jobs, NEW i \in DOMAIN runs'[k], NEW u \in runs'[k][i].task
          PROVE  task'[u].job = {k}
      <4>1. CASE k = j /\ i \notin DOMAIN runs[j]
        BY <1>3, <1>4, <2>2, <3>1, <4>1
      <4>2. CASE ~(k = j /\ i \notin DOMAIN runs[j])
        <5>1. i \in DOMAIN runs[k] /\ runs'[k][i] = runs[k][i]
          BY <2>1, <2>2, <3>1, <4>2
        <5>2. QED
          BY <1>7, <3>1, <5>1 DEF Inv, Owned, RunsRooted
      <4>3. QED
        BY <4>1, <4>2
    <3>2. QED
      BY <3>1 DEF RunsRooted
  <2>4. ASSUME NEW u \in Tasks, u # s
        PROVE  HasRun(u)' <=> HasRun(u)
    BY <2>1, <2>2, <2>4 DEF HasRun, Open
  <2>5. \A k \in Jobs : k # j => ByClock(k)' = ByClock(k)
    BY SMTT(30), <1>7, <2>1 DEF ByClock, Open
  <2>6. \A i \in ByClock(j)' : i \in ByClock(j) \/ (i = n /\ ~b)
    <3>1. ASSUME NEW i \in ByClock(j)', i \notin ByClock(j)
          PROVE  i = n /\ ~b
      <4>1. i \notin DOMAIN runs[j]
        BY <1>7, <2>2, <3>1 DEF ByClock, Open
      <4>2. i = n
        BY <2>2, <3>1, <4>1 DEF ByClock, Open
      <4>3. QED
        BY <1>3, <1>4, <2>2, <3>1, <4>2 DEF ByClock
    <3>2. QED
      BY <3>1
  <2>7. runs' # runs
    <3>1. HasRun(s)'
      BY <2>2 DEF HasRun, Open
    <3>2. ~HasRun(s)
      BY <1>5 DEF HasRun, Open
    <3>3. QED
      BY <3>1, <3>2, Untouched
  <2>8. QED
    BY <1>1, <1>2, <1>3, <1>4, <2>1, <2>3, <2>4, <2>5, <2>6, <2>7
<1>10. QED
  BY <1>8, <1>9

\* A due slot opens a run when the job has none of the clock's open.
LEMMA FireInv == ASSUME Inv, Fire PROVE Inv'
<1>1. PICK d \in tick.cur, s \in Tasks :
         /\ ~d.running
         /\ Created(d.job, s, FALSE)
         /\ IF job[d.job].exists
            THEN /\ runs' = StartedRun(d.job, s)
                 /\ tick' = [tick EXCEPT !.pc = "queue", !.cur = {}, !.task = {s}]
            ELSE /\ tick' = [tick EXCEPT !.pc = "book", !.cur = {}]
                 /\ UNCHANGED runs
  BY DEF Fire
<1> DEFINE j == d.job
<1>2. /\ tick.pc = "fire"
      /\ UNCHANGED <<now, up, job, forced, forcing, editing, deleting, left, restarted, slot, ended>>
  BY DEF Fire, memory, ghosts
<1>3. /\ j \in Jobs /\ up /\ tick \in TickType /\ tick.task = {}
      /\ job[j] # NoJob /\ ByClock(j) = {} /\ \A e \in tick.due : e.job # j /\ e.job \in Jobs
  <2>1. tick \in TickType /\ j \in Jobs /\ \A e \in tick.due : e.job \in Jobs
    BY DEF Inv, Typed, TickType, DueType
  <2>2. up
    BY <1>2 DEF Inv, Halted, Idle
  <2>3. tick.task = {} /\ \A e \in tick.due : e.job # j
    BY <1>2 DEF Inv, Ticking
  <2>4. job[j] # NoJob
    BY <2>1 DEF Inv, Owned, Unmade
  <2>5. ByClock(j) = {}
    BY <1>1 DEF Inv, Alone
  <2>6. QED
    BY <2>1, <2>2, <2>3, <2>4, <2>5
<1> HIDE DEF j
<1>4. Created(j, s, FALSE) /\ (runs' = runs \/ runs' = StartedRun(j, s))
  BY <1>1 DEF j
<1>5. /\ task' \in [Tasks -> TaskType] /\ Others(s) /\ task[s].job = {}
      /\ task'[s].job = {j} /\ task'[s].byHand = FALSE /\ task'[s].turn = "none"
      /\ task[s].then = "none" /\ task'[s].then = "none" /\ task'[s].waiting = <<>>
      /\ s \notin forced \cup forcing \cup deleting \cup tick.task
  BY <1>3, <1>4, Births
<1>6. /\ runs' \in [Jobs -> Seq(RunType)] /\ Rows' /\ RunsRooted'
      /\ runs' = runs => ~HasRun(s)'
      /\ \A u \in Tasks : u # s => (HasRun(u)' <=> HasRun(u))
  BY <1>3, <1>4, Births
<1>7. /\ \A k \in Jobs : k # j => ByClock(k)' = ByClock(k)
      /\ \A i, k \in ByClock(j)' : i = k
  <2>1. /\ \A k \in Jobs : k # j => ByClock(k)' = ByClock(k)
        /\ \A i, k \in ByClock(j)' : i \in ByClock(j) \/ k \in ByClock(j) \/ i = k
    BY <1>3, <1>4, Births
  <2>2. QED
    BY <1>3, <2>1
<1>8. /\ tick' \in TickType /\ tick'.cur = {} /\ tick'.due = tick.due /\ tick'.at = tick.at
      /\ \/ tick'.pc = "queue" /\ tick'.task = {s}
         \/ tick'.pc = "book" /\ tick'.task = {} /\ runs' = runs
  <2>1. CASE tick' = [tick EXCEPT !.pc = "queue", !.cur = {}, !.task = {s}]
    BY <1>3, <2>1 DEF TickType
  <2>2. CASE tick' = [tick EXCEPT !.pc = "book", !.cur = {}] /\ runs' = runs
    BY <1>3, <2>2 DEF TickType
  <2>3. QED
    BY <1>1, <2>1, <2>2
<1>9. Typed'
  BY <1>2, <1>5, <1>6, <1>8 DEF Inv, Typed
<1>10. Ticking' /\ Halted' /\ Turns'
  <2>1. Ticking'
    BY <1>8 DEF Inv, Ticking
  <2>2. Halted'
    BY <1>2, <1>3 DEF Halted
  <2>3. Turns'
    BY ZenonT(40), <1>2, <1>5 DEF Inv, Typed, Turns, Others
  <2>4. QED
    BY <2>1, <2>2, <2>3
<1>11. Owned'
  <2>1. Unborn'
    BY <1>2, <1>5, <1>8 DEF Inv, Owned, Unborn, Others
  <2>2. Unmade'
    BY <1>2, <1>3, <1>5, <1>8 DEF Inv, Owned, Unmade, Others
  <2>3. HandMade'
    BY <1>2, <1>5, <1>8 DEF Inv, Typed, Owned, HandMade, Others
  <2>4. QED
    BY <1>6, <2>1, <2>2, <2>3 DEF Owned
<1>12. Slots' /\ Alone'
  BY <1>2, <1>3, <1>7, <1>8 DEF Inv, Slots, Alone
<1>13. Causes'
  <2>1. ASSUME NEW u \in Tasks
        PROVE  /\ HasRun(u)' => Cause(u)'
               /\ task'[u].then = "held" => task'[u].waiting # <<>> \/ task'[u].stranded
               /\ task'[u].then \in Closings \cup {"pause"} => ~HasRun(u)'
    <3>1. CASE u = s
      BY <1>5, <1>6, <1>8, <3>1 DEF Cause, Closings
    <3>2. CASE u # s
      <4>1. task'[u] = task[u] /\ (HasRun(u)' <=> HasRun(u)) /\ u \notin tick.task
        BY <1>3, <1>5, <1>6, <3>2 DEF Others
      <4>2. QED
        BY <1>2, <1>3, <4>1 DEF Inv, Causes, Cause
    <3>3. QED
      BY <3>1, <3>2
  <2>2. QED
    BY <2>1 DEF Causes
<1>14. Paid'
  <2>1. \A k \in Jobs : /\ Pending(k)' = Pending(k) /\ Unpaid(k)' = Unpaid(k)
                        /\ Spent(k)' = Spent(k)
    BY <1>2, <1>5 DEF Pending, Unpaid, Spent, Others, Closings
  <2>2. ASSUME NEW u \in Tasks, ~restarted, task'[u].byHand,
               HasRun(u)' \/ task'[u].then \in Closings
        PROVE  u \in forced
    <3>1. u # s
      BY <1>5, <2>2
    <3>2. QED
      BY <1>5, <1>6, <2>2, <3>1 DEF Inv, Paid, Others
  <2>3. QED
    BY <1>2, <2>1, <2>2 DEF Inv, Paid
<1>15. QED
  BY <1>6, <1>9, <1>10, <1>11, <1>12, <1>13, <1>14 DEF Inv

\* A forced run stands beside the clock's.
LEMMA RunScheduleNowInv == ASSUME Inv, NEW j \in Jobs, RunScheduleNow(j) PROVE Inv'
<1>1. PICK s \in Tasks : /\ Created(j, s, TRUE) /\ runs' = StartedRun(j, s)
                         /\ forced' = forced \cup {s} /\ forcing' = forcing \cup {s}
  BY DEF RunScheduleNow
<1>2. /\ up /\ job[j] # NoJob /\ left' \in [Kinds -> Nat]
      /\ UNCHANGED <<now, up, job, tick, editing, deleting, restarted, slot, ended>>
  BY Untouched DEF RunScheduleNow, NoJob, Kinds, ghosts
<1>3. /\ task' \in [Tasks -> TaskType] /\ Others(s) /\ task[s].job = {}
      /\ task'[s].job = {j} /\ task'[s].byHand = TRUE /\ task'[s].turn = "none"
      /\ task[s].then = "none" /\ task'[s].then = "none" /\ task'[s].waiting = <<>>
      /\ s \notin forced \cup forcing \cup deleting \cup tick.task
  BY <1>1, Births
<1>4. /\ runs' \in [Jobs -> Seq(RunType)] /\ Rows' /\ RunsRooted'
      /\ \A u \in Tasks : u # s => (HasRun(u)' <=> HasRun(u))
      /\ \A k \in Jobs : k # j => ByClock(k)' = ByClock(k)
      /\ ByClock(j)' \subseteq ByClock(j)
  BY <1>1, Births
<1>5. Typed'
  BY <1>1, <1>2, <1>3, <1>4 DEF Inv, Typed
<1>6. Ticking' /\ Halted' /\ Turns'
  <2>1. Ticking' /\ Halted'
    BY <1>2 DEF Inv, Ticking, Halted
  <2>2. Turns'
    BY ZenonT(40), <1>1, <1>3 DEF Inv, Typed, Turns, Others
  <2>3. QED
    BY <2>1, <2>2
<1>7. Owned'
  <2>1. Unborn'
    BY <1>1, <1>2, <1>3 DEF Inv, Owned, Unborn, Others
  <2>2. Unmade'
    BY <1>2, <1>3 DEF Inv, Owned, Unmade, Others
  <2>3. HandMade'
    <3>1. tick.task \subseteq Tasks /\ forced \subseteq Tasks /\ forcing \subseteq Tasks
      BY DEF Inv, Typed, TickType
    <3>2. QED
      BY <1>1, <1>2, <1>3, <3>1 DEF Inv, Owned, HandMade, Others
  <2>4. QED
    BY <1>4, <2>1, <2>2, <2>3 DEF Owned
<1>8. Slots' /\ Alone'
  <2>1. \A d \in tick.due \cup tick.cur : d.job \in Jobs
    BY DEF Inv, Typed, TickType, DueType
  <2>2. \A k \in Jobs : ByClock(k)' \subseteq ByClock(k)
    BY <1>4
  <2>3. QED
    BY <1>2, <2>1, <2>2 DEF Inv, Slots, Alone
<1>9. Causes'
  <2>1. ASSUME NEW u \in Tasks
        PROVE  /\ HasRun(u)' => Cause(u)'
               /\ task'[u].then = "held" => task'[u].waiting # <<>> \/ task'[u].stranded
               /\ task'[u].then \in Closings \cup {"pause"} => ~HasRun(u)'
    <3>1. CASE u = s
      BY <1>1, <1>3, <3>1 DEF Cause, Closings
    <3>2. CASE u # s
      <4>1. task'[u] = task[u] /\ (HasRun(u)' <=> HasRun(u))
        BY <1>3, <1>4, <3>2 DEF Others
      <4>2. QED
        BY <1>1, <1>2, <4>1 DEF Inv, Causes, Cause
    <3>3. QED
      BY <3>1, <3>2
  <2>2. QED
    BY <2>1 DEF Causes
<1>10. Paid'
  <2>1. \A k \in Jobs : /\ Pending(k)' = Pending(k) /\ Unpaid(k)' = Unpaid(k)
                        /\ Spent(k)' = Spent(k)
    BY <1>2, <1>3 DEF Pending, Unpaid, Spent, Others, Closings
  <2>2. ASSUME NEW u \in Tasks, ~restarted, task'[u].byHand,
               HasRun(u)' \/ task'[u].then \in Closings
        PROVE  u \in forced'
    <3>1. CASE u = s
      BY <1>1, <3>1
    <3>2. CASE u # s
      BY <1>1, <1>3, <1>4, <2>2, <3>2 DEF Inv, Paid, Others
    <3>3. QED
      BY <3>1, <3>2
  <2>3. QED
    BY <1>2, <2>1, <2>2 DEF Inv, Paid
<1>11. QED
  BY <1>4, <1>5, <1>6, <1>7, <1>8, <1>9, <1>10 DEF Inv

\* A job's page edits one job, which exists, and books it for a time to come.
LEMMA OneJob ==
    ASSUME Inv, NEW j \in Jobs, job[j].exists, NEW g \in JobType,
           job' = [job EXCEPT ![j] = g],
           g.exists => slot[j] < g.next,
           g.rec \in Recurrences, g.remaining = job[j].remaining,
           editing' \in [Jobs -> Recurrences \cup {NoEdit}],
           left' \in [Kinds -> Nat], Fewer,
           UNCHANGED <<now, up, task, tick, forced, forcing, deleting, restarted, slot, ended>>
    PROVE  Inv'
<1>1. /\ job' \in [Jobs -> JobType] /\ job'[j] = g
      /\ \A k \in Jobs : k # j => job'[k] = job[k]
  BY DEF Inv, Typed
<1>2. g # NoJob /\ job[j] # NoJob
  <2>1. g.rec # NoJob.rec
    BY Recurs
  <2>2. job[j] # NoJob
    BY DEF NoJob
  <2>3. QED
    BY <2>1, <2>2
<1>3. Still
  BY DEF Still
<1>4. Typed' /\ Ticking' /\ Halted'
  BY <1>1 DEF Inv, Typed, Fewer, Ticking, Halted
<1>5. Unmade'
  BY <1>1, <1>2 DEF Inv, Owned, Unmade
<1>6. Slots'
  BY <1>1 DEF Inv, Slots
<1>7. Alone'
  <2>1. \A d \in tick.due \cup tick.cur : d.job \in Jobs
    BY DEF Inv, Typed, TickType, DueType
  <2>2. QED
    BY <1>3, <2>1, Aside DEF Inv, Alone
<1>8. \A k \in Jobs : job'[k].remaining = job[k].remaining /\ (job'[k] = NoJob <=> job[k] = NoJob)
  BY <1>1, <1>2
<1>9. QED
  BY <1>3, <1>4, <1>5, <1>6, <1>7, <1>8, Aside DEF Inv, Owned

\* What the invariant says of a job that exists.
LEMMA Existing ==
    ASSUME Inv, NEW j \in Jobs, job[j].exists
    PROVE  /\ job[j] \in JobType /\ job[j].rec \in Recurrences /\ slot[j] < job[j].next
           /\ now \in Nat /\ slot[j] <= now /\ slot[j] \in Nat
<1>1. job[j] # NoJob
  BY DEF NoJob
<1>2. QED
  BY <1>1, MaxNowAssumption DEF Inv, Typed, Owned, Unmade, Slots

LEMMA PauseInv == ASSUME Inv, NEW j \in Jobs, Pause(j) PROVE Inv'
<1> DEFINE g == [job[j] EXCEPT !.paused = TRUE]
<1>1. /\ job[j].exists /\ job' = [job EXCEPT ![j] = g] /\ Spend("edit")
      /\ UNCHANGED <<now, up, runs, task, tick, forced, forcing, editing, deleting, restarted, slot,
                     ended>>
  BY DEF Pause, memory, ghosts
<1>2. /\ g \in JobType /\ g.next = job[j].next /\ g.rec = job[j].rec
      /\ g.remaining = job[j].remaining
  BY <1>1, Existing DEF JobType
<1> HIDE DEF g
<1>3. Fewer /\ left' \in [Kinds -> Nat] /\ editing' \in [Jobs -> Recurrences \cup {NoEdit}]
  BY <1>1, Untouched DEF Kinds, Inv, Typed
<1>4. QED
  BY <1>1, <1>2, <1>3, Existing, OneJob

LEMMA EditInv == ASSUME Inv, NEW j \in Jobs, Edit(j) PROVE Inv'
<1>1. /\ up /\ job[j].exists /\ Spend("edit")
      /\ UNCHANGED <<now, up, runs, task, tick, forced, forcing, deleting, restarted, slot, ended>>
  BY DEF Edit, ghosts
<1>2. Fewer /\ left' \in [Kinds -> Nat]
  BY <1>1, Untouched DEF Kinds
<1>3. PICK g \in JobType, rec \in Recurrences :
         /\ job' = [job EXCEPT ![j] = g] /\ editing' = [editing EXCEPT ![j] = rec]
         /\ g.next = job[j].next /\ g.rec \in Recurrences /\ g.remaining = job[j].remaining
  <2>1. CASE job' = [job EXCEPT ![j].paused = FALSE] /\ editing' = [editing EXCEPT ![j] = job[j].rec]
    <3> DEFINE g == [job[j] EXCEPT !.paused = FALSE]
    <3>1. /\ g \in JobType /\ g.next = job[j].next /\ g.rec = job[j].rec
          /\ g.remaining = job[j].remaining /\ job' = [job EXCEPT ![j] = g]
      BY <1>1, <2>1, Existing DEF JobType
    <3>2. QED
      BY <1>1, <2>1, <3>1, Existing
  <2>2. ASSUME NEW rec \in Recurrences, job' = [job EXCEPT ![j].rec = rec],
               editing' = [editing EXCEPT ![j] = rec]
        PROVE  \E g \in JobType :
                  /\ job' = [job EXCEPT ![j] = g] /\ g.next = job[j].next
                  /\ g.rec \in Recurrences /\ g.remaining = job[j].remaining
    <3> DEFINE g == [job[j] EXCEPT !.rec = rec]
    <3>1. /\ g \in JobType /\ g.next = job[j].next /\ g.rec = rec
          /\ g.remaining = job[j].remaining /\ job' = [job EXCEPT ![j] = g]
      BY <1>1, <2>2, Existing DEF JobType
    <3>2. QED
      BY <3>1
  <2>3. QED
    BY <2>1, <2>2 DEF Edit
<1>4. editing' \in [Jobs -> Recurrences \cup {NoEdit}]
  BY <1>3 DEF Inv, Typed
<1>5. QED
  BY <1>1, <1>2, <1>3, <1>4, Existing, OneJob

\* The run that is booked is to come, whatever slot was fired before.
LEMMA RebookInv == ASSUME Inv, NEW j \in Jobs, Rebook(j) PROVE Inv'
<1>1. /\ editing[j] # NoEdit /\ editing' = [editing EXCEPT ![j] = NoEdit]
      /\ job' = IF job[j].exists THEN [job EXCEPT ![j].next = FirstRun(editing[j], now)] ELSE job
      /\ UNCHANGED <<now, up, runs, task, tick, forced, forcing, deleting, left, restarted, slot,
                     ended>>
  BY DEF Rebook, ghosts
<1>2. /\ editing[j] \in Recurrences /\ editing' \in [Jobs -> Recurrences \cup {NoEdit}]
      /\ left' \in [Kinds -> Nat] /\ Fewer
  BY <1>1, Untouched DEF Inv, Typed
<1>3. CASE job[j].exists
  <2> DEFINE g == [job[j] EXCEPT !.next = FirstRun(editing[j], now)]
  <2>1. FirstRun(editing[j], now) \in Nat /\ FirstRun(editing[j], now) > now
    BY <1>2, <1>3, Existing, Later
  <2>2. /\ g \in JobType /\ g.next > now /\ g.rec = job[j].rec
        /\ g.remaining = job[j].remaining /\ job' = [job EXCEPT ![j] = g]
    BY <1>1, <1>3, <2>1, Existing DEF JobType
  <2>3. slot[j] < g.next
    BY <1>3, <2>1, Existing
  <2> HIDE DEF g
  <2>4. QED
    BY <1>1, <1>2, <1>3, <2>2, <2>3, Existing, OneJob
<1>4. CASE ~job[j].exists
  <2>1. Still
    BY <1>1, <1>2 DEF Still
  <2>2. Typed'
    BY <1>1, <1>2, <1>4 DEF Inv, Typed
  <2>3. Ticking' /\ Halted' /\ Slots'
    BY <1>1, <1>4 DEF Inv, Ticking, Halted, Slots
  <2>4. Unmade'
    BY <1>1, <1>4 DEF Inv, Owned, Unmade
  <2>5. Alone'
    BY <1>1 DEF Inv, Alone, ByClock, Open
  <2>6. QED
    BY <1>1, <1>4, <2>1, <2>2, <2>3, <2>4, <2>5, Aside DEF Inv, Owned
<1>5. QED
  BY <1>3, <1>4

LEMMA ArchiveInv == ASSUME Inv, NEW j \in Jobs, Archive(j) PROVE Inv'
<1>1. /\ job[j].exists /\ Spend("edit")
      /\ UNCHANGED <<now, up, runs, task, tick, forced, forcing, editing, deleting, restarted, slot,
                     ended>>
  BY DEF Archive, memory, ghosts
<1>2. PICK g \in JobType :
         /\ job' = [job EXCEPT ![j] = g] /\ g.next = job[j].next /\ g.rec = job[j].rec
         /\ g.remaining = job[j].remaining
  <2>1. CASE job' = [job EXCEPT ![j].archived = FALSE]
    <3> DEFINE g == [job[j] EXCEPT !.archived = FALSE]
    <3>1. /\ g \in JobType /\ g.next = job[j].next /\ g.rec = job[j].rec
          /\ g.remaining = job[j].remaining /\ job' = [job EXCEPT ![j] = g]
      BY <1>1, <2>1, Existing DEF JobType
    <3>2. QED
      BY <3>1
  <2>2. CASE job' = [job EXCEPT ![j].archived = TRUE, ![j].paused = TRUE]
    <3> DEFINE g == [job[j] EXCEPT !.archived = TRUE, !.paused = TRUE]
    <3>1. /\ g \in JobType /\ g.next = job[j].next /\ g.rec = job[j].rec
          /\ g.remaining = job[j].remaining /\ job' = [job EXCEPT ![j] = g]
      BY <1>1, <2>2, Existing DEF JobType, Inv, Typed
    <3>2. QED
      BY <3>1
  <2>3. QED
    BY <2>1, <2>2 DEF Archive
<1>3. Fewer /\ left' \in [Kinds -> Nat] /\ editing' \in [Jobs -> Recurrences \cup {NoEdit}]
  BY <1>1, Untouched DEF Kinds, Inv, Typed
<1>4. QED
  BY <1>1, <1>2, <1>3, Existing, OneJob

\* A job that is given a number of runs has spent none of them, and still has to
\* pay for the runs whose end was noted.
LEMMA SetRemainingInv == ASSUME Inv, NEW j \in Jobs, SetRemaining(j) PROVE Inv'
<1>1. /\ up /\ job[j].exists /\ Spend("edit")
      /\ UNCHANGED <<now, up, runs, task, tick, forced, forcing, editing, deleting, restarted, slot>>
  BY DEF SetRemaining, memory
<1>2. PICK n \in Amounts :
         /\ job' = [job EXCEPT ![j].remaining = n]
         /\ ended' = [ended EXCEPT ![j] = [clock |-> Cardinality(Unpaid(j)),
                                           hand |-> Cardinality(ByHand(j)), granted |-> n]]
  BY DEF SetRemaining
<1> DEFINE g == [job[j] EXCEPT !.remaining = n]
           e == [clock |-> Cardinality(Unpaid(j)), hand |-> Cardinality(ByHand(j)), granted |-> n]
<1>3. n \in Int /\ n >= -1
  BY AmountsAssumption
<1>4. /\ IsFiniteSet(Unpaid(j)) /\ IsFiniteSet(ByHand(j))
      /\ Cardinality(Unpaid(j)) \in Nat /\ Cardinality(ByHand(j)) \in Nat
      /\ Cardinality(Pending(j)) = Cardinality(Unpaid(j)) + Cardinality(ByHand(j))
  <2>1. IsFiniteSet(Pending(j)) /\ IsFiniteSet(Unpaid(j))
    BY Finitely
  <2>2. ByHand(j) \subseteq Pending(j) /\ Pending(j) = Unpaid(j) \cup ByHand(j)
    BY DEF Pending, Unpaid, ByHand
  <2>3. Unpaid(j) \cap ByHand(j) = {}
    BY DEF Unpaid, ByHand
  <2>4. IsFiniteSet(ByHand(j))
    BY <2>1, <2>2, FS_Subset
  <2>5. Cardinality(Pending(j)) = Cardinality(Unpaid(j)) + Cardinality(ByHand(j))
    <3>1. Cardinality(Unpaid(j) \cap ByHand(j)) = 0
      BY <2>3, FS_EmptySet
    <3>2. Cardinality(Unpaid(j) \cup ByHand(j)) =
             Cardinality(Unpaid(j)) + Cardinality(ByHand(j)) - Cardinality(Unpaid(j) \cap ByHand(j))
      BY <2>1, <2>4, FS_Union
    <3>3. Cardinality(Unpaid(j)) \in Nat /\ Cardinality(ByHand(j)) \in Nat
      BY <2>1, <2>4, FS_CardinalityType
    <3>4. Pending(j) = Unpaid(j) \cup ByHand(j)
      BY <2>2
    <3>5. QED
      BY <3>1, <3>2, <3>3, <3>4
  <2>6. QED
    BY <2>1, <2>4, <2>5, FS_CardinalityType
<1>5. /\ g \in JobType /\ g # NoJob /\ g.rec = job[j].rec /\ g.next = job[j].next
      /\ g.exists /\ g.remaining = n /\ job[j] # NoJob /\ g.rec \in Recurrences
  <2>1. job[j] \in JobType /\ job[j].exists /\ job[j].rec \in Recurrences
    BY <1>1, Existing DEF Inv, Typed
  <2>2. QED
    BY <1>3, <2>1 DEF JobType, NoJob
<1>6. /\ job' \in [Jobs -> JobType] /\ job'[j] = g
      /\ \A k \in Jobs : k # j => job'[k] = job[k]
  BY <1>2, <1>5 DEF Inv, Typed
<1>7. /\ ended' \in [Jobs -> Tally] /\ ended'[j] = e
      /\ \A k \in Jobs : k # j => ended'[k] = ended[k]
  BY <1>2, <1>3, <1>4 DEF Inv, Typed, Tally
<1>8. Fewer /\ left' \in [Kinds -> Nat] /\ \A s \in Tasks : HasRun(s)' <=> HasRun(s)
  BY <1>1, Untouched DEF Kinds
<1> HIDE DEF g
<1>9. Typed' /\ Rows' /\ Ticking' /\ Halted' /\ Turns'
  BY <1>1, <1>6, <1>7, <1>8 DEF Inv, Typed, Fewer, Ticking, Halted, Turns
<1>10. Owned'
  <2>1. Unmade'
    BY <1>1, <1>5, <1>6, <1>7 DEF Inv, Owned, Unmade
  <2>2. RunsRooted' /\ Unborn' /\ HandMade'
    BY <1>1 DEF Inv, Owned, RunsRooted, Unborn, HandMade
  <2>3. QED
    BY <2>1, <2>2 DEF Owned
<1>11. Slots' /\ Alone' /\ Causes'
  <2>1. Slots'
    BY <1>1, <1>5, <1>6 DEF Inv, Slots
  <2>2. Alone'
    BY <1>1 DEF Inv, Alone, ByClock, Open
  <2>3. Causes'
    BY <1>1, <1>8 DEF Inv, Causes, Cause
  <2>4. QED
    BY <2>1, <2>2, <2>3
<1>12. Paid'
  <2>1. \A k \in Jobs : Pending(k)' = Pending(k) /\ Unpaid(k)' = Unpaid(k)
    BY <1>1 DEF Pending, Unpaid
  <2>2. \A k \in Jobs : k # j => Spent(k)' = Spent(k)
    BY <1>6, <1>7 DEF Spent
  <2>3. Spent(j)' = 0
    BY <1>3, <1>5, <1>6, <1>7 DEF Spent
  <2>4. ASSUME NEW k \in Jobs
        PROVE  /\ IsFiniteSet(Pending(k)') /\ ended'[k].granted >= -1
               /\ ended'[k].granted >= 0 => job'[k].remaining >= 0
               /\ ended'[k].granted = -1 /\ job'[k] # NoJob => job'[k].remaining = -1
               /\ Spent(k)' + Cardinality(Pending(k)') <= ended'[k].clock + ended'[k].hand
    <3>1. CASE k = j
      <4>1. Cardinality(Pending(j)') = ended'[j].clock + ended'[j].hand
        BY <1>4, <1>7, <2>1
      <4>2. IsFiniteSet(Pending(j)') /\ Cardinality(Pending(j)') \in Nat
        BY <2>1, Finitely
      <4>3. ended'[j].granted = n /\ job'[j].remaining = n
        BY <1>5, <1>6, <1>7
      <4>4. QED
        BY <1>3, <2>3, <3>1, <4>1, <4>2, <4>3
    <3>2. CASE k # j
      BY <1>6, <1>7, <2>1, <2>2, <3>2 DEF Inv, Paid
    <3>3. QED
      BY <3>1, <3>2
  <2>5. ASSUME NEW k \in Jobs, ~restarted, ended'[k].granted >= 0, job'[k] # NoJob
        PROVE  LET paid == ended'[k].clock - Cardinality(Unpaid(k)')
               IN  Spent(k)' <= paid /\ (Spent(k)' = ended'[k].granted \/ Spent(k)' = paid)
    <3>1. CASE k = j
      BY <1>4, <1>7, <2>1, <2>3, <3>1
    <3>2. CASE k # j
      BY <1>6, <1>7, <2>1, <2>2, <2>5, <3>2 DEF Inv, Paid
    <3>3. QED
      BY <3>1, <3>2
  <2>6. ~restarted => \A s \in Tasks : task[s].byHand /\ (HasRun(s)' \/ task[s].then \in Closings)
                                        => s \in forced
    BY <1>8 DEF Inv, Paid
  <2>7. QED
    BY <1>1, <2>4, <2>5, <2>6 DEF Paid
<1>13. QED
  BY <1>9, <1>10, <1>11, <1>12 DEF Inv

\* The runs go with the job.
LEMMA DeleteJobInv == ASSUME Inv, NEW j \in Jobs, DeleteJob(j) PROVE Inv'
<1> DEFINE g == [job[j] EXCEPT !.exists = FALSE]
<1>1. /\ job[j].exists /\ Spend("edit") /\ job' = [job EXCEPT ![j] = g]
      /\ runs' = [runs EXCEPT ![j] = <<>>]
      /\ UNCHANGED <<now, up, task, tick, forced, forcing, editing, deleting, restarted, slot,
                     ended>>
  BY DEF DeleteJob, memory, ghosts
<1>2. g \in JobType /\ ~g.exists /\ g.rec = job[j].rec /\ g.remaining = job[j].remaining
  BY <1>1, Existing DEF JobType
<1> HIDE DEF g
<1>3. /\ runs' \in [Jobs -> Seq(RunType)] /\ runs'[j] = <<>> /\ DOMAIN runs'[j] = {}
      /\ \A k \in Jobs : k # j => runs'[k] = runs[k]
  <2>1. <<>> \in Seq(RunType) /\ Len(<<>>) = 0
    BY EmptySeq
  <2>2. runs' \in [Jobs -> Seq(RunType)] /\ runs'[j] = <<>>
    BY <1>1, <2>1 DEF Inv, Typed
  <2>3. QED
    BY <1>1, <2>2 DEF Inv, Typed
<1>4. Fewer
  <2>1. Rows'
    <3>1. 2..Len(<<>>) = {}
      BY EmptySeq
    <3>2. QED
      BY <1>3, <3>1 DEF Inv, Rows
  <2>2. QED
    BY <1>3, <2>1 DEF Fewer, Open
<1>5. left' \in [Kinds -> Nat] /\ editing' \in [Jobs -> Recurrences \cup {NoEdit}]
  BY <1>1, Untouched DEF Kinds, Inv, Typed
<1>6. QED
  BY <1>1, <1>2, <1>4, <1>5, Existing, OneJob

\* A job is created with nothing spent and nothing to pay.
LEMMA CreateInv == ASSUME Inv, NEW j \in Jobs, Create(j) PROVE Inv'
<1>1. /\ up /\ job[j] = NoJob /\ Spend("create")
      /\ UNCHANGED <<now, up, runs, task, tick, forced, forcing, editing, deleting, restarted, slot,
                     ended>>
  BY DEF Create, memory, ghosts
<1>2. PICK rec \in Recurrences :
         job' = [job EXCEPT ![j] = [NoJob EXCEPT !.exists = TRUE, !.remaining = Granted[j],
                                                 !.rec = rec, !.next = FirstRun(rec, now)]]
  BY DEF Create
<1> DEFINE g == [NoJob EXCEPT !.exists = TRUE, !.remaining = Granted[j], !.rec = rec,
                              !.next = FirstRun(rec, now)]
<1>3. now \in Nat /\ Granted[j] \in Int /\ slot[j] \in Nat /\ slot[j] <= now
  BY MaxNowAssumption, GrantedAssumption DEF Inv, Typed, Slots
<1>4. FirstRun(rec, now) \in Nat /\ slot[j] < FirstRun(rec, now)
  <2>1. FirstRun(rec, now) \in Nat /\ FirstRun(rec, now) > now
    BY <1>3, Later
  <2>2. QED
    BY <1>3, <2>1
<1>5. job' = [job EXCEPT ![j] = g]
  BY <1>2
<1>6. g \in JobType /\ g.rec = rec /\ g.remaining = Granted[j] /\ g.next = FirstRun(rec, now)
  <2>1. NoJob \in JobType
    BY DEF NoJob, NoEdit, JobType
  <2>2. QED
    BY <1>3, <1>4, <2>1 DEF JobType
<1> HIDE DEF g
<1>7. g # NoJob
  <2>1. g.rec # NoJob.rec
    BY <1>6, Recurs
  <2>2. QED
    BY <2>1
<1>8. /\ job' \in [Jobs -> JobType] /\ job'[j] = g
      /\ \A k \in Jobs : k # j => job'[k] = job[k]
  BY <1>5, <1>6 DEF Inv, Typed
<1>9. Fewer /\ left' \in [Kinds -> Nat]
  BY <1>1, Untouched DEF Kinds
<1>10. Still
  BY <1>1, <1>9 DEF Still
<1>11. Typed' /\ Ticking' /\ Halted'
  BY <1>1, <1>8, <1>9 DEF Inv, Typed, Ticking, Halted
<1>12. Unmade'
  BY <1>1, <1>6, <1>7, <1>8 DEF Inv, Owned, Unmade
<1>13. Slots' /\ Alone'
  <2>1. Slots'
    BY <1>1, <1>4, <1>6, <1>8 DEF Inv, Slots
  <2>2. Alone'
    BY <1>1 DEF Inv, Alone, ByClock, Open
  <2>3. QED
    BY <2>1, <2>2
<1>14. Paid'
  <2>1. \A k \in Jobs : Pending(k)' = Pending(k) /\ Unpaid(k)' = Unpaid(k)
    BY <1>1 DEF Pending, Unpaid
  <2>2. \A k \in Jobs : k # j => Spent(k)' = Spent(k)
    BY <1>1, <1>8 DEF Spent
  <2>3. /\ ended[j].clock = 0 /\ ended[j].hand = 0 /\ ended[j].granted = Granted[j]
        /\ Pending(j) = {} /\ Unpaid(j) = {}
    <3>1. ended[j] = Blank(j) /\ \A s \in Tasks : task[s].job # {j}
      BY <1>1 DEF Inv, Owned, Unmade
    <3>2. QED
      BY <3>1 DEF Pending, Unpaid, Blank
  <2>4. Spent(j)' = 0
    BY <1>1, <1>3, <1>6, <1>7, <1>8, <2>3 DEF Spent
  <2>5. Cardinality(Pending(j)) = 0 /\ Cardinality(Unpaid(j)) = 0 /\ IsFiniteSet(Pending(j))
    BY <2>3, FS_EmptySet
  <2>6. \A s \in Tasks : HasRun(s)' <=> HasRun(s)
    BY <1>1, Untouched
  <2>7. ASSUME NEW k \in Jobs
        PROVE  /\ IsFiniteSet(Pending(k)')
               /\ ended[k].granted >= 0 => job'[k].remaining >= 0
               /\ ended[k].granted = -1 /\ job'[k] # NoJob => job'[k].remaining = -1
               /\ Spent(k)' + Cardinality(Pending(k)') <= ended'[k].clock + ended'[k].hand
    <3>1. CASE k = j
      <4>1. /\ IsFiniteSet(Pending(j)') /\ Cardinality(Pending(j)') = 0 /\ Spent(j)' = 0
            /\ ended'[j].clock = 0 /\ ended'[j].hand = 0
        BY <1>1, <2>1, <2>3, <2>4, <2>5
      <4>2. job'[j].remaining = ended[j].granted
        BY <1>6, <1>8, <2>3
      <4>3. QED
        BY <3>1, <4>1, <4>2
    <3>2. CASE k # j
      BY <1>1, <1>8, <2>1, <2>2, <3>2 DEF Inv, Paid
    <3>3. QED
      BY <3>1, <3>2
  <2>8. ASSUME NEW k \in Jobs, ~restarted, ended[k].granted >= 0, job'[k] # NoJob
        PROVE  LET paid == ended'[k].clock - Cardinality(Unpaid(k)')
               IN  Spent(k)' <= paid /\ (Spent(k)' = ended[k].granted \/ Spent(k)' = paid)
    <3>1. CASE k = j
      BY <1>1, <2>1, <2>3, <2>4, <2>5, <3>1
    <3>2. CASE k # j
      BY <1>1, <1>8, <2>1, <2>2, <2>8, <3>2 DEF Inv, Paid
    <3>3. QED
      BY <3>1, <3>2
  <2>9. ~restarted => \A s \in Tasks : task[s].byHand /\ (HasRun(s)' \/ task[s].then \in Closings)
                                        => s \in forced
    BY <2>6 DEF Inv, Paid
  <2>10. QED
    BY <1>1, <2>7, <2>8, <2>9 DEF Inv, Paid
<1>15. QED
  BY <1>10, <1>11, <1>12, <1>13, <1>14, Aside DEF Inv, Owned

\* What the program forgets when it stops: its ticker, its turns and who was forced.
LEMMA CrashInv == ASSUME Inv, Crash PROVE Inv'
<1>1. /\ up' = FALSE /\ restarted' = TRUE /\ tick' = Idle /\ Spend("crash")
      /\ forced' = {} /\ forcing' = {} /\ deleting' = {}
      /\ editing' = [k \in Jobs |-> NoEdit]
      /\ task' = [s \in Tasks |-> [task[s] EXCEPT !.turn = "none", !.then = "none"]]
      /\ UNCHANGED <<now, job, runs, slot, ended>>
  BY DEF Crash
<1>2. ASSUME NEW s \in Tasks
      PROVE  /\ task'[s] \in TaskType /\ task'[s].job = task[s].job
             /\ task'[s].byHand = task[s].byHand /\ task'[s].waiting = task[s].waiting
             /\ task'[s].held = task[s].held /\ task'[s].turn = "none" /\ task'[s].then = "none"
  <2>1. task'[s] = [task[s] EXCEPT !.turn = "none", !.then = "none"]
    BY <1>1
  <2>2. QED
    BY <2>1, Told DEF TaskType
<1>3. task' \in [Tasks -> TaskType]
  BY <1>1, <1>2
<1>4. /\ tick'.pc = "idle" /\ tick'.due = {} /\ tick'.at = 0 /\ tick'.cur = {} /\ tick'.task = {}
      /\ tick' \in TickType /\ now \in Nat
  <2>1. now \in Nat
    BY MaxNowAssumption DEF Inv, Typed
  <2>2. QED
    BY <1>1, <2>1 DEF Idle, TickType
<1>5. Fewer /\ left' \in [Kinds -> Nat]
  BY <1>1, Untouched DEF Kinds
<1>6. /\ RunsRooted' /\ \A s \in Tasks : HasRun(s)' => HasRun(s)
      /\ \A j \in Jobs : ByClock(j)' \subseteq ByClock(j)
  BY <1>2, <1>5, Rooted
<1>7. Typed' /\ Rows'
  BY <1>1, <1>3, <1>4, <1>5 DEF Inv, Typed, Fewer
<1>8. Ticking' /\ Halted' /\ Turns'
  BY <1>1, <1>2, <1>4 DEF Ticking, Halted, Turns
<1>9. Owned'
  <2>1. Unborn'
    BY <1>1, <1>2, <1>4 DEF Inv, Owned, Unborn
  <2>2. Unmade'
    BY <1>1, <1>2, <1>4 DEF Inv, Owned, Unmade
  <2>3. HandMade'
    BY <1>1, <1>4 DEF HandMade
  <2>4. QED
    BY <1>6, <2>1, <2>2, <2>3 DEF Owned
<1>10. Slots' /\ Alone' /\ Causes'
  <2>1. Slots'
    <3>1. \A j \in Jobs : slot[j] <= now /\ (job[j].exists => slot[j] < job[j].next)
      BY DEF Inv, Slots
    <3>2. UNCHANGED <<now, job, slot>>
      BY <1>1
    <3>3. QED
      BY <1>4, <3>1, <3>2 DEF Slots
  <2>2. Alone'
    BY <1>4, <1>6 DEF Inv, Alone
  <2>3. Causes'
    BY <1>1, <1>2 DEF Causes, Closings
  <2>4. QED
    BY <2>1, <2>2, <2>3
<1>11. Paid'
  <2>1. \A j \in Jobs : Pending(j)' = {} /\ Spent(j)' = Spent(j)
    BY <1>1, <1>2 DEF Pending, Spent, Closings
  <2>2. IsFiniteSet({}) /\ Cardinality({}) = 0
    BY FS_EmptySet
  <2>3. \A j \in Jobs : Spent(j) <= ended[j].clock + ended[j].hand
    <3>1. ASSUME NEW j \in Jobs
          PROVE  Spent(j) <= ended[j].clock + ended[j].hand
      <4>1. Spent(j) + Cardinality(Pending(j)) <= ended[j].clock + ended[j].hand
        BY DEF Inv, Paid
      <4>2. QED
        BY <4>1, Finitely
    <3>2. QED
      BY <3>1
  <2>4. ASSUME NEW j \in Jobs
        PROVE  Spent(j)' + Cardinality(Pending(j)') <= ended'[j].clock + ended'[j].hand
    <3>1. Cardinality(Pending(j)') = 0
      BY <2>1, <2>2
    <3>2. Spent(j)' \in Int /\ Spent(j)' <= ended'[j].clock + ended'[j].hand
      BY <1>1, <2>1, <2>3, Finitely
    <3>3. QED
      BY <3>1, <3>2
  <2>5. \A j \in Jobs : IsFiniteSet(Pending(j)')
    BY <2>1, <2>2
  <2>6. QED
    BY <1>1, <2>4, <2>5 DEF Inv, Paid
<1>12. QED
  BY <1>7, <1>8, <1>9, <1>10, <1>11 DEF Inv

\* The runs that a restart leaves open are those whose prompts wait.
LEMMA BootInv == ASSUME Inv, Boot PROVE Inv'
<1>1. /\ ~up /\ up' = TRUE /\ runs' = Reset
      /\ UNCHANGED <<now, job, task, tick, forced, forcing, editing, deleting, left, restarted,
                     slot, ended>>
  BY DEF Boot, memory, ghosts
<1>2. Fewer /\ \A s \in Tasks : HasRun(s)' => task[s].waiting # <<>>
  BY <1>1, ResetFewer
<1>3. /\ RunsRooted' /\ \A s \in Tasks : HasRun(s)' => HasRun(s)
      /\ \A j \in Jobs : ByClock(j)' \subseteq ByClock(j)
  BY <1>1, <1>2, Rooted
<1>4. Typed' /\ Rows'
  BY <1>1, <1>2 DEF Inv, Typed, Fewer
<1>5. Ticking' /\ Halted' /\ Turns' /\ Slots'
  BY <1>1 DEF Inv, Ticking, Halted, Turns, Slots
<1>6. Owned'
  BY <1>1, <1>3 DEF Inv, Owned, Unborn, Unmade, HandMade
<1>7. Alone'
  <2>1. \A d \in tick.due \cup tick.cur : d.job \in Jobs
    BY DEF Inv, Typed, TickType, DueType
  <2>2. QED
    BY <1>1, <1>3, <2>1 DEF Inv, Alone
<1>8. Causes'
  BY <1>1, <1>2, <1>3 DEF Inv, Causes, Cause
<1>9. Paid'
  <2>1. \A j \in Jobs : Pending(j)' = Pending(j) /\ Unpaid(j)' = Unpaid(j) /\ Spent(j)' = Spent(j)
    BY <1>1 DEF Pending, Unpaid, Spent
  <2>2. QED
    BY <1>1, <1>3, <2>1 DEF Inv, Paid
<1>10. QED
  BY <1>4, <1>5, <1>6, <1>7, <1>8, <1>9 DEF Inv

LEMMA InitInv == Init => Inv
<1> SUFFICES ASSUME Init PROVE Inv
  OBVIOUS
<1>1. /\ now = 0 /\ up = TRUE /\ restarted = FALSE /\ tick = Idle
      /\ forced = {} /\ forcing = {} /\ deleting = {} /\ left \in [Kinds -> Nat]
      /\ job = [j \in Jobs |-> NoJob] /\ runs = [j \in Jobs |-> <<>>]
      /\ task = [s \in Tasks |-> Unused] /\ editing = [j \in Jobs |-> NoEdit]
      /\ slot = [j \in Jobs |-> 0]
      /\ ended = [j \in Jobs |-> [clock |-> 0, hand |-> 0, granted |-> Granted[j]]]
  BY BudgetAssumption DEF Init
<1>2. /\ tick.pc = "idle" /\ tick.due = {} /\ tick.at = 0 /\ tick.cur = {} /\ tick.task = {}
      /\ tick \in TickType
  BY <1>1 DEF Idle, TickType
<1>3. \A s \in Tasks : /\ task[s] \in TaskType /\ task[s].job = {} /\ task[s].waiting = <<>>
                       /\ task[s].turn = "none" /\ task[s].then = "none" /\ ~task[s].held
                       /\ ~task[s].byHand
  <2>1. <<>> \in Seq({"job", "user"})
    BY EmptySeq
  <2>2. QED
    BY <1>1, <2>1 DEF Unused, TaskType
<1>4. \A j \in Jobs : /\ runs[j] = <<>> /\ runs[j] \in Seq(RunType) /\ DOMAIN runs[j] = {}
                      /\ Len(runs[j]) = 0 /\ Open(j) = {}
  BY <1>1, EmptySeq DEF Open
<1>5. \A j \in Jobs : /\ job[j] = NoJob /\ job[j] \in JobType /\ job[j].remaining = 0
                      /\ ~job[j].exists /\ Spent(j) = 0
  BY <1>1 DEF NoJob, NoEdit, JobType, Spent
<1>6. Typed
  <2>1. job \in [Jobs -> JobType] /\ runs \in [Jobs -> Seq(RunType)] /\ task \in [Tasks -> TaskType]
    BY <1>1, <1>3, <1>4, <1>5
  <2>2. /\ slot \in [Jobs -> Nat] /\ ended \in [Jobs -> Tally]
        /\ editing \in [Jobs -> Recurrences \cup {NoEdit}]
    BY <1>1, GrantedAssumption DEF Tally
  <2>3. now \in 0..MaxNow
    BY <1>1, MaxNowAssumption
  <2>4. QED
    BY <1>1, <1>2, <2>1, <2>2, <2>3 DEF Typed
<1>7. Rows /\ Ticking /\ Halted /\ Turns
  BY <1>1, <1>2, <1>3, <1>4 DEF Rows, Ticking, Halted, Turns
<1>8. Owned
  BY <1>1, <1>2, <1>3, <1>4, <1>5 DEF Owned, RunsRooted, Unborn, Unmade, HandMade, Blank
<1>9. Slots /\ Alone
  BY <1>1, <1>2, <1>4, <1>5 DEF Slots, Alone, ByClock
<1>10. \A s \in Tasks : ~HasRun(s)
  BY <1>4 DEF HasRun
<1>11. Causes
  BY <1>3, <1>10 DEF Causes, Closings
<1>12. Paid
  <2>1. \A j \in Jobs : Pending(j) = {} /\ Unpaid(j) = {}
    BY <1>3 DEF Pending, Unpaid
  <2>2. IsFiniteSet({}) /\ Cardinality({}) = 0
    BY FS_EmptySet
  <2>3. \A j \in Jobs : ended[j].clock = 0 /\ ended[j].hand = 0 /\ ended[j].granted >= -1
    BY <1>1, GrantedAssumption
  <2>4. ASSUME NEW j \in Jobs
        PROVE  IsFiniteSet(Pending(j)) /\ Cardinality(Pending(j)) = 0 /\ Cardinality(Unpaid(j)) = 0
    BY <2>1, <2>2
  <2>5. QED
    BY <1>3, <1>5, <1>10, <2>3, <2>4 DEF Paid
<1>13. QED
  BY <1>6, <1>7, <1>8, <1>9, <1>11, <1>12 DEF Inv

\* A step that changes nothing.
LEMMA Unchanged == ASSUME Inv, UNCHANGED vars PROVE Inv'
<1>1. UNCHANGED <<now, up, job, runs, task, tick, forced, forcing, editing, deleting, left, restarted,
                  slot, ended>>
  BY DEF vars, memory, ghosts
<1>2. Still
  BY <1>1, Untouched DEF Still
<1>3. Typed' /\ Ticking' /\ Halted' /\ Unmade' /\ Slots'
  BY <1>1 DEF Inv, Typed, Ticking, Halted, Owned, Unmade, Slots
<1>4. Alone'
  BY <1>1 DEF Inv, Alone, ByClock, Open
<1>5. QED
  BY <1>1, <1>2, <1>3, <1>4, Aside DEF Inv, Owned

LEMMA NextInv == ASSUME Inv, [Next]_vars PROVE Inv'
<1>1. ASSUME NEW s \in Tasks, TaskStep(s)
      PROVE  Inv'
  <2>1. ASSUME NEW status \in Closings, TurnEnds(s, status)
        PROVE  Inv'
    BY <2>1, TurnEndsInv
  <2>2. QED
    BY <1>1, <2>1, ForcePromptInv, DispatchInv, RetryDueInv, HeldInv, HeldTurnOverInv, SpendRunInv,
       PauseFinishedInv, PromptInv, StopInv, WithdrawInv, TaskDeletedInv DEF TaskStep
<1>2. ASSUME NEW j \in Jobs, JobStep(j)
      PROVE  Inv'
  BY <1>2, CreateInv, RunScheduleNowInv, PauseInv, EditInv, SetRemainingInv, RebookInv,
     ArchiveInv, DeleteJobInv DEF JobStep
<1>3. ASSUME TickerStep
      PROVE  Inv'
  BY <1>3, DueReadInv, BookInv, SkipInv, FireInv, QueuePromptInv, TickDoneInv DEF TickerStep
<1>4. QED
  BY <1>1, <1>2, <1>3, ElapseInv, CrashInv, BootInv, Unchanged DEF Next

LEMMA Inductive == Spec => []Inv
<1>1. Init => Inv
  BY InitInv
<1>2. Inv /\ [Next]_vars => Inv'
  BY NextInv
<1>3. QED
  BY <1>1, <1>2, PTL DEF Spec

\* No job has two runs open that its clock started, whatever was forced,
\* stopped, deleted, held for a retry or restarted meanwhile.
THEOREM RunsNeverOverlap == Spec => []OneAutomaticRun
<1>1. ASSUME Inv, NEW j \in Jobs
      PROVE  Cardinality(ByClock(j)) <= 1
  <2>1. \A i, k \in ByClock(j) : i = k
    BY <1>1 DEF Inv, Alone
  <2>2. CASE ByClock(j) = {}
    BY <2>2, FS_EmptySet
  <2>3. CASE ByClock(j) # {}
    <3>1. PICK i \in ByClock(j) : TRUE
      BY <2>3
    <3>2. ByClock(j) = {i}
      BY <2>1, <3>1
    <3>3. Cardinality({i}) = 1
      BY FS_Singleton
    <3>4. QED
      BY <3>2, <3>3
  <2>4. QED
    BY <2>2, <2>3
<1>2. Inv => OneAutomaticRun
  BY <1>1 DEF OneAutomaticRun, ByClock
<1>3. QED
  BY <1>2, Inductive, PTL

\* The smaller of two numbers.
LEMMA Smaller ==
    ASSUME NEW a \in Int, NEW b \in Int, NEW c \in {a, b}, c <= a, c <= b
    PROVE  c = Min({a, b})
<1>1. Min({a, b}) = CHOOSE x \in {a, b} : \A y \in {a, b} : x <= y
  BY DEF Min
<1>2. c \in {a, b} /\ \A y \in {a, b} : c <= y
  OBVIOUS
<1>3. Min({a, b}) \in {a, b} /\ \A y \in {a, b} : Min({a, b}) <= y
  BY <1>1, <1>2
<1>4. QED
  BY <1>3

\* A job's counter goes down with the runs that end and with nothing else:
\* never by more, and exactly by the clock's while the program runs.
THEOREM CountersAreExact == Spec => []CounterIsExact
<1>1. ASSUME Inv
      PROVE  TypeOK
  <2>1. ASSUME NEW j \in Jobs
        PROVE  job[j].remaining >= -1 /\ (job[j].exists => job[j].rec \in Recurrences)
    <3>1. job[j].exists => job[j].rec \in Recurrences
      BY <1>1, Existing
    <3>2. /\ ended[j].granted >= 0 => job[j].remaining >= 0
          /\ ended[j].granted = -1 /\ job[j] # NoJob => job[j].remaining = -1
          /\ ended[j].granted >= -1
      BY <1>1 DEF Inv, Paid
    <3>3. job[j] = NoJob => job[j].remaining = 0
      BY DEF NoJob
    <3>4. job[j].remaining \in Int /\ ended[j].granted \in Int
      BY <1>1, Finitely
    <3>5. QED
      BY <3>1, <3>2, <3>3, <3>4
  <2>2. ASSUME NEW j \in Jobs
        PROVE  /\ \A i \in DOMAIN runs[j] :
                     /\ runs[j][i].status \in Statuses
                     /\ runs[j][i].task = {} <=> runs[j][i].status = "skipped"
               /\ \A i \in 2..Len(runs[j]) :
                     ~(runs[j][i].status = "skipped" /\ runs[j][i - 1].status = "skipped")
    <3>1. runs[j] \in Seq(RunType)
      BY <1>1 DEF Inv, Typed
    <3>2. \A i \in DOMAIN runs[j] : runs[j][i] \in RunType
      BY <3>1, LenProperties, ElementOfSeq
    <3>3. QED
      BY <1>1, <3>2 DEF RunType, Inv, Rows
  <2>3. QED
    BY <1>1, <2>1, <2>2 DEF TypeOK, Inv, Typed, Turns
<1>2. ASSUME Inv, NEW j \in Jobs
      PROVE  Spent(j) <= ended[j].clock + ended[j].hand
  <2>1. Spent(j) + Cardinality(Pending(j)) <= ended[j].clock + ended[j].hand
    BY <1>2 DEF Inv, Paid
  <2>2. QED
    BY <1>2, <2>1, Finitely
<1>3. ASSUME Inv, NEW j \in Jobs, ~restarted, ended[j].granted >= 0, job[j].exists
      PROVE  Spent(j) = Min({ended[j].granted, ended[j].clock - Cardinality(Unpaid(j))})
  <2> DEFINE paid == ended[j].clock - Cardinality(Unpaid(j))
  <2>1. job[j] # NoJob
    BY <1>3 DEF NoJob
  <2>2. Spent(j) <= paid /\ (Spent(j) = ended[j].granted \/ Spent(j) = paid) /\ job[j].remaining >= 0
    BY <1>3, <2>1 DEF Inv, Paid
  <2>3. Spent(j) = ended[j].granted - job[j].remaining
    BY <2>1 DEF Spent
  <2>4. paid \in Int /\ ended[j].granted \in Int /\ job[j].remaining \in Int
    BY <1>3, Finitely
  <2> HIDE DEF paid
  <2>5. Spent(j) <= ended[j].granted
    BY <2>2, <2>3, <2>4
  <2>6. Spent(j) = Min({ended[j].granted, paid})
    BY <2>2, <2>4, <2>5, Smaller
  <2>7. QED
    BY <2>6 DEF paid
<1>4. Inv => CounterIsExact
  BY <1>1, <1>2, <1>3 DEF CounterIsExact
<1>5. QED
  BY <1>4, Inductive, PTL

\* A run that is open has something that will end it, so no job is busy for ever
\* for want of a cause.
THEOREM BusyForACause == Spec => []BusyHasCause
<1>1. ASSUME Inv, up, NEW j \in Jobs, NEW i \in Open(j), NEW s \in runs[j][i].task
      PROVE  Cause(s)
  <2>1. runs[j] \in Seq(RunType) /\ i \in DOMAIN runs[j]
    BY <1>1 DEF Inv, Typed, Open
  <2>2. runs[j][i] \in RunType
    BY <2>1, LenProperties, ElementOfSeq
  <2>3. s \in Tasks /\ HasRun(s)
    BY <1>1, <2>2 DEF RunType, HasRun
  <2>4. QED
    BY <1>1, <2>3 DEF Inv, Causes
<1>2. Inv => BusyHasCause
  BY <1>1 DEF BusyHasCause, Cause, Active
<1>3. QED
  BY <1>2, Inductive, PTL

\* Each fire of a job is for a later slot than the one before.
LEMMA FireLater ==
    ASSUME Inv, [Next]_vars, NEW d \in tick'.cur \ tick.cur
    PROVE  d.next > slot[d.job]
<1>1. CASE Book
  <2>1. PICK e \in tick.due : tick' = [tick EXCEPT !.pc = "fire", !.cur = {e}, !.due = @ \ {e}]
    BY <1>1 DEF Book
  <2>2. d = e
    BY <2>1 DEF Inv, Typed, TickType
  <2>3. slot[d.job] < d.next /\ slot[d.job] \in Nat /\ d.next \in Nat
    BY <2>2 DEF Inv, Slots, Typed, TickType, DueType
  <2>4. QED
    BY <2>3
<1>2. CASE ~Book
  <2>1. tick'.cur \subseteq tick.cur
    <3>1. tick \in TickType
      BY DEF Inv, Typed
    <3>2. CASE TickerStep
      <4>1. CASE DueRead \/ TickDone
        <5> DEFINE due == {[job |-> j, next |-> job[j].next, rec |-> job[j].rec,
                            running |-> Running(j)] : j \in {k \in Jobs : Due(k)}}
        <5>1. \/ tick' = Idle
              \/ tick' = [Idle EXCEPT !.pc = "book", !.at = now, !.due = due]
          BY <4>1 DEF DueRead, TickDone
        <5> HIDE DEF due
        <5>2. CASE tick' = Idle
          BY <5>2 DEF Idle
        <5>3. CASE tick' = [Idle EXCEPT !.pc = "book", !.at = now, !.due = due]
          <6>1. tick' = [pc |-> "book", due |-> due, at |-> now, cur |-> {}, task |-> {}]
            BY <5>3 DEF Idle
          <6>2. QED
            BY <6>1
        <5>4. QED
          BY <5>1, <5>2, <5>3
      <4>2. CASE Skip \/ QueuePrompt
        BY <3>1, <4>2 DEF Skip, QueuePrompt, TickType
      <4>3. CASE Fire
        <5>1. PICK s \in Tasks : \/ tick' = [tick EXCEPT !.pc = "queue", !.cur = {}, !.task = {s}]
                                 \/ tick' = [tick EXCEPT !.pc = "book", !.cur = {}]
          BY <4>3 DEF Fire
        <5>2. QED
          BY <3>1, <5>1 DEF TickType
      <4>4. QED
        BY <1>2, <3>2, <4>1, <4>2, <4>3 DEF TickerStep
    <3>3. ASSUME NEW s \in Tasks, TaskStep(s)
          PROVE  tick' = tick
      BY <3>3 DEF TaskStep, ForcePrompt, Dispatch, RetryDue, Held, HeldTurnOver, TurnEnds, SpendRun,
                  PauseFinished, Prompt, Stop, Withdraw, DeleteTask, TaskDeleted
    <3>4. ASSUME NEW j \in Jobs, JobStep(j)
          PROVE  tick' = tick
      BY <3>4 DEF JobStep, Create, RunScheduleNow, Pause, Edit, SetRemaining, Rebook, Archive,
                  DeleteJob
    <3>5. CASE Crash
      BY <3>5 DEF Crash, Idle
    <3>6. CASE Elapse \/ Boot \/ UNCHANGED vars
      BY <3>6 DEF Elapse, Boot, vars
    <3>7. QED
      BY <3>2, <3>3, <3>4, <3>5, <3>6 DEF Next
  <2>2. QED
    BY <2>1
<1>3. QED
  BY <1>1, <1>2

\* A schedule never fires twice for one slot.
THEOREM SlotsFireOnce == Spec => OncePerSlot
<1>1. Inv /\ [Next]_vars => [\A d \in tick'.cur \ tick.cur : d.next > slot[d.job]]_vars
  BY FireLater
<1>2. QED
  BY <1>1, Inductive, PTL DEF Spec, OncePerSlot
-----------------------------------------------------------------------------
(* Events                                                                   *)

Events == [type : {"started", "text", "done"}, of : Sessions, turn : Nat, final : BOOLEAN]
Places == {"free", "asked", "subscribed", "open", "leaving"}
ReadFields == {"kind", "of", "preserve", "last", "latest", "at", "seen", "turn", "running", "doubt"}
TabFields == {"of", "seen", "turn", "live", "running", "doubt"}

TypedTurns ==
    /\ phase \in [Sessions -> {"idle", "launching", "running", "finishing"}]
    /\ turns \in [Sessions -> Nat]
    /\ publishing \in [Sessions -> Seq(Topics \X Events)]
    /\ slow \in [Sessions -> SUBSET Streams]
TypedStreams ==
    /\ stream \in [Streams -> [pc : Places, topics : SUBSET Topics, ch : Seq(Events),
                               closed : BOOLEAN]]
    /\ byTopic \in [Topics -> SUBSET Streams]
Room == \A k \in Streams : Len(stream[k].ch) <= Buffer
TypedWindow ==
    /\ current \in Streams \cup {0}
    /\ DOMAIN tab = TabFields /\ tab.of \in Sessions \cup {None}
    /\ \A r \in reads : DOMAIN r = ReadFields /\ r.of \in Sessions

\* A stream that the hub still knows has subscribed, and is over only afterwards.
Registered ==
    \A k \in Streams : \A t \in Topics : k \in byTopic[t] =>
        /\ stream[k].pc \in {"subscribed", "open", "leaving"}
        /\ ~stream[k].closed
        /\ \A s \in Sessions : k \notin slow[s]
\* A stream that is about to be closed is one that has subscribed, and one that
\* has not is not closed.
Ending ==
    \A k \in Streams :
        /\ \A s \in Sessions : k \in slow[s] => stream[k].pc \in {"subscribed", "open", "leaving"}
        /\ stream[k].pc \in {"free", "asked"} => ~stream[k].closed

\* The streams that look at the project, which refs counts.
Looking == {k \in Streams : stream[k].pc \in {"subscribed", "open"}}
Counted ==
    /\ IsFiniteSet(Looking)
    /\ refs = Cardinality(Looking)
    /\ watching <=> refs > 0

EventsInv == TypedTurns /\ TypedStreams /\ Room /\ TypedWindow /\ Registered /\ Ending /\ Counted



\* A step of the turns alone.
LEMMA TurnsMove ==
    ASSUME EventsInv, TypedTurns', UNCHANGED <<slow, hub, current, tab, reads>>
    PROVE  EventsInv'
BY DEF EventsInv, TypedStreams, Room, TypedWindow, Registered, Ending, Counted, Looking, hub

\* A step of the window alone.
LEMMA WindowMoves ==
    ASSUME EventsInv, TypedWindow', UNCHANGED <<runner, publishing, slow, hub>>
    PROVE  EventsInv'
BY DEF EventsInv, TypedTurns, TypedStreams, Room, Registered, Ending, Counted, Looking, hub, runner

\* A stream goes on to another place.
LEMMA LookingMoves ==
    ASSUME EventsInv, NEW k \in Streams, NEW t,
           stream' = [stream EXCEPT ![k] = t]
    PROVE  /\ t.pc \in {"subscribed", "open"} => Looking' = Looking \cup {k}
           /\ t.pc \notin {"subscribed", "open"} => Looking' = Looking \ {k}
BY DEF EventsInv, TypedStreams, Looking

\* The count stays right while the same streams look at the project.
LEMMA SameLooking ==
    ASSUME EventsInv, Looking' = Looking, UNCHANGED <<refs, watching>>
    PROVE  Counted'
BY DEF EventsInv, Counted

\* Sequences of up to two.
LEMMA Short ==
    ASSUME NEW S, NEW a \in S, NEW b \in S
    PROVE  <<>> \in Seq(S) /\ <<a>> \in Seq(S) /\ <<a, b>> \in Seq(S)
OBVIOUS

\* Reads that a newer one overtakes are reads.
LEMMA SupersededTyped ==
    ASSUME EventsInv PROVE \A q \in Superseded : DOMAIN q = ReadFields /\ q.of \in Sessions
BY DEF Superseded, EventsInv, TypedWindow, ReadFields

\* So are those that a new read leaves in flight.
LEMMA SyncingTyped ==
    ASSUME EventsInv, tab.of \in Sessions, NEW preserve
    PROVE  \A q \in Syncing(preserve) : DOMAIN q = ReadFields /\ q.of \in Sessions
BY SupersededTyped DEF Syncing, Read, ReadFields

\* A channel with nothing in it has room.
LEMMA NoneWaiting == Len(<<>>) <= Buffer
BY EventsAssumption

\* At first one stream is open, and it alone looks at the project.
LEMMA EventsInitInv == ASSUME EventsInit PROVE EventsInv
<1>1. PICK s \in Sessions :
          /\ tab = [Empty EXCEPT !.of = s]
          /\ byTopic = [t \in Topics |-> IF t \in Wanted(s) THEN {1} ELSE {}]
          /\ stream = [k \in Streams |->
                IF k = 1 THEN [Free EXCEPT !.pc = "open", !.topics = Wanted(s)] ELSE Free]
  BY DEF EventsInit
<1>2. 1 \in Streams /\ Buffer \in Nat /\ Wanted(s) \subseteq Topics
  BY <1>1, EventsAssumption DEF Wanted, Topics
<1>3. \A k \in Streams : /\ stream[k].pc = IF k = 1 THEN "open" ELSE "free"
                         /\ stream[k].topics = IF k = 1 THEN Wanted(s) ELSE {}
                         /\ stream[k].ch = <<>> /\ ~stream[k].closed
  BY <1>1 DEF Free
<1>4. TypedTurns
  BY DEF EventsInit, TypedTurns
<1>5. TypedStreams
  <2>1. [Free EXCEPT !.pc = "open", !.topics = Wanted(s)]
           \in [pc : Places, topics : SUBSET Topics, ch : Seq(Events), closed : BOOLEAN]
    <3> DEFINE R == [pc : Places, topics : SUBSET Topics, ch : Seq(Events), closed : BOOLEAN]
    <3>1. \A r \in R, w \in SUBSET Topics : [[r EXCEPT !.pc = "open"] EXCEPT !.topics = w] \in R
      BY DEF Places
    <3>2. Free \in R
      BY DEF Free, Places
    <3>3. QED
      BY <1>2, <3>1, <3>2
  <2>2. Free \in [pc : Places, topics : SUBSET Topics, ch : Seq(Events), closed : BOOLEAN]
    BY DEF Free, Places
  <2>3. QED
    BY <1>1, <1>2, <2>1, <2>2 DEF TypedStreams
<1>6. Room
  BY <1>2, <1>3 DEF Room
<1>7. TypedWindow
  BY <1>1, <1>2 DEF EventsInit, TypedWindow, TabFields, Empty
<1>8. Registered
  BY <1>1, <1>2, <1>3 DEF EventsInit, Registered
<1>9. Ending
  BY <1>3 DEF EventsInit, Ending
<1>10. Counted
  <2>1. Looking = {1}
    <3>1. 1 \in Looking
      BY <1>2, <1>3 DEF Looking
    <3>2. \A k \in Looking : k = 1
      BY <1>3 DEF Looking
    <3>3. QED
      BY <3>1, <3>2
  <2>2. IsFiniteSet({1}) /\ Cardinality({1}) = 1
    BY FS_Singleton
  <2>3. refs = 1 /\ watching
    BY DEF EventsInit
  <2>4. QED
    BY <2>1, <2>2, <2>3 DEF Counted
<1>11. QED
  BY <1>4, <1>5, <1>6, <1>7, <1>8, <1>9, <1>10 DEF EventsInv
-----------------------------------------------------------------------------
(* Turns                                                                    *)

\* A turn goes on.
LEMMA TurnStep ==
    ASSUME EventsInv, NEW s \in Sessions, Launch(s) \/ Turn(s)
    PROVE  EventsInv'
<1>1. UNCHANGED <<slow, hub, current, tab, reads>>
  BY DEF Launch, Turn, Refuse, Started, Say, Finish, Release, hub, window
<1>2. turns' \in [Sessions -> Nat]
  <2>1. turns' = turns \/ turns' = [turns EXCEPT ![s] = @ + 1]
    BY DEF Launch, Turn, Refuse, Started, Say, Finish, Release
  <2>2. turns \in [Sessions -> Nat]
    BY DEF EventsInv, TypedTurns
  <2>3. QED
    BY <2>1, <2>2
<1>3. phase' \in [Sessions -> {"idle", "launching", "running", "finishing"}]
  BY DEF EventsInv, TypedTurns, Launch, Turn, Refuse, Started, Say, Finish, Release
<1>4. \A type \in {"started", "text", "done"}, f \in BOOLEAN : Event(type, s, f) \in Events
  BY <1>2 DEF Event, Events
<1>5. s \in Topics /\ Project \in Topics
  BY DEF Topics
<1>6. publishing' \in [Sessions -> Seq(Topics \X Events)]
  <2>1. publishing' = publishing \/ \E p \in Seq(Topics \X Events) :
             publishing' = [publishing EXCEPT ![s] = p]
    <3>1. CASE Started(s)
      <4>1. <<s, Event("started", s, FALSE)>> \in Topics \X Events
            /\ <<Project, Event("started", s, FALSE)>> \in Topics \X Events
        BY <1>4, <1>5
      <4>2. QED
        BY <3>1, <4>1, Short DEF Started, Both
    <3>2. CASE Finish(s)
      <4>1. <<s, Event("done", s, TRUE)>> \in Topics \X Events
            /\ <<Project, Event("done", s, TRUE)>> \in Topics \X Events
        BY <1>4, <1>5
      <4>2. QED
        BY <3>2, <4>1, Short DEF Finish, Both
    <3>3. CASE Say(s)
      <4>1. PICK type \in {"text", "done"} :
               publishing' = [publishing EXCEPT ![s] = <<<<s, Event(type, s, FALSE)>>>>]
        BY <3>3 DEF Say
      <4>2. <<s, Event(type, s, FALSE)>> \in Topics \X Events
        BY <1>4, <1>5
      <4>3. QED
        BY <4>1, <4>2, Short
    <3>4. CASE Launch(s) \/ Refuse(s) \/ Release(s)
      BY <3>4 DEF Launch, Refuse, Release
    <3>5. QED
      BY <3>1, <3>2, <3>3, <3>4 DEF Turn
  <2>2. QED
    BY <2>1 DEF EventsInv, TypedTurns
<1>7. TypedTurns'
  BY <1>1, <1>2, <1>3, <1>6 DEF EventsInv, TypedTurns
<1>8. QED
  BY <1>1, <1>7, TurnsMove
-----------------------------------------------------------------------------
(* The hub                                                                  *)

\* An event reaches the streams that have room, and the others are dropped from every topic.
LEMMA PublishStep ==
    ASSUME EventsInv, NEW s \in Sessions, Publish(s)
    PROVE  EventsInv'
<1> DEFINE topic == publishing[s][1][1]
           e     == publishing[s][1][2]
           full  == {k \in byTopic[topic] : Len(stream[k].ch) >= Buffer}
           sent  == byTopic[topic] \ full
<1>1. /\ publishing[s] # <<>> /\ slow[s] = {}
      /\ stream' = [k \in Streams |-> IF k \in sent THEN [stream[k] EXCEPT !.ch = Append(@, e)]
                                                    ELSE stream[k]]
      /\ byTopic' = [t \in Topics |-> byTopic[t] \ full]
      /\ slow' = [slow EXCEPT ![s] = full]
      /\ publishing' = [publishing EXCEPT ![s] = Tail(@)]
      /\ UNCHANGED <<runner, refs, watching, current, tab, reads>>
  BY DEF Publish, DropFrom, window
<1>2. topic \in Topics /\ e \in Events /\ Tail(publishing[s]) \in Seq(Topics \X Events)
  <2>1. publishing[s] \in Seq(Topics \X Events)
    BY DEF EventsInv, TypedTurns
  <2>2. publishing[s][1] \in Topics \X Events /\ Tail(publishing[s]) \in Seq(Topics \X Events)
    BY <1>1, <2>1
  <2>3. QED
    BY <2>2
<1>3. full \subseteq Streams /\ sent \subseteq Streams
  BY <1>2 DEF EventsInv, TypedStreams
<1> HIDE DEF topic, e
<1>4. \A k \in Streams : /\ stream'[k].pc = stream[k].pc
                         /\ stream'[k].topics = stream[k].topics
                         /\ stream'[k].closed = stream[k].closed
                         /\ stream'[k].ch = IF k \in sent THEN Append(stream[k].ch, e)
                                            ELSE stream[k].ch
  BY <1>1 DEF EventsInv, TypedStreams
<1>5. \A k \in sent : Len(stream[k].ch) < Buffer
  <2> SUFFICES ASSUME NEW k \in sent PROVE Len(stream[k].ch) < Buffer
    OBVIOUS
  <2>1. k \in Streams /\ k \in byTopic[topic] /\ k \notin full
    BY <1>3
  <2>2. stream[k].ch \in Seq(Events)
    BY <2>1 DEF EventsInv, TypedStreams
  <2>3. Len(stream[k].ch) \in Nat /\ Buffer \in Nat
    BY <2>2, LenProperties, EventsAssumption
  <2>4. QED
    BY <2>1, <2>3
<1>6. TypedTurns'
  BY <1>1, <1>2, <1>3 DEF EventsInv, TypedTurns, runner
<1>7. TypedStreams'
  <2>1. \A k \in Streams : stream'[k] \in [pc : Places, topics : SUBSET Topics, ch : Seq(Events),
                                           closed : BOOLEAN]
    <3> TAKE k \in Streams
    <3>1. stream[k].ch \in Seq(Events) /\ Append(stream[k].ch, e) \in Seq(Events)
      BY <1>2 DEF EventsInv, TypedStreams
    <3>2. QED
      BY <1>1, <3>1 DEF EventsInv, TypedStreams
  <2>2. QED
    BY <1>1, <1>3, <2>1 DEF EventsInv, TypedStreams
<1>8. Room'
  <2> SUFFICES ASSUME NEW k \in Streams PROVE Len(stream'[k].ch) <= Buffer
    BY DEF Room
  <2>1. stream[k].ch \in Seq(Events) /\ Len(stream[k].ch) <= Buffer
    BY DEF EventsInv, TypedStreams, Room
  <2>2. CASE k \in sent
    <3>1. Len(Append(stream[k].ch, e)) = Len(stream[k].ch) + 1 /\ Len(stream[k].ch) \in Nat
      BY <2>1, <1>2, LenProperties
    <3>2. QED
      <4>1. Len(stream[k].ch) < Buffer /\ stream'[k].ch = Append(stream[k].ch, e)
        BY <2>2, <1>4, <1>5
      <4> HIDE DEF full, sent
      <4>2. QED
        BY <4>1, <3>1, EventsAssumption
  <2>3. CASE k \notin sent
    BY <2>1, <2>3, <1>4
  <2>4. QED
    BY <2>2, <2>3
<1>9. TypedWindow'
  BY <1>1 DEF EventsInv, TypedWindow
<1>10. Registered'
  <2> SUFFICES ASSUME NEW k \in Streams, NEW t \in Topics, k \in byTopic'[t]
               PROVE  /\ stream'[k].pc \in {"subscribed", "open", "leaving"}
                      /\ ~stream'[k].closed
                      /\ \A r \in Sessions : k \notin slow'[r]
    BY DEF Registered
  <2>1. k \in byTopic[t] /\ k \notin full
    BY <1>1
  <2>2. /\ stream[k].pc \in {"subscribed", "open", "leaving"} /\ ~stream[k].closed
        /\ \A r \in Sessions : k \notin slow[r]
    BY <2>1 DEF EventsInv, Registered
  <2>3. \A r \in Sessions : k \notin slow'[r]
    BY <2>1, <2>2, <1>1 DEF EventsInv, TypedTurns
  <2>4. QED
    BY <2>2, <2>3, <1>4
<1>11. Ending'
  <2>1. \A k \in full : stream[k].pc \in {"subscribed", "open", "leaving"}
    BY <1>2, <1>3 DEF EventsInv, Registered
  <2>2. \A k \in Streams, r \in Sessions : k \in slow'[r] => k \in slow[r] \/ k \in full
    BY <1>1 DEF EventsInv, TypedTurns
  <2>3. QED
    BY <2>1, <2>2, <1>4 DEF EventsInv, Ending
<1>12. Counted'
  <2>1. Looking' = Looking
    BY <1>4 DEF Looking
  <2>2. QED
    BY <2>1, <1>1, SameLooking
<1>13. QED
  BY <1>6, <1>7, <1>8, <1>9, <1>10, <1>11, <1>12 DEF EventsInv

\* A stream that fell behind is closed after the hub has forgotten it.
LEMMA CloseSlowStep ==
    ASSUME EventsInv, NEW s \in Sessions, CloseSlow(s)
    PROVE  EventsInv'
<1>1. /\ stream' = [k \in Streams |-> IF k \in slow[s] THEN [stream[k] EXCEPT !.closed = TRUE]
                                                       ELSE stream[k]]
      /\ slow' = [slow EXCEPT ![s] = {}]
      /\ UNCHANGED <<runner, publishing, byTopic, refs, watching, current, tab, reads>>
  BY DEF CloseSlow, window
<1>2. \A k \in Streams : /\ stream'[k].pc = stream[k].pc
                         /\ stream'[k].topics = stream[k].topics
                         /\ stream'[k].closed = (stream[k].closed \/ k \in slow[s])
                         /\ stream'[k].ch = stream[k].ch
  BY <1>1 DEF EventsInv, TypedStreams
<1>3. TypedTurns'
  BY <1>1 DEF EventsInv, TypedTurns, runner
<1>4. TypedStreams'
  BY <1>1 DEF EventsInv, TypedStreams
<1>5. Room' /\ TypedWindow'
  BY <1>1, <1>2 DEF EventsInv, Room, TypedWindow
<1>6. \A k \in Streams, r \in Sessions : k \in slow'[r] => k \in slow[r]
  BY <1>1 DEF EventsInv, TypedTurns
<1>7. Registered'
  BY <1>1, <1>2, <1>6 DEF EventsInv, Registered
<1>8. Ending'
  BY <1>2, <1>6 DEF EventsInv, Ending
<1>9. Counted'
  <2>1. Looking' = Looking
    BY <1>2 DEF Looking
  <2>2. QED
    BY <2>1, <1>1, SameLooking
<1>10. QED
  BY <1>3, <1>4, <1>5, <1>7, <1>8, <1>9 DEF EventsInv
-----------------------------------------------------------------------------
(* Streams                                                                  *)

\* A stream that subscribes looks at the project from then on.
LEMMA SubscribeStep ==
    ASSUME EventsInv, NEW k \in Streams, Subscribe(k)
    PROVE  EventsInv'
<1>1. /\ stream[k].pc = "asked"
      /\ stream' = [stream EXCEPT ![k].pc = "subscribed"]
      /\ refs' = refs + 1 /\ watching' = TRUE
      /\ byTopic' = [t \in Topics |-> IF t \in stream[k].topics THEN byTopic[t] \cup {k}
                                                                ELSE byTopic[t]]
      /\ UNCHANGED <<runner, publishing, slow, current, tab, reads>>
  BY DEF Subscribe, At, Move, window
<1>2. \A j \in Streams : /\ stream'[j].pc = IF j = k THEN "subscribed" ELSE stream[j].pc
                         /\ stream'[j].closed = stream[j].closed
                         /\ stream'[j].ch = stream[j].ch
  BY <1>1 DEF EventsInv, TypedStreams
<1>3. TypedTurns' /\ TypedWindow'
  BY <1>1 DEF EventsInv, TypedTurns, TypedWindow, runner
<1>4. TypedStreams'
  BY <1>1 DEF EventsInv, TypedStreams, Places
<1>5. Room'
  BY <1>2 DEF EventsInv, Room
<1>6. ~stream[k].closed /\ \A s \in Sessions : k \notin slow[s]
  BY <1>1 DEF EventsInv, Ending
<1>7. Registered'
  BY <1>1, <1>2, <1>6 DEF EventsInv, Registered
<1>8. Ending'
  BY <1>1, <1>2, <1>6 DEF EventsInv, Ending
<1>9. Counted'
  <2>1. Looking' = Looking \cup {k}
    BY <1>2 DEF Looking
  <2>2. k \notin Looking
    BY <1>1 DEF Looking
  <2>3. IsFiniteSet(Looking') /\ Cardinality(Looking') = Cardinality(Looking) + 1
    BY <2>1, <2>2, FS_AddElement DEF EventsInv, Counted
  <2>4. Cardinality(Looking) \in Nat
    BY FS_CardinalityType DEF EventsInv, Counted
  <2>5. QED
    BY <1>1, <2>3, <2>4 DEF EventsInv, Counted
<1>10. QED
  BY <1>3, <1>4, <1>5, <1>7, <1>8, <1>9 DEF EventsInv

\* A stream that is over looks no longer, and the last one stops the watching.
LEMMA LeaveStep ==
    ASSUME EventsInv, NEW k \in Streams, Leave(k)
    PROVE  EventsInv'
<1>1. /\ stream[k].pc \in {"subscribed", "open"}
      /\ stream' = [stream EXCEPT ![k].pc = "leaving"]
      /\ refs' = refs - 1 /\ watching' = (refs' > 0)
      /\ current' \in {0, current}
      /\ UNCHANGED <<runner, publishing, slow, byTopic, tab, reads>>
  BY DEF Leave, Move, ReleaseWatch
<1>2. \A j \in Streams : /\ stream'[j].pc = IF j = k THEN "leaving" ELSE stream[j].pc
                         /\ stream'[j].closed = stream[j].closed
                         /\ stream'[j].ch = stream[j].ch
  BY <1>1 DEF EventsInv, TypedStreams
<1>3. TypedTurns' /\ TypedWindow'
  BY <1>1 DEF EventsInv, TypedTurns, TypedWindow, runner
<1>4. TypedStreams'
  BY <1>1 DEF EventsInv, TypedStreams, Places
<1>5. Room'
  BY <1>2 DEF EventsInv, Room
<1>6. Registered' /\ Ending'
  BY <1>1, <1>2 DEF EventsInv, Registered, Ending
<1>7. Counted'
  <2>1. Looking' = Looking \ {k}
    BY <1>2 DEF Looking
  <2>2. k \in Looking
    BY <1>1 DEF Looking
  <2>3. IsFiniteSet(Looking') /\ Cardinality(Looking') = Cardinality(Looking) - 1
    BY <2>1, <2>2, FS_RemoveElement DEF EventsInv, Counted
  <2>4. Cardinality(Looking) \in Nat
    BY FS_CardinalityType DEF EventsInv, Counted
  <2>5. QED
    BY <1>1, <2>3, <2>4 DEF EventsInv, Counted
<1>8. QED
  BY <1>3, <1>4, <1>5, <1>6, <1>7 DEF EventsInv

\* The hub forgets a stream that is over, and its number is free again.
LEMMA UnsubscribeStep ==
    ASSUME EventsInv, NEW k \in Streams, Unsubscribe(k)
    PROVE  EventsInv'
<1>1. /\ stream[k].pc = "leaving" /\ \A s \in Sessions : k \notin slow[s]
      /\ byTopic' = [t \in Topics |-> byTopic[t] \ {k}]
      /\ stream' = [stream EXCEPT ![k] = Free]
      /\ UNCHANGED <<runner, publishing, slow, refs, watching, current, tab, reads>>
  BY DEF Unsubscribe, At, window
<1>2. /\ \A j \in Streams : j # k => stream'[j] = stream[j]
      /\ stream'[k] = Free /\ Free.pc = "free" /\ Free.ch = <<>> /\ ~Free.closed
  BY <1>1 DEF EventsInv, TypedStreams, Free
<1>3. TypedTurns' /\ TypedWindow'
  BY <1>1 DEF EventsInv, TypedTurns, TypedWindow, runner
<1>4. TypedStreams'
  BY <1>1 DEF EventsInv, TypedStreams, Places, Free
<1>5. Room'
  <2> SUFFICES ASSUME NEW j \in Streams PROVE Len(stream'[j].ch) <= Buffer
    BY DEF Room
  <2>1. Len(stream[k].ch) <= Buffer /\ Len(stream[k].ch) \in Nat
    BY DEF EventsInv, Room, TypedStreams
  <2>2. QED
    BY <1>2, <2>1, EventsAssumption DEF EventsInv, Room
<1>6. Registered' /\ Ending'
  BY <1>1, <1>2 DEF EventsInv, Registered, Ending
<1>7. Counted'
  <2>1. Looking' = Looking
    BY <1>1, <1>2 DEF Looking
  <2>2. QED
    BY <2>1, <1>1, SameLooking
<1>8. QED
  BY <1>3, <1>4, <1>5, <1>6, <1>7 DEF EventsInv

\* The window reads again once its stream is open.
LEMMA OpenedStep ==
    ASSUME EventsInv, NEW k \in Streams, Opened(k)
    PROVE  EventsInv'
<1>1. /\ stream[k].pc = "subscribed"
      /\ stream' = [stream EXCEPT ![k].pc = "open"]
      /\ reads' = IF tab.of = None THEN reads ELSE Syncing(TRUE)
      /\ UNCHANGED <<runner, publishing, slow, byTopic, refs, watching, current, tab>>
  BY DEF Opened, At, Move
<1>2. \A j \in Streams : /\ stream'[j].pc = IF j = k THEN "open" ELSE stream[j].pc
                         /\ stream'[j].closed = stream[j].closed
                         /\ stream'[j].ch = stream[j].ch
  BY <1>1 DEF EventsInv, TypedStreams
<1>3. TypedTurns'
  BY <1>1 DEF EventsInv, TypedTurns, runner
<1>4. TypedStreams'
  BY <1>1 DEF EventsInv, TypedStreams, Places
<1>5. Room'
  BY <1>2 DEF EventsInv, Room
<1>6. TypedWindow'
  <2>1. CASE tab.of = None
    BY <1>1, <2>1 DEF EventsInv, TypedWindow
  <2>2. CASE tab.of # None
    BY <1>1, <2>2, SyncingTyped DEF EventsInv, TypedWindow
  <2>3. QED
    BY <2>1, <2>2
<1>7. Registered' /\ Ending'
  BY <1>1, <1>2 DEF EventsInv, Registered, Ending
<1>8. Counted'
  <2>1. Looking' = Looking
    BY <1>1, <1>2 DEF Looking
  <2>2. QED
    BY <2>1, <1>1, SameLooking
<1>9. QED
  BY <1>3, <1>4, <1>5, <1>6, <1>7, <1>8 DEF EventsInv

\* The request for a new stream of the window.
LEMMA AskStep ==
    ASSUME EventsInv, NEW k \in Streams, NEW of \in Sessions \cup {None}, Ask(k, of),
           TypedWindow', UNCHANGED <<runner, publishing, slow, byTopic, refs, watching>>
    PROVE  EventsInv'
<1>1. /\ stream[k].pc = "free"
      /\ stream' = [stream EXCEPT ![k] = [Free EXCEPT !.pc = "asked", !.topics = Wanted(of)]]
  BY DEF Ask, At
<1>2. /\ \A j \in Streams : j # k => stream'[j] = stream[j]
      /\ stream'[k].pc = "asked" /\ stream'[k].ch = <<>> /\ ~stream'[k].closed
  BY <1>1 DEF EventsInv, TypedStreams, Free
<1>3. TypedTurns'
  BY DEF EventsInv, TypedTurns, runner
<1>4. TypedStreams'
  <2> DEFINE R == [pc : Places, topics : SUBSET Topics, ch : Seq(Events), closed : BOOLEAN]
  <2>1. \A r \in R, w \in SUBSET Topics : [[r EXCEPT !.pc = "asked"] EXCEPT !.topics = w] \in R
    BY DEF Places
  <2>2. Free \in R /\ Wanted(of) \subseteq Topics
    BY DEF Free, Places, Wanted, Topics
  <2>3. stream \in [Streams -> R] /\ UNCHANGED byTopic
    BY DEF EventsInv, TypedStreams
  <2>4. stream' \in [Streams -> R]
    BY <1>1, <2>1, <2>2, <2>3
  <2>5. QED
    BY <2>3, <2>4 DEF EventsInv, TypedStreams
<1>5. Room'
  BY <1>2, NoneWaiting DEF EventsInv, Room
<1>6. k \notin byTopic[Project] /\ \A t \in Topics : k \notin byTopic[t]
  BY <1>1 DEF EventsInv, Registered, Topics
<1>7. \A s \in Sessions : k \notin slow[s]
  BY <1>1 DEF EventsInv, Ending
<1>8. Registered' /\ Ending'
  BY <1>2, <1>6, <1>7 DEF EventsInv, Registered, Ending
<1>9. Counted'
  <2>1. Looking' = Looking
    BY <1>1, <1>2 DEF Looking
  <2>2. QED
    BY <2>1, SameLooking
<1>10. QED
  BY <1>3, <1>4, <1>5, <1>8, <1>9 DEF EventsInv
-----------------------------------------------------------------------------
(* The window                                                               *)

\* An answer is to the same read.
LEMMA SameRead ==
    ASSUME NEW r, DOMAIN r = ReadFields, NEW x, NEW y, NEW z
    PROVE  /\ DOMAIN [r EXCEPT !.at = x, !.seen = y] = ReadFields
           /\ [r EXCEPT !.at = x, !.seen = y].of = r.of
           /\ DOMAIN [r EXCEPT !.at = x, !.turn = y] = ReadFields
           /\ [r EXCEPT !.at = x, !.turn = y].of = r.of
           /\ DOMAIN [r EXCEPT !.at = x, !.running = y, !.doubt = z] = ReadFields
           /\ [r EXCEPT !.at = x, !.running = y, !.doubt = z].of = r.of
BY DEF ReadFields

\* A read in flight is answered, bit by bit.
LEMMA ReadStep ==
    ASSUME EventsInv, GetSession
    PROVE  EventsInv'
<1>1. PICK r \in reads : ReadMessages(r) \/ ReadTurns(r) \/ ReadRunning(r)
  BY DEF GetSession
<1>2. DOMAIN r = ReadFields /\ r.of \in Sessions
  BY DEF EventsInv, TypedWindow
<1>3. PICK q : reads' = (reads \ {r}) \cup {q} /\ DOMAIN q = ReadFields /\ q.of = r.of
  <2>1. CASE ReadMessages(r)
    <3> DEFINE q == [r EXCEPT !.at = "messages", !.seen = written[r.of]]
    <3>1. DOMAIN q = ReadFields /\ q.of = r.of
      BY <1>2, SameRead
    <3>2. reads' = (reads \ {r}) \cup {q}
      BY <2>1 DEF ReadMessages, Answering
    <3> HIDE DEF q
    <3>3. QED
      BY <3>1, <3>2
  <2>2. CASE ReadTurns(r)
    <3> DEFINE q == [r EXCEPT !.at = "turns", !.turn = turns[r.of]]
    <3>1. DOMAIN q = ReadFields /\ q.of = r.of
      BY <1>2, SameRead
    <3>2. reads' = (reads \ {r}) \cup {q}
      BY <2>2 DEF ReadTurns, Answering
    <3> HIDE DEF q
    <3>3. QED
      BY <3>1, <3>2
  <2>3. CASE ReadRunning(r)
    <3> DEFINE q == [r EXCEPT !.at = "answered", !.running = phase[r.of] # "idle",
                           !.doubt = \/ phase[r.of] = "launching"
                                     \/ phase[r.of] = "finishing" /\ Len(publishing[r.of]) < 2]
    <3>1. DOMAIN q = ReadFields /\ q.of = r.of
      BY <1>2, SameRead
    <3>2. reads' = (reads \ {r}) \cup {q}
      BY <2>3 DEF ReadRunning, Answering
    <3> HIDE DEF q
    <3>3. QED
      BY <3>1, <3>2
  <2>4. QED
    BY <1>1, <2>1, <2>2, <2>3
<1>4. TypedWindow' /\ UNCHANGED <<runner, publishing, slow, hub>>
  BY <1>2, <1>3 DEF EventsInv, TypedWindow, GetSession
<1>5. QED
  BY <1>4, WindowMoves

\* The window draws what it has read.
LEMMA SyncedStep ==
    ASSUME EventsInv, NEW r \in reads, Synced(r)
    PROVE  EventsInv'
<1>1. DOMAIN r = ReadFields /\ r.of \in Sessions
  BY DEF EventsInv, TypedWindow
<1>2. DOMAIN tab' = TabFields /\ tab'.of \in Sessions \cup {None}
  <2>1. \/ tab' = tab
        \/ tab' = [tab EXCEPT !.running = TRUE, !.doubt = r.doubt]
        \/ tab' = Redrawn(r)
    BY DEF Synced
  <2>2. DOMAIN tab = TabFields /\ tab.of \in Sessions \cup {None}
    BY DEF EventsInv, TypedWindow
  <2>3. DOMAIN Redrawn(r) = TabFields /\ Redrawn(r).of = r.of
    BY DEF Redrawn, TabFields
  <2>4. QED
    BY <1>1, <2>1, <2>2, <2>3 DEF TabFields
<1>3. TypedWindow' /\ UNCHANGED <<runner, publishing, slow, hub>>
  BY <1>2 DEF Synced, EventsInv, TypedWindow
<1>4. QED
  BY <1>3, WindowMoves

\* A read fails.
LEMMA ReadFailsStep ==
    ASSUME EventsInv, NEW r \in reads, ReadFails(r)
    PROVE  EventsInv'
<1>1. DOMAIN tab' = TabFields /\ tab'.of \in Sessions \cup {None}
  BY DEF EventsInv, TypedWindow, ReadFails, TabFields
<1>2. TypedWindow' /\ UNCHANGED <<runner, publishing, slow, hub>>
  BY <1>1 DEF ReadFails, EventsInv, TypedWindow
<1>3. QED
  BY <1>2, WindowMoves

\* The window asks for another task.
LEMMA OpenTaskStep ==
    ASSUME EventsInv, NEW s \in Sessions, OpenTask(s)
    PROVE  EventsInv'
<1>1. DOMAIN Read("open", s, FALSE) = ReadFields /\ Read("open", s, FALSE).of = s
  BY DEF Read, ReadFields
<1>2. TypedWindow' /\ UNCHANGED <<runner, publishing, slow, hub>>
  BY <1>1 DEF OpenTask, EventsInv, TypedWindow
<1>3. QED
  BY <1>2, WindowMoves

\* The connection breaks.
LEMMA BreakStep ==
    ASSUME EventsInv, Break
    PROVE  EventsInv'
<1>1. TypedWindow' /\ UNCHANGED <<runner, publishing, slow, hub>>
  BY DEF Break, EventsInv, TypedWindow
<1>2. QED
  BY <1>1, WindowMoves

\* The window asks for a stream again.
LEMMA ConnectAgainStep ==
    ASSUME EventsInv, NEW k \in Streams, ConnectAgain(k)
    PROVE  EventsInv'
<1>1. tab.of \in Sessions \cup {None}
  BY DEF EventsInv, TypedWindow
<1>2. TypedWindow'
  BY DEF ConnectAgain, Ask, EventsInv, TypedWindow
<1>3. Ask(k, tab.of) /\ UNCHANGED <<runner, publishing, slow, byTopic, refs, watching>>
  BY DEF ConnectAgain
<1>4. QED
  BY <1>1, <1>2, <1>3, AskStep

\* The other task is shown, with a stream of its own.
LEMMA ShowTaskStep ==
    ASSUME EventsInv, NEW k \in Streams, NEW r \in reads, ShowTask(r, k)
    PROVE  EventsInv'
<1>1. r.of \in Sessions
  BY DEF EventsInv, TypedWindow
<1>2. DOMAIN tab' = TabFields /\ tab'.of = r.of
  BY DEF ShowTask, Redrawn, TabFields
<1>3. \A q \in reads' : DOMAIN q = ReadFields /\ q.of \in Sessions
  BY DEF ShowTask, EventsInv, TypedWindow, ReadFields
<1>4. current' = k
  BY DEF ShowTask, Ask
<1>5. TypedWindow'
  BY <1>1, <1>2, <1>3, <1>4 DEF TypedWindow
<1>6. Ask(k, r.of) /\ UNCHANGED <<runner, publishing, slow, byTopic, refs, watching>>
  BY DEF ShowTask
<1>7. QED
  BY <1>1, <1>5, <1>6, AskStep

\* No task is shown.
LEMMA CloseTaskStep ==
    ASSUME EventsInv, NEW k \in Streams, CloseTask(k)
    PROVE  EventsInv'
<1>1. DOMAIN tab' = TabFields /\ tab'.of = None
  BY DEF CloseTask, Empty, TabFields
<1>2. \A q \in reads' : DOMAIN q = ReadFields /\ q.of \in Sessions
  BY SupersededTyped DEF CloseTask, EventsInv
<1>3. current' = k
  BY DEF CloseTask, Ask
<1>4. TypedWindow'
  BY <1>1, <1>2, <1>3 DEF TypedWindow
<1>5. Ask(k, None) /\ UNCHANGED <<runner, publishing, slow, byTopic, refs, watching>>
  BY DEF CloseTask
<1>6. QED
  BY <1>4, <1>5, AskStep

\* An event is drawn, and asks for another read where the code does.
LEMMA DeliverStep ==
    ASSUME EventsInv, Deliver
    PROVE  EventsInv'
<1> DEFINE k == current
           e == Head(stream[k].ch)
           ignored == Moves(e) /\ Moved(e) = lastMoved
<1>1. /\ k # 0 /\ stream[k].pc = "open" /\ stream[k].ch # <<>>
      /\ tab' = IF ignored \/ e.of # tab.of THEN tab ELSE Drawn(e)
      /\ reads' = IF ignored \/ e.of # tab.of \/ ~Rereads(e) THEN reads ELSE Syncing(FALSE)
      /\ stream' = [stream EXCEPT ![k].ch = Tail(@)]
      /\ UNCHANGED <<runner, publishing, slow, byTopic, refs, watching, current>>
  BY DEF Deliver, At
<1>2. k \in Streams
  BY <1>1 DEF EventsInv, TypedWindow
<1>3. /\ stream[k].ch \in Seq(Events) /\ e \in Events
      /\ Tail(stream[k].ch) \in Seq(Events) /\ Len(Tail(stream[k].ch)) = Len(stream[k].ch) - 1
  BY <1>1, <1>2, HeadTailProperties DEF EventsInv, TypedStreams
<1>4. e.of \in Sessions
  BY <1>3 DEF Events
<1> HIDE DEF k, e, ignored
<1>5. \A j \in Streams : /\ stream'[j].pc = stream[j].pc
                         /\ stream'[j].closed = stream[j].closed
                         /\ stream'[j].ch = IF j = k THEN Tail(stream[j].ch) ELSE stream[j].ch
  BY <1>1 DEF EventsInv, TypedStreams
<1>6. TypedTurns'
  BY <1>1 DEF EventsInv, TypedTurns, runner
<1>7. TypedStreams'
  BY <1>1, <1>2, <1>3 DEF EventsInv, TypedStreams
<1>8. Room'
  <2>1. Len(Tail(stream[k].ch)) <= Buffer
    <3>1. Len(stream[k].ch) \in Nat /\ Len(stream[k].ch) <= Buffer
      BY <1>2, <1>3, LenProperties DEF EventsInv, Room
    <3>2. QED
      BY <1>3, <3>1, EventsAssumption
  <2>2. QED
    BY <1>5, <2>1 DEF EventsInv, Room
<1>9. TypedWindow'
  <2>1. DOMAIN tab = TabFields /\ tab.of \in Sessions \cup {None}
    BY DEF EventsInv, TypedWindow
  <2>2. DOMAIN Drawn(e) = TabFields /\ Drawn(e).of = tab.of
    BY <2>1 DEF Drawn, TabFields
  <2>3. DOMAIN tab' = TabFields /\ tab'.of = tab.of
    BY <1>1, <2>1, <2>2
  <2>4. \A q \in reads' : DOMAIN q = ReadFields /\ q.of \in Sessions
    BY <1>1, <1>4, SyncingTyped DEF EventsInv, TypedWindow
  <2>5. QED
    BY <1>1, <2>1, <2>3, <2>4 DEF EventsInv, TypedWindow
<1>10. Registered' /\ Ending'
  BY <1>1, <1>5 DEF EventsInv, Registered, Ending
<1>11. Counted'
  <2>1. Looking' = Looking
    BY <1>5 DEF Looking
  <2>2. QED
    BY <2>1, <1>1, SameLooking
<1>12. QED
  BY <1>6, <1>7, <1>8, <1>9, <1>10, <1>11 DEF EventsInv
-----------------------------------------------------------------------------
\* No step of a turn, a stream or the window breaks the invariant.
LEMMA NextStep ==
    ASSUME EventsInv, [EventsNext]_eventVars
    PROVE  EventsInv'
<1>1. CASE UNCHANGED eventVars
  <2>1. UNCHANGED <<runner, publishing, slow, hub, current, tab, reads>>
    BY <1>1 DEF eventVars, window
  <2>2. TypedTurns'
    BY <2>1 DEF EventsInv, TypedTurns, runner
  <2>3. QED
    BY <2>1, <2>2, TurnsMove
<1>2. ASSUME NEW s \in Sessions, Launch(s) \/ Turn(s) \/ Hub(s) \/ OpenTask(s)
      PROVE  EventsInv'
  BY <1>2, TurnStep, PublishStep, CloseSlowStep, OpenTaskStep DEF Hub
<1>3. ASSUME NEW k \in Streams, Serve(k) \/ ConnectAgain(k) \/ User(k)
      PROVE  EventsInv'
  BY <1>3, SubscribeStep, OpenedStep, LeaveStep, UnsubscribeStep, ConnectAgainStep, ShowTaskStep,
     CloseTaskStep DEF Serve, User
<1>4. CASE Follow
  BY <1>4, ReadStep, DeliverStep, SyncedStep DEF Follow
<1>5. CASE Break
  BY <1>5, BreakStep
<1>6. ASSUME NEW r \in reads, ReadFails(r)
      PROVE  EventsInv'
  BY <1>6, ReadFailsStep
<1>7. QED
  BY <1>1, <1>2, <1>3, <1>4, <1>5, <1>6 DEF EventsNext

\* What the invariant says of the streams.
LEMMA Clean == ASSUME EventsInv PROVE StreamsLeaveNothing
<1>1. EventsTypeOK
  <2>1. \A k \in Streams :
          /\ stream[k].pc \in {"free", "asked", "subscribed", "open", "leaving"}
          /\ Len(stream[k].ch) \in 0..Buffer /\ stream[k].topics \subseteq Topics
    <3> TAKE k \in Streams
    <3>1. stream[k].ch \in Seq(Events) /\ Len(stream[k].ch) <= Buffer
      BY DEF EventsInv, TypedStreams, Room
    <3>2. Len(stream[k].ch) \in 0..Buffer
      BY <3>1, LenProperties, EventsAssumption
    <3>3. QED
      BY <3>2 DEF EventsInv, TypedStreams, Places
  <2>2. refs \in Nat
    BY FS_CardinalityType DEF EventsInv, Counted
  <2>3. QED
    BY <2>1, <2>2 DEF EventsTypeOK, EventsInv, TypedTurns, TypedStreams, TypedWindow
<1>2. RegisteredIsOpen
  BY DEF RegisteredIsOpen, At, EventsInv, Registered, TypedStreams
<1>3. WatchedWhileShown
  <2>1. refs > 0 <=> Looking # {}
    BY FS_EmptySet, FS_CardinalityType DEF EventsInv, Counted
  <2>2. QED
    BY <2>1 DEF EventsInv, Counted, WatchedWhileShown, Looking
<1>4. QED
  BY <1>1, <1>2, <1>3 DEF StreamsLeaveNothing

\* No channel holds more than it has room for, no event is sent on a closed one, and the
\* folder is watched exactly while a stream that looks at the project is there.
THEOREM StreamsAreClean == EventsSpec => []StreamsLeaveNothing
<1>1. EventsInit => EventsInv
  BY EventsInitInv
<1>2. EventsInv /\ [EventsNext]_eventVars => EventsInv'
  BY NextStep
<1>3. EventsInv => StreamsLeaveNothing
  BY Clean
<1>4. QED
  BY <1>1, <1>2, <1>3, PTL DEF EventsSpec
=============================================================================
