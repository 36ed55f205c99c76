------------------------------- MODULE Updates -------------------------------
(***************************************************************************)
(* Updates of the desktop program: app/internal/update/service.go, which   *)
(* offers a release and prepares it while the program runs, and            *)
(* install.go with helper_unix.go, the copy of the program (the helper)    *)
(* that replaces the executable once the program has ended.                *)
(*                                                                         *)
(* The two share no memory.  They meet in the files of one attempt: the    *)
(* helper leaves .ready, .error or .done there, the program .cancel.  The  *)
(* helper may start late (an administrator has to allow it) or be killed,  *)
(* and the program may end at any time and be started again.               *)
(*                                                                         *)
(* A download that passes its digest is the release it names.  A step ends *)
(* where a file has been written or renamed or Service.mu is released; the *)
(* helper's last look at the executable and the rename that follows it are *)
(* one step.                                                               *)
(***************************************************************************)
EXTENDS Integers, FiniteSets

CONSTANTS
    Attempts,       \* update-* directories, numbered in the order they are made
    MaxVersion,     \* releases are 1..MaxVersion; the first one is installed
    Allowances      \* how much of each thing may happen; one of them does

\* times the program ends; releases published; executables replaced by others;
\* helpers killed; steps that fail (a download, a copy, a rename); preparations
\* given up while the helper has not answered; offers the user ignores
Uses == {"end", "release", "change", "kill", "fault", "giveup", "ignore"}
ASSUME UpdatesAssumption ==
    /\ Attempts = 1..Cardinality(Attempts)
    /\ MaxVersion \in Nat \ {0}
    /\ Allowances \subseteq [Uses -> Nat]

None == 0
VARIABLES
    \* the program
    life,           \* which run of the program this is
    up,             \* it runs
    version,        \* of the running program
    offer, ignored, \* updates.json
    status,         \* Service.status, without the offer
    preparing,      \* where prepare is, and for which attempt
    \* the file system
    target,         \* what the installed path holds: version and identity
    previous,       \* attempt -> the backup in its staging directory
    staged,         \* attempt -> the replacement in its staging directory
    marks,          \* attempt -> the files beside its plan
    plan,           \* attempt -> what plan.json says: parent and version
    helper,         \* attempt -> where its helper is
    original,       \* attempt -> the executable its helper found
    \* the world
    released,       \* the newest published release
    told,           \* history: what prepare came to, per attempt
    installed,      \* history: the attempts that put their release in place
    trouble,        \* history: the attempts that met a fault or another's change
    spare           \* what is left of the allowance

program    == <<life, up, version, offer, ignored, status, preparing>>
files      == <<target, previous, staged, marks, plan>>
helpers    == <<helper, original>>
history    == <<told, installed, trouble>>
updateVars == <<program, files, helpers, released, history, spare>>

Absent == [version |-> None, id |-> None]
Executable(v, id) == [version |-> v, id |-> id]
NoStatus == [busy |-> FALSE, ready |-> FALSE, error |-> FALSE]
Nothing == [pc |-> "none", of |-> None]
Unplanned == [parent |-> None, version |-> None]

Use(kind) == spare[kind] > 0 /\ spare' = [spare EXCEPT ![kind] = @ - 1]
Mark(a, mark) == marks' = [marks EXCEPT ![a] = @ \cup {mark}]

UpdatesInit ==
    /\ life = 1 /\ up = TRUE /\ version = 1
    /\ offer = None /\ ignored = None /\ status = NoStatus /\ preparing = Nothing
    /\ target = Executable(1, 0)
    /\ previous = [a \in Attempts |-> Absent]
    /\ staged = [a \in Attempts |-> Absent]
    /\ marks = [a \in Attempts |-> {}]
    /\ plan = [a \in Attempts |-> Unplanned]
    /\ helper = [a \in Attempts |-> "none"]
    /\ original = [a \in Attempts |-> None]
    /\ released = 1
    /\ told = [a \in Attempts |-> "nothing"]
    /\ installed = {} /\ trouble = {}
    /\ spare \in Allowances
-----------------------------------------------------------------------------
(* The offer                                                                *)

\* statusLocked: what is offered is checked against the running version again.
Available == up /\ offer # None /\ offer # ignored /\ offer > version
InProgress == status.busy \/ status.ready

\* check: the newest release above the running version, or none.
Check ==
    /\ up /\ ~InProgress
    /\ offer' = IF released > version THEN released ELSE None
    /\ offer' # offer
    /\ UNCHANGED <<life, up, version, ignored, status, preparing, files, helpers, released,
                   history, spare>>

Ignore ==
    /\ up /\ ~InProgress /\ offer # None /\ ignored # offer
    /\ Use("ignore")
    /\ ignored' = offer
    /\ status' = [status EXCEPT !.error = FALSE]
    /\ UNCHANGED <<life, up, version, offer, preparing, files, helpers, released, history>>

Start(a) ==
    /\ Available /\ ~InProgress
    /\ plan[a] = Unplanned /\ \A b \in Attempts : b < a => plan[b] # Unplanned
    /\ status' = [NoStatus EXCEPT !.busy = TRUE]
    /\ preparing' = [pc |-> "downloading", of |-> a]
    /\ plan' = [plan EXCEPT ![a] = [parent |-> life, version |-> offer]]
    /\ UNCHANGED <<life, up, version, offer, ignored, target, previous, staged, marks,
                   helpers, released, history, spare>>
-----------------------------------------------------------------------------
(* prepare                                                                  *)

Preparing(a, pc) == up /\ preparing = [pc |-> pc, of |-> a]
\* Start's goroutine, once prepare has returned: "ready", or "failed", or
\* "unmarked", a failure whose marker could not be written.
Return(a, outcome) ==
    /\ preparing' = Nothing
    /\ status' = [busy |-> FALSE, ready |-> outcome = "ready", error |-> outcome # "ready"]
    /\ told' = [told EXCEPT ![a] = outcome]

\* The download fails or does not match: its directory is removed again.
DownloadFails(a) ==
    /\ Preparing(a, "downloading")
    /\ Use("fault")
    /\ Return(a, "failed")
    /\ UNCHANGED <<life, up, version, offer, ignored, files, helpers, released, installed,
                   trouble>>

\* launchHelper
LaunchHelper(a) ==
    /\ Preparing(a, "downloading")
    /\ preparing' = [pc |-> "polling", of |-> a]
    /\ helper' = [helper EXCEPT ![a] = "launched"]
    /\ UNCHANGED <<life, up, version, offer, ignored, status, files, original, released,
                   history, spare>>

\* The helper does not start, as far as the program can tell.
LaunchFails(a) ==
    /\ Preparing(a, "downloading")
    /\ Use("fault")
    /\ preparing' = [pc |-> "cancelling", of |-> a]
    /\ helper' \in {helper, [helper EXCEPT ![a] = "launched"]}
    /\ UNCHANGED <<life, up, version, offer, ignored, status, files, original, released,
                   history>>

\* The poll looks for .error before .ready.
SeeError(a) ==
    /\ Preparing(a, "polling") /\ "error" \in marks[a]
    /\ preparing' = [preparing EXCEPT !.pc = "cancelling"]
    /\ UNCHANGED <<life, up, version, offer, ignored, status, files, helpers, released,
                   history, spare>>
SeeReadyForgetful(a) ==                 \* mutant: ready is never set, so the attempt is cancelled
    /\ Preparing(a, "polling") /\ "error" \notin marks[a] /\ "ready" \in marks[a]
    /\ Mark(a, "cancel")
    /\ Return(a, "ready")
    /\ UNCHANGED <<life, up, version, offer, ignored, target, previous, staged, plan,
                   helpers, released, installed, trouble, spare>>
SeeReady(a) ==
    /\ Preparing(a, "polling") /\ "error" \notin marks[a] /\ "ready" \in marks[a]
    /\ Return(a, "ready")
    /\ UNCHANGED <<life, up, version, offer, ignored, files, helpers, released, installed,
                   trouble, spare>>
\* Nothing after 1200 looks, or the program is about to end.
GiveUp(a) ==
    /\ Preparing(a, "polling")
    /\ Use("giveup")
    /\ preparing' = [preparing EXCEPT !.pc = "cancelling"]
    /\ UNCHANGED <<life, up, version, offer, ignored, status, files, helpers, released,
                   history>>

\* The marker is written before the failure is reported.
Cancel(a) ==
    /\ Preparing(a, "cancelling")
    /\ Mark(a, "cancel")
    /\ Return(a, "failed")
    /\ UNCHANGED <<life, up, version, offer, ignored, target, previous, staged, plan,
                   helpers, released, installed, trouble, spare>>
\* The error of that write is dropped.
CancelFails(a) ==
    /\ Preparing(a, "cancelling")
    /\ Use("fault")
    /\ Return(a, "unmarked")
    /\ UNCHANGED <<life, up, version, offer, ignored, files, helpers, released, installed,
                   trouble>>
-----------------------------------------------------------------------------
(* The helper                                                               *)

Now(a, pc) == helper' = [helper EXCEPT ![a] = pc]
\* Helper returns an error: the staging directory goes, unless it holds the only
\* surviving copy.
Discard(a) == staged' = [staged EXCEPT ![a] = Absent]
Fail(a) ==
    /\ Now(a, "over")
    /\ Mark(a, "error")
    /\ Discard(a)

\* The start of Helper: cancelled already, or nothing to replace.
Begin(a) ==
    /\ helper[a] = "launched"
    /\ IF "cancel" \in marks[a] \/ target = Absent
       THEN Fail(a) /\ trouble' = trouble \cup {a} /\ UNCHANGED original
       ELSE /\ Now(a, "staging")
            /\ original' = [original EXCEPT ![a] = target.id]
            /\ UNCHANGED <<marks, staged, trouble>>
    /\ UNCHANGED <<program, target, previous, plan, released, told, installed, spare>>

\* The download is copied beside the target and verified there.
Stage(a) ==
    /\ helper[a] = "staging"
    /\ Now(a, "waiting")
    /\ staged' = [staged EXCEPT ![a] = Executable(plan[a].version, a)]
    /\ Mark(a, "ready")
    /\ UNCHANGED <<program, target, previous, plan, original, released, history, spare>>
StageFails(a) ==
    /\ helper[a] = "staging"
    /\ Use("fault")
    /\ Fail(a)
    /\ trouble' = trouble \cup {a}
    /\ UNCHANGED <<program, target, previous, plan, original, released, told, installed>>

\* waitParent
ParentGone(a) == ~up \/ life # plan[a].parent
SameAny(a) == target # Absent           \* mutant: another executable is replaced too
Same(a) == target.id = original[a] /\ target # Absent
AbandonedNever(a) == FALSE              \* mutant: not asked again after the wait
Abandoned(a) == "cancel" \in marks[a]

\* The program has ended: the target is moved aside unless the attempt was
\* cancelled meanwhile or the target is not what it was.
MoveAside(a) ==
    /\ helper[a] = "waiting" /\ ParentGone(a)
    /\ ~Abandoned(a) /\ Same(a)
    /\ Now(a, "moved")
    /\ previous' = [previous EXCEPT ![a] = target]
    /\ target' = Absent
    /\ UNCHANGED <<program, staged, marks, plan, original, released, history, spare>>
\* waitParent or the first rename fails: nothing has moved.
WaitFails(a) ==
    /\ helper[a] = "waiting"
    /\ Use("fault")
    /\ Fail(a)
    /\ trouble' = trouble \cup {a}
    /\ UNCHANGED <<program, target, previous, plan, original, released, told, installed>>
StandBack(a) ==
    /\ helper[a] = "waiting" /\ ParentGone(a)
    /\ Abandoned(a) \/ ~Same(a)
    /\ Fail(a)
    /\ trouble' = IF ~Same(a) THEN trouble \cup {a} ELSE trouble
    /\ UNCHANGED <<program, target, previous, plan, original, released, told, installed, spare>>

\* The staging directory and the backup in it go once the replacement is there.
Place(a) ==
    /\ helper[a] = "moved" /\ target = Absent
    /\ Now(a, "over")
    /\ target' = staged[a]
    /\ Discard(a)
    /\ previous' = [previous EXCEPT ![a] = Absent]
    /\ Mark(a, "done")
    /\ installed' = installed \cup {a}
    /\ UNCHANGED <<program, plan, original, released, told, trouble, spare>>

PlaceFailsSweeping(a) ==                \* mutant: the staging directory goes in any case
    /\ helper[a] = "moved"
    /\ Use("fault")
    /\ Fail(a)
    /\ \E restored \in {TRUE, FALSE} :
          /\ target' = IF restored THEN previous[a] ELSE target
          /\ previous' = [previous EXCEPT ![a] = Absent]
    /\ trouble' = trouble \cup {a}
    /\ UNCHANGED <<program, plan, original, released, told, installed>>
\* The second rename fails; restoring the backup succeeds, or fails too and the
\* backup stays.
PlaceFails(a) ==
    /\ helper[a] = "moved"
    /\ Use("fault")
    /\ \/ /\ target' = previous[a]
          /\ previous' = [previous EXCEPT ![a] = Absent]
          /\ Fail(a)
       \/ /\ UNCHANGED <<target, previous, staged>>
          /\ Now(a, "over")
          /\ Mark(a, "error")
    /\ trouble' = trouble \cup {a}
    /\ UNCHANGED <<program, plan, original, released, told, installed>>

\* Killed, or never started.  A program that still runs hears of it (cmd.Wait).
Kill(a) ==
    /\ helper[a] \in {"launched", "staging", "waiting", "moved"}
    /\ Use("kill")
    /\ Now(a, "over")
    /\ UNCHANGED marks \/ (~ParentGone(a) /\ Mark(a, "error"))
    /\ trouble' = trouble \cup {a}
    /\ UNCHANGED <<program, target, previous, staged, plan, original, released, told,
                   installed>>
-----------------------------------------------------------------------------
(* The program's end and its start, and the world                           *)

\* A quit or a crash.  prepare may still get to write its marker.
End ==
    /\ up
    /\ Use("end")
    /\ up' = FALSE
    /\ preparing' = Nothing /\ status' = NoStatus
    /\ \/ UNCHANGED marks
       \/ /\ preparing.pc \in {"polling", "cancelling"}
          /\ Mark(preparing.of, "cancel")
    /\ UNCHANGED <<life, version, offer, ignored, target, previous, staged, plan, helpers,
                   released, history>>

\* New: the installed program starts, and collectResults clears what is over.
Over == {a \in Attempts : marks[a] \cap {"error", "done"} # {}}
Open ==
    /\ ~up /\ target # Absent
    /\ up' = TRUE
    /\ life' = life + 1
    /\ version' = target.version
    /\ marks' = [a \in Attempts |-> IF a \in Over THEN {} ELSE marks[a]]
    /\ \E error \in {FALSE} \cup (IF \E a \in Over : "error" \in marks[a] THEN {TRUE} ELSE {}) :
          /\ error \/ Over = {} \/ \E a \in Over : "done" \in marks[a]
          /\ status' = [NoStatus EXCEPT !.error = error]
    /\ UNCHANGED <<offer, ignored, preparing, target, previous, staged, plan, helpers,
                   released, history, spare>>

Publish ==
    /\ released < MaxVersion
    /\ Use("release")
    /\ released' = released + 1
    /\ UNCHANGED <<program, files, helpers, history>>

\* Somebody installs the newest release by hand.
Change ==
    /\ target # Absent
    /\ Use("change")
    /\ target' = Executable(released, -1)
    /\ UNCHANGED <<program, previous, staged, marks, plan, helpers, released, history>>
-----------------------------------------------------------------------------
Prepare(a) == LaunchHelper(a) \/ SeeError(a) \/ SeeReady(a) \/ Cancel(a)
Help(a) == Begin(a) \/ Stage(a) \/ MoveAside(a) \/ StandBack(a) \/ Place(a)
Faults(a) ==
    \/ DownloadFails(a) \/ LaunchFails(a) \/ GiveUp(a) \/ CancelFails(a)
    \/ StageFails(a) \/ WaitFails(a) \/ PlaceFails(a) \/ Kill(a)

UpdatesNext ==
    \/ \E a \in Attempts : Start(a) \/ Prepare(a) \/ Help(a) \/ Faults(a)
    \/ Check \/ Ignore \/ End \/ Open \/ Publish \/ Change

UpdatesSpec == UpdatesInit /\ [][UpdatesNext]_updateVars
\* prepare and the helper go on while they live.
FairUpdatesSpec ==
    UpdatesSpec /\ \A a \in Attempts : WF_updateVars(Prepare(a)) /\ WF_updateVars(Help(a))
-----------------------------------------------------------------------------
UpdatesTypeOK ==
    /\ target \in [version : 0..MaxVersion, id : {-1, 0} \cup Attempts]
    /\ status \in [busy : BOOLEAN, ready : BOOLEAN, error : BOOLEAN]
    /\ marks \in [Attempts -> SUBSET {"ready", "error", "done", "cancel"}]
    /\ helper \in [Attempts -> {"none", "launched", "staging", "waiting", "moved", "over"}]
    /\ preparing.of \in Attempts \cup {None} /\ version \in 1..MaxVersion
    /\ status.busy <=> preparing # Nothing

\* There is always a program: at the installed path, or as the backup some
\* attempt keeps, whatever fails or is killed between the two renames, and
\* however many helpers are about (replace, and Helper's clean-up).
ACopySurvives ==
    UpdatesTypeOK /\ (target # Absent \/ \E a \in Attempts : previous[a] # Absent)

\* "a delayed helper cannot install an abandoned update": an attempt the user was
\* told has failed is never put in place, not even by a helper that got its
\* permission late and outlived the program (prepare's marker, Helper's checks).
\* An attempt that is "unmarked" may be: service.go:316 drops the error.
FailedNeverInstalls == \A a \in installed : told[a] # "failed"

\* Attempts whose preparation the program did not live to conclude, or whose
\* marker it could not write.
Orphan(a) == plan[a] # Unplanned /\ told[a] \in {"nothing", "unmarked"} /\ ParentGone(a)

\* No installation takes an executable the updater left to an older release,
\* unless the program ended in the middle of preparing it or did not get to mark
\* it as cancelled: an attempt that comes
\* late finds another executable, or its marker (Helper's last checks).
NoGoingBack ==
    [][\A a \in Attempts : a \in installed' \ installed /\ ~Orphan(a) =>
          previous[a].id = -1 \/ previous[a].version <= target'.version]_updateVars

\* An update the user was told is ready is in place some time after the program
\* has ended, unless a step failed, the helper was killed or the executable was
\* no longer the one it found.
ReadyInstalls ==
    \A a \in Attempts :
        told[a] = "ready" /\ ParentGone(a) ~> a \in installed \cup trouble
=============================================================================
