------------------------------ MODULE Approvals ------------------------------
(***************************************************************************)
(* Requests a running agent puts to the user, and who settles them:        *)
(* app/internal/runner/approvals.go.                                       *)
(*                                                                         *)
(* A provider asks for a tool call or puts questions.  The goroutine that  *)
(* consumes the turn's events (consume) answers at once what the task was  *)
(* allowed or the settings decide, and registers the rest.  From then on   *)
(* a user, the countdown, the provider's withdrawal and the end of the     *)
(* turn race for the request.  Several tasks run at the same time.         *)
(*                                                                         *)
(* A step ends where the code releases Runner.mu, has written to the       *)
(* provider, or has published an event.                                    *)
(***************************************************************************)
EXTENDS Naturals, Sequences, FiniteSets

CONSTANTS
    Sessions,       \* tasks
    Tools,
    Prefixes,       \* beginnings of shell commands
    Requests,       \* what providers may ask, ever
    Choices,        \* the settings the user chooses among
    Budgets         \* how often what is bounded may happen, one way or another

\* prefix: the beginning that can be allowed for the task, if there is one;
\* starts: every beginning its command has.  Ids are unique, as the providers
\* promise, so a request is its own id.
Request == [no : Nat, session : Sessions, question : BOOLEAN, tool : Tools,
            prefix : SUBSET Prefixes, starts : SUBSET Prefixes]

ASSUME RequestsAssumption ==
    /\ Requests \subseteq Request
    /\ \A r \in Requests : Cardinality(r.prefix) <= 1 /\ r.prefix \subseteq r.starts

Kinds    == {"turn", "call", "question", "change", "withdraw", "hold"}
Modes    == {"wait", "timeout", "immediate"}
Settings == [mode : Modes, asks : BOOLEAN]
ASSUME SettingsAssumption == Choices \subseteq Settings
ASSUME BudgetsAssumption  == Budgets \subseteq [Kinds -> Nat]

VARIABLES
    settings,       \* approval mode, and whether the project asks (run_mode)
    \* the providers
    turn,           \* task -> number of its latest turn
    open,           \* task -> whether the provider still reads answers
    events,         \* task -> events on their way to consume
    asked,          \* request -> the turn that asked it, 0 before
    cancelled,      \* requests the provider said it no longer waits on
    \* the runner
    consume,        \* task -> what its consume goroutine does
    pending,        \* Runner.approvals
    allowed,        \* Runner.allowed
    timers,         \* request -> its time.AfterFunc
    replying,       \* replies taken out of `pending' and not finished
    resending,      \* held requests not published again yet
    \* observations
    cards,          \* what a window that follows the events offers
    heard,          \* request -> whose answers reached the provider
    announced,      \* request -> how often it was published as resolved
    recorded,       \* questions kept in the transcript with what came of them
    grants,         \* answers a user asked to remember for the task
    promised,       \* requests only the user may answer, by the settings
    held,           \* requests held before their time ran out
    left            \* what is left of the budget

provider == <<turn, open, events, asked, cancelled>>
runner   == <<consume, pending, allowed, timers, replying, resending>>
told     == <<heard, announced, recorded>>
ghost    == <<grants, promised, held>>
vars     == <<settings, provider, runner, cards, told, ghost, left>>

Event     == [type : {"approval", "resolved"}, req : Requests]
Remember  == {"no", "task_command", "task", "task_all"}
Answerers == {"user", "task", "timer", "settings"}

\* counting: PendingApproval.timer is set
Pending   == [req : Requests, counting : BOOLEAN]

Allowance == [all : BOOLEAN, tools : SUBSET Tools,
              commands : SUBSET (Tools \X Prefixes)]
Nothing   == [all |-> FALSE, tools |-> {}, commands |-> {}]

\* over        no turn
\* asked       a request that nothing allowed is to be registered
\* replying    a request is being answered at once
\* withdrawing, dropping   `reqs' were taken and are to be announced
Consumer == [pc : {"over", "reading", "asked", "publish", "replying",
                   "withdrawing", "dropping"}, reqs : SUBSET Requests]

\* more: what the same allow covers, answered after req
Reply == [req : Requests, by : Answerers, more : SUBSET Requests]
NewReply(r, by, more) == [req |-> r, by |-> by, more |-> more]

Offered(r) ==
    {"no"} \cup (IF r.question THEN {} ELSE {"task", "task_all"})
           \cup (IF r.question \/ r.prefix = {} THEN {} ELSE {"task_command"})

Covers(w, r) ==
    /\ ~r.question
    /\ \/ w.all
       \/ r.tool \in w.tools
       \/ \E p \in r.starts : <<r.tool, p>> \in w.commands

\* what the task is allowed after r was answered with a choice to remember
Allow(w, r, remember) ==
    CASE remember = "task_all"     -> [w EXCEPT !.all = TRUE]
      [] remember = "task"         -> [w EXCEPT !.tools = @ \cup {r.tool}]
      [] remember = "task_command" ->
            [w EXCEPT !.commands = @ \cup ({r.tool} \X r.prefix)]
      [] remember = "no"           -> w

Waiting         == {p.req : p \in pending}
WaitsOn(s)      == {r \in Waiting : r.session = s}

Addressed(s, r) == r \in Waiting /\ r.session = s
Always(r)       == TRUE                 \* mutant: not looked up
StillWaits(r)   == r \in Waiting
Live(r) == open[r.session] /\ asked[r] = turn[r.session]

\* stops the countdowns of R, except those already running autoAnswer
Stopped(R) == [r \in Requests |->
    IF r \in R /\ timers[r] = "armed" THEN "stopped" ELSE timers[r]]

Take(R) == /\ pending' = {p \in pending : p.req \notin R}
           /\ timers' = Stopped(R)

Spend(kind) == left[kind] > 0 /\ left' = [left EXCEPT ![kind] = @ - 1]

Init ==
    /\ settings \in Choices
    /\ turn = [s \in Sessions |-> 0]
    /\ open = [s \in Sessions |-> FALSE]
    /\ events = [s \in Sessions |-> <<>>]
    /\ asked = [r \in Requests |-> 0]
    /\ cancelled = {}
    /\ consume = [s \in Sessions |-> [pc |-> "over", reqs |-> {}]]
    /\ pending = {}
    /\ allowed = [s \in Sessions |-> Nothing]
    /\ timers = [r \in Requests |-> "unset"]
    /\ replying = {} /\ resending = {} /\ cards = {}
    /\ heard = [r \in Requests |-> <<>>]
    /\ announced = [r \in Requests |-> 0]
    /\ recorded = {} /\ grants = {} /\ promised = {} /\ held = {}
    /\ left \in Budgets
-----------------------------------------------------------------------------
\* The user, in the settings and in the project's options.
ChangeSettings ==
    /\ Spend("change")
    /\ settings' \in Choices \ {settings}
    /\ UNCHANGED <<provider, runner, cards, told, ghost>>

\* The provider: a turn begins, asks, withdraws, and stops listening, because
\* it is done or because it was stopped.
BeginTurn(s) ==
    /\ consume[s].pc = "over"
    /\ Spend("turn")
    /\ turn' = [turn EXCEPT ![s] = @ + 1]
    /\ open' = [open EXCEPT ![s] = TRUE]
    /\ consume' = [consume EXCEPT ![s].pc = "reading"]
    /\ UNCHANGED <<settings, events, asked, cancelled, pending, allowed,
                   timers, replying, resending, cards, told, ghost>>

Ask(s) ==
    \E r \in Requests :
        /\ open[s] /\ r.session = s /\ asked[r] = 0
        /\ Spend(IF r.question THEN "question" ELSE "call")
        /\ asked' = [asked EXCEPT ![r] = turn[s]]
        /\ events' = [events EXCEPT ![s] =
                         Append(@, [type |-> "approval", req |-> r])]
        /\ UNCHANGED <<settings, turn, open, cancelled, runner, cards, told, ghost>>

Withdraw(s) ==
    \E r \in Requests \ cancelled :
        /\ r.session = s /\ Live(r)
        /\ Spend("withdraw")
        /\ cancelled' = cancelled \cup {r}
        /\ events' = [events EXCEPT ![s] =
                         Append(@, [type |-> "resolved", req |-> r])]
        /\ UNCHANGED <<settings, turn, open, asked, runner, cards, told, ghost>>

Close(s) ==
    /\ open[s]
    /\ open' = [open EXCEPT ![s] = FALSE]
    /\ UNCHANGED <<settings, turn, events, asked, cancelled, runner, cards, told, ghost, left>>
-----------------------------------------------------------------------------
(***************************************************************************)
(* consume, one goroutine per running turn.                                *)
(***************************************************************************)
At(s, pc)        == consume[s].pc = pc
Go(s, pc, reqs)  == consume' = [consume EXCEPT ![s] = [pc |-> pc, reqs |-> reqs]]

\* The next event.  A request is looked up among what the task was allowed; a
\* withdrawal takes the request if it still waits.
Receive(s) ==
    /\ At(s, "reading")
    /\ events[s] # <<>>
    /\ events' = [events EXCEPT ![s] = Tail(@)]
    /\ LET r == Head(events[s]).req IN
       \/ /\ Head(events[s]).type = "approval"
          /\ IF Covers(allowed[s], r)
             THEN /\ Go(s, "replying", {r})
                  /\ replying' = replying \cup {NewReply(r, "task", {})}
             ELSE Go(s, "asked", {r}) /\ UNCHANGED replying
          /\ UNCHANGED <<pending, timers>>
       \/ /\ Head(events[s]).type = "resolved"
          /\ IF StillWaits(r) THEN Go(s, "withdrawing", {r})
                              ELSE UNCHANGED consume
          /\ Take({r})
          /\ UNCHANGED replying
    /\ UNCHANGED <<settings, turn, open, asked, cancelled, allowed, resending,
                   cards, told, ghost, left>>

\* A project that asks lets nobody but the user answer a tool call.
ModeOfSettings(r) == settings.mode              \* mutant: the project is not asked
ModeFor(r) == IF ~r.question /\ settings.asks THEN "wait" ELSE settings.mode

\* What the user was promised to be asked, whatever happens later.
OnlyUser(r) == settings.mode = "wait" \/ (settings.asks /\ ~r.question)

NeverArmed(r) == timers            \* mutant: a countdown without a timer
Armed(r) == [timers EXCEPT ![r] = IF ModeFor(r) = "timeout" THEN "armed" ELSE @]

\* The settings decide: answer at once, or register with or without a countdown.
Decide(s) ==
    /\ At(s, "asked")
    /\ \E r \in consume[s].reqs :
         /\ promised' = IF OnlyUser(r) THEN promised \cup {r} ELSE promised
         /\ \/ /\ ModeFor(r) = "immediate"
               /\ Go(s, "replying", {r})
               /\ replying' = replying \cup {NewReply(r, "settings", {})}
               /\ UNCHANGED <<pending, timers>>
            \/ /\ ModeFor(r) # "immediate"
               /\ Go(s, "publish", {r})
               /\ pending' = pending \cup
                     {[req |-> r, counting |-> ModeFor(r) = "timeout"]}
               /\ timers' = Armed(r)
               /\ UNCHANGED replying
    /\ UNCHANGED <<settings, provider, allowed, resending, cards, told,
                   grants, held, left>>

\* Only after it was registered is a request shown.
PublishTimed(s) ==                 \* mutant: only what counts down
    /\ At(s, "publish")
    /\ cards' = cards \cup {r \in consume[s].reqs : timers[r] # "unset"}
    /\ Go(s, "reading", {})
    /\ UNCHANGED <<settings, provider, pending, allowed, timers, replying,
                   resending, told, ghost, left>>
PublishRequest(s) ==
    /\ At(s, "publish")
    /\ cards' = cards \cup consume[s].reqs
    /\ Go(s, "reading", {})
    /\ UNCHANGED <<settings, provider, pending, allowed, timers, replying,
                   resending, told, ghost, left>>

\* The turn's events are over, and what it left unanswered is taken.
Drop(s) ==
    /\ At(s, "reading")
    /\ events[s] = <<>> /\ ~open[s]
    /\ Go(s, IF WaitsOn(s) = {} THEN "over" ELSE "dropping", WaitsOn(s))
    /\ Take(WaitsOn(s))
    /\ UNCHANGED <<settings, provider, allowed, replying, resending, cards, told, ghost, left>>

Recorded(r) == IF r.question THEN recorded \cup {r} ELSE recorded

\* Announce, one at a time, what was withdrawn or dropped.  A withdrawal is
\* passed on as it came, so its question is not kept.
PublishTaken(s) ==
    /\ At(s, "withdrawing") \/ At(s, "dropping")
    /\ \E r \in consume[s].reqs :
        /\ announced' = [announced EXCEPT ![r] = @ + 1]
        /\ cards' = cards \ {r}
        /\ recorded' = IF At(s, "dropping") THEN Recorded(r) ELSE recorded
        /\ Go(s, IF At(s, "withdrawing") THEN "reading"
                 ELSE IF consume[s].reqs = {r} THEN "over" ELSE "dropping",
              consume[s].reqs \ {r})
    /\ UNCHANGED <<settings, provider, pending, allowed, timers, replying,
                   resending, heard, ghost, left>>
-----------------------------------------------------------------------------
(***************************************************************************)
(* The user's requests over HTTP, and the countdown.                       *)
(***************************************************************************)
AllOf(s, w)   == WaitsOn(s)       \* mutant: whether the allow covers it or not
Covered(s, w) == {q \in WaitsOn(s) : Covers(w, q)}

\* An answer that is in time, addressed to the right task and complete.  With
\* an allow for the task it takes every waiting request the task now covers.
Answer(s, r, remember) ==
    /\ Addressed(s, r)
    /\ remember \in Offered(r)
    /\ LET w    == Allow(allowed[s], r, remember)
           more == IF remember = "no" THEN {} ELSE Covered(s, w) \ {r}
       IN /\ allowed' = [allowed EXCEPT ![s] = w]
          /\ Take(more \cup {r})
          /\ replying' = replying \cup {NewReply(r, "user", more)}
    /\ grants' = IF remember = "no" THEN grants
                 ELSE grants \cup {[req |-> r, remember |-> remember]}
    /\ UNCHANGED <<settings, provider, consume, resending, cards, told,
                   promised, held, left>>

HeldInstead(r) == (pending \ {[req |-> r, counting |-> TRUE]})
                      \cup {[req |-> r, counting |-> FALSE]}

Hold(s, r) ==
    /\ Spend("hold")
    /\ Addressed(s, r)
    /\ [req |-> r, counting |-> TRUE] \in pending
    /\ pending' = HeldInstead(r)
    /\ timers' = Stopped({r})
    /\ held' = IF timers[r] = "armed" THEN held \cup {r} ELSE held
    /\ resending' = resending \cup {r}
    /\ UNCHANGED <<settings, provider, consume, allowed, replying, cards, told,
                   grants, promised>>

PublishHeld(r) ==
    /\ r \in resending
    /\ resending' = resending \ {r}
    /\ cards' = cards \cup {r}
    /\ UNCHANGED <<settings, provider, consume, pending, allowed, timers,
                   replying, told, ghost, left>>

FireTimer(r) ==
    /\ timers[r] = "armed"
    /\ timers' = [timers EXCEPT ![r] = "fired"]
    /\ UNCHANGED <<settings, provider, consume, pending, allowed, replying,
                   resending, cards, told, ghost, left>>

StillThere(r) == r \in Waiting
AutoAnswer(r) ==
    /\ timers[r] = "fired"
    /\ timers' = [timers EXCEPT ![r] = "done"]
    /\ pending' = {p \in pending : p.req # r}
    /\ replying' = IF StillThere(r)
                   THEN replying \cup {NewReply(r, "timer", {})} ELSE replying
    /\ UNCHANGED <<settings, provider, consume, allowed, resending, cards, told, ghost, left>>
-----------------------------------------------------------------------------
(***************************************************************************)
(* A reply: written to the provider and then announced, with what came of  *)
(* it.  The request is in nobody else's hands, so this is one step.        *)
(* Writing fails once the provider no longer listens.                      *)
(***************************************************************************)
\* What the same allow covers comes next, unless the user's own answer failed.
Following(w) == IF w.by = "user" /\ ~Live(w.req) THEN {} ELSE w.more

\* askUser returns, if it was askUser that replied.
Asking(r, s) == consume[s] = [pc |-> "replying", reqs |-> {r}]
ResumedIfHeard(r) == [s \in Sessions |->    \* mutant: not when it failed
    IF Asking(r, s) /\ Live(r) THEN [pc |-> "reading", reqs |-> {}] ELSE consume[s]]
Resumed(r) == [s \in Sessions |->
    IF Asking(r, s) THEN [pc |-> "reading", reqs |-> {}] ELSE consume[s]]

Answered(r) ==
    \E w \in replying :
        /\ w.req = r
        /\ heard' = IF Live(r) THEN [heard EXCEPT ![r] = Append(@, w.by)] ELSE heard
        /\ announced' = [announced EXCEPT ![r] = @ + 1]
        /\ recorded' = Recorded(r)
        /\ cards' = cards \ {r}
        /\ \/ Following(w) = {} /\ replying' = replying \ {w}
           \/ \E q \in Following(w) :
                 replying' = (replying \ {w}) \cup {NewReply(q, "task", w.more \ {q})}
        /\ consume' = Resumed(r)
        /\ UNCHANGED <<settings, provider, pending, allowed, timers, resending,
                       ghost, left>>
-----------------------------------------------------------------------------
Consume(s) == \/ Receive(s) \/ Decide(s) \/ PublishRequest(s) \/ Drop(s)
              \/ PublishTaken(s)

Next ==
    \/ ChangeSettings
    \/ \E s \in Sessions :
          \/ BeginTurn(s) \/ Ask(s) \/ Withdraw(s) \/ Close(s)
          \/ Receive(s) \/ Decide(s) \/ PublishRequest(s) \/ Drop(s)
          \/ PublishTaken(s)
          \/ \E r \in Requests :
                Hold(s, r) \/ \E remember \in Remember : Answer(s, r, remember)
    \/ \E r \in Requests :
          \/ FireTimer(r) \/ AutoAnswer(r) \/ PublishHeld(r)
          \/ Answered(r)

Spec == Init /\ [][Next]_vars

\* Goroutines that can run do, and timers fire.  Nobody has to answer, and no
\* provider has to end.
Fairness ==
    /\ \A s \in Sessions : WF_vars(Consume(s))
    /\ \A r \in Requests :
          /\ WF_vars(FireTimer(r) \/ AutoAnswer(r))
          /\ WF_vars(Answered(r))

FairSpec == Spec /\ Fairness
-----------------------------------------------------------------------------
(***************************************************************************)
(* Properties.                                                             *)
(***************************************************************************)
\* Every variable has its type, and a request waits once (a map by id).
TypeOK ==
    /\ settings \in Settings
    /\ turn \in [Sessions -> Nat] /\ open \in [Sessions -> BOOLEAN]
    /\ events \in [Sessions -> Seq(Event)]
    /\ asked \in [Requests -> Nat] /\ cancelled \subseteq Requests
    /\ consume \in [Sessions -> Consumer]
    /\ pending \subseteq Pending
    /\ \A p, q \in pending : p.req = q.req => p = q
    /\ allowed \in [Sessions -> Allowance]
    /\ timers \in [Requests -> {"unset", "armed", "fired", "stopped", "done"}]
    /\ replying \subseteq Reply
    /\ resending \subseteq Requests /\ cards \subseteq Requests
    /\ heard \in [Requests -> Seq(Answerers)] /\ announced \in [Requests -> Nat]
    /\ recorded \subseteq Requests
    /\ grants \subseteq [req : Requests, remember : Remember]
    /\ promised \subseteq Requests /\ held \subseteq Requests
    /\ left \in [Kinds -> Nat]

\* However a click, another window's click, the countdown, an allow for the
\* task and the end of the turn race, the provider gets at most one answer to
\* a request: Approval.Answer is called at most once.
AnsweredOnce == \A r \in Requests : Len(heard[r]) <= 1

\* An allow for the task took r along, and its own answer failed: Answer returns
\* before it has answered or announced what it took.
Swallowed(r) ==
    /\ Covers(allowed[r.session], r)
    /\ \E g \in grants : /\ g.req # r /\ g.req.session = r.session
                         /\ heard[g.req] = <<>>

InProgress(r) == \E w \in replying : r \in {w.req} \cup w.more

\* No request is announced as resolved twice, and once its turn is over each
\* one was, unless it was swallowed: a withdrawal that follows an answer says
\* nothing, and no card is left behind by a request nobody announced.
AnnouncedExactlyOnce ==
    \A r \in Requests :
        /\ announced[r] <= 1
        /\ (asked[r] # 0 /\ At(r.session, "over") /\ ~InProgress(r)
              /\ ~Swallowed(r)) => announced[r] = 1

\* A request that waits belongs to the turn now running, which has not yet
\* dropped its requests: nothing is registered after dropApprovals ran.
NothingOutlivesItsTurn ==
    \A r \in Waiting : /\ asked[r] = turn[r.session]
                       /\ consume[r.session].pc \notin {"over", "dropping"}

\* A countdown runs exactly for the requests that wait for it: whoever takes or
\* holds a request stops its timer, unless it is already on its way.
TimersStopped ==
    \A r \in Requests :
        /\ timers[r] = "armed" => [req |-> r, counting |-> TRUE] \in pending
        /\ [req |-> r, counting |-> TRUE] \in pending => timers[r] \in {"armed", "fired"}

\* The user can answer whatever waits: from its publication on, and over every
\* other event, a window that follows the stream offers it.
WaitingIsShown ==
    \A r \in Waiting : r \in cards \/ consume[r.session] = [pc |-> "publish", reqs |-> {r}]

\* Nobody but the user allows a tool call that arrived while the project asks,
\* or anything that arrived while the settings say to wait, whatever the
\* settings become; what the user allowed for the task is the user's answer.
NeverForTheUser ==
    \A r \in promised : heard[r] \in {<<>>, <<"user">>, <<"task">>}

\* An allow for the task answers only tool calls of that task that it covers,
\* and never a question, over the turns of the task and the races of others.
GrantStaysInTask ==
    \A r \in Requests :
        (heard[r] # <<>> /\ Head(heard[r]) = "task") =>
            \E g \in grants : /\ g.req.session = r.session /\ ~r.question
                              /\ Covers(Allow(Nothing, g.req, g.remember), r)

\* Nothing counts down for ever: the request is settled, or somebody held it.
CountdownEnds ==
    \A r \in Requests :
        [req |-> r, counting |-> TRUE] \in pending ~> (r \notin Waiting \/ r \in held)

\* Once its provider has stopped listening, a turn ends: consume is not stuck
\* in a reply nobody reads or in a request nobody answers.
TurnsEnd == \A s \in Sessions : (~open[s] /\ ~At(s, "over")) ~> At(s, "over")

\* A request held before its time ran out waits for the user, or for what the
\* user allowed for the task; the countdown never answers it.
HeldWaits == \A r \in held : heard[r] \in {<<>>, <<"user">>, <<"task">>}
=============================================================================
