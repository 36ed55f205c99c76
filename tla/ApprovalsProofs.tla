-------------------------- MODULE ApprovalsProofs ---------------------------
(***************************************************************************)
(* What TLAPS proves of Approvals, for any tasks, requests, settings and   *)
(* budgets: types, one answer per request, and no request after its turn;  *)
(* timers run exactly for what counts down, what waits is shown, nobody    *)
(* answers for the user, an allow for a task stays in it, and every request*)
(* is announced once.                                                      *)
(*                                                                         *)
(* The inductive invariant says where a request can be: among the events   *)
(* on their way, in the hands of consume, in the map, or in one reply; and *)
(* that it has no answer as long as it is in one of these places.          *)
(***************************************************************************)
EXTENDS Approvals, TLAPS

Of(w) == {w.req} \cup w.more

\* Nothing was done about the request yet, and consume does not look at it.
Unsettled(r) == heard[r] = <<>> /\ announced[r] = 0
Aside(r)     == Unsettled(r) /\ r \notin Waiting /\ ~InProgress(r)
Untouched(r) == Aside(r) /\ timers[r] = "unset" /\ r \notin promised
InHand(r)    == /\ r \in consume[r.session].reqs
                /\ consume[r.session].pc \in {"asked", "withdrawing", "dropping"}
Fresh(r)     == Untouched(r) /\ ~InHand(r)

UnaskedPlaced == \A r \in Requests : asked[r] = 0 => Fresh(r)

EventPlaced(s, e) ==
    /\ e.req.session = s
    /\ asked[e.req] = turn[s]
    /\ e.type = "approval" => Fresh(e.req)

EventsPlaced ==
    \A s \in Sessions : \A i \in 1..Len(events[s]) :
        /\ EventPlaced(s, events[s][i])
        /\ \A j \in 1..Len(events[s]) :
              /\ i # j
              /\ events[s][i].type = "approval" /\ events[s][j].type = "approval"
              => events[s][i].req # events[s][j].req

ConsumerPlaced(s) ==
    /\ open[s] => ~At(s, "over") /\ ~At(s, "dropping")
    /\ ~At(s, "over") => turn[s] > 0
    /\ At(s, "over") \/ At(s, "dropping") => events[s] = <<>>
    /\ At(s, "over") \/ At(s, "reading") => consume[s].reqs = {}
    /\ At(s, "asked") \/ At(s, "withdrawing") => \E r \in Requests : consume[s].reqs = {r}
    /\ \A r \in consume[s].reqs :
          /\ r.session = s /\ asked[r] = turn[s]
          /\ At(s, "asked") => Untouched(r)
          /\ InHand(r) => Aside(r)

ConsumersPlaced == \A s \in Sessions : ConsumerPlaced(s)

WaitingPlaced ==
    \A r \in Waiting :
        /\ Unsettled(r) /\ ~InProgress(r)
        /\ asked[r] = turn[r.session]
        /\ ~At(r.session, "over") /\ ~At(r.session, "dropping")

RepliesPlaced ==
    /\ \A w \in replying :
          /\ w.req \notin w.more
          /\ \A q \in Of(w) : Unsettled(q) /\ asked[q] # 0
    /\ \A w, v \in replying : w # v => Of(w) \cap Of(v) = {}

\* Neither the provider nor the windows hear of a request twice.
SettledOnce == AnsweredOnce /\ \A r \in Requests : announced[r] <= 1

Inv == /\ TypeOK /\ SettledOnce /\ UnaskedPlaced /\ EventsPlaced
       /\ ConsumersPlaced /\ WaitingPlaced /\ RepliesPlaced
-----------------------------------------------------------------------------
\* A request belongs to a task.
LEMMA RequestTyped == \A r \in Requests : r.session \in Sessions
BY RequestsAssumption DEF Request

\* A request that waits is one of the known requests.
LEMMA WaitingTyped == TypeOK => Waiting \subseteq Requests
BY DEF TypeOK, Waiting, Pending

\* The next event is an event.
LEMMA EventTyped ==
    ASSUME TypeOK, NEW s \in Sessions, NEW i \in 1..Len(events[s])
    PROVE  events[s][i] \in Event /\ events[s][i].req \in Requests
<1>1. events[s] \in Seq(Event)
  BY DEF TypeOK
<1>2. events[s][i] \in Event
  BY <1>1
<1>3. QED
  BY <1>2 DEF Event

\* A bounded kind of event counts down within the naturals.
LEMMA SpendTyped ==
    ASSUME TypeOK, NEW kind \in Kinds, Spend(kind)
    PROVE  left' \in [Kinds -> Nat]
BY DEF TypeOK, Spend

\* Stopping a countdown leaves it one of the known states, and none unset

\* that was not.
LEMMA StoppedTyped ==
    ASSUME TypeOK, NEW R
    PROVE  /\ Stopped(R) \in [Requests -> {"unset", "armed", "fired", "stopped", "done"}]
           /\ \A r \in Requests : timers[r] = "unset" => Stopped(R)[r] = "unset"
BY DEF TypeOK, Stopped

\* What is taken no longer waits, and everything else waits on.
LEMMA Taken ==
    ASSUME TypeOK, NEW R, Take(R)
    PROVE  /\ pending' \subseteq pending
           /\ Waiting' = Waiting \ R
           /\ timers' \in [Requests -> {"unset", "armed", "fired", "stopped", "done"}]
           /\ \A r \in Requests : timers[r] = "unset" => timers'[r] = "unset"
BY StoppedTyped DEF TypeOK, Take, Waiting, Pending

\* Where consume goes, and that the other tasks stay where they are.
LEMMA Gone ==
    ASSUME TypeOK, NEW s \in Sessions,
           NEW pc \in {"over", "reading", "asked", "publish", "replying",
                       "withdrawing", "dropping"},
           NEW R \in SUBSET Requests, Go(s, pc, R)
    PROVE  /\ consume' \in [Sessions -> Consumer]
           /\ consume'[s] = [pc |-> pc, reqs |-> R]
           /\ \A t \in Sessions : t # s => consume'[t] = consume[t]
BY DEF TypeOK, Go, Consumer

\* An event is added after the others.
LEMMA Appended ==
    ASSUME TypeOK, NEW s \in Sessions, NEW e \in Event,
           events' = [events EXCEPT ![s] = Append(@, e)]
    PROVE  /\ events' \in [Sessions -> Seq(Event)]
           /\ Len(events'[s]) = Len(events[s]) + 1 /\ Len(events[s]) \in Nat
           /\ events'[s][Len(events[s]) + 1] = e
           /\ \A i \in 1..Len(events[s]) : events'[s][i] = events[s][i]
           /\ \A t \in Sessions : t # s => events'[t] = events[t]
<1>1. events \in [Sessions -> Seq(Event)]
  BY DEF TypeOK
<1>2. events'[s] = Append(events[s], e) /\ events[s] \in Seq(Event)
  BY <1>1
<1>3. QED
  BY <1>1, <1>2

\* The first event is taken off.
LEMMA Received ==
    ASSUME TypeOK, NEW s \in Sessions, events[s] # <<>>,
           events' = [events EXCEPT ![s] = Tail(@)]
    PROVE  /\ events' \in [Sessions -> Seq(Event)]
           /\ Len(events[s]) \in Nat /\ Len(events[s]) > 0
           /\ Len(events'[s]) = Len(events[s]) - 1
           /\ Head(events[s]) = events[s][1]
           /\ \A i \in 1..Len(events'[s]) : events'[s][i] = events[s][i + 1]
           /\ \A t \in Sessions : t # s => events'[t] = events[t]
<1>1. events \in [Sessions -> Seq(Event)]
  BY DEF TypeOK
<1>2. events'[s] = Tail(events[s]) /\ events[s] \in Seq(Event)
  BY <1>1
<1>3. QED
  BY <1>1, <1>2

\* What nothing was done about stays in its place.
LEMMA FreshKept ==
    ASSUME Inv, UNCHANGED <<turn, events, asked>>,
           \A r \in Requests : Fresh(r) => Fresh(r)'
    PROVE  UnaskedPlaced' /\ EventsPlaced'
<1>1. UnaskedPlaced'
  BY DEF Inv, UnaskedPlaced
<1>2. ASSUME NEW s \in Sessions, NEW i \in 1..Len(events[s])
      PROVE  EventPlaced(s, events[s][i])'
  BY EventTyped DEF Inv, EventsPlaced, EventPlaced
<1>3. QED
  BY <1>1, <1>2 DEF Inv, EventsPlaced

\* A step that leaves the turns and consume alone, and does nothing about a

\* request that nothing was done about.
LEMMA Beside ==
    ASSUME Inv, UNCHANGED <<turn, open, events, asked, consume>>,
           \A r \in Requests : Aside(r) => Aside(r)',
           \A r \in Requests : (Aside(r) => Aside(r)') /\ (Untouched(r) => Untouched(r)')
    PROVE  UnaskedPlaced' /\ EventsPlaced' /\ ConsumersPlaced'
<1>1. \A r \in Requests : Fresh(r) => Fresh(r)'
  BY DEF Fresh, InHand, At
<1>2. ConsumersPlaced'
  BY DEF Inv, TypeOK, Consumer, ConsumersPlaced, ConsumerPlaced, InHand,
         Aside, Unsettled, At
<1>3. QED
  BY <1>1, <1>2, FreshKept

\* A step of one task's turn leaves the others' alone.
Apart(t) == /\ turn'[t] = turn[t] /\ open'[t] = open[t]
            /\ events'[t] = events[t] /\ consume'[t] = consume[t]

\* A task that a step leaves apart keeps its consumer in place.
LEMMA OthersKept ==
    ASSUME Inv, NEW s \in Sessions, asked' = asked,
           \A t \in Sessions : t # s => Apart(t),
           \A r \in Requests : Aside(r) /\ r.session # s => Aside(r)',
           \A r \in Requests : Untouched(r) /\ r.session # s => Untouched(r)',
           ConsumerPlaced(s)'
    PROVE  ConsumersPlaced'
<1> SUFFICES ASSUME NEW t \in Sessions, t # s PROVE ConsumerPlaced(t)'
    BY DEF ConsumersPlaced
<1>1. ConsumerPlaced(t) /\ Apart(t)
  BY DEF Inv, ConsumersPlaced
<1>2. QED
  BY <1>1 DEF Inv, TypeOK, Consumer, ConsumerPlaced, InHand, Aside, Unsettled,
         Apart, At

\* A reply to what nobody answers yet.
LEMMA ReplyAdded ==
    ASSUME Inv, NEW w \in Reply, w.req \notin w.more,
           \A q \in Of(w) : Unsettled(q) /\ asked[q] # 0 /\ ~InProgress(q),
           replying' = replying \cup {w}, UNCHANGED <<heard, announced, asked>>
    PROVE  /\ replying' \subseteq Reply
           /\ \A r : InProgress(r)' <=> (InProgress(r) \/ r \in Of(w))
           /\ RepliesPlaced'
<1>1. replying' \subseteq Reply
  BY DEF Inv, TypeOK
<1>2. \A r : InProgress(r)' <=> (InProgress(r) \/ r \in Of(w))
  BY DEF InProgress, Of
<1>3. \A v \in replying : Of(v) \cap Of(w) = {}
  BY DEF InProgress, Of
<1>4. QED
  BY <1>1, <1>2, <1>3 DEF Inv, RepliesPlaced, Unsettled, Of
-----------------------------------------------------------------------------
\* Before anything is asked, every request is fresh.
LEMMA InitInv == Init => Inv
<1> SUFFICES ASSUME Init PROVE Inv
    OBVIOUS
<1> USE DEF Init
<1>1. TypeOK
  BY RequestsAssumption, SettingsAssumption, BudgetsAssumption
     DEF TypeOK, Consumer, Allowance, Nothing
<1>2. Waiting = {} /\ \A r \in Requests : ~InProgress(r)
  BY DEF Waiting, InProgress
<1>3. \A r \in Requests : Fresh(r)
  BY <1>2, RequestTyped DEF Fresh, InHand, Untouched, Aside, Unsettled, At
<1>4. QED
  BY <1>1, <1>2, <1>3 DEF Inv, SettledOnce, AnsweredOnce, UnaskedPlaced, EventsPlaced,
         ConsumersPlaced, ConsumerPlaced, InHand, Aside, Unsettled,
         WaitingPlaced, RepliesPlaced, At

\* The settings change.
LEMMA ChangeSettingsInv == ASSUME Inv, ChangeSettings PROVE Inv'
<1> USE DEF ChangeSettings, provider, runner, told, ghost
<1>1. left' \in [Kinds -> Nat] /\ settings' \in Settings
  BY SpendTyped, SettingsAssumption DEF Inv, Kinds
<1>2. TypeOK'
  BY <1>1 DEF Inv, TypeOK
<1>3. \A r \in Requests : (Aside(r) => Aside(r)') /\ (Untouched(r) => Untouched(r)')
  BY DEF Untouched, Aside, Unsettled, Waiting, InProgress
<1>4. UnaskedPlaced' /\ EventsPlaced' /\ ConsumersPlaced'
  BY <1>3, Beside
<1>5. SettledOnce' /\ WaitingPlaced' /\ RepliesPlaced'
  BY DEF Inv, SettledOnce, AnsweredOnce, WaitingPlaced, Unsettled,
         RepliesPlaced, Waiting, InProgress, Of, At
<1>6. QED
  BY <1>2, <1>4, <1>5 DEF Inv

\* A turn begins: nothing of the turn before is on its way or waits.
LEMMA BeginTurnInv == ASSUME Inv, NEW s \in Sessions, BeginTurn(s) PROVE Inv'
<1> USE DEF BeginTurn, told, ghost
<1>1. consume[s].reqs = {} /\ events[s] = <<>>
  BY DEF Inv, ConsumersPlaced, ConsumerPlaced, InHand, Aside, Unsettled, At
<1>2. /\ consume'[s] = [pc |-> "reading", reqs |-> {}]
      /\ \A t \in Sessions : t # s => Apart(t)
      /\ turn'[s] = turn[s] + 1 /\ turn[s] \in Nat
  <2>1. turn[s] \in Nat /\ turn'[s] = turn[s] + 1
    BY DEF Inv, TypeOK
  <2>2. QED
    BY <1>1, <2>1 DEF Inv, TypeOK, Consumer, Apart
<1>3. TypeOK'
  <2>1. turn' \in [Sessions -> Nat]
    BY DEF Inv, TypeOK
  <2>2. open' \in [Sessions -> BOOLEAN] /\ consume' \in [Sessions -> Consumer]
    BY DEF Inv, TypeOK, Consumer
  <2>3. left' \in [Kinds -> Nat]
    BY SpendTyped DEF Inv, Kinds
  <2>4. QED
    BY <2>1, <2>2, <2>3 DEF Inv, TypeOK
<1>4. \A r : (Aside(r)' <=> Aside(r)) /\ (Untouched(r)' <=> Untouched(r))
  BY DEF Untouched, Aside, Unsettled, Waiting, InProgress
<1>5. \A r \in Requests : Fresh(r) => Fresh(r)'
  BY <1>2, <1>4, RequestTyped DEF Fresh, InHand, At, Apart
<1>6. UnaskedPlaced'
  BY <1>5 DEF Inv, UnaskedPlaced
<1>7. EventsPlaced'
  <2>1. ASSUME NEW t \in Sessions, NEW i \in 1..Len(events[t])
        PROVE  EventPlaced(t, events[t][i])'
    BY <1>1, <1>2, <1>5, EventTyped DEF Inv, EventsPlaced, EventPlaced, Apart
  <2>2. QED
    BY <2>1 DEF Inv, EventsPlaced
<1>8. ConsumersPlaced'
  <2>1. ConsumerPlaced(s)'
    BY <1>1, <1>2 DEF ConsumerPlaced, InHand, Aside, Unsettled, At
  <2>2. QED
    BY <2>1, <1>2, <1>4, OthersKept
<1>9. WaitingPlaced'
  BY <1>2, WaitingTyped, RequestTyped DEF Inv, WaitingPlaced, Unsettled, Waiting, InProgress, Apart, At
<1>10. SettledOnce' /\ RepliesPlaced'
  BY DEF Inv, SettledOnce, AnsweredOnce, RepliesPlaced, Unsettled, Of
<1>11. QED
  BY <1>3, <1>6, <1>7, <1>8, <1>9, <1>10 DEF Inv

\* A request is asked: it had no place, and is an event now.
LEMMA AskInv == ASSUME Inv, NEW s \in Sessions, Ask(s) PROVE Inv'
<1> PICK r \in Requests :
        /\ open[s] /\ r.session = s /\ asked[r] = 0
        /\ Spend(IF r.question THEN "question" ELSE "call")
        /\ asked' = [asked EXCEPT ![r] = turn[s]]
        /\ events' = [events EXCEPT ![s] = Append(@, [type |-> "approval", req |-> r])]
        /\ UNCHANGED <<settings, turn, open, cancelled, runner, cards, told, ghost>>
    BY DEF Ask
<1> USE DEF runner, told, ghost
<1> DEFINE e == [type |-> "approval", req |-> r]
<1>1. e \in Event /\ left' \in [Kinds -> Nat]
  BY SpendTyped DEF Event, Inv, Kinds
<1>2. turn[s] \in Nat /\ turn[s] > 0 /\ ~At(s, "over") /\ ~At(s, "dropping")
  BY DEF Inv, TypeOK, ConsumersPlaced, ConsumerPlaced, InHand, Aside,
         Unsettled
<1>3. asked' \in [Requests -> Nat] /\ asked'[r] = turn[s]
      /\ \A q \in Requests : q # r => asked'[q] = asked[q]
  BY <1>2 DEF Inv, TypeOK
<1>4. TypeOK'
  BY <1>1, <1>3, Appended DEF Inv, TypeOK
<1>5. \A q \in Requests : /\ (Aside(q)' <=> Aside(q)) /\ (Untouched(q)' <=> Untouched(q))
                          /\ (Fresh(q)' <=> Fresh(q))
  BY DEF Untouched, Aside, Unsettled, Fresh, InHand, Waiting, InProgress,
         At
<1>6. Fresh(r)
  BY DEF Inv, UnaskedPlaced
<1>7. UnaskedPlaced'
  BY <1>2, <1>3, <1>5 DEF Inv, UnaskedPlaced
<1>8. EventsPlaced'
  <2>1. ASSUME NEW t \in Sessions, NEW i \in 1..Len(events[t])
        PROVE  events[t][i].req # r /\ EventPlaced(t, events[t][i])'
    <3>1. turn[t] > 0
      BY DEF Inv, TypeOK, ConsumersPlaced, ConsumerPlaced, InHand, Aside,
         Unsettled
    <3>2. EventPlaced(t, events[t][i]) /\ events[t][i].req \in Requests
      BY EventTyped DEF Inv, EventsPlaced
    <3>3. events[t][i].req # r
      BY <3>1, <3>2 DEF EventPlaced
    <3>4. QED
      BY <3>2, <3>3, <1>3, <1>5 DEF EventPlaced
  <2>2. EventPlaced(s, e)'
    BY <1>3, <1>5, <1>6 DEF EventPlaced
  <2>3. QED
    BY <2>1, <2>2, <1>1, Appended DEF Inv, EventsPlaced
<1>9. ConsumersPlaced'
  <2> SUFFICES ASSUME NEW t \in Sessions PROVE ConsumerPlaced(t)'
    BY DEF ConsumersPlaced
  <2>1. ConsumerPlaced(t)
    BY DEF Inv, ConsumersPlaced
  <2>2. \A q \in consume[t].reqs : q \in Requests /\ q # r
    BY <2>1, <1>2 DEF Inv, TypeOK, Consumer, ConsumerPlaced, InHand, Aside, Unsettled,
         At
  <2>3. At(t, "over") \/ At(t, "dropping") => events'[t] = <<>>
    BY <2>1, <1>1, <1>2, Appended DEF Inv, ConsumerPlaced, InHand, Aside, Unsettled
  <2>4. QED
    BY <2>1, <2>2, <2>3, <1>3, <1>5 DEF ConsumerPlaced, InHand, Aside, Unsettled, At
<1>10. WaitingPlaced'
  <2>1. r \notin Waiting
    BY <1>6 DEF Fresh, InHand, Untouched, Aside, Unsettled
  <2>2. QED
    BY <2>1, <1>3, WaitingTyped DEF Inv, WaitingPlaced, Unsettled, Waiting, InProgress, At
<1>11. RepliesPlaced'
  <2>1. \A w \in replying : Of(w) \subseteq Requests
    BY DEF Inv, TypeOK, Reply, Of
  <2>2. QED
    BY <2>1, <1>2, <1>3 DEF Inv, RepliesPlaced, Unsettled, Of
<1>12. SettledOnce'
  BY DEF Inv, SettledOnce, AnsweredOnce
<1>13. QED
  BY <1>4, <1>7, <1>8, <1>9, <1>10, <1>11, <1>12 DEF Inv

\* A withdrawal follows what it withdraws.
LEMMA WithdrawInv == ASSUME Inv, NEW s \in Sessions, Withdraw(s) PROVE Inv'
<1> PICK r \in Requests \ cancelled :
        /\ r.session = s /\ Live(r)
        /\ Spend("withdraw")
        /\ cancelled' = cancelled \cup {r}
        /\ events' = [events EXCEPT ![s] = Append(@, [type |-> "resolved", req |-> r])]
        /\ UNCHANGED <<settings, turn, open, asked, runner, cards, told, ghost>>
    BY DEF Withdraw
<1> USE DEF runner, told, ghost
<1> DEFINE e == [type |-> "resolved", req |-> r]
<1>1. e \in Event /\ left' \in [Kinds -> Nat]
  BY SpendTyped DEF Event, Inv, Kinds
<1>2. ~At(s, "over") /\ ~At(s, "dropping") /\ asked[r] = turn[s]
  BY DEF Inv, Live, ConsumersPlaced, ConsumerPlaced, InHand, Aside,
         Unsettled
<1>3. TypeOK'
  BY <1>1, Appended DEF Inv, TypeOK
<1>4. \A q \in Requests : /\ (Aside(q)' <=> Aside(q)) /\ (Untouched(q)' <=> Untouched(q))
                          /\ (Fresh(q)' <=> Fresh(q))
  BY DEF Untouched, Aside, Unsettled, Fresh, InHand, Waiting, InProgress,
         At
<1>5. UnaskedPlaced'
  BY <1>4 DEF Inv, UnaskedPlaced
<1>6. EventsPlaced'
  <2>1. ASSUME NEW t \in Sessions, NEW i \in 1..Len(events[t])
        PROVE  EventPlaced(t, events[t][i])'
    BY <1>4, EventTyped DEF Inv, EventsPlaced, EventPlaced
  <2>2. EventPlaced(s, e)'
    BY <1>2 DEF EventPlaced
  <2>3. QED
    BY SMTT(30), <2>1, <2>2, <1>1, Appended DEF Inv, EventsPlaced
<1>7. ConsumersPlaced'
  <2> SUFFICES ASSUME NEW t \in Sessions PROVE ConsumerPlaced(t)'
    BY DEF ConsumersPlaced
  <2>1. ConsumerPlaced(t) /\ consume[t].reqs \subseteq Requests
    BY DEF Inv, TypeOK, Consumer, ConsumersPlaced
  <2>2. At(t, "over") \/ At(t, "dropping") => events'[t] = <<>>
    BY <2>1, <1>1, <1>2, Appended DEF Inv, ConsumerPlaced, InHand, Aside, Unsettled
  <2>3. QED
    BY <2>1, <2>2, <1>4 DEF ConsumerPlaced, InHand, Aside, Unsettled, At
<1>8. SettledOnce' /\ WaitingPlaced' /\ RepliesPlaced'
  BY DEF Inv, SettledOnce, AnsweredOnce, WaitingPlaced, Unsettled,
         Waiting, InProgress, At, RepliesPlaced, Of
<1>9. QED
  BY <1>3, <1>5, <1>6, <1>7, <1>8 DEF Inv

\* The provider stops listening.
LEMMA CloseInv == ASSUME Inv, NEW s \in Sessions, Close(s) PROVE Inv'
<1> USE DEF Close, runner, told, ghost
<1>1. open' \in [Sessions -> BOOLEAN] /\ ~open'[s]
      /\ \A t \in Sessions : t # s => open'[t] = open[t]
  BY DEF Inv, TypeOK
<1>2. TypeOK'
  BY <1>1 DEF Inv, TypeOK
<1>3. \A r \in Requests : /\ (Aside(r)' <=> Aside(r)) /\ (Untouched(r)' <=> Untouched(r))
                          /\ (Fresh(r)' <=> Fresh(r))
  BY DEF Untouched, Aside, Unsettled, Fresh, InHand, Waiting, InProgress,
         At
<1>4. UnaskedPlaced' /\ EventsPlaced'
  BY <1>3, FreshKept
<1>5. ConsumersPlaced'
  <2> SUFFICES ASSUME NEW t \in Sessions PROVE ConsumerPlaced(t)'
    BY DEF ConsumersPlaced
  <2>1. ConsumerPlaced(t) /\ consume[t].reqs \subseteq Requests
    BY DEF Inv, TypeOK, Consumer, ConsumersPlaced
  <2>2. QED
    BY <2>1, <1>1, <1>3 DEF ConsumerPlaced, InHand, Aside, Unsettled, At
<1>6. SettledOnce' /\ WaitingPlaced' /\ RepliesPlaced'
  BY DEF Inv, SettledOnce, AnsweredOnce, WaitingPlaced, Unsettled,
         Waiting, InProgress, At, RepliesPlaced, Of
<1>7. QED
  BY <1>2, <1>4, <1>5, <1>6 DEF Inv

\* consume takes the next event.
LEMMA ReceiveInv == ASSUME Inv, NEW s \in Sessions, Receive(s) PROVE Inv'
<1> USE DEF told, ghost
<1>1. /\ At(s, "reading") /\ events[s] # <<>>
      /\ events' = [events EXCEPT ![s] = Tail(@)]
      /\ UNCHANGED <<settings, turn, open, asked, cancelled, allowed, resending,
                     cards, told, ghost, left>>
  BY DEF Receive
<1>2. /\ Head(events[s]) = events[s][1] /\ 1 \in 1..Len(events[s])
      /\ \A i \in 1..Len(events'[s]) : /\ i + 1 \in 1..Len(events[s]) /\ i + 1 # 1
                                       /\ events'[s][i] = events[s][i + 1]
      /\ \A t \in Sessions : t # s => events'[t] = events[t]
      /\ events' \in [Sessions -> Seq(Event)]
  <2>1. /\ Len(events[s]) \in Nat /\ Len(events[s]) > 0
        /\ Len(events'[s]) = Len(events[s]) - 1
        /\ Head(events[s]) = events[s][1]
        /\ \A i \in 1..Len(events'[s]) : events'[s][i] = events[s][i + 1]
        /\ \A t \in Sessions : t # s => events'[t] = events[t]
        /\ events' \in [Sessions -> Seq(Event)]
    BY <1>1, Received DEF Inv
  <2>2. QED
    BY <2>1
<1> PICK e \in Event : e = Head(events[s])
    BY <1>2, EventTyped DEF Inv
<1> PICK r \in Requests : r = e.req
    BY DEF Event
<1>3. EventPlaced(s, e) /\ turn[s] > 0 /\ r.session = s /\ asked[r] = turn[s]
  BY <1>1, <1>2 DEF Inv, EventsPlaced, EventPlaced, ConsumersPlaced, ConsumerPlaced,
         InHand, Aside, Unsettled, At
<1> {r} \in SUBSET Requests
    OBVIOUS
<1>4. SUFFICES
        /\ TypeOK' /\ WaitingPlaced' /\ RepliesPlaced' /\ ConsumerPlaced(s)'
        /\ UNCHANGED <<heard, announced>>
        /\ \A t \in Sessions : t # s => consume'[t] = consume[t]
        /\ \A q \in Requests : q.session # s =>
              (Aside(q) => Aside(q)') /\ (Untouched(q) => Untouched(q)')
        /\ \A q \in Requests : Fresh(q) /\ (e.type = "approval" => q # r) => Fresh(q)'
  <2>1. UnaskedPlaced'
    BY <1>1, <1>3, <1>4 DEF Inv, TypeOK, UnaskedPlaced
  <2>2. EventsPlaced'
    <3>1. ASSUME NEW t \in Sessions, NEW v \in Event, EventPlaced(t, v),
                 v.type = "approval" /\ e.type = "approval" => v.req # r
          PROVE  EventPlaced(t, v)'
      BY <3>1, <1>1, <1>4 DEF EventPlaced, Event
    <3>2. ASSUME NEW t \in Sessions, NEW i \in 1..Len(events'[t])
          PROVE  EventPlaced(t, events[t][i])'
      <4>1. PICK k \in 1..Len(events[t]) : events'[t][i] = events[t][k] /\ (t = s => k # 1)
        <5>1. CASE t = s
          <6>1. i + 1 \in 1..Len(events[t]) /\ events'[t][i] = events[t][i + 1] /\ i + 1 # 1
            BY <5>1, <1>2
          <6>2. QED
            BY <6>1
        <5>2. CASE t # s
          BY <5>2, <1>2
        <5>3. QED
          BY <5>1, <5>2
      <4>2. events[t][k] \in Event /\ EventPlaced(t, events[t][k])
        BY EventTyped DEF Inv, EventsPlaced
      <4>3. events[t][k].type = "approval" /\ e.type = "approval" => events[t][k].req # r
        <5>1. CASE t = s
          BY <5>1, <4>1, <1>2 DEF Inv, EventsPlaced
        <5>2. CASE t # s
          BY <5>2, <4>2, <1>3 DEF EventPlaced
        <5>3. QED
          BY <5>1, <5>2
      <4>4. EventPlaced(t, events'[t][i])
        BY <4>1, <4>2
      <4>5. QED
        BY <3>1, <4>1, <4>2, <4>3 DEF EventPlaced
    <3>3. ASSUME NEW t \in Sessions, NEW i \in 1..Len(events'[t]),
                 NEW j \in 1..Len(events'[t]), i # j,
                 events'[t][i].type = "approval", events'[t][j].type = "approval"
          PROVE  events'[t][i].req # events'[t][j].req
      <4>1. CASE t = s
        <5>1. /\ i + 1 \in 1..Len(events[s]) /\ j + 1 \in 1..Len(events[s]) /\ i + 1 # j + 1
              /\ events'[s][i] = events[s][i + 1] /\ events'[s][j] = events[s][j + 1]
          BY <4>1, <3>3, <1>2
        <5>2. QED
          BY <4>1, <3>3, <5>1 DEF Inv, EventsPlaced
      <4>2. CASE t # s
        BY <4>2, <3>3, <1>2 DEF Inv, EventsPlaced
      <4>3. QED
        BY <4>1, <4>2
    <3>4. QED
      BY <3>2, <3>3 DEF EventsPlaced
  <2>3. ConsumersPlaced'
    BY <1>1, <1>2, <1>4, OthersKept DEF Apart
  <2>4. SettledOnce'
    BY <1>1, <1>4 DEF Inv, SettledOnce, AnsweredOnce
  <2>5. QED
    BY <1>4, <2>1, <2>2, <2>3, <2>4 DEF Inv
<1>5. CASE e.type = "approval"
  <2>1. Fresh(r)
    BY <1>3, <1>5 DEF EventPlaced
  <2>2. UNCHANGED <<pending, timers, heard, announced>> /\ Waiting' = Waiting
    BY <1>5 DEF Receive, Waiting, told
  <2>3. CASE Covers(allowed[s], r)
    <3> DEFINE w == NewReply(r, "task", {})
    <3>1. Go(s, "replying", {r}) /\ replying' = replying \cup {w}
      BY <1>5, <2>3 DEF Receive
    <3>2. w \in Reply /\ Of(w) = {r} /\ w.req \notin w.more
      BY <1>3 DEF NewReply, Reply, Answerers, Of
    <3>3. /\ replying' \subseteq Reply /\ RepliesPlaced'
          /\ \A q : InProgress(q)' <=> (InProgress(q) \/ q = r)
      BY <3>1, <3>2, <2>1, <2>2, <1>1, <1>3, ReplyAdded DEF Fresh, InHand, Untouched, Aside, Unsettled
    <3>4. /\ consume' \in [Sessions -> Consumer]
          /\ consume'[s] = [pc |-> "replying", reqs |-> {r}]
          /\ \A t \in Sessions : t # s => consume'[t] = consume[t]
      BY <3>1, <1>3, Gone DEF Inv
    <3>5. TypeOK'
      BY <1>1, <1>2, <2>2, <3>3, <3>4 DEF Inv, TypeOK
    <3>6. ConsumerPlaced(s)'
      BY <1>1, <1>3, <3>4 DEF ConsumerPlaced, InHand, Aside, Unsettled, At
    <3>7. WaitingPlaced'
      BY <1>1, <2>1, <2>2, <3>3, <3>4, WaitingTyped, RequestTyped
      DEF Inv, WaitingPlaced, Unsettled, Fresh, InHand, Untouched, Aside, At
    <3>8. \A q \in Requests : q # r => (Aside(q) => Aside(q)') /\ (Untouched(q) => Untouched(q)')
      BY <1>1, <2>2, <3>3 DEF Untouched, Aside, Unsettled
    <3>9. \A q \in Requests : Fresh(q) /\ q # r => Fresh(q)'
      BY <3>8, <3>4, RequestTyped DEF Fresh, InHand, At
    <3>10. QED
      BY <2>2, <3>3, <3>4, <3>5, <3>6, <3>7, <3>8, <3>9, <1>3, <1>5
  <2>4. CASE ~Covers(allowed[s], r)
    <3>1. Go(s, "asked", {r}) /\ replying' = replying
      BY <1>5, <2>4 DEF Receive
    <3>2. /\ consume' \in [Sessions -> Consumer]
          /\ consume'[s] = [pc |-> "asked", reqs |-> {r}]
          /\ \A t \in Sessions : t # s => consume'[t] = consume[t]
      BY <3>1, <1>3, Gone DEF Inv
    <3>3. TypeOK'
      BY <1>1, <1>2, <2>2, <3>1, <3>2 DEF Inv, TypeOK
    <3>4. \A q : /\ (InProgress(q)' <=> InProgress(q)) /\ (Aside(q)' <=> Aside(q))
             /\ (Untouched(q)' <=> Untouched(q))
      BY <1>1, <2>2, <3>1 DEF Untouched, Aside, Unsettled, InProgress
    <3>5. ConsumerPlaced(s)'
      <4>1. Untouched(r)' /\ Aside(r)'
        BY <2>1, <3>4 DEF Fresh, Untouched
      <4>2. QED
        BY <1>1, <1>3, <3>2, <4>1 DEF ConsumerPlaced, At
    <3>6. WaitingPlaced'
      BY <1>1, <2>2, <3>2, <3>4, WaitingTyped, RequestTyped DEF Inv, WaitingPlaced, Unsettled, At
    <3>7. RepliesPlaced'
      BY <1>1, <2>2, <3>1 DEF Inv, RepliesPlaced, Unsettled, Of
    <3>8. \A q \in Requests : Fresh(q) /\ q # r => Fresh(q)'
      BY <3>4, <3>2, RequestTyped DEF Fresh, InHand, At
    <3>9. QED
      BY <2>2, <3>2, <3>3, <3>4, <3>5, <3>6, <3>7, <3>8, <1>5
  <2>5. QED
    BY <2>3, <2>4
<1>6. CASE e.type = "resolved"
  <2>1. /\ Take({r}) /\ replying' = replying /\ UNCHANGED <<heard, announced>>
        /\ IF StillWaits(r) THEN Go(s, "withdrawing", {r}) ELSE consume' = consume
    BY <1>6 DEF Receive, told
  <2>2. /\ pending' \subseteq pending /\ Waiting' = Waiting \ {r}
        /\ timers' \in [Requests -> {"unset", "armed", "fired", "stopped", "done"}]
        /\ \A q \in Requests : timers[q] = "unset" => timers'[q] = "unset"
    BY <2>1, Taken DEF Inv
  <2>3. /\ consume' \in [Sessions -> Consumer]
        /\ \A t \in Sessions : t # s => consume'[t] = consume[t]
        /\ \/ consume'[s] = [pc |-> "withdrawing", reqs |-> {r}] /\ r \in Waiting
           \/ consume'[s] = consume[s]
    BY <2>1, <1>3, Gone DEF StillWaits, Inv, TypeOK
  <2>4. TypeOK'
    BY <1>1, <1>2, <2>1, <2>2, <2>3 DEF Inv, TypeOK
  <2>5. \A q : InProgress(q)' <=> InProgress(q)
    BY <2>1 DEF InProgress
  <2>6. \A q \in Requests : (Aside(q) => Aside(q)') /\ (Untouched(q) => Untouched(q)')
    BY <1>1, <2>1, <2>2, <2>5 DEF Untouched, Aside, Unsettled
  <2>7. ConsumerPlaced(s)'
    <3>1. r \in Waiting => Aside(r)'
      BY <1>1, <2>1, <2>2, <2>5 DEF Inv, WaitingPlaced, Aside, Unsettled
    <3>2. ConsumerPlaced(s) /\ consume[s].reqs = {}
      BY <1>1 DEF Inv, ConsumersPlaced, ConsumerPlaced
    <3>3. QED
      BY <1>1, <1>3, <2>3, <3>1, <3>2 DEF ConsumerPlaced, At
  <2>8. WaitingPlaced'
    BY <1>1, <2>1, <2>2, <2>3, <2>5, WaitingTyped, RequestTyped DEF Inv, WaitingPlaced, Unsettled, At
  <2>9. RepliesPlaced'
    BY <1>1, <2>1 DEF Inv, RepliesPlaced, Unsettled, Of
  <2>10. \A q \in Requests : Fresh(q) => Fresh(q)'
    <3>1. consume[s].reqs = {}
      BY <1>1 DEF Inv, ConsumersPlaced, ConsumerPlaced
    <3>2. QED
      BY <1>1, <2>3, <2>6, <3>1, RequestTyped DEF Fresh, InHand, Untouched, Aside
  <2>11. QED
    BY <2>1, <2>3, <2>4, <2>6, <2>7, <2>8, <2>9, <2>10
<1>7. e.type \in {"approval", "resolved"}
  BY DEF Event
<1>8. QED
  BY <1>5, <1>6, <1>7

\* The settings decide about a request that nothing was done about.
LEMMA DecideInv == ASSUME Inv, NEW s \in Sessions, Decide(s) PROVE Inv'
<1> USE DEF provider, told
<1>1. /\ At(s, "asked")
      /\ UNCHANGED <<settings, provider, allowed, resending, cards, told, grants, held, left>>
  BY DEF Decide
<1> PICK r \in consume[s].reqs :
      /\ promised' = IF OnlyUser(r) THEN promised \cup {r} ELSE promised
      /\ \/ /\ ModeFor(r) = "immediate"
            /\ Go(s, "replying", {r})
            /\ replying' = replying \cup {NewReply(r, "settings", {})}
            /\ UNCHANGED <<pending, timers>>
         \/ /\ ModeFor(r) # "immediate"
            /\ Go(s, "publish", {r})
            /\ pending' = pending \cup
                  {[req |-> r, counting |-> ModeFor(r) = "timeout"]}
            /\ timers' = Armed(r)
            /\ UNCHANGED replying
    BY DEF Decide
<1>2. /\ r \in Requests /\ r.session = s /\ asked[r] = turn[s] /\ turn[s] > 0
      /\ Untouched(r) /\ open[s] \in BOOLEAN
  BY <1>1 DEF Inv, TypeOK, Consumer, ConsumersPlaced, ConsumerPlaced, InHand,
         Aside, Unsettled, At
<1> {r} \in SUBSET Requests
    BY <1>2
<1>3. promised' \subseteq Requests /\ \A q : q # r => (q \in promised' <=> q \in promised)
  BY <1>2 DEF Inv, TypeOK
<1>4. SUFFICES
        /\ TypeOK' /\ WaitingPlaced' /\ RepliesPlaced'
        /\ consume'[s].reqs = {r} /\ consume'[s].pc \in {"replying", "publish"}
        /\ \A t \in Sessions : t # s => consume'[t] = consume[t]
        /\ \A q \in Requests : q # r => (Aside(q) => Aside(q)') /\ (Untouched(q) => Untouched(q)')
  <2>1. \A q \in Requests : Fresh(q) => q # r
    BY <1>1, <1>2 DEF Fresh, InHand, At
  <2>2. \A q \in Requests : Fresh(q) => Fresh(q)'
    BY <2>1, <1>4, RequestTyped DEF Fresh, InHand, At
  <2>3. UnaskedPlaced' /\ EventsPlaced'
    BY <2>2, <1>1, FreshKept
  <2>4. ConsumerPlaced(s)'
    BY <1>1, <1>2, <1>4 DEF ConsumerPlaced, InHand, Aside, Unsettled, At
  <2>5. ConsumersPlaced'
    BY <2>4, <1>1, <1>2, <1>4, OthersKept DEF Apart
  <2>6. SettledOnce'
    BY <1>1 DEF Inv, SettledOnce, AnsweredOnce
  <2>7. QED
    BY <1>4, <2>3, <2>5, <2>6 DEF Inv
<1>5. CASE /\ Go(s, "replying", {r})
           /\ replying' = replying \cup {NewReply(r, "settings", {})}
           /\ UNCHANGED <<pending, timers>>
  <2> DEFINE w == NewReply(r, "settings", {})
  <2>1. w \in Reply /\ Of(w) = {r} /\ w.req \notin w.more
    BY <1>2 DEF NewReply, Reply, Answerers, Of
  <2>2. /\ replying' \subseteq Reply /\ RepliesPlaced'
        /\ \A q : InProgress(q)' <=> (InProgress(q) \/ q = r)
    BY <1>1, <1>2, <1>5, <2>1, ReplyAdded DEF Untouched, Aside, Unsettled
  <2>3. /\ consume' \in [Sessions -> Consumer]
        /\ consume'[s] = [pc |-> "replying", reqs |-> {r}]
        /\ \A t \in Sessions : t # s => consume'[t] = consume[t]
    BY <1>5, Gone DEF Inv
  <2>4. Waiting' = Waiting
    BY <1>5 DEF Waiting
  <2>5. TypeOK'
    BY <1>1, <1>3, <1>5, <2>2, <2>3 DEF Inv, TypeOK
  <2>6. WaitingPlaced'
    BY <1>1, <1>2, <2>2, <2>3, <2>4, WaitingTyped, RequestTyped
    DEF Inv, WaitingPlaced, Unsettled, Untouched, Aside, At
  <2>7. \A q \in Requests : q # r => (Aside(q) => Aside(q)') /\ (Untouched(q) => Untouched(q)')
    BY <1>1, <1>3, <1>5, <2>2, <2>4 DEF Untouched, Aside, Unsettled
  <2>8. QED
    BY <2>2, <2>3, <2>5, <2>6, <2>7
<1>6. CASE /\ Go(s, "publish", {r})
           /\ pending' = pending \cup {[req |-> r, counting |-> ModeFor(r) = "timeout"]}
           /\ timers' = Armed(r)
           /\ UNCHANGED replying
  <2> PICK c \in BOOLEAN : c = (ModeFor(r) = "timeout")
    OBVIOUS
  <2> DEFINE p == [req |-> r, counting |-> c]
  <2>11. p \in Pending /\ pending' = pending \cup {p}
    BY <1>2, <1>6 DEF Pending
  <2>1. p \in Pending /\ Waiting' = Waiting \cup {r}
    BY <2>11 DEF Waiting
  <2>2. /\ pending' \subseteq Pending
        /\ \A x, y \in pending' : x.req = y.req => x = y
    BY <1>2, <1>6, <2>1 DEF Inv, TypeOK, Untouched, Aside, Unsettled, Waiting
  <2>3. /\ timers' \in [Requests -> {"unset", "armed", "fired", "stopped", "done"}]
        /\ \A q \in Requests : q # r => timers'[q] = timers[q]
    BY <1>2, <1>6 DEF Armed, Inv, TypeOK
  <2>4. /\ consume' \in [Sessions -> Consumer]
        /\ consume'[s] = [pc |-> "publish", reqs |-> {r}]
        /\ \A t \in Sessions : t # s => consume'[t] = consume[t]
    BY <1>6, Gone DEF Inv
  <2>5. TypeOK'
    BY <1>1, <1>3, <1>6, <2>2, <2>3, <2>4 DEF Inv, TypeOK
  <2>6. \A q : InProgress(q)' <=> InProgress(q)
    BY <1>6 DEF InProgress
  <2>7. WaitingPlaced'
    BY <1>1, <1>2, <2>1, <2>4, <2>6, WaitingTyped, RequestTyped
    DEF Inv, WaitingPlaced, Unsettled, Untouched, Aside, At
  <2>8. RepliesPlaced'
    BY <1>1, <1>6 DEF Inv, RepliesPlaced, Unsettled, Of
  <2>9. \A q \in Requests : q # r => (Aside(q) => Aside(q)') /\ (Untouched(q) => Untouched(q)')
    BY <1>1, <1>3, <2>1, <2>3, <2>6 DEF Untouched, Aside, Unsettled
  <2>10. QED
    BY <2>4, <2>5, <2>7, <2>8, <2>9
<1>7. QED
  BY <1>5, <1>6

\* consume shows what it registered.
LEMMA PublishRequestInv == ASSUME Inv, NEW s \in Sessions, PublishRequest(s) PROVE Inv'
<1> USE DEF PublishRequest, provider, told, ghost
<1>1. /\ consume' \in [Sessions -> Consumer]
      /\ consume'[s] = [pc |-> "reading", reqs |-> {}]
      /\ \A t \in Sessions : t # s => consume'[t] = consume[t]
  BY Gone DEF Inv
<1>2. cards' \subseteq Requests
  BY DEF Inv, TypeOK, Consumer
<1>3. TypeOK'
  BY <1>1, <1>2 DEF Inv, TypeOK
<1>4. \A r : /\ (InProgress(r)' <=> InProgress(r)) /\ (Aside(r)' <=> Aside(r))
             /\ (Untouched(r)' <=> Untouched(r))
  BY DEF Untouched, Aside, Unsettled, InProgress, Waiting
<1>5. \A r \in Requests : Fresh(r) => Fresh(r)'
  BY <1>1, <1>4, RequestTyped DEF Fresh, InHand, At
<1>6. UnaskedPlaced' /\ EventsPlaced'
  BY <1>5, FreshKept
<1>7. ConsumerPlaced(s)'
  BY <1>1 DEF Inv, ConsumersPlaced, ConsumerPlaced, InHand, Aside, Unsettled, At
<1>8. ConsumersPlaced'
  BY <1>1, <1>4, <1>7, OthersKept DEF Apart
<1>9. WaitingPlaced'
  BY <1>1, <1>4, WaitingTyped, RequestTyped DEF Inv, WaitingPlaced, Unsettled, Waiting, At
<1>10. SettledOnce' /\ RepliesPlaced'
  BY DEF Inv, SettledOnce, AnsweredOnce, RepliesPlaced, Unsettled, Of
<1>11. QED
  BY <1>3, <1>6, <1>8, <1>9, <1>10 DEF Inv

\* The turn is over, and takes what it left.
LEMMA DropInv == ASSUME Inv, NEW s \in Sessions, Drop(s) PROVE Inv'
<1> USE DEF Drop, provider, told, ghost
<1> DEFINE pc == IF WaitsOn(s) = {} THEN "over" ELSE "dropping"
<1>1. WaitsOn(s) \in SUBSET Requests /\ pc \in {"over", "dropping"}
  BY WaitingTyped DEF Inv, WaitsOn
<1>2. /\ consume' \in [Sessions -> Consumer]
      /\ consume'[s] = [pc |-> pc, reqs |-> WaitsOn(s)]
      /\ \A t \in Sessions : t # s => consume'[t] = consume[t]
  BY <1>1, Gone DEF Inv
<1>3. /\ pending' \subseteq pending /\ Waiting' = Waiting \ WaitsOn(s)
      /\ timers' \in [Requests -> {"unset", "armed", "fired", "stopped", "done"}]
      /\ \A r \in Requests : timers[r] = "unset" => timers'[r] = "unset"
  BY Taken DEF Inv
<1>4. TypeOK'
  BY <1>2, <1>3 DEF Inv, TypeOK
<1>5. \A r : InProgress(r)' <=> InProgress(r)
  BY DEF InProgress
<1>6. \A r \in Requests : (Aside(r) => Aside(r)') /\ (Untouched(r) => Untouched(r)')
  BY <1>3, <1>5 DEF Untouched, Aside, Unsettled
<1>7. \A r \in Requests : Fresh(r) => Fresh(r)'
  BY <1>2, <1>6, RequestTyped DEF Fresh, InHand, Untouched, Aside, WaitsOn
<1>8. UnaskedPlaced' /\ EventsPlaced'
  BY <1>7, FreshKept
<1>9. ConsumerPlaced(s)'
  <2>1. \A r \in WaitsOn(s) : Aside(r)' /\ r.session = s /\ asked[r] = turn[s]
    BY <1>3, <1>5 DEF Inv, WaitingPlaced, Aside, Unsettled, WaitsOn
  <2>2. ConsumerPlaced(s) /\ At(s, "reading") /\ events[s] = <<>> /\ ~open[s]
    BY DEF Inv, ConsumersPlaced
  <2>3. QED
    BY <2>1, <2>2, <1>2 DEF ConsumerPlaced, At
<1>10. ConsumersPlaced'
  BY <1>2, <1>6, <1>9, OthersKept DEF Apart
<1>11. WaitingPlaced'
  BY <1>2, <1>3, <1>5, WaitingTyped, RequestTyped DEF Inv, WaitingPlaced, Unsettled, WaitsOn, At
<1>12. SettledOnce' /\ RepliesPlaced'
  BY DEF Inv, SettledOnce, AnsweredOnce, RepliesPlaced, Unsettled, Of
<1>13. QED
  BY <1>4, <1>8, <1>10, <1>11, <1>12 DEF Inv

\* consume announces what was taken.
LEMMA PublishTakenInv == ASSUME Inv, NEW s \in Sessions, PublishTaken(s) PROVE Inv'
<1> USE DEF provider, ghost
<1>1. /\ At(s, "withdrawing") \/ At(s, "dropping")
      /\ UNCHANGED <<settings, provider, pending, allowed, timers, replying,
                     resending, heard, ghost, left>>
  BY DEF PublishTaken
<1> DEFINE R == consume[s].reqs
           pc(r) == IF At(s, "withdrawing") THEN "reading"
                    ELSE IF R = {r} THEN "over" ELSE "dropping"
<1> PICK r \in R :
      /\ announced' = [announced EXCEPT ![r] = @ + 1]
      /\ cards' = cards \ {r}
      /\ recorded' = IF At(s, "dropping") THEN Recorded(r) ELSE recorded
      /\ Go(s, pc(r), R \ {r})
    BY DEF PublishTaken
<1>2. r \in Requests /\ R \ {r} \in SUBSET Requests
      /\ pc(r) \in {"over", "reading", "dropping"}
  BY DEF Inv, TypeOK, Consumer
<1>3. /\ consume' \in [Sessions -> Consumer]
      /\ consume'[s] = [pc |-> pc(r), reqs |-> R \ {r}]
      /\ \A t \in Sessions : t # s => consume'[t] = consume[t]
  BY <1>2, Gone DEF Inv
<1>4. /\ announced' \in [Requests -> Nat] /\ recorded' \subseteq Requests
      /\ cards' \subseteq Requests
  BY <1>2 DEF Inv, TypeOK, Recorded
<1>5. TypeOK'
  BY <1>1, <1>3, <1>4 DEF Inv, TypeOK
<1>6. /\ \A q : InProgress(q)' <=> InProgress(q)
      /\ Waiting' = Waiting /\ r \notin Waiting /\ ~InProgress(r) /\ Unsettled(r)
      /\ r.session = s
      /\ \A q \in Requests : q # r => /\ (Unsettled(q)' <=> Unsettled(q))
                                   /\ (Aside(q)' <=> Aside(q))
                                   /\ (Untouched(q)' <=> Untouched(q))
  <2>1. \A q : InProgress(q)' <=> InProgress(q)
    BY <1>1 DEF InProgress
  <2>2. Waiting' = Waiting
    BY <1>1 DEF Waiting
  <2>3. Aside(r) /\ r.session = s
    BY <1>1 DEF Inv, ConsumersPlaced, ConsumerPlaced, InHand, At
  <2>4. \A q \in Requests : q # r => announced'[q] = announced[q]
    BY <1>2 DEF Inv, TypeOK
  <2>5. QED
    BY <2>1, <2>2, <2>3, <2>4, <1>1 DEF Untouched, Aside, Unsettled
<1>7. \A q \in Requests : Fresh(q) => Fresh(q)'
  <2>1. \A q \in Requests : Fresh(q) => q # r
    BY <1>1, <1>6 DEF Fresh, InHand, At
  <2>2. QED
    BY <2>1, <1>1, <1>2, <1>3, <1>6, RequestTyped DEF Fresh, InHand, At
<1>8. UnaskedPlaced' /\ EventsPlaced'
  BY <1>1, <1>7, FreshKept
<1>9. ConsumersPlaced'
  <2>1. ConsumerPlaced(s) /\ R \subseteq Requests
    BY DEF Inv, TypeOK, Consumer, ConsumersPlaced
  <2>2. pc(r) = "reading" \/ pc(r) = "over" => R \ {r} = {}
    BY <2>1, <1>1 DEF ConsumerPlaced, At
  <2>3. At(s, "dropping") => ~open[s] /\ events[s] = <<>>
    BY <2>1 DEF ConsumerPlaced, At
  <2>4. \A q \in R \ {r} : q.session = s /\ asked[q] = turn[s] /\ Aside(q)'
    BY <2>1, <1>1, <1>6 DEF ConsumerPlaced, InHand, At
  <2>5. ConsumerPlaced(s)'
    BY <2>1, <2>2, <2>3, <2>4, <1>1, <1>3 DEF ConsumerPlaced, At
  <2>6. QED
    BY <2>5, <1>1, <1>3, <1>6, OthersKept DEF Apart
<1>10. WaitingPlaced'
  <2>1. At(s, "dropping") => \A q \in Waiting : q.session # s
    BY DEF Inv, WaitingPlaced, At
  <2>2. QED
    BY <2>1, <1>1, <1>3, <1>6, WaitingTyped, RequestTyped DEF Inv, WaitingPlaced, At
<1>11. RepliesPlaced'
  <2>1. \A w \in replying : Of(w) \subseteq Requests /\ r \notin Of(w)
    BY <1>6 DEF Inv, TypeOK, Reply, InProgress, Of
  <2>2. QED
    BY <2>1, <1>1, <1>6 DEF Inv, RepliesPlaced, Of
<1>12. SettledOnce'
  BY <1>1, <1>2, <1>6 DEF Inv, TypeOK, SettledOnce, AnsweredOnce, Unsettled
<1>13. QED
  BY <1>5, <1>8, <1>9, <1>10, <1>11, <1>12 DEF Inv

\* What Take takes is in nobody else's hands: a user answers it, with whatever

\* the same allow covers.
LEMMA AnswerInv ==
    ASSUME Inv, NEW s \in Sessions, NEW r \in Requests, NEW remember \in Remember,
           Answer(s, r, remember)
    PROVE  Inv'
<1> USE DEF provider, told
<1> DEFINE a == Allow(allowed[s], r, remember)
           more == IF remember = "no" THEN {} ELSE {q \in WaitsOn(s) \ {r} : Covers(a, q)}
           w == NewReply(r, "user", more)
<1>1. /\ r \in Waiting /\ r.session = s
      /\ allowed' = [allowed EXCEPT ![s] = a]
      /\ Take(more \cup {r})
      /\ replying' = replying \cup {w}
      /\ grants' = IF remember = "no" THEN grants
                   ELSE grants \cup {[req |-> r, remember |-> remember]}
      /\ UNCHANGED <<settings, provider, consume, resending, cards, told,
                     promised, held, left>>
  BY DEF Answer, Covered, Addressed
<1>2. allowed' \in [Sessions -> Allowance]
  <2>1. allowed[s] \in Allowance /\ r \in Request
    BY RequestsAssumption DEF Inv, TypeOK
  <2>2. a \in Allowance
    BY <2>1 DEF Allow, Allowance, Request, Remember
  <2>3. QED
    BY <1>1, <2>2 DEF Inv, TypeOK
<1>3. /\ pending' \subseteq pending /\ Waiting' = Waiting \ (more \cup {r})
      /\ timers' \in [Requests -> {"unset", "armed", "fired", "stopped", "done"}]
      /\ \A q \in Requests : timers[q] = "unset" => timers'[q] = "unset"
  BY <1>1, Taken DEF Inv
<1>4. grants' \subseteq [req : Requests, remember : Remember]
  BY <1>1 DEF Inv, TypeOK
<1>5. more \subseteq Waiting /\ more \subseteq Requests /\ r \notin more
  BY WaitingTyped DEF Inv, WaitsOn
<1>6. w \in Reply /\ Of(w) = {r} \cup more /\ w.req \notin w.more
  BY <1>5 DEF NewReply, Reply, Answerers, Of
<1>7. \A q \in Of(w) : Unsettled(q) /\ asked[q] # 0 /\ ~InProgress(q)
  <2> SUFFICES ASSUME NEW q \in Of(w)
               PROVE  Unsettled(q) /\ asked[q] # 0 /\ ~InProgress(q)
    OBVIOUS
  <2>1. q \in Waiting /\ q.session \in Sessions
    BY <1>1, <1>5, <1>6, RequestTyped
  <2>2. /\ Unsettled(q) /\ ~InProgress(q) /\ asked[q] = turn[q.session]
        /\ ~At(q.session, "over")
    BY <2>1 DEF Inv, WaitingPlaced, Unsettled
  <2>3. turn[q.session] > 0
    BY <2>1, <2>2 DEF Inv, ConsumersPlaced, ConsumerPlaced, InHand, Aside, Unsettled
  <2>4. QED
    BY <2>2, <2>3
<1>8. /\ replying' \subseteq Reply /\ RepliesPlaced'
      /\ \A q : InProgress(q)' <=> (InProgress(q) \/ q \in Of(w))
  BY <1>1, <1>6, <1>7, ReplyAdded
<1>9. TypeOK'
  BY <1>1, <1>2, <1>3, <1>4, <1>8 DEF Inv, TypeOK
<1>10. \A q \in Requests : (Aside(q) => Aside(q)') /\ (Untouched(q) => Untouched(q)')
  BY <1>1, <1>3, <1>5, <1>6, <1>8 DEF Untouched, Aside, Unsettled
<1>11. UnaskedPlaced' /\ EventsPlaced' /\ ConsumersPlaced'
  BY <1>1, <1>10, Beside
<1>12. WaitingPlaced'
  BY <1>1, <1>3, <1>6, <1>8 DEF Inv, WaitingPlaced, Unsettled, At
<1>13. SettledOnce'
  BY <1>1 DEF Inv, SettledOnce, AnsweredOnce
<1>14. QED
  BY <1>8, <1>9, <1>11, <1>12, <1>13 DEF Inv

\* A held request waits on.
LEMMA HoldInv ==
    ASSUME Inv, NEW s \in Sessions, NEW r \in Requests, Hold(s, r) PROVE Inv'
<1> USE DEF Hold, provider, told
<1>1. /\ pending' \subseteq Pending /\ Waiting' = Waiting
      /\ \A x, y \in pending' : x.req = y.req => x = y
  <2> DEFINE p == [req |-> r, counting |-> TRUE]
             n == [req |-> r, counting |-> FALSE]
  <2>1. /\ p \in pending /\ n \in Pending /\ pending' = (pending \ {p}) \cup {n}
        /\ pending \subseteq Pending
        /\ \A x, y \in pending : x.req = y.req => x = y
    BY DEF HeldInstead, Inv, TypeOK, Pending
  <2>2. \A x, y \in pending' : x.req = y.req => x = y
    <3>1. p.req = r /\ n.req = r
      OBVIOUS
    <3>2. \A x \in pending \ {p} : x.req # r
      BY <2>1, <3>1
    <3>3. QED
      BY <2>1, <3>1, <3>2
  <2>3. Waiting' = Waiting
    <3>1. r \in Waiting /\ r \in Waiting'
      BY <2>1 DEF Waiting
    <3>2. \A x \in pending : x.req \in Waiting'
      BY <2>1, <3>1 DEF Waiting
    <3>3. \A x \in pending' : x.req \in Waiting
      BY <2>1, <3>1 DEF Waiting
    <3>4. QED
      BY <3>2, <3>3 DEF Waiting
  <2>4. QED
    BY <2>1, <2>2, <2>3
<1>2. /\ timers' \in [Requests -> {"unset", "armed", "fired", "stopped", "done"}]
      /\ \A q \in Requests : timers[q] = "unset" => timers'[q] = "unset"
  BY StoppedTyped DEF Inv
<1>3. left' \in [Kinds -> Nat] /\ held' \subseteq Requests /\ resending' \subseteq Requests
  BY SpendTyped DEF Inv, TypeOK, Kinds
<1>4. TypeOK'
  BY <1>1, <1>2, <1>3 DEF Inv, TypeOK
<1>5. \A q : InProgress(q)' <=> InProgress(q)
  BY DEF InProgress
<1>6. \A q \in Requests : (Aside(q) => Aside(q)') /\ (Untouched(q) => Untouched(q)')
  BY <1>1, <1>2, <1>5 DEF Untouched, Aside, Unsettled
<1>7. UnaskedPlaced' /\ EventsPlaced' /\ ConsumersPlaced'
  BY <1>6, Beside
<1>8. SettledOnce' /\ WaitingPlaced' /\ RepliesPlaced'
  BY <1>1, <1>5 DEF Inv, SettledOnce, AnsweredOnce, WaitingPlaced, Unsettled,
         RepliesPlaced, Of, At
<1>9. QED
  BY <1>4, <1>7, <1>8 DEF Inv

\* It is shown again.
LEMMA PublishHeldInv == ASSUME Inv, NEW r \in Requests, PublishHeld(r) PROVE Inv'
<1> USE DEF PublishHeld, provider, told, ghost
<1>1. TypeOK'
  BY DEF Inv, TypeOK
<1>2. \A q : /\ (InProgress(q)' <=> InProgress(q)) /\ (Aside(q)' <=> Aside(q))
             /\ (Untouched(q)' <=> Untouched(q))
  BY DEF Untouched, Aside, Unsettled, InProgress, Waiting
<1>3. UnaskedPlaced' /\ EventsPlaced' /\ ConsumersPlaced'
  BY <1>2, Beside
<1>4. SettledOnce' /\ WaitingPlaced' /\ RepliesPlaced'
  BY <1>2 DEF Inv, SettledOnce, AnsweredOnce, WaitingPlaced, Unsettled,
         Waiting, RepliesPlaced, Of, At
<1>5. QED
  BY <1>1, <1>3, <1>4 DEF Inv

\* A timer that was armed fires.
LEMMA FireTimerInv == ASSUME Inv, NEW r \in Requests, FireTimer(r) PROVE Inv'
<1> USE DEF FireTimer, provider, told, ghost
<1>1. /\ timers' \in [Requests -> {"unset", "armed", "fired", "stopped", "done"}]
      /\ \A q \in Requests : timers[q] = "unset" => timers'[q] = "unset"
  BY DEF Inv, TypeOK
<1>2. TypeOK'
  BY <1>1 DEF Inv, TypeOK
<1>3. /\ \A q : InProgress(q)' <=> InProgress(q)
      /\ \A q \in Requests : (Aside(q) => Aside(q)') /\ (Untouched(q) => Untouched(q)')
  BY <1>1 DEF Untouched, Aside, Unsettled, InProgress, Waiting
<1>4. UnaskedPlaced' /\ EventsPlaced' /\ ConsumersPlaced'
  BY <1>3, Beside
<1>5. SettledOnce' /\ WaitingPlaced' /\ RepliesPlaced'
  BY <1>3 DEF Inv, SettledOnce, AnsweredOnce, WaitingPlaced, Unsettled,
         Waiting, RepliesPlaced, Of, At
<1>6. QED
  BY <1>2, <1>4, <1>5 DEF Inv

\* A timer that fired takes its request, if nobody else has.
LEMMA AutoAnswerInv == ASSUME Inv, NEW r \in Requests, AutoAnswer(r) PROVE Inv'
<1> USE DEF provider, told, ghost
<1>1. /\ timers[r] = "fired" /\ timers' = [timers EXCEPT ![r] = "done"]
      /\ pending' = {p \in pending : p.req # r}
      /\ replying' = IF r \in Waiting
                     THEN replying \cup {NewReply(r, "timer", {})} ELSE replying
      /\ UNCHANGED <<settings, provider, consume, allowed, resending, cards, told, ghost, left>>
  BY DEF AutoAnswer, StillThere
<1>2. /\ timers' \in [Requests -> {"unset", "armed", "fired", "stopped", "done"}]
      /\ \A q \in Requests : timers[q] = "unset" => timers'[q] = "unset" /\ q # r
  BY <1>1 DEF Inv, TypeOK
<1>3. pending' \subseteq pending /\ Waiting' = Waiting \ {r}
  BY <1>1 DEF Inv, TypeOK, Waiting, Pending
<1>4. /\ replying' \subseteq Reply /\ RepliesPlaced'
      /\ \A q : q # r \/ r \notin Waiting => (InProgress(q)' <=> InProgress(q))
  <2>1. CASE r \in Waiting
    <3> DEFINE w == NewReply(r, "timer", {})
    <3>1. w \in Reply /\ Of(w) = {r} /\ w.req \notin w.more
      BY DEF NewReply, Reply, Answerers, Of
    <3>2. /\ Unsettled(r) /\ ~InProgress(r) /\ asked[r] = turn[r.session]
          /\ ~At(r.session, "over")
      BY <2>1 DEF Inv, WaitingPlaced, Unsettled
    <3>3. turn[r.session] > 0
      BY <3>2, RequestTyped DEF Inv, ConsumersPlaced, ConsumerPlaced, InHand, Aside, Unsettled
    <3>4. QED
      BY <1>1, <2>1, <3>1, <3>2, <3>3, ReplyAdded
  <2>2. CASE r \notin Waiting
    BY <1>1, <2>2 DEF Inv, TypeOK, RepliesPlaced, Unsettled, InProgress, Of
  <2>3. QED
    BY <2>1, <2>2
<1>5. TypeOK'
  BY <1>1, <1>2, <1>3, <1>4 DEF Inv, TypeOK
<1>6. \A q \in Requests : (Aside(q) => Aside(q)') /\ (Untouched(q) => Untouched(q)')
  BY <1>1, <1>2, <1>3, <1>4 DEF Untouched, Aside, Unsettled
<1>7. UnaskedPlaced' /\ EventsPlaced' /\ ConsumersPlaced'
  BY <1>1, <1>6, Beside
<1>8. SettledOnce' /\ WaitingPlaced'
  BY <1>1, <1>3, <1>4 DEF Inv, SettledOnce, AnsweredOnce, WaitingPlaced, Unsettled, At
<1>9. QED
  BY <1>4, <1>5, <1>7, <1>8 DEF Inv

\* A reply ends, and at most the next one of the same allow takes its place.
LEMMA AnsweredInv == ASSUME Inv, NEW r \in Requests, Answered(r) PROVE Inv'
<1> USE DEF provider
<1> PICK w \in replying :
        /\ w.req = r
        /\ heard' = IF Live(r) THEN [heard EXCEPT ![r] = Append(@, w.by)] ELSE heard
        /\ announced' = [announced EXCEPT ![r] = @ + 1]
        /\ recorded' = Recorded(r)
        /\ cards' = cards \ {r}
        /\ \/ Following(w) = {} /\ replying' = replying \ {w}
           \/ \E q \in Following(w) :
                 replying' = (replying \ {w}) \cup {NewReply(q, "task", w.more \ {q})}
        /\ consume' = Resumed(r)
        /\ UNCHANGED <<settings, provider, pending, allowed, timers, resending, ghost, left>>
    BY DEF Answered
<1> USE DEF ghost
<1>1. /\ w \in Reply /\ w.by \in Answerers /\ w.more \subseteq Requests
      /\ heard[r] = <<>> /\ announced[r] = 0 /\ r \notin w.more /\ Of(w) = {r} \cup w.more
  BY DEF Inv, TypeOK, Reply, RepliesPlaced, Unsettled, Of
<1>2. /\ heard' \in [Requests -> Seq(Answerers)] /\ Len(heard'[r]) <= 1
      /\ announced' \in [Requests -> Nat] /\ announced'[r] = 1
      /\ \A q \in Requests : q # r => heard'[q] = heard[q] /\ announced'[q] = announced[q]
  BY <1>1 DEF Inv, TypeOK
<1>3. /\ recorded' \subseteq Requests
      /\ cards' \subseteq Requests
  BY DEF Inv, TypeOK, Recorded
<1>4. /\ consume' \in [Sessions -> Consumer]
      /\ \A s \in Sessions : \/ consume'[s] = consume[s]
                             \/ consume'[s] = [pc |-> "reading", reqs |-> {}] /\ At(s, "replying")
  BY DEF Resumed, Asking, Inv, TypeOK, Consumer, At
<1>5. /\ replying' \subseteq Reply
      /\ \A v \in replying' : v.req \notin v.more
      /\ \A v \in replying' : (v \in replying /\ v # w) \/ Of(v) \subseteq Of(w) \ {r}
      /\ \A u, v \in replying' : u # v => u \in replying \ {w} \/ v \in replying \ {w}
  <2>1. CASE replying' = replying \ {w}
    BY <2>1 DEF Inv, TypeOK, RepliesPlaced, Unsettled
  <2>2. CASE \E q \in Following(w) :
                 replying' = (replying \ {w}) \cup {NewReply(q, "task", w.more \ {q})}
    <3> PICK q \in Following(w) :
                 replying' = (replying \ {w}) \cup {NewReply(q, "task", w.more \ {q})}
      BY <2>2
    <3> DEFINE v == NewReply(q, "task", w.more \ {q})
    <3>1. q \in w.more
      BY DEF Following
    <3>2. v \in Reply /\ v.req \notin v.more /\ Of(v) \subseteq Of(w) \ {r}
      BY <1>1, <3>1 DEF NewReply, Reply, Answerers, Of
    <3>3. QED
      BY <3>2 DEF Inv, TypeOK, RepliesPlaced, Unsettled
  <2>3. QED
    BY <2>1, <2>2
<1>6. \A v \in replying \ {w} : Of(v) \cap Of(w) = {}
  BY DEF Inv, RepliesPlaced, Unsettled
<1>7. InProgress(r) /\ \A q : InProgress(q)' => InProgress(q) /\ q # r
  <2>1. InProgress(r)
    BY DEF InProgress
  <2>2. ASSUME NEW q, NEW v \in replying', q \in Of(v) PROVE InProgress(q) /\ q # r
    <3>1. CASE v \in replying /\ v # w
      BY <2>2, <3>1, <1>1, <1>6 DEF InProgress, Of
    <3>2. CASE Of(v) \subseteq Of(w) \ {r}
      BY <2>2, <3>2 DEF InProgress, Of
    <3>3. QED
      BY <3>1, <3>2, <1>5
  <2>3. QED
    BY <2>1, <2>2 DEF InProgress, Of
<1>8. RepliesPlaced'
  <2>1. ASSUME NEW v \in replying', NEW q \in Of(v) PROVE Unsettled(q)' /\ asked'[q] # 0
    <3>1. q # r /\ Unsettled(q) /\ asked[q] # 0 /\ q \in Requests
      <4>1. CASE v \in replying /\ v # w
        BY <4>1, <1>1, <1>6, <2>1 DEF Inv, TypeOK, RepliesPlaced, Unsettled, Reply, Of
      <4>2. CASE Of(v) \subseteq Of(w) \ {r}
        BY <4>2, <1>1, <2>1 DEF Inv, RepliesPlaced, Unsettled
      <4>3. QED
        BY <4>1, <4>2, <1>5
    <3>2. QED
      BY <3>1, <1>2 DEF Unsettled
  <2>2. ASSUME NEW u \in replying', NEW v \in replying', u # v PROVE Of(u) \cap Of(v) = {}
    BY <2>2, <1>5, <1>6 DEF Inv, RepliesPlaced, Unsettled
  <2>3. QED
    BY <2>1, <2>2, <1>5 DEF RepliesPlaced, Unsettled, Of
<1>9. TypeOK'
  BY <1>2, <1>3, <1>4, <1>5 DEF Inv, TypeOK
<1>10. \A q \in Requests : (Aside(q) => Aside(q)') /\ (Untouched(q) => Untouched(q)')
  BY <1>2, <1>7 DEF Untouched, Aside, Unsettled, Waiting
<1>11. \A q \in Requests : Fresh(q) => Fresh(q)'
  BY <1>4, <1>10, RequestTyped DEF Fresh, InHand, At
<1>12. UnaskedPlaced' /\ EventsPlaced'
  BY <1>11, FreshKept
<1>13. ConsumersPlaced'
  <2> SUFFICES ASSUME NEW s \in Sessions PROVE ConsumerPlaced(s)'
    BY DEF ConsumersPlaced
  <2>1. ConsumerPlaced(s) /\ consume[s].reqs \subseteq Requests
    BY DEF Inv, TypeOK, Consumer, ConsumersPlaced
  <2>2. CASE consume'[s] = consume[s]
    BY <2>1, <2>2, <1>10 DEF ConsumerPlaced, InHand, Aside, Unsettled, At
  <2>3. CASE consume'[s] = [pc |-> "reading", reqs |-> {}] /\ At(s, "replying")
    BY <2>1, <2>3 DEF ConsumerPlaced, InHand, Aside, Unsettled, At
  <2>4. QED
    BY <2>2, <2>3, <1>4
<1>14. WaitingPlaced'
  <2>1. Waiting' = Waiting /\ Waiting \subseteq Requests
    BY WaitingTyped DEF Inv, Waiting
  <2>2. ASSUME NEW q \in Waiting
        PROVE  /\ Unsettled(q)' /\ ~InProgress(q)'
               /\ ~At(q.session, "over")' /\ ~At(q.session, "dropping")'
    <3>1. Unsettled(q) /\ ~InProgress(q) /\ q # r
      BY <1>7 DEF Inv, WaitingPlaced
    <3>2. q \in Requests /\ q.session \in Sessions
      BY <2>1, RequestTyped
    <3>3. QED
      BY <3>1, <3>2, <1>2, <1>4, <1>7 DEF Inv, WaitingPlaced, Unsettled, At
  <2>3. QED
    BY <2>1, <2>2 DEF Inv, WaitingPlaced
<1>15. SettledOnce'
  BY <1>2 DEF Inv, SettledOnce, AnsweredOnce
<1>16. QED
  BY <1>8, <1>9, <1>12, <1>13, <1>14, <1>15 DEF Inv

\* Every step leaves each request in one of its places.
LEMMA NextInv == Inv /\ [Next]_vars => Inv'
<1> SUFFICES ASSUME Inv, [Next]_vars PROVE Inv'
    OBVIOUS
<1>1. CASE ChangeSettings
  BY <1>1, ChangeSettingsInv
<1>2. CASE \E s \in Sessions : BeginTurn(s) \/ Ask(s) \/ Withdraw(s) \/ Close(s)
  BY <1>2, BeginTurnInv, AskInv, WithdrawInv, CloseInv
<1>3. CASE \E s \in Sessions : \/ Receive(s) \/ Decide(s) \/ PublishRequest(s)
                              \/ Drop(s) \/ PublishTaken(s)
  BY <1>3, ReceiveInv, DecideInv, PublishRequestInv, DropInv, PublishTakenInv
<1>4. CASE \E s \in Sessions, r \in Requests :
              Hold(s, r) \/ \E remember \in Remember : Answer(s, r, remember)
  BY <1>4, HoldInv, AnswerInv
<1>5. CASE \E r \in Requests : \/ FireTimer(r) \/ AutoAnswer(r) \/ PublishHeld(r)
                              \/ Answered(r)
  BY <1>5, FireTimerInv, AutoAnswerInv, PublishHeldInv, AnsweredInv
<1>6. CASE UNCHANGED vars
  <2> USE <1>6 DEF vars, provider, runner, told, ghost
  <2>1. TypeOK'
    BY DEF Inv, TypeOK
  <2>2. \A r \in Requests : (Aside(r) => Aside(r)') /\ (Untouched(r) => Untouched(r)')
    BY DEF Untouched, Aside, Unsettled, Waiting, InProgress
  <2>3. UnaskedPlaced' /\ EventsPlaced' /\ ConsumersPlaced'
    BY <2>2, Beside
  <2>4. SettledOnce' /\ WaitingPlaced' /\ RepliesPlaced'
    BY DEF Inv, SettledOnce, AnsweredOnce, WaitingPlaced, Unsettled,
         Waiting, InProgress, RepliesPlaced, Of, At
  <2>5. QED
    BY <2>1, <2>3, <2>4 DEF Inv
<1>7. QED
  BY <1>1, <1>2, <1>3, <1>4, <1>5, <1>6 DEF Next

\* A request is always in one of its places.
LEMMA SpecInv == Spec => []Inv
BY InitInv, NextInv, PTL DEF Spec

\* Every variable keeps its type, and a request waits once.
THEOREM TypeCorrect == Spec => []TypeOK
<1>1. Inv => TypeOK
  BY DEF Inv
<1>2. QED
  BY <1>1, SpecInv, PTL

\* The provider never gets a second answer to a request, however users, timers,

\* allows for the task, withdrawals and ends of turns interleave.
THEOREM OneAnswer == Spec => []AnsweredOnce
<1>1. Inv => AnsweredOnce
  BY DEF Inv, SettledOnce
<1>2. QED
  BY <1>1, SpecInv, PTL

\* dropApprovals leaves nothing: what waits belongs to the turn that runs.
THEOREM NoneOutlives == Spec => []NothingOutlivesItsTurn
<1>1. Inv => NothingOutlivesItsTurn
  BY DEF Inv, WaitingPlaced, Unsettled, NothingOutlivesItsTurn, At
<1>2. QED
  BY <1>1, SpecInv, PTL
-----------------------------------------------------------------------------
\* An allow adds, and what it covers was covered before or by itself.
LEMMA AllowAdds ==
    ASSUME NEW a \in Allowance, NEW r \in Requests, NEW remember \in Remember,
           NEW q \in Requests
    PROVE  /\ Covers(a, q) => Covers(Allow(a, r, remember), q)
           /\ Covers(Allow(a, r, remember), q)
                 => Covers(a, q) \/ Covers(Allow(Nothing, r, remember), q)
<1> USE DEF Covers, Allow, Nothing, Allowance
<1>1. CASE remember = "no"
  BY <1>1
<1>2. CASE remember = "task_all"
  BY <1>2
<1>3. CASE remember = "task"
  BY <1>3
<1>4. CASE remember = "task_command"
  BY <1>4
<1>5. QED
  BY <1>1, <1>2, <1>3, <1>4 DEF Remember

\* The steps by what they do to timers and to what waits.
Elsewhere == UNCHANGED <<pending, timers>>

\* Only registering, holding, taking and the countdown itself touch a timer or
\* what waits.
LEMMA TimerSteps ==
    ASSUME [Next]_vars
    PROVE  \/ Elsewhere
           \/ \E R : Take(R)
           \/ \E s \in Sessions : Decide(s)
           \/ \E s \in Sessions, r \in Requests : Hold(s, r)
           \/ \E r \in Requests : FireTimer(r) \/ AutoAnswer(r)
<1> USE DEF Elsewhere, provider, runner, told, ghost
<1>1. CASE UNCHANGED vars \/ ChangeSettings
  BY <1>1 DEF vars, ChangeSettings
<1>2. ASSUME NEW s \in Sessions, BeginTurn(s) \/ Ask(s) \/ Withdraw(s) \/ Close(s)
      PROVE  Elsewhere
  BY <1>2 DEF BeginTurn, Ask, Withdraw, Close
<1>3. ASSUME NEW s \in Sessions, PublishRequest(s) \/ PublishTaken(s)
      PROVE  Elsewhere
  BY <1>3 DEF PublishRequest, PublishTaken
<1>4. ASSUME NEW s \in Sessions, Receive(s) \/ Drop(s)
      PROVE  Elsewhere \/ \E R : Take(R)
  BY <1>4 DEF Receive, Drop
<1>5. ASSUME NEW s \in Sessions, NEW r \in Requests, NEW remember \in Remember,
             Answer(s, r, remember)
      PROVE  \E R : Take(R)
  BY <1>5 DEF Answer, Covered
<1>6. ASSUME NEW r \in Requests, PublishHeld(r) \/ Answered(r)
      PROVE  Elsewhere
  BY <1>6 DEF PublishHeld, Answered
<1>7. QED
  BY <1>1, <1>2, <1>3, <1>4, <1>5, <1>6 DEF Next
-----------------------------------------------------------------------------
Counting(r) == [req |-> r, counting |-> TRUE]

\* Every step keeps the countdowns to the requests that count down.
LEMMA TimersNext == Inv /\ TimersStopped /\ [Next]_vars => TimersStopped'
<1> SUFFICES ASSUME Inv, TimersStopped, [Next]_vars PROVE TimersStopped'
    OBVIOUS
<1> SUFFICES ASSUME NEW q \in Requests
             PROVE  /\ timers'[q] = "armed" => Counting(q) \in pending'
                    /\ Counting(q) \in pending' => timers'[q] \in {"armed", "fired"}
    BY DEF TimersStopped, Counting
<1>1. /\ timers[q] = "armed" => Counting(q) \in pending
      /\ Counting(q) \in pending => timers[q] \in {"armed", "fired"} /\ q \in Waiting
      /\ Counting(q).req = q
  BY DEF TimersStopped, Counting, Waiting
<1>2. CASE Elsewhere
  BY <1>1, <1>2 DEF Elsewhere
<1>3. CASE \E R : Take(R)
  BY <1>1, <1>3 DEF Take, Stopped
<1>4. ASSUME NEW s \in Sessions, Decide(s)
      PROVE  /\ timers'[q] = "armed" => Counting(q) \in pending'
             /\ Counting(q) \in pending' => timers'[q] \in {"armed", "fired"}
  <2> PICK r \in consume[s].reqs :
        \/ UNCHANGED <<pending, timers>>
        \/ /\ pending' = pending \cup {[req |-> r, counting |-> ModeFor(r) = "timeout"]}
           /\ timers' = Armed(r)
    BY <1>4 DEF Decide
  <2>1. r \in Requests /\ Untouched(r)
    BY <1>4 DEF Decide, Inv, TypeOK, Consumer, ConsumersPlaced, ConsumerPlaced
  <2>2. CASE UNCHANGED <<pending, timers>>
    BY <2>2, <1>1
  <2>3. CASE q # r /\ timers' = Armed(r)
             /\ pending' = pending \cup {[req |-> r, counting |-> ModeFor(r) = "timeout"]}
    <3>1. timers'[q] = timers[q]
      BY <2>1, <2>3 DEF Armed, Inv, TypeOK
    <3>2. Counting(q) \in pending' <=> Counting(q) \in pending
      BY <2>3 DEF Counting
    <3>3. QED
      BY <3>1, <3>2, <1>1
  <2>4. CASE q = r /\ timers' = Armed(r)
             /\ pending' = pending \cup {[req |-> r, counting |-> ModeFor(r) = "timeout"]}
    <3>1. Counting(r) \notin pending /\ timers[r] = "unset"
      BY <2>1, <2>4, <1>1 DEF Untouched, Aside
    <3>2. CASE ModeFor(r) = "timeout"
      <4>1. timers'[r] = "armed" /\ Counting(r) \in pending'
        BY <2>1, <2>4, <3>2 DEF Armed, Counting, Inv, TypeOK
      <4>2. QED
        BY <2>4, <4>1
    <3>3. CASE ModeFor(r) # "timeout"
      <4>1. timers'[r] = "unset" /\ Counting(r) \notin pending'
        BY <2>1, <2>4, <3>1, <3>3 DEF Armed, Counting, Inv, TypeOK
      <4>2. QED
        BY <2>4, <4>1
    <3>4. QED
      BY <3>2, <3>3
  <2>5. QED
    BY <2>2, <2>3, <2>4
<1>5. ASSUME NEW s \in Sessions, NEW r \in Requests, Hold(s, r)
      PROVE  /\ timers'[q] = "armed" => Counting(q) \in pending'
             /\ Counting(q) \in pending' => timers'[q] \in {"armed", "fired"}
  <2>1. /\ timers' = Stopped({r})
        /\ pending' = (pending \ {Counting(r)}) \cup {[req |-> r, counting |-> FALSE]}
    BY <1>5 DEF Hold, HeldInstead, Counting
  <2>2. CASE q = r
    <3>1. Counting(q) \notin pending' /\ timers'[q] # "armed"
      BY <2>1, <2>2 DEF Counting, Stopped
    <3>2. QED
      BY <3>1
  <2>3. CASE q # r
    <3>1. (Counting(q) \in pending' <=> Counting(q) \in pending) /\ timers'[q] = timers[q]
      BY <2>1, <2>3 DEF Counting, Stopped
    <3>2. QED
      BY <3>1, <1>1
  <2>4. QED
    BY <2>2, <2>3
<1>6. CASE \E r \in Requests : FireTimer(r)
  BY <1>1, <1>6 DEF FireTimer, Inv, TypeOK
<1>7. CASE \E r \in Requests : AutoAnswer(r)
  BY <1>1, <1>7 DEF AutoAnswer, Inv, TypeOK
<1>8. QED
  BY <1>2, <1>3, <1>4, <1>5, <1>6, <1>7, TimerSteps

\* A countdown runs exactly for the requests that wait for it.
THEOREM TimersRunForWaiting == Spec => []TimersStopped
<1>1. Init => TimersStopped
  BY DEF Init, TimersStopped
<1>2. QED
  BY <1>1, SpecInv, TimersNext, PTL DEF Spec
-----------------------------------------------------------------------------
\* A request that waits is offered, or consume is about to offer it.
Shown(r) == r \in cards \/ consume[r.session] = [pc |-> "publish", reqs |-> {r}]

\* No step hides a request that waits: publications of it add a card, and only
\* the announcement of one that no longer waits removes it.
LEMMA ShownNext == Inv /\ WaitingIsShown /\ [Next]_vars => WaitingIsShown'
<1> SUFFICES ASSUME Inv, WaitingIsShown, [Next]_vars, NEW q \in Waiting' PROVE Shown(q)'
    BY DEF WaitingIsShown, Shown
<1>1. Inv' /\ q \in Requests /\ q.session \in Sessions
  <2>1. Inv'
    BY NextInv
  <2>2. pending' \subseteq Pending
    BY <2>1 DEF Inv, TypeOK
  <2>3. QED
    BY <2>1, <2>2, RequestTyped DEF Waiting, Pending
<1> USE DEF provider, runner, told, ghost
<1>2. CASE q \notin Waiting
  <2>1. PICK s \in Sessions : Decide(s)
    <3>1. CASE Elsewhere
      BY <1>2, <3>1 DEF Elsewhere, Waiting
    <3>2. CASE \E R : Take(R)
      BY <1>2, <3>2 DEF Take, Waiting
    <3>3. CASE \E s \in Sessions, r \in Requests : Hold(s, r)
      <4>1. PICK s \in Sessions, r \in Requests : Hold(s, r)
        BY <3>3
      <4>2. r \in Waiting /\ pending' \subseteq pending \cup {[req |-> r, counting |-> FALSE]}
        BY <4>1 DEF Hold, HeldInstead, Addressed
      <4>3. QED
        BY <1>2, <4>2 DEF Waiting
    <3>4. CASE \E r \in Requests : FireTimer(r) \/ AutoAnswer(r)
      BY <1>2, <3>4 DEF FireTimer, AutoAnswer, Waiting
    <3>5. QED
      BY <3>1, <3>2, <3>3, <3>4, TimerSteps
  <2>2. PICK r \in consume[s].reqs : Go(s, "publish", {r}) /\ q = r
    <3>1. PICK r \in consume[s].reqs :
             \/ pending' = pending
             \/ /\ Go(s, "publish", {r})
                /\ pending' = pending \cup {[req |-> r, counting |-> ModeFor(r) = "timeout"]}
      BY <2>1 DEF Decide
    <3>2. pending' # pending
      BY <1>2 DEF Waiting
    <3>3. PICK p : p.req = r /\ pending' = pending \cup {p}
      BY <3>1, <3>2
    <3>4. q = r
      BY <1>2, <3>3 DEF Waiting
    <3>5. QED
      BY <3>1, <3>2, <3>4
  <2>3. r.session = s /\ r \in Requests
    BY <2>1 DEF Inv, TypeOK, Consumer, ConsumersPlaced, ConsumerPlaced
  <2>4. consume'[s] = [pc |-> "publish", reqs |-> {r}]
    BY <2>2, <2>3 DEF Go, Inv, TypeOK
  <2>5. QED
    BY <2>2, <2>3, <2>4 DEF Shown
<1>3. CASE q \in Waiting
  <2>1. Shown(q) /\ ~InProgress(q) /\ ~InHand(q)
    BY <1>1, <1>3 DEF WaitingIsShown, Shown, Inv, WaitingPlaced, ConsumersPlaced,
       ConsumerPlaced, InHand, At, Aside
  <2> DEFINE s == q.session
  <2>2. CASE cards \subseteq cards' /\ consume'[s] = consume[s]
    BY <2>1, <2>2 DEF Shown
  <2>3. CASE cards \subseteq cards' /\ ~At(s, "publish")
    BY <2>1, <2>3 DEF Shown, At
  <2>4. CASE \E r \in Requests : PublishHeld(r) \/ FireTimer(r) \/ AutoAnswer(r)
    BY <2>2, <2>4 DEF PublishHeld, FireTimer, AutoAnswer
  <2>5. CASE UNCHANGED vars \/ ChangeSettings
    BY <2>2, <2>5 DEF vars, ChangeSettings
  <2>6. ASSUME NEW t \in Sessions, Ask(t) \/ Withdraw(t) \/ Close(t) PROVE Shown(q)'
    BY <2>2, <2>6 DEF Ask, Withdraw, Close
  <2>7. ASSUME NEW t \in Sessions, BeginTurn(t) \/ Receive(t) \/ Decide(t) \/ Drop(t)
        PROVE  Shown(q)'
    <3>1. cards' = cards /\ ~At(t, "publish")
      BY <2>7 DEF BeginTurn, Receive, Decide, Drop, At
    <3>2. t # s => consume'[s] = consume[s]
      BY <1>1, <2>7 DEF BeginTurn, Receive, Decide, Drop, Go, Inv, TypeOK
    <3>3. QED
      BY <3>1, <3>2, <2>2, <2>3
  <2>8. ASSUME NEW t \in Sessions, PublishRequest(t) PROVE Shown(q)'
    <3>1. cards' = cards \cup consume[t].reqs /\ (t # s => consume'[s] = consume[s])
      BY <1>1, <2>8 DEF PublishRequest, Go, Inv, TypeOK
    <3>2. QED
      BY <2>1, <3>1 DEF Shown
  <2>9. ASSUME NEW t \in Sessions, PublishTaken(t) PROVE Shown(q)'
    <3>1. PICK r \in consume[t].reqs : cards' = cards \ {r}
      BY <2>9 DEF PublishTaken
    <3>2. InHand(r) /\ r.session = t
      BY <2>9 DEF PublishTaken, Inv, ConsumersPlaced, ConsumerPlaced, InHand, At
    <3>3. ~At(t, "publish") /\ (t # s => consume'[s] = consume[s])
      BY <1>1, <2>9 DEF PublishTaken, Go, Inv, TypeOK, At
    <3>4. QED
      BY <2>1, <3>1, <3>2, <3>3 DEF Shown, At
  <2>10. ASSUME NEW t \in Sessions, NEW r \in Requests,
                Hold(t, r) \/ \E remember \in Remember : Answer(t, r, remember)
         PROVE  Shown(q)'
    BY <2>2, <2>10 DEF Hold, Answer
  <2>11. ASSUME NEW r \in Requests, Answered(r) PROVE Shown(q)'
    <3>1. cards' = cards \ {r} /\ InProgress(r) /\ consume' = Resumed(r)
      BY <2>11 DEF Answered, InProgress
    <3>2. At(s, "publish") => consume'[s] = consume[s]
      BY <1>1, <3>1 DEF Resumed, Asking, At
    <3>3. QED
      BY <2>1, <3>1, <3>2 DEF Shown, At
  <2>12. QED
    BY <2>4, <2>5, <2>6, <2>7, <2>8, <2>9, <2>10, <2>11 DEF Next
<1>4. QED
  BY <1>2, <1>3

\* A window that follows the events offers whatever waits.
THEOREM WhatWaitsIsShown == Spec => []WaitingIsShown
<1>1. Init => WaitingIsShown
  BY DEF Init, WaitingIsShown, Waiting
<1>2. QED
  BY <1>1, SpecInv, ShownNext, PTL DEF Spec
-----------------------------------------------------------------------------
\* What only a user answers has no timer, and no reply of another's.
Reserved == promised \cup held
ReservedPlaced ==
    /\ \A r \in promised : timers[r] = "unset"
    /\ \A r \in held : timers[r] = "stopped"
    /\ \A r \in Reserved : heard[r] \in {<<>>, <<"user">>, <<"task">>}
    /\ \A w \in replying : w.req \in Reserved => w.by \in {"user", "task"}

\* A step that adds at most a reply of a user's, and stops timers.
LEMMA ReservedKept ==
    ASSUME Inv, ReservedPlaced, UNCHANGED <<heard, promised, held>>,
           timers' = timers \/ \E R : Take(R),
           \A w \in replying' : w \in replying \/ w.by \in {"user", "task"}
    PROVE  ReservedPlaced'
<1>1. \A r \in Requests : timers[r] \in {"unset", "stopped"} => timers'[r] = timers[r]
  BY DEF Take, Stopped
<1>2. Reserved \subseteq Requests
  BY DEF Inv, TypeOK, Reserved
<1>3. QED
  BY <1>1, <1>2 DEF ReservedPlaced, Reserved

\* No step gives what is reserved for the user to the countdown or the settings.
LEMMA ReservedNext == Inv /\ ReservedPlaced /\ [Next]_vars => ReservedPlaced'
<1> SUFFICES ASSUME Inv, ReservedPlaced, [Next]_vars PROVE ReservedPlaced'
    OBVIOUS
<1> USE DEF provider, runner, told, ghost
<1>1. CASE UNCHANGED vars \/ ChangeSettings
  BY <1>1, ReservedKept DEF vars, ChangeSettings
<1>2. ASSUME NEW s \in Sessions,
             BeginTurn(s) \/ Ask(s) \/ Withdraw(s) \/ Close(s) \/ PublishRequest(s) \/ PublishTaken(s)
      PROVE  ReservedPlaced'
  BY <1>2, ReservedKept DEF BeginTurn, Ask, Withdraw, Close, PublishRequest, PublishTaken
<1>3. ASSUME NEW s \in Sessions, Drop(s) PROVE ReservedPlaced'
  BY <1>3, ReservedKept DEF Drop
<1>4. ASSUME NEW s \in Sessions, Receive(s) PROVE ReservedPlaced'
  <2>1. /\ UNCHANGED <<heard, promised, held>>
        /\ timers' = timers \/ \E R : Take(R)
    BY <1>4 DEF Receive
  <2>2. \A w \in replying' : w \in replying \/ w.by = "task"
    BY <1>4 DEF Receive, NewReply
  <2>3. QED
    BY <2>1, <2>2, ReservedKept
<1>5. ASSUME NEW s \in Sessions, NEW r \in Requests, NEW remember \in Remember,
             Answer(s, r, remember)
      PROVE  ReservedPlaced'
  <2>1. /\ UNCHANGED <<heard, promised, held>>
        /\ \E R : Take(R)
    BY <1>5 DEF Answer, Covered
  <2>2. \A w \in replying' : w \in replying \/ w.by = "user"
    BY <1>5 DEF Answer, Covered, NewReply
  <2>3. QED
    BY <2>1, <2>2, ReservedKept
<1>6. ASSUME NEW r \in Requests, PublishHeld(r) PROVE ReservedPlaced'
  BY <1>6, ReservedKept DEF PublishHeld
<1>7. ASSUME NEW s \in Sessions, Decide(s) PROVE ReservedPlaced'
  <2> PICK r \in consume[s].reqs :
      /\ promised' = IF OnlyUser(r) THEN promised \cup {r} ELSE promised
      /\ \/ /\ ModeFor(r) = "immediate"
            /\ replying' = replying \cup {NewReply(r, "settings", {})}
            /\ UNCHANGED timers
         \/ /\ timers' = Armed(r)
            /\ UNCHANGED replying
    BY <1>7 DEF Decide
  <2>1. r \in Requests /\ Untouched(r)
    BY <1>7 DEF Decide, Inv, TypeOK, Consumer, ConsumersPlaced, ConsumerPlaced
  <2>2. heard[r] = <<>> /\ timers[r] = "unset" /\ r \notin promised /\ r \notin held
    BY <2>1 DEF Untouched, Aside, Unsettled, ReservedPlaced
  <2>3. UNCHANGED <<heard, held>> /\ promised \cup held \subseteq Requests
    BY <1>7 DEF Decide, Inv, TypeOK
  <2>4. OnlyUser(r) => ModeFor(r) = "wait"
    BY DEF OnlyUser, ModeFor
  <2>5. /\ \A q \in Requests : q # r => timers'[q] = timers[q]
        /\ ModeFor(r) = "wait" => timers'[r] = "unset" /\ replying' = replying
    BY <2>1, <2>2 DEF Armed, Inv, TypeOK
  <2>6. \A w \in replying' : w \in replying \/ (w.req = r /\ ModeFor(r) = "immediate")
    BY DEF NewReply
  <2>7. \A w \in replying : w.req # r
    BY <2>1 DEF Untouched, Aside, InProgress
  <2>8. QED
    BY <2>1, <2>2, <2>3, <2>4, <2>5, <2>6, <2>7 DEF ReservedPlaced, Reserved
<1>8. ASSUME NEW s \in Sessions, NEW r \in Requests, Hold(s, r) PROVE ReservedPlaced'
  <2>1. /\ r \in Waiting /\ timers' = Stopped({r})
        /\ held' = IF timers[r] = "armed" THEN held \cup {r} ELSE held
        /\ UNCHANGED <<heard, replying, promised>>
    BY <1>8 DEF Hold, Addressed
  <2>2. heard[r] = <<>> /\ \A w \in replying : w.req # r
    BY <2>1 DEF Inv, WaitingPlaced, Unsettled, InProgress
  <2>3. promised \cup held \subseteq Requests
    BY DEF Inv, TypeOK
  <2>4. /\ \A q \in Requests : timers[q] \in {"unset", "stopped"} => timers'[q] = timers[q]
        /\ timers[r] = "armed" => timers'[r] = "stopped"
    BY <2>1 DEF Stopped
  <2>5. QED
    BY <2>1, <2>2, <2>3, <2>4 DEF ReservedPlaced, Reserved
<1>9. ASSUME NEW r \in Requests, FireTimer(r) PROVE ReservedPlaced'
  BY <1>9 DEF FireTimer, ReservedPlaced, Reserved, Inv, TypeOK
<1>10. ASSUME NEW r \in Requests, AutoAnswer(r) PROVE ReservedPlaced'
  <2>1. /\ timers[r] = "fired" /\ timers' = [timers EXCEPT ![r] = "done"]
        /\ UNCHANGED <<heard, promised, held>>
    BY <1>10 DEF AutoAnswer
  <2>2. r \notin Reserved /\ Reserved \subseteq Requests
    BY <2>1 DEF ReservedPlaced, Reserved, Inv, TypeOK
  <2>3. \A w \in replying' : w \in replying \/ w.req = r
    BY <1>10 DEF AutoAnswer, NewReply
  <2>4. QED
    BY <2>1, <2>2, <2>3 DEF ReservedPlaced, Reserved, Inv, TypeOK
<1>11. ASSUME NEW r \in Requests, Answered(r) PROVE ReservedPlaced'
  <2> PICK w \in replying :
        /\ w.req = r
        /\ heard' = IF Live(r) THEN [heard EXCEPT ![r] = Append(@, w.by)] ELSE heard
        /\ \/ Following(w) = {} /\ replying' = replying \ {w}
           \/ \E q \in Following(w) :
                 replying' = (replying \ {w}) \cup {NewReply(q, "task", w.more \ {q})}
        /\ UNCHANGED <<timers, promised, held>>
    BY <1>11 DEF Answered
  <2>1. heard[r] = <<>> /\ w.by \in Answerers
    BY DEF Inv, TypeOK, Reply, RepliesPlaced, Unsettled, Of
  <2>2. /\ heard'[r] \in {<<>>, <<w.by>>}
        /\ \A q \in Requests : q # r => heard'[q] = heard[q]
    BY <2>1 DEF Inv, TypeOK
  <2>3. \A v \in replying' : v \in replying \/ v.by = "task"
    BY DEF NewReply
  <2>4. Reserved' = Reserved /\ Reserved \subseteq Requests
    BY DEF Reserved, Inv, TypeOK
  <2>5. r \in Reserved => heard'[r] \in {<<>>, <<"user">>, <<"task">>}
    BY <2>2 DEF ReservedPlaced
  <2>6. QED
    BY <2>2, <2>3, <2>4, <2>5 DEF ReservedPlaced
<1>12. QED
  BY <1>1, <1>2, <1>3, <1>4, <1>5, <1>6, <1>7, <1>8, <1>9, <1>10, <1>11 DEF Next

\* What is reserved for the user always stays with the user.
LEMMA ReservedAlways == Spec => []ReservedPlaced
<1>1. Init => ReservedPlaced
  BY DEF Init, ReservedPlaced, Reserved
<1>2. QED
  BY <1>1, SpecInv, ReservedNext, PTL DEF Spec

\* Nobody but the user allows what the settings leave to the user, whatever
\* the settings become.
THEOREM OnlyTheUser == Spec => []NeverForTheUser
<1>1. ReservedPlaced => NeverForTheUser
  BY DEF ReservedPlaced, Reserved, NeverForTheUser
<1>2. QED
  BY <1>1, ReservedAlways, PTL

\* The countdown never answers what was held before its time ran out.
THEOREM HeldForGood == Spec => []HeldWaits
<1>1. ReservedPlaced => HeldWaits
  BY DEF ReservedPlaced, Reserved, HeldWaits
<1>2. QED
  BY <1>1, ReservedAlways, PTL
-----------------------------------------------------------------------------
\* What a task is allowed, one of its users' answers allowed by itself.
GrantedIn(s, r) == \E g \in grants : /\ g.req.session = s
                                    /\ Covers(Allow(Nothing, g.req, g.remember), r)
Granted(r) == GrantedIn(r.session, r)

GrantsPlaced ==
    /\ \A s \in Sessions, r \in Requests : Covers(allowed[s], r) => GrantedIn(s, r)
    /\ \A w \in replying : /\ w.by = "task" => Granted(w.req)
                           /\ \A q \in w.more : Granted(q)
    /\ \A r \in Requests : heard[r] # <<>> /\ Head(heard[r]) = "task" => Granted(r)

\* A step that takes no grant back, and adds at most a reply of what is granted.
LEMMA GrantsKept ==
    ASSUME Inv, GrantsPlaced, UNCHANGED <<allowed, heard, grants>>,
           \A w \in replying' :
              \/ w \in replying
              \/ /\ w.by = "task" => Granted(w.req)
                 /\ \A q \in w.more : Granted(q)
    PROVE  GrantsPlaced'
BY DEF GrantsPlaced, Granted, GrantedIn

\* No step lets a task be allowed, or answered by an allow, beyond its grants.
LEMMA GrantsNext == Inv /\ GrantsPlaced /\ [Next]_vars => GrantsPlaced'
<1> SUFFICES ASSUME Inv, GrantsPlaced, [Next]_vars PROVE GrantsPlaced'
    OBVIOUS
<1> USE DEF provider, runner, told, ghost
<1>1. CASE UNCHANGED vars \/ ChangeSettings
  BY <1>1, GrantsKept DEF vars, ChangeSettings
<1>2. ASSUME NEW s \in Sessions,
             \/ BeginTurn(s) \/ Ask(s) \/ Withdraw(s) \/ Close(s)
             \/ PublishRequest(s) \/ PublishTaken(s) \/ Drop(s)
      PROVE  GrantsPlaced'
  BY <1>2, GrantsKept DEF BeginTurn, Ask, Withdraw, Close, PublishRequest, PublishTaken, Drop
<1>3. ASSUME NEW r \in Requests, PublishHeld(r) \/ FireTimer(r) PROVE GrantsPlaced'
  BY <1>3, GrantsKept DEF PublishHeld, FireTimer
<1>4. ASSUME NEW s \in Sessions, NEW r \in Requests, Hold(s, r) PROVE GrantsPlaced'
  BY <1>4, GrantsKept DEF Hold
<1>5. ASSUME NEW s \in Sessions, Receive(s) PROVE GrantsPlaced'
  <2> DEFINE r == Head(events[s]).req
  <2>1. UNCHANGED <<allowed, heard, grants>>
    BY <1>5 DEF Receive
  <2>2. \/ replying' = replying
        \/ /\ Head(events[s]).type = "approval" /\ Covers(allowed[s], r)
           /\ replying' = replying \cup {NewReply(r, "task", {})}
    BY <1>5 DEF Receive
  <2>3. r \in Requests /\ r.session = s
    <3>1. /\ events[s] # <<>> /\ events' = [events EXCEPT ![s] = Tail(@)]
      BY <1>5 DEF Receive
    <3>2. 1 \in 1..Len(events[s]) /\ Head(events[s]) = events[s][1]
      BY <3>1, Received DEF Inv
    <3>3. QED
      BY <3>2, EventTyped DEF Inv, EventsPlaced, EventPlaced
  <2>4. Covers(allowed[s], r) => Granted(r)
    BY <2>3 DEF GrantsPlaced, Granted
  <2>5. QED
    BY <2>1, <2>2, <2>4, GrantsKept DEF NewReply
<1>6. ASSUME NEW s \in Sessions, Decide(s) PROVE GrantsPlaced'
  <2>1. UNCHANGED <<allowed, heard, grants>>
    BY <1>6 DEF Decide
  <2>2. \A w \in replying' : w \in replying \/ (w.by = "settings" /\ w.more = {})
    BY <1>6 DEF Decide, NewReply
  <2>3. QED
    BY <2>1, <2>2, GrantsKept
<1>7. ASSUME NEW r \in Requests, AutoAnswer(r) PROVE GrantsPlaced'
  <2>1. UNCHANGED <<allowed, heard, grants>>
    BY <1>7 DEF AutoAnswer
  <2>2. \A w \in replying' : w \in replying \/ (w.by = "timer" /\ w.more = {})
    BY <1>7 DEF AutoAnswer, NewReply
  <2>3. QED
    BY <2>1, <2>2, GrantsKept
<1>8. ASSUME NEW s \in Sessions, NEW r \in Requests, NEW remember \in Remember,
             Answer(s, r, remember)
      PROVE  GrantsPlaced'
  <2> DEFINE a == Allow(allowed[s], r, remember)
             more == IF remember = "no" THEN {} ELSE {q \in WaitsOn(s) \ {r} : Covers(a, q)}
             g == [req |-> r, remember |-> remember]
  <2>1. /\ r.session = s
        /\ allowed' = [allowed EXCEPT ![s] = a]
        /\ replying' = replying \cup {NewReply(r, "user", more)}
        /\ grants' = IF remember = "no" THEN grants ELSE grants \cup {g}
        /\ heard' = heard
    BY <1>8 DEF Answer, Covered, Addressed
  <2>2. /\ allowed[s] \in Allowance /\ allowed'[s] = a
        /\ \A t \in Sessions : t # s => allowed'[t] = allowed[t]
    BY <2>1 DEF Inv, TypeOK
  <2>3. \A t, q : GrantedIn(t, q) => GrantedIn(t, q)'
    BY <2>1 DEF GrantedIn
  <2>4. \A q \in Requests : Covers(a, q) => GrantedIn(s, q)'
    <3> SUFFICES ASSUME NEW q \in Requests, Covers(a, q) PROVE GrantedIn(s, q)'
      OBVIOUS
    <3>1. CASE Covers(allowed[s], q)
      BY <3>1, <2>3 DEF GrantsPlaced
    <3>2. CASE ~Covers(allowed[s], q)
      <4>1. remember # "no"
        BY <3>2 DEF Allow, Remember
      <4>2. Covers(Allow(Nothing, r, remember), q)
        BY <3>2, <2>2, AllowAdds
      <4>3. g \in grants' /\ g.req = r /\ g.remember = remember
        BY <4>1, <2>1
      <4>4. QED
        BY <4>2, <4>3, <2>1 DEF GrantedIn
    <3>3. QED
      BY <3>1, <3>2
  <2>5. \A t \in Sessions, q \in Requests : Covers(allowed'[t], q) => GrantedIn(t, q)'
    BY <2>2, <2>3, <2>4 DEF GrantsPlaced
  <2>6. \A q \in more : q \in Requests /\ q.session = s /\ Covers(a, q)
    BY WaitingTyped DEF Inv, WaitsOn
  <2>7. \A w \in replying' : /\ w.by = "task" => Granted(w.req)'
                             /\ \A q \in w.more : Granted(q)'
    <3>1. ASSUME NEW w \in replying
          PROVE  /\ w.by = "task" => Granted(w.req)'
                 /\ \A q \in w.more : Granted(q)'
      BY <2>3 DEF GrantsPlaced, Granted
    <3>2. \A q \in more : Granted(q)'
      BY <2>4, <2>6 DEF Granted
    <3>3. NewReply(r, "user", more).by = "user" /\ NewReply(r, "user", more).more = more
      BY DEF NewReply
    <3>4. QED
      BY <3>1, <3>2, <3>3, <2>1
  <2>8. \A q \in Requests : heard'[q] # <<>> /\ Head(heard'[q]) = "task" => Granted(q)'
    BY <2>1, <2>3 DEF GrantsPlaced, Granted
  <2>9. QED
    BY <2>5, <2>7, <2>8 DEF GrantsPlaced
<1>9. ASSUME NEW r \in Requests, Answered(r) PROVE GrantsPlaced'
  <2> PICK w \in replying :
        /\ w.req = r
        /\ heard' = IF Live(r) THEN [heard EXCEPT ![r] = Append(@, w.by)] ELSE heard
        /\ \/ Following(w) = {} /\ replying' = replying \ {w}
           \/ \E q \in Following(w) :
                 replying' = (replying \ {w}) \cup {NewReply(q, "task", w.more \ {q})}
        /\ UNCHANGED <<allowed, grants>>
    BY <1>9 DEF Answered
  <2>1. heard[r] = <<>> /\ w.by \in Answerers
    BY DEF Inv, TypeOK, Reply, RepliesPlaced, Unsettled, Of
  <2>2. /\ heard'[r] \in {<<>>, <<w.by>>}
        /\ \A q \in Requests : q # r => heard'[q] = heard[q]
    BY <2>1 DEF Inv, TypeOK
  <2>3. \A t, q : GrantedIn(t, q)' <=> GrantedIn(t, q)
    BY DEF GrantedIn
  <2>4. \A v \in replying' :
           \/ v \in replying
           \/ v.by = "task" /\ v.req \in w.more /\ v.more \subseteq w.more
    BY DEF NewReply, Following
  <2>5. \A v \in replying' : /\ v.by = "task" => Granted(v.req)'
                             /\ \A q \in v.more : Granted(q)'
    BY <2>3, <2>4 DEF GrantsPlaced, Granted
  <2>6. heard'[r] # <<>> /\ Head(heard'[r]) = "task" => Granted(r)'
    <3>1. Head(<<w.by>>) = w.by
      OBVIOUS
    <3>2. QED
      BY <2>2, <2>3, <3>1 DEF GrantsPlaced, Granted
  <2>7. QED
    BY <2>2, <2>3, <2>5, <2>6 DEF GrantsPlaced, Granted
<1>10. QED
  BY <1>1, <1>2, <1>3, <1>4, <1>5, <1>6, <1>7, <1>8, <1>9 DEF Next

\* A task that was allowed nothing is asked about everything.
LEMMA NothingCovers == \A r : ~Covers(Nothing, r)
BY DEF Covers, Nothing

\* An allow for a task answers only that task's tool calls that it covers.
THEOREM GrantsStay == Spec => []GrantStaysInTask
<1>1. Init => GrantsPlaced
  BY NothingCovers DEF Init, GrantsPlaced
<1>2. GrantsPlaced => GrantStaysInTask
  BY DEF GrantsPlaced, Granted, GrantedIn, GrantStaysInTask, Covers
<1>3. QED
  BY <1>1, <1>2, SpecInv, GrantsNext, PTL DEF Spec
-----------------------------------------------------------------------------
\* An asked request that nobody announced yet is in one of these places, or was
\* swallowed for good.
OnItsWay(r) == \E i \in 1..Len(events[r.session]) :
                  /\ events[r.session][i].type = "approval"
                  /\ events[r.session][i].req = r
Kept(r) == OnItsWay(r) \/ InHand(r) \/ r \in Waiting \/ InProgress(r)
Lost(r) == /\ Covers(allowed[r.session], r)
           /\ \E g \in grants : /\ g.req # r /\ g.req.session = r.session
                                /\ heard[g.req] = <<>> /\ announced[g.req] = 1

\* What a user's allow took along is covered by it.
TakenAlong(w) ==
    w.by = "user" /\ w.more # {} =>
        /\ \E g \in grants : g.req = w.req
        /\ \A q \in w.more : q.session = w.req.session /\ Covers(allowed[q.session], q)

NoneForgotten ==
    /\ \A r \in Requests : asked[r] # 0 /\ announced[r] = 0 => Kept(r) \/ Lost(r)
    /\ \A w \in replying : TakenAlong(w)

\* What is lost stays lost: its allow was announced, and is over.
LEMMA LostKept ==
    ASSUME Inv, grants \subseteq grants', NEW r \in Requests, Lost(r),
           \A q \in Requests : announced[q] = 1 => heard'[q] = heard[q] /\ announced'[q] = 1,
           Covers(allowed[r.session], r) => Covers(allowed'[r.session], r)
    PROVE  Lost(r)'
BY DEF Lost, Inv, TypeOK

\* A step that moves requests from place to place.
LEMMA Moved ==
    ASSUME Inv, NoneForgotten, UNCHANGED <<allowed, grants, heard, announced, asked>>,
           \A q \in Requests : Kept(q) => Kept(q)',
           \A w \in replying' : w \in replying \/ w.more = {}
    PROVE  NoneForgotten'
<1>1. \A r \in Requests : Lost(r) => Lost(r)'
  BY DEF Lost
<1>2. \A w \in replying' : TakenAlong(w)'
  BY DEF NoneForgotten, TakenAlong
<1>3. QED
  BY <1>1, <1>2 DEF NoneForgotten

\* No step loses an unannounced request, but an allow whose own answer fails.
LEMMA ForgottenNext == Inv /\ NoneForgotten /\ [Next]_vars => NoneForgotten'
<1> SUFFICES ASSUME Inv, NoneForgotten, [Next]_vars PROVE NoneForgotten'
    OBVIOUS
<1> USE DEF provider, runner, told, ghost
<1>1. CASE UNCHANGED vars \/ ChangeSettings \/ \E r \in Requests : PublishHeld(r) \/ FireTimer(r)
  <2>1. UNCHANGED <<allowed, grants, heard, announced, asked, replying, events, consume, pending>>
    BY <1>1 DEF vars, ChangeSettings, PublishHeld, FireTimer
  <2>2. \A q : Kept(q)' <=> Kept(q)
    BY <2>1 DEF Kept, OnItsWay, InHand, Waiting, InProgress
  <2>3. QED
    BY <2>1, <2>2, Moved
<1>2. ASSUME NEW s \in Sessions, BeginTurn(s) \/ Close(s) \/ PublishRequest(s) PROVE NoneForgotten'
  <2>1. UNCHANGED <<allowed, grants, heard, announced, asked, replying, events, pending>>
    BY <1>2 DEF BeginTurn, Close, PublishRequest
  <2>2. \A q \in Requests : InHand(q) => InHand(q)'
    BY <1>2, RequestTyped DEF BeginTurn, Close, PublishRequest, Go, InHand, At, Inv, TypeOK, Consumer
  <2>3. \A q \in Requests : Kept(q) => Kept(q)'
    BY <2>1, <2>2 DEF Kept, OnItsWay, Waiting, InProgress
  <2>4. QED
    BY <2>1, <2>3, Moved
<1>3. ASSUME NEW s \in Sessions, Withdraw(s) PROVE NoneForgotten'
  <2> PICK r \in Requests :
        events' = [events EXCEPT ![s] = Append(@, [type |-> "resolved", req |-> r])]
    BY <1>3 DEF Withdraw
  <2>1. UNCHANGED <<allowed, grants, heard, announced, asked, replying, consume, pending>>
    BY <1>3 DEF Withdraw
  <2>2. PICK e \in Event : e = [type |-> "resolved", req |-> r]
    BY DEF Event
  <2>3. /\ Len(events'[s]) = Len(events[s]) + 1 /\ Len(events[s]) \in Nat
        /\ \A i \in 1..Len(events[s]) : events'[s][i] = events[s][i]
        /\ \A t \in Sessions : t # s => events'[t] = events[t]
    <3>1. TypeOK /\ events' = [events EXCEPT ![s] = Append(@, e)]
      BY <2>2 DEF Inv
    <3>2. QED
      BY <3>1, Appended
  <2>4. \A q \in Requests : OnItsWay(q) => OnItsWay(q)'
    BY <2>3, RequestTyped DEF OnItsWay
  <2>5. \A q \in Requests : Kept(q) => Kept(q)'
    BY <2>1, <2>4 DEF Kept, InHand, Waiting, InProgress
  <2>6. QED
    BY <2>1, <2>5, Moved
<1>4. ASSUME NEW s \in Sessions, Ask(s) PROVE NoneForgotten'
  <2> PICK r \in Requests :
        /\ r.session = s
        /\ asked' = [asked EXCEPT ![r] = turn[s]]
        /\ events' = [events EXCEPT ![s] = Append(@, [type |-> "approval", req |-> r])]
    BY <1>4 DEF Ask
  <2>1. UNCHANGED <<allowed, grants, heard, announced, replying, consume, pending>>
    BY <1>4 DEF Ask
  <2>2. PICK e \in Event : e = [type |-> "approval", req |-> r]
    BY DEF Event
  <2>3. /\ Len(events'[s]) = Len(events[s]) + 1 /\ Len(events[s]) \in Nat
        /\ events'[s][Len(events[s]) + 1] = [type |-> "approval", req |-> r]
        /\ \A i \in 1..Len(events[s]) : events'[s][i] = events[s][i]
        /\ \A t \in Sessions : t # s => events'[t] = events[t]
    <3>1. TypeOK /\ events' = [events EXCEPT ![s] = Append(@, e)]
      BY <2>2 DEF Inv
    <3>2. events'[s][Len(events[s]) + 1] = e
      BY <3>1, Appended
    <3>3. QED
      BY <3>1, <3>2, <2>2, Appended
  <2>4. \A q \in Requests : OnItsWay(q) => OnItsWay(q)'
    BY <2>3, RequestTyped DEF OnItsWay
  <2>5. OnItsWay(r)'
    BY <2>3 DEF OnItsWay
  <2>6. \A q \in Requests : q # r => asked'[q] = asked[q]
    BY DEF Inv, TypeOK
  <2>7. \A q \in Requests : (Kept(q) => Kept(q)') /\ (Lost(q) => Lost(q)')
    BY <2>1, <2>4 DEF Kept, Lost, InHand, Waiting, InProgress
  <2>8. QED
    BY <2>1, <2>5, <2>6, <2>7 DEF NoneForgotten, Kept, TakenAlong
<1>5. ASSUME NEW s \in Sessions, Receive(s) PROVE NoneForgotten'
  <2>1. /\ At(s, "reading") /\ events[s] # <<>>
        /\ events' = [events EXCEPT ![s] = Tail(@)]
        /\ UNCHANGED <<allowed, grants, heard, announced, asked>>
    BY <1>5 DEF Receive
  <2>2. /\ Head(events[s]) = events[s][1]
        /\ Len(events[s]) \in Nat /\ Len(events[s]) > 0 /\ Len(events'[s]) = Len(events[s]) - 1
        /\ \A i \in 1..Len(events'[s]) : events'[s][i] = events[s][i + 1]
        /\ \A t \in Sessions : t # s => events'[t] = events[t]
    BY <2>1, Received DEF Inv
  <2>3. 1 \in 1..Len(events[s])
    BY <2>2
  <2> PICK e \in Event : e = Head(events[s])
    BY <2>2, <2>3, EventTyped DEF Inv
  <2> PICK r \in Requests : r = e.req
    BY DEF Event
  <2>4. r.session = s
    BY <2>2, <2>3 DEF Inv, EventsPlaced, EventPlaced
  <2>5. \A q \in Requests : OnItsWay(q) => OnItsWay(q)' \/ (q = r /\ e.type = "approval")
    <3> SUFFICES ASSUME NEW q \in Requests, OnItsWay(q), ~(q = r /\ e.type = "approval")
                 PROVE  OnItsWay(q)'
      OBVIOUS
    <3>1. PICK i \in 1..Len(events[q.session]) : /\ events[q.session][i].type = "approval"
                                                /\ events[q.session][i].req = q
      BY DEF OnItsWay
    <3>2. CASE q.session # s
      BY <3>1, <3>2, <2>2, RequestTyped DEF OnItsWay
    <3>3. CASE q.session = s
      <4>1. i # 1
        BY <3>1, <3>3, <2>2
      <4>2. i - 1 \in 1..Len(events'[s]) /\ events'[s][i - 1] = events[s][i]
        <5>1. i - 1 \in 1..Len(events'[s]) /\ (i - 1) + 1 = i
          BY <4>1, <3>3, <2>2
        <5>2. QED
          BY <5>1, <2>2
      <4>3. QED
        BY <3>1, <3>3, <4>2 DEF OnItsWay
    <3>4. QED
      BY <3>2, <3>3
  <2>6. \A q \in Requests : InHand(q) => q.session # s
    BY <2>1 DEF InHand, At
  <2>7. CASE e.type = "approval"
    <3>1. pending' = pending
      BY <1>5, <2>7 DEF Receive
    <3>2. \/ /\ Go(s, "replying", {r})
             /\ replying' = replying \cup {NewReply(r, "task", {})}
          \/ Go(s, "asked", {r}) /\ replying' = replying
      BY <1>5, <2>7 DEF Receive
    <3>3. \A t \in Sessions : t # s => consume'[t] = consume[t]
      BY <3>2 DEF Go, Inv, TypeOK
    <3>4. InProgress(r)' \/ InHand(r)'
      <4>1. CASE replying' = replying \cup {NewReply(r, "task", {})}
        <5>1. NewReply(r, "task", {}) \in replying' /\ NewReply(r, "task", {}).req = r
          BY <4>1 DEF NewReply
        <5>2. QED
          BY <5>1 DEF InProgress
      <4>2. CASE Go(s, "asked", {r})
        <5>1. consume'[s] = [pc |-> "asked", reqs |-> {r}]
          BY <4>2 DEF Go, Inv, TypeOK
        <5>2. QED
          BY <5>1, <2>4 DEF InHand
      <4>3. QED
        BY <3>2, <4>1, <4>2
    <3>5. \A q \in Requests : Kept(q) => Kept(q)'
      BY <2>5, <2>6, <3>1, <3>2, <3>3, <3>4, RequestTyped DEF Kept, InHand, Waiting, InProgress
    <3>6. QED
      BY <2>1, <3>2, <3>5, Moved DEF NewReply
  <2>8. CASE e.type = "resolved"
    <3>1. /\ Take({r}) /\ replying' = replying
          /\ IF r \in Waiting THEN Go(s, "withdrawing", {r}) ELSE consume' = consume
      BY <1>5, <2>8 DEF Receive, StillWaits
    <3>2. Waiting' = Waiting \ {r}
      BY <3>1, Taken DEF Inv
    <3>3. \A t \in Sessions : t # s => consume'[t] = consume[t]
      BY <3>1 DEF Go, Inv, TypeOK
    <3>4. r \in Waiting => InHand(r)'
      BY <3>1, <2>4 DEF Go, InHand, Inv, TypeOK
    <3>5. \A q \in Requests : Kept(q) => Kept(q)'
      BY <2>5, <2>6, <2>8, <3>1, <3>2, <3>3, <3>4, RequestTyped DEF Kept, InHand, InProgress
    <3>6. QED
      BY <2>1, <3>1, <3>5, Moved
  <2>9. QED
    BY <2>7, <2>8 DEF Event
<1>6. ASSUME NEW s \in Sessions, Decide(s) PROVE NoneForgotten'
  <2>1. /\ At(s, "asked") /\ UNCHANGED <<allowed, grants, heard, announced, asked, events>>
    BY <1>6 DEF Decide
  <2> PICK r \in consume[s].reqs :
        \/ /\ Go(s, "replying", {r})
           /\ replying' = replying \cup {NewReply(r, "settings", {})}
           /\ pending' = pending
        \/ /\ Go(s, "publish", {r})
           /\ pending' = pending \cup {[req |-> r, counting |-> ModeFor(r) = "timeout"]}
           /\ replying' = replying
    BY <1>6 DEF Decide
  <2>2. consume[s].reqs = {r}
    BY <2>1 DEF Inv, ConsumersPlaced, ConsumerPlaced
  <2>3. r \in Waiting' \/ InProgress(r)'
    <3>1. CASE replying' = replying \cup {NewReply(r, "settings", {})}
      <4>1. NewReply(r, "settings", {}) \in replying' /\ NewReply(r, "settings", {}).req = r
        BY <3>1 DEF NewReply
      <4>2. QED
        BY <4>1 DEF InProgress
    <3>2. CASE pending' = pending \cup {[req |-> r, counting |-> ModeFor(r) = "timeout"]}
      <4> PICK p : p = [req |-> r, counting |-> ModeFor(r) = "timeout"]
        OBVIOUS
      <4>1. p \in pending'
        BY <3>2
      <4>2. p.req = r
        BY Zenon
      <4>3. QED
        BY <4>1, <4>2 DEF Waiting
    <3>3. QED
      BY <3>1, <3>2
  <2>4. \A t \in Sessions : t # s => consume'[t] = consume[t]
    BY DEF Go, Inv, TypeOK
  <2>5. \A q \in Requests : InHand(q) => InHand(q)' \/ q = r
    BY <2>2, <2>4, RequestTyped DEF InHand
  <2>6. Waiting \subseteq Waiting' /\ \A q : InProgress(q) => InProgress(q)'
    BY DEF Waiting, InProgress
  <2>7. \A q \in Requests : Kept(q) => Kept(q)'
    BY <2>1, <2>3, <2>5, <2>6 DEF Kept, OnItsWay
  <2>8. QED
    BY <2>1, <2>7, Moved DEF NewReply
<1>7. ASSUME NEW s \in Sessions, Drop(s) PROVE NoneForgotten'
  <2>1. /\ At(s, "reading") /\ Take(WaitsOn(s))
        /\ Go(s, IF WaitsOn(s) = {} THEN "over" ELSE "dropping", WaitsOn(s))
        /\ UNCHANGED <<allowed, grants, heard, announced, asked, events, replying>>
    BY <1>7 DEF Drop
  <2>2. Waiting' = Waiting \ WaitsOn(s)
    BY <2>1, Taken DEF Inv
  <2>3. \A t \in Sessions : t # s => consume'[t] = consume[t]
    BY <2>1 DEF Go, Inv, TypeOK
  <2>4. \A q \in WaitsOn(s) : InHand(q)'
    BY <2>1 DEF Go, InHand, WaitsOn, Inv, TypeOK
  <2>5. \A q \in Requests : InHand(q) => InHand(q)'
    BY <2>1, <2>3, RequestTyped DEF InHand, At
  <2>6. \A q \in Requests : Kept(q) => Kept(q)'
    BY <2>1, <2>2, <2>4, <2>5 DEF Kept, OnItsWay, InProgress
  <2>7. QED
    BY <2>1, <2>6, Moved
<1>8. ASSUME NEW s \in Sessions, NEW r \in Requests, Hold(s, r) PROVE NoneForgotten'
  <2>1. /\ UNCHANGED <<allowed, grants, heard, announced, asked, events, replying, consume>>
        /\ pending' = HeldInstead(r)
    BY <1>8 DEF Hold
  <2>2. Waiting \subseteq Waiting'
    <3> SUFFICES ASSUME NEW q \in Waiting PROVE \E p \in pending' : p.req = q
      BY DEF Waiting
    <3>1. PICK p \in pending : p.req = q
      BY DEF Waiting
    <3>2. CASE p = [req |-> r, counting |-> TRUE]
      <4>1. q = r /\ [req |-> r, counting |-> FALSE] \in pending'
        BY <2>1, <3>1, <3>2 DEF HeldInstead
      <4>2. QED
        BY <4>1
    <3>3. CASE p # [req |-> r, counting |-> TRUE]
      BY <2>1, <3>1, <3>3 DEF HeldInstead
    <3>4. QED
      BY <3>2, <3>3
  <2>3. \A q \in Requests : Kept(q) => Kept(q)'
    BY <2>1, <2>2 DEF Kept, OnItsWay, InHand, InProgress
  <2>4. QED
    BY <2>1, <2>3, Moved
<1>9. ASSUME NEW r \in Requests, AutoAnswer(r) PROVE NoneForgotten'
  <2>1. /\ UNCHANGED <<allowed, grants, heard, announced, asked, events, consume>>
        /\ pending' = {p \in pending : p.req # r}
        /\ replying' = IF r \in Waiting
                       THEN replying \cup {NewReply(r, "timer", {})} ELSE replying
    BY <1>9 DEF AutoAnswer, StillThere
  <2>2. \A q \in Waiting : q \in Waiting' \/ InProgress(q)'
    BY ZenonT(40), <2>1 DEF Waiting, InProgress, NewReply
  <2>3. \A q : InProgress(q) => InProgress(q)'
    BY <2>1 DEF InProgress
  <2>4. \A q \in Requests : Kept(q) => Kept(q)'
    BY <2>1, <2>2, <2>3 DEF Kept, OnItsWay, InHand
  <2>5. QED
    BY <2>1, <2>4, Moved DEF NewReply
<1>10. ASSUME NEW s \in Sessions, PublishTaken(s) PROVE NoneForgotten'
  <2>1. /\ At(s, "withdrawing") \/ At(s, "dropping")
        /\ UNCHANGED <<allowed, grants, heard, asked, events, pending, replying>>
    BY <1>10 DEF PublishTaken
  <2> DEFINE R == consume[s].reqs
             pc(r) == IF At(s, "withdrawing") THEN "reading"
                      ELSE IF R = {r} THEN "over" ELSE "dropping"
  <2> PICK r \in R : /\ announced' = [announced EXCEPT ![r] = @ + 1]
                     /\ Go(s, pc(r), R \ {r})
    BY <1>10 DEF PublishTaken
  <2>2. ConsumerPlaced(s) /\ R \subseteq Requests
    BY DEF Inv, TypeOK, Consumer, ConsumersPlaced
  <2>3. announced[r] = 0 /\ announced'[r] = 1
    <3>1. r \in Requests /\ r.session = s
      BY <2>2 DEF ConsumerPlaced
    <3>2. InHand(r)
      BY <2>1, <3>1 DEF InHand, At
    <3>3. announced[r] = 0
      BY <2>2, <3>2 DEF ConsumerPlaced, Aside, Unsettled
    <3>4. QED
      BY <3>1, <3>3 DEF Inv, TypeOK
  <2>4. \A q \in Requests : q # r => announced'[q] = announced[q]
    BY DEF Inv, TypeOK
  <2>5. consume'[s] = [pc |-> pc(r), reqs |-> R \ {r}]
        /\ \A t \in Sessions : t # s => consume'[t] = consume[t]
    BY DEF Go, Inv, TypeOK
  <2>6. \A q \in Requests : q # r /\ InHand(q) => InHand(q)'
    <3>1. At(s, "withdrawing") => R = {r}
      BY <2>2 DEF ConsumerPlaced
    <3>2. QED
      BY <3>1, <2>1, <2>5, RequestTyped DEF InHand, At
  <2>7. \A q \in Requests : q # r /\ Kept(q) => Kept(q)'
    BY <2>1, <2>6 DEF Kept, OnItsWay, Waiting, InProgress
  <2>8. \A q \in Requests : Lost(q) => Lost(q)'
    BY <2>1, <2>3, <2>4, LostKept
  <2>9. \A w \in replying' : TakenAlong(w)'
    BY <2>1 DEF NoneForgotten, TakenAlong
  <2>10. QED
    BY <2>1, <2>3, <2>4, <2>7, <2>8, <2>9 DEF NoneForgotten
<1>11. ASSUME NEW s \in Sessions, NEW r \in Requests, NEW remember \in Remember,
              Answer(s, r, remember)
       PROVE  NoneForgotten'
  <2> DEFINE a == Allow(allowed[s], r, remember)
             more == IF remember = "no" THEN {} ELSE {q \in WaitsOn(s) \ {r} : Covers(a, q)}
             w == NewReply(r, "user", more)
  <2>1. /\ r.session = s
        /\ allowed' = [allowed EXCEPT ![s] = a]
        /\ Take(more \cup {r})
        /\ replying' = replying \cup {w}
        /\ grants' = IF remember = "no" THEN grants
                     ELSE grants \cup {[req |-> r, remember |-> remember]}
        /\ UNCHANGED <<heard, announced, asked, events, consume>>
    BY <1>11 DEF Answer, Covered, Addressed
  <2>2. /\ allowed[s] \in Allowance /\ allowed'[s] = a
        /\ \A t \in Sessions : t # s => allowed'[t] = allowed[t]
    BY <2>1 DEF Inv, TypeOK
  <2>3. \A q \in Requests : Covers(allowed[q.session], q) => Covers(allowed'[q.session], q)
    BY <2>2, AllowAdds, RequestTyped
  <2>4. grants \subseteq grants'
    BY <2>1
  <2>5. Waiting' = Waiting \ (more \cup {r})
    BY <2>1, Taken DEF Inv
  <2> HIDE DEF a, more
  <2>12. w.req = r /\ w.more = more /\ w.by = "user"
    BY DEF NewReply
  <2> PICK v : v = w
    OBVIOUS
  <2> PICK taken : taken = more
    OBVIOUS
  <2> HIDE DEF w
  <2>6. \A q : (InProgress(q) \/ q \in taken \cup {r}) => InProgress(q)'
    <3>1. v.req = r /\ v.more = taken /\ replying' = replying \cup {v}
      BY <2>1, <2>12
    <3>2. QED
      BY <3>1 DEF InProgress
  <2>7. \A q \in Requests : Kept(q) => Kept(q)'
    <3>1. Waiting' = Waiting \ (taken \cup {r})
      BY <2>5
    <3>2. QED
      BY <2>1, <3>1, <2>6 DEF Kept, OnItsWay, InHand
  <2>8. \A q \in Requests : Lost(q) => Lost(q)'
    BY <2>1, <2>3, <2>4, LostKept
  <2>9. ASSUME NEW u \in replying PROVE TakenAlong(u)'
    <3>1. u.more \subseteq Requests /\ TakenAlong(u)
      BY DEF Inv, TypeOK, Reply, NoneForgotten
    <3>2. QED
      BY <3>1, <2>3, <2>4 DEF TakenAlong
  <2>10. TakenAlong(v)'
    <3>1. v.req = r /\ v.more = taken /\ allowed'[s] = a
      BY <2>2, <2>12
    <3>2. \A q \in taken : q.session = s /\ Covers(a, q)
      BY DEF WaitsOn, more
    <3>3. taken # {} => [req |-> r, remember |-> remember] \in grants'
      BY <2>1 DEF more
    <3>4. taken # {} => \E g \in grants' : g.req = r
      BY <3>3
    <3>5. QED
      BY <3>1, <3>2, <3>4, <2>1 DEF TakenAlong
  <2>11. QED
    BY <2>1, <2>7, <2>8, <2>9, <2>10 DEF NoneForgotten
<1>12. ASSUME NEW r \in Requests, Answered(r) PROVE NoneForgotten'
  <2> PICK w \in replying :
        /\ w.req = r
        /\ heard' = IF Live(r) THEN [heard EXCEPT ![r] = Append(@, w.by)] ELSE heard
        /\ announced' = [announced EXCEPT ![r] = @ + 1]
        /\ \/ Following(w) = {} /\ replying' = replying \ {w}
           \/ \E q \in Following(w) :
                 replying' = (replying \ {w}) \cup {NewReply(q, "task", w.more \ {q})}
        /\ consume' = Resumed(r)
        /\ UNCHANGED <<allowed, grants, asked, events, pending>>
    BY <1>12 DEF Answered
  <2>1. /\ heard[r] = <<>> /\ announced[r] = 0 /\ r \notin w.more /\ w.more \subseteq Requests
        /\ \A q \in w.more : announced[q] = 0
    BY DEF Inv, TypeOK, Reply, RepliesPlaced, Unsettled, Of
  <2>2. /\ announced'[r] = 1 /\ (~Live(r) => heard'[r] = <<>>)
        /\ \A q \in Requests : q # r => heard'[q] = heard[q] /\ announced'[q] = announced[q]
    BY <2>1 DEF Inv, TypeOK
  <2>3. \A q \in Requests : InHand(q) => InHand(q)'
    BY RequestTyped DEF InHand, Resumed, Asking
  <2>4. \A q \in Requests : Lost(q) => Lost(q)'
    BY <2>1, <2>2, LostKept
  <2>5. \A v \in replying' : v \in replying \/ v.by = "task"
    BY DEF NewReply
  <2>6. \A v \in replying' : TakenAlong(v)'
    BY <2>5 DEF NoneForgotten, TakenAlong
  <2>7. ASSUME NEW q \in Requests, q # r, InProgress(q) PROVE InProgress(q)' \/ Lost(q)'
    <3>1. PICK v \in replying : q \in Of(v)
      BY <2>7 DEF InProgress, Of
    <3>2. CASE v # w
      BY <3>1, <3>2 DEF InProgress, Of
    <3>3. CASE v = w
      <4>1. q \in w.more
        BY <2>7, <3>1, <3>3 DEF Of
      <4>2. CASE Following(w) = {}
        <5>1. w.by = "user" /\ ~Live(r)
          BY <4>1, <4>2 DEF Following
        <5>2. PICK g \in grants : g.req = r
          BY <4>1, <5>1 DEF NoneForgotten, TakenAlong
        <5>3. q.session = r.session /\ Covers(allowed[q.session], q)
          BY <4>1, <5>1 DEF NoneForgotten, TakenAlong
        <5>4. QED
          BY <2>2, <2>7, <5>1, <5>2, <5>3 DEF Lost
      <4>3. CASE Following(w) # {}
        <5>1. PICK p \in w.more :
                 replying' = (replying \ {w}) \cup {NewReply(p, "task", w.more \ {p})}
          BY <4>3 DEF Following
        <5>2. PICK v1 : v1 = NewReply(p, "task", w.more \ {p})
          OBVIOUS
        <5>3. v1 \in replying' /\ v1.req = p /\ v1.more = w.more \ {p}
          BY <5>1, <5>2 DEF NewReply
        <5>4. q = p \/ q \in v1.more
          BY <4>1, <5>3
        <5>5. QED
          BY <5>3, <5>4 DEF InProgress
      <4>4. QED
        BY <4>2, <4>3
    <3>4. QED
      BY <3>2, <3>3
  <2>8. \A q \in Requests : q # r /\ Kept(q) => Kept(q)' \/ Lost(q)'
    BY <2>3, <2>7 DEF Kept, OnItsWay, Waiting
  <2>9. QED
    BY <2>2, <2>4, <2>6, <2>8 DEF NoneForgotten
<1>13. QED
  BY <1>1, <1>2, <1>3, <1>4, <1>5, <1>6, <1>7, <1>8, <1>9, <1>10, <1>11, <1>12 DEF Next

\* No request is announced as resolved twice, and none is forgotten: once the
\* turn is over each was announced, unless a failing allow swallowed it.
THEOREM NoneForgottenNorTwice == Spec => []AnnouncedExactlyOnce
<1>1. Init => NoneForgotten
  BY DEF Init, NoneForgotten
<1>2. Inv /\ NoneForgotten => AnnouncedExactlyOnce
  <2> SUFFICES ASSUME Inv, NoneForgotten, NEW r \in Requests
               PROVE  /\ announced[r] <= 1
                      /\ (asked[r] # 0 /\ At(r.session, "over") /\ ~InProgress(r)
                            /\ ~Swallowed(r)) => announced[r] = 1
    BY DEF AnnouncedExactlyOnce
  <2>1. announced[r] <= 1 /\ announced[r] \in Nat
    BY DEF Inv, TypeOK, SettledOnce
  <2>2. Lost(r) => Swallowed(r)
    BY DEF Lost, Swallowed
  <2>3. At(r.session, "over") => ~InHand(r) /\ r \notin Waiting
    BY DEF Inv, WaitingPlaced, InHand, At
  <2>4. At(r.session, "over") => ~OnItsWay(r)
    BY RequestTyped DEF Inv, ConsumersPlaced, ConsumerPlaced, OnItsWay
  <2>5. QED
    BY <2>1, <2>2, <2>3, <2>4 DEF NoneForgotten, Kept
<1>3. QED
  BY <1>1, <1>2, SpecInv, ForgottenNext, PTL DEF Spec
=============================================================================
