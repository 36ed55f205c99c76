---------------------------- MODULE ScreensProofs ----------------------------
(***************************************************************************)
(* Who watches once sharing is off, and who lets go of a key: for any      *)
(* number of viewers, displays, frames and faults.                         *)
(*                                                                         *)
(* The argument follows a viewer from its check to its closes.  What a     *)
(* viewer that is registered may use is the display that is open; what     *)
(* the switch took it closes before the display; and a key that is down    *)
(* always has somebody on the way whose release reaches the machine, or    *)
(* counts as slipped.                                                      *)
(***************************************************************************)
EXTENDS Screens, SequenceTheorems, TLAPS
-----------------------------------------------------------------------------
(* Types                                                                    *)

Shown == Pictures \cup {0}
ViewFields == {"at", "d", "reg", "pc", "wake", "wantKey", "changes", "pacing", "refine",
               "key", "pix", "prev", "sent", "acked", "inFlight", "held", "taken", "served"}
TabFields  == {"conn", "viewer", "ack", "sentAck", "key", "events", "holding", "refused",
               "closed"}
PostFields == {"at", "of", "ack", "key", "events", "hand"}
Hellos == [type : {"hello"}, of : Viewers]
Frames == [type : {"frame"}, seq : Nat, key : BOOLEAN, pix : Shown]

Viewing(w) ==
    /\ DOMAIN w = ViewFields
    /\ w.at \in {"none", "asked", "checked", "opened", "run", "ending", "over"}
    /\ w.pc \in {"wait", "grab", "encode"} /\ w.d \in Nat
    /\ w.sent \in Nat /\ w.acked \in Nat /\ w.acked <= w.sent /\ w.inFlight \subseteq 1..w.sent
    /\ w.pix \in Shown /\ w.prev \in Shown /\ w.key \in BOOLEAN /\ w.wantKey \in BOOLEAN
    /\ w.reg \in BOOLEAN /\ w.held \in BOOLEAN /\ w.taken \in BOOLEAN /\ w.served \in BOOLEAN
Views == DOMAIN view = Viewers /\ \A v \in Viewers : Viewing(view[v])

Closing(c) == /\ c \in [of : Viewers, by : {"handler", "manager"},
                        at : {"cancel", "wait", "swap", "release"}, held : BOOLEAN]
              /\ c.at # "release" => ~c.held
Closers == \A c \in closers : Closing(c)

Tabbed(t)  == /\ DOMAIN t = TabFields /\ t.conn \in Viewers \cup {0}
              /\ t.viewer \in Viewers \cup {0} /\ t.ack \in Nat /\ t.sentAck \in Nat
              /\ t.events \in Seq(BOOLEAN) /\ t.holding \in BOOLEAN /\ t.key \in BOOLEAN
Posted(q)  == /\ DOMAIN q = PostFields
              /\ q.at \in {"none", "sent", "ack", "key", "events"}
              /\ q.of \in Viewers \cup {0} /\ (q.at # "none" => q.of \in Viewers)
              /\ q.ack \in Nat /\ q.key \in BOOLEAN
              /\ q.events \in Seq(BOOLEAN) /\ q.hand \in Seq(BOOLEAN) /\ Len(q.hand) <= 1
              /\ q.hand # <<>> => q.at = "events"
Drawing(s) == /\ DOMAIN s = {"needKey", "pending", "shown"}
              /\ s.pending \in Seq(Frames) /\ s.shown \in Shown
Wire == stream \in Seq(Hellos \cup Frames)

\* The switch takes the display that is open, and closes it.
Switched ==
    /\ enabled \in BOOLEAN /\ opened \in Nat
    /\ display \in 0..opened /\ shut \subseteq 1..opened /\ display \notin shut
    /\ DOMAIN switch = {"at", "todo", "d", "on"}
    /\ switch.at \in {"none", "stored", "closing"} /\ switch.todo \subseteq Viewers
    /\ switch.d \in 0..opened /\ switch.d \notin shut
    /\ display # 0 => display # switch.d
    /\ switch.at # "closing" => switch.todo = {} /\ switch.d = 0

Typed == /\ picture \in Pictures /\ damage \in Nat /\ down \in BOOLEAN /\ slipped \in BOOLEAN
         /\ Views /\ Closers /\ Tabbed(tab) /\ Posted(post) /\ Drawing(screen) /\ Wire
         /\ Switched
-----------------------------------------------------------------------------
(* Who is where                                                             *)

Early(v) == view[v].at \in {"none", "asked", "checked", "opened"}

\* Nothing is known of a viewer before it is registered.
Unborns == \A v \in Viewers : Early(v) =>
    /\ ~view[v].reg /\ ~view[v].served /\ ~view[v].held /\ ~view[v].taken
    /\ v \notin switch.todo /\ \A c \in closers : c.of # v

\* Once registered, its keys have been taken or will be.
Begun(v) == WillClose(v) \/ view[v].taken
Past     == post.at \in {"ack", "key", "events"}
Begins   == /\ \A v \in Viewers : view[v].reg => Begun(v)
            /\ Past => Begun(post.of)

\* A key in hand is noted, unless the notes have been taken.
InHand == post.hand # <<>> =>
    view[post.of].taken \/ view[post.of].held = Head(post.hand)

\* Who comes in time has the display that is open.
Registered(v) == At(v, "run") /\ view[v].reg
InTime == \A v \in Viewers \ late :
    /\ At(v, "checked") \/ At(v, "opened") \/ Registered(v) => enabled \/ switch.at = "stored"
    /\ At(v, "opened") \/ Registered(v) => view[v].d = display /\ display # 0

\* The others are being closed by the switch, before their display.
Going(v) == \/ v \in switch.todo
            \/ \E c \in closers : c.by = "manager" /\ c.of = v /\ c.at = "cancel"
Leaving == \A v \in Viewers \ late : At(v, "run") /\ ~view[v].reg =>
    switch.at = "closing" /\ view[v].d = switch.d /\ Going(v)

\* Who registers in time while the switch closes the others has another display.
Newcomers == switch.at = "closing" => \A v \in Viewers \ late :
    view[v].reg => view[v].d # switch.d

\* The switch will not close it, only its handler.
Alone(v) == /\ ~view[v].reg /\ v \notin switch.todo
            /\ \A c \in closers : c.of = v => c.by = "handler"

\* Whose release reaches the machine, or counts as slipped.
Releaser == \/ \E v \in Viewers : /\ view[v].held /\ WillClose(v)
                                  /\ view[v].d \notin shut \/ Alone(v) \/ v \in late
            \/ \E c \in closers :
                  /\ c.held
                  /\ view[c.of].d \notin shut \/ c.by = "handler" \/ c.of \in late
            \/ post.hand # <<>>
Pressed == down /\ ~slipped => Releaser

Core == Unborns /\ Begins /\ InHand /\ InTime /\ Leaving /\ Newcomers /\ Pressed
Inv  == Typed /\ Core
-----------------------------------------------------------------------------
(* Steps that leave the core alone                                          *)

SameStatus == \A v \in Viewers :
    /\ view'[v].at = view[v].at /\ view'[v].d = view[v].d /\ view'[v].reg = view[v].reg
    /\ view'[v].held = view[v].held /\ view'[v].taken = view[v].taken
    /\ view'[v].served = view[v].served
PostFollows == \/ post'.of = post.of /\ post'.hand = post.hand /\ (Past' => Past)
               \/ post.hand = <<>> /\ post'.hand = <<>> /\ ~Past'

LEMMA CoreStays ==
    ASSUME Core, Closers, Posted(post), SameStatus, PostFollows,
           UNCHANGED <<down, slipped, closers, late, shut, display, enabled, switch>>
    PROVE  Core'
<1>0. \A v \in Viewers : /\ (WillClose(v) <=> WillClose(v)') /\ (Alone(v) <=> Alone(v)')
                         /\ (At(v, "run") <=> At(v, "run")')
                         /\ (Registered(v) <=> Registered(v)') /\ (Going(v) <=> Going(v)')
                         /\ (Begun(v) <=> Begun(v)')
  BY DEF SameStatus, WillClose, Alone, At, Registered, Going, Begun
<1>1. Unborns'
  BY DEF Core, Unborns, SameStatus, Early
<1>2. Begins'
  <2>1. \A v \in Viewers : view'[v].reg => Begun(v)'
    BY <1>0 DEF Core, Begins, SameStatus
  <2>2. Past' => Begun(post.of)' /\ post'.of = post.of
    <3> SUFFICES ASSUME Past' PROVE Begun(post.of)' /\ post'.of = post.of
      OBVIOUS
    <3>1. Past /\ post'.of = post.of /\ post.of \in Viewers
      BY DEF PostFollows, Posted, Past
    <3>2. Begun(post.of)
      BY <3>1 DEF Core, Begins
    <3>3. view'[post.of].served = view[post.of].served /\ view'[post.of].taken = view[post.of].taken
      BY <3>1 DEF SameStatus
    <3> QED BY <3>1, <3>2, <3>3 DEF Begun, WillClose
  <2> QED BY <2>1, <2>2 DEF Begins
<1>3. InHand'
  <2> SUFFICES ASSUME post'.hand # <<>>
               PROVE  view'[post'.of].taken \/ view'[post'.of].held = Head(post'.hand)
    BY DEF InHand
  <2>1. post'.of = post.of /\ post'.hand = post.hand /\ post.of \in Viewers
    BY DEF PostFollows, Posted
  <2> QED BY <2>1 DEF Core, InHand, SameStatus
<1>4. InTime'
  <2> SUFFICES ASSUME NEW v \in Viewers \ late
               PROVE  /\ At(v, "checked")' \/ At(v, "opened")' \/ Registered(v)' => enabled' \/ switch'.at = "stored"
                      /\ At(v, "opened")' \/ Registered(v)' => view'[v].d = display' /\ display' # 0
    BY DEF InTime
  <2> QED BY <1>0 DEF Core, InTime, At, SameStatus
<1>5. Leaving'
  <2> SUFFICES ASSUME NEW v \in Viewers \ late, At(v, "run")', ~view'[v].reg
               PROVE  switch'.at = "closing" /\ view'[v].d = switch'.d /\ Going(v)'
    BY DEF Leaving
  <2> QED BY <1>0 DEF Core, Leaving, SameStatus
<1>6. Newcomers'
  BY DEF Core, Newcomers, SameStatus, PostFollows, Past
<1>7. Pressed'
  <2> SUFFICES ASSUME down, ~slipped PROVE Releaser'
    BY DEF Pressed
  <2>1. Releaser
    BY DEF Core, Pressed
  <2>2. ASSUME NEW v \in Viewers, view[v].held, WillClose(v), view[v].d \notin shut \/ Alone(v) \/ v \in late
        PROVE  Releaser'
    BY <1>0, <2>2 DEF Releaser, SameStatus
  <2>3. ASSUME NEW c \in closers, c.held, view[c.of].d \notin shut \/ c.by = "handler" \/ c.of \in late, c.of \in Viewers
        PROVE  Releaser'
    BY <2>3 DEF Releaser, SameStatus
  <2>4. CASE post.hand # <<>>
    BY <2>4 DEF Releaser, PostFollows
  <2> QED BY <2>1, <2>2, <2>3, <2>4 DEF Releaser, Closers, Closing
<1> QED BY <1>1, <1>2, <1>3, <1>4, <1>5, <1>6, <1>7 DEF Core
-----------------------------------------------------------------------------
(* The tab                                                                  *)

LEMMA BodyPosted == ASSUME NEW t, Tabbed(t), Worth(t)
                    PROVE  Posted(Body(t)) /\ Body(t).at = "sent" /\ Body(t).hand = <<>>
BY DEF Tabbed, Worth, Posted, Body, PostFields

LEMMA EmptiedTabbed == ASSUME NEW t, Tabbed(t)
                       PROVE  Tabbed(Emptied(t)) /\ Emptied(t).conn = t.conn
BY DEF Tabbed, Emptied, TabFields

LEMMA Nothing == Posted(NoPost) /\ NoPost.at = "none" /\ NoPost.hand = <<>> /\ NoPost.of = 0
BY DEF Posted, NoPost, PostFields

\* The queue is flushed when no request is in flight, or when it was answered.
LEMMA FlushFollows ==
    ASSUME Posted(post), NEW t, Tabbed(t), NEW free, Flush(t, free), free => post.hand = <<>>
    PROVE  Tabbed(tab') /\ Posted(post') /\ PostFollows /\ tab'.conn = t.conn
<1>1. CASE free /\ Worth(t)
  BY <1>1, BodyPosted, EmptiedTabbed DEF Flush, PostFollows, Past
<1>2. CASE free /\ ~Worth(t)
  BY <1>2, Nothing DEF Flush, PostFollows, Past
<1>3. CASE ~free
  BY <1>3 DEF Flush, PostFollows, Past
<1> QED BY <1>1, <1>2, <1>3

LEMMA PushFollows ==
    ASSUME Posted(post), NEW t, Tabbed(t), Push(t)
    PROVE  Tabbed(tab') /\ Posted(post') /\ PostFollows /\ tab'.conn = t.conn
<1>1. post.at = "none" => post.hand = <<>>
  BY DEF Posted
<1> QED BY <1>1, FlushFollows DEF Push

\* A step of the tab.
LEMMA TabStep ==
    ASSUME Inv, TabOnly, Tabbed(tab'), Posted(post'), PostFollows, Drawing(screen'), Wire'
    PROVE  Inv'
<1>1. /\ UNCHANGED <<picture, damage, down, slipped, view, closers, enabled, display, opened,
                     shut, switch, late>>
  BY DEF TabOnly, machine, manager
<1>2. Core'
  BY <1>1, CoreStays DEF Inv, Typed, SameStatus
<1>3. Typed'
  BY <1>1 DEF Inv, Typed, Views, Closers, Switched
<1> QED BY <1>2, <1>3 DEF Inv

LEMMA AckTabbed == ASSUME Tabbed(tab), NEW n \in Nat
                   PROVE  Tabbed([tab EXCEPT !.ack = Later(@, n)])
BY DEF Tabbed, Later, TabFields

LEMMA StepOnHello == ASSUME Inv, OnHello PROVE Inv'
<1>1. /\ stream \in Seq(Hellos \cup Frames) /\ stream # <<>> /\ Head(stream).type = "hello"
  BY DEF Inv, Typed, Wire, OnHello
<1>2. Head(stream) \in Hellos
  BY <1>1 DEF Hellos, Frames
<1>3. Tabbed(tab') /\ Drawing(screen')
  BY <1>2 DEF OnHello, Inv, Typed, Tabbed, Drawing, TabFields, Hellos
<1>4. Wire' /\ PostFollows /\ Posted(post')
  BY <1>1 DEF OnHello, Wire, PostFollows, Past, Inv, Typed, Posted
<1> QED BY <1>3, <1>4, TabStep DEF OnHello

LEMMA StepOnFrame == ASSUME Inv, OnFrame PROVE Inv'
<1> DEFINE f == Head(stream)
<1>1. /\ stream \in Seq(Hellos \cup Frames) /\ stream # <<>> /\ f.type = "frame"
  BY DEF Inv, Typed, Wire, OnFrame
<1>2. f \in Frames
  BY <1>1 DEF Hellos, Frames
<1>3. f.seq \in Nat
  BY <1>2 DEF Frames
<1>4. Wire'
  BY <1>1 DEF OnFrame, Wire
<1>5. /\ Tabbed(tab') /\ Posted(post') /\ PostFollows /\ Drawing(screen')
  <2>1. CASE Push([tab EXCEPT !.ack = Later(@, f.seq)]) /\ UNCHANGED screen
    <3>1. Tabbed([tab EXCEPT !.ack = Later(@, f.seq)])
      BY <1>3, AckTabbed DEF Inv, Typed
    <3> QED BY <2>1, <3>1, PushFollows DEF Inv, Typed, Drawing
  <2>2. CASE /\ screen' = [screen EXCEPT !.needKey = FALSE, !.pending = Append(@, f)]
             /\ UNCHANGED <<tab, post>>
    BY <1>2, <2>2 DEF Inv, Typed, Tabbed, Posted, Drawing, PostFollows, Past
  <2> QED BY <2>1, <2>2 DEF OnFrame
<1> QED BY <1>4, <1>5, TabStep DEF OnFrame

LEMMA StepDrawn == ASSUME Inv, Drawn PROVE Inv'
<1> DEFINE f == Head(screen.pending)
<1>1. f \in Frames
  BY DEF Inv, Typed, Drawing, Drawn
<1>2. f.seq \in Nat /\ f.pix \in Shown
  BY <1>1 DEF Frames
<1>3. Drawing(screen')
  BY <1>2 DEF Drawn, Inv, Typed, Drawing
<1>4. Tabbed([tab EXCEPT !.ack = Later(@, f.seq)])
  BY <1>2, AckTabbed DEF Inv, Typed
<1>5. Push([tab EXCEPT !.ack = Later(@, f.seq)])
  BY DEF Drawn
<1>6. Tabbed(tab') /\ Posted(post') /\ PostFollows
  BY <1>4, <1>5, PushFollows DEF Inv, Typed
<1>7. Wire' /\ TabOnly
  BY DEF Drawn, Inv, Typed, Wire
<1> QED BY <1>3, <1>6, <1>7, TabStep

LEMMA StepGarble == ASSUME Inv, Garble PROVE Inv'
<1> DEFINE t == [tab EXCEPT !.ack = Later(@, Last(screen.pending).seq)]
<1>1. Last(screen.pending) \in Frames
  BY DEF Inv, Typed, Drawing, Garble, Last
<1>2. Tabbed(t)
  <2>1. Last(screen.pending).seq \in Nat
    BY <1>1 DEF Frames
  <2> QED BY <2>1, AckTabbed DEF Inv, Typed
<1>3. Tabbed(tab') /\ Posted(post') /\ PostFollows
  <2> HIDE DEF t
  <2>1. CASE post.at = "none" /\ post' = Body(t) /\ Worth(t) /\ tab' = [Emptied(t) EXCEPT !.key = TRUE]
    <3>1. Tabbed(tab')
      BY <1>2, <2>1, EmptiedTabbed DEF Tabbed, TabFields
    <3>2. post.hand = <<>>
      BY <2>1 DEF Inv, Typed, Posted
    <3> QED BY <1>2, <2>1, <3>1, <3>2, BodyPosted DEF PostFollows, Past
  <2>2. CASE Push([t EXCEPT !.key = TRUE])
    <3>1. Tabbed([t EXCEPT !.key = TRUE])
      BY <1>2 DEF Tabbed, TabFields
    <3> QED BY <2>2, <3>1, PushFollows DEF Inv, Typed
  <2> QED BY <2>1, <2>2 DEF Garble, t
<1>4. Drawing(screen') /\ Wire' /\ TabOnly
  BY DEF Garble, Inv, Typed, Drawing, Wire
<1> QED BY <1>3, <1>4, TabStep

LEMMA StepPress == ASSUME Inv, Press PROVE Inv'
<1> DEFINE t == [tab EXCEPT !.holding = ~@, !.events = Append(@, ~tab.holding)]
<1>1. Tabbed(t)
  BY DEF Inv, Typed, Tabbed, TabFields
<1>2. Tabbed(tab') /\ Posted(post') /\ PostFollows
  <2>1. Push(t)
    BY DEF Press
  <2> QED BY <1>1, <2>1, PushFollows DEF Inv, Typed
<1>3. Drawing(screen') /\ Wire' /\ TabOnly
  BY DEF Press, Inv, Typed, Drawing, Wire
<1> QED BY <1>2, <1>3, TabStep

LEMMA StepBreak == ASSUME Inv, Break PROVE Inv'
<1>1. Tabbed(tab') /\ Posted(post') /\ PostFollows /\ Drawing(screen') /\ Wire' /\ TabOnly
  BY DEF Break, Inv, Typed, Tabbed, TabFields, Posted, PostFollows, Past, Drawing, Wire
<1> QED BY <1>1, TabStep

LEMMA StepStop == ASSUME Inv, Stop PROVE Inv'
<1>1. PICK up \in {<<>>, <<FALSE>>} :
        LET t == [tab EXCEPT !.events = @ \o up] IN
        post' = IF post.at = "none" /\ Worth(t) THEN Body(t) ELSE post
  BY DEF Stop
<1> DEFINE t == [tab EXCEPT !.events = @ \o up]
<1>2. Tabbed(t)
  <2>1. up \in Seq(BOOLEAN)
    <3>1. <<>> \in Seq(BOOLEAN) /\ <<FALSE>> \in Seq(BOOLEAN)
      OBVIOUS
    <3> QED BY <3>1
  <2>2. tab.events \o up \in Seq(BOOLEAN)
    BY <2>1 DEF Inv, Typed, Tabbed
  <2> QED BY <2>2 DEF Inv, Typed, Tabbed, TabFields
<1>3. Posted(post') /\ PostFollows
  <2> HIDE DEF t
  <2>1. CASE post.at = "none" /\ Worth(t) /\ post' = Body(t)
    BY <1>2, <2>1, BodyPosted DEF PostFollows, Past, Inv, Typed, Posted
  <2>2. CASE post' = post
    BY <2>2 DEF PostFollows, Past, Inv, Typed, Posted
  <2> QED BY <1>1, <2>1, <2>2 DEF t
<1>4. Tabbed(tab') /\ Drawing(screen') /\ Wire' /\ TabOnly
  BY DEF Stop, Inv, Typed, Tabbed, TabFields, NoTab, Drawing, Wire, Shown
<1> QED BY <1>3, <1>4, TabStep
-----------------------------------------------------------------------------
(* The requests                                                             *)

\* A request that does not touch a viewer's status.
LEMMA PostStep ==
    ASSUME Inv, PostOnly, UNCHANGED <<down, slipped>>, Views', SameStatus,
           Tabbed(tab'), Posted(post'), PostFollows
    PROVE  Inv'
<1>1. /\ UNCHANGED <<picture, damage, closers, enabled, display, opened, shut, switch, late,
                     stream, screen>>
  BY DEF PostOnly, machine, manager
<1>2. Core'
  BY <1>1, CoreStays DEF Inv, Typed
<1>3. Typed'
  BY <1>1 DEF Inv, Typed, Closers, Switched, Wire
<1> QED BY <1>2, <1>3 DEF Inv

LEMMA ViewStays == ASSUME Inv, UNCHANGED view PROVE Views' /\ SameStatus
BY DEF Inv, Typed, Views, SameStatus

\* The answer to a request frees the queue.
LEMMA AnsweredFollows ==
    ASSUME Inv, Answered, post.hand = <<>>
    PROVE  Tabbed(tab') /\ Posted(post') /\ PostFollows /\ tab'.conn = tab.conn
BY FlushFollows DEF Inv, Typed, Answered

LEMMA StepLose == ASSUME Inv, Lose PROVE Inv'
<1>1. post.hand = <<>>
  BY DEF Lose, Inv, Typed, Posted
<1>2. Answered /\ UNCHANGED view /\ PostOnly /\ UNCHANGED <<down, slipped>>
  BY DEF Lose
<1> QED BY <1>1, <1>2, AnsweredFollows, ViewStays, PostStep

LEMMA StepPostEnds == ASSUME Inv, PostEnds PROVE Inv'
<1>1. post.hand = <<>> /\ Answered /\ UNCHANGED view /\ PostOnly /\ UNCHANGED <<down, slipped>>
  BY DEF PostEnds
<1> QED BY <1>1, AnsweredFollows, ViewStays, PostStep

\* An acknowledgement leaves fewer frames on their way.
LEMMA AckedViewing ==
    ASSUME NEW w, Viewing(w), NEW n \in Nat
    PROVE  LET u == [Acked(w, n) EXCEPT !.wake = TRUE] IN
           /\ Viewing(u) /\ u.at = w.at /\ u.d = w.d /\ u.reg = w.reg
           /\ u.held = w.held /\ u.taken = w.taken /\ u.served = w.served
<1>1. CASE n > w.acked /\ n <= w.sent
  BY <1>1 DEF Viewing, Acked, ViewFields
<1>2. CASE ~(n > w.acked /\ n <= w.sent)
  BY <1>2 DEF Viewing, Acked, ViewFields
<1> QED BY <1>1, <1>2

\* One viewer changes, and its status stays.
LEMMA OneView ==
    ASSUME Inv, NEW v \in Viewers, NEW u, view' = [view EXCEPT ![v] = u], Viewing(u),
           u.at = view[v].at, u.d = view[v].d, u.reg = view[v].reg,
           u.held = view[v].held, u.taken = view[v].taken, u.served = view[v].served
    PROVE  Views' /\ SameStatus
BY DEF Inv, Typed, Views, SameStatus

LEMMA StepPostAck == ASSUME Inv, PostAck PROVE Inv'
<1>1. post.of \in Viewers /\ post.ack \in Nat /\ post.at = "ack" /\ post.hand = <<>>
  BY DEF PostAck, Inv, Typed, Posted
<1>2. Views' /\ SameStatus
  <2>1. CASE UNCHANGED view
    BY <2>1, ViewStays
  <2>2. CASE view' = [view EXCEPT ![post.of] = [Acked(@, post.ack) EXCEPT !.wake = TRUE]]
    <3> DEFINE u == [Acked(view[post.of], post.ack) EXCEPT !.wake = TRUE]
    <3>1. Viewing(view[post.of])
      BY <1>1 DEF Inv, Typed, Views
    <3>2. /\ Viewing(u) /\ u.at = view[post.of].at /\ u.d = view[post.of].d
          /\ u.reg = view[post.of].reg /\ u.held = view[post.of].held
          /\ u.taken = view[post.of].taken /\ u.served = view[post.of].served
      BY <1>1, <3>1, AckedViewing
    <3>3. view' = [view EXCEPT ![post.of] = u]
      BY <2>2
    <3> HIDE DEF u
    <3> QED BY <1>1, <3>2, <3>3, OneView
  <2> QED BY <2>1, <2>2 DEF PostAck
<1>3. Posted(post') /\ PostFollows /\ Tabbed(tab')
  BY <1>1 DEF PostAck, Inv, Typed, Posted, PostFields, PostFollows, Past, Tabbed
<1> QED BY <1>2, <1>3, PostStep DEF PostAck

LEMMA StepPostKey == ASSUME Inv, PostKey PROVE Inv'
<1>1. post.of \in Viewers /\ post.at = "key" /\ post.hand = <<>>
  BY DEF PostKey, Inv, Typed, Posted
<1>2. Views' /\ SameStatus
  <2>1. CASE UNCHANGED view
    BY <2>1, ViewStays
  <2>2. CASE view' = [view EXCEPT ![post.of].wantKey = TRUE, ![post.of].wake = TRUE]
    <3> DEFINE w == view[post.of]
               u == [w EXCEPT !.wantKey = TRUE, !.wake = TRUE]
    <3>1. Viewing(w)
      BY <1>1 DEF Inv, Typed, Views
    <3>2. /\ Viewing(u) /\ u.at = w.at /\ u.d = w.d /\ u.reg = w.reg
          /\ u.held = w.held /\ u.taken = w.taken /\ u.served = w.served
      BY <3>1 DEF Viewing, ViewFields
    <3>3. view' = [view EXCEPT ![post.of] = u]
      BY <1>1, <2>2 DEF Inv, Typed, Views
    <3> HIDE DEF u
    <3> QED BY <1>1, <3>2, <3>3, OneView
  <2> QED BY <2>1, <2>2 DEF PostKey
<1>3. Posted(post') /\ PostFollows /\ Tabbed(tab')
  BY <1>1 DEF PostKey, Inv, Typed, Posted, PostFields, PostFollows, Past, Tabbed
<1> QED BY <1>2, <1>3, PostStep DEF PostKey

\* A request that passes is a registered viewer's, and sharing is on.
LEMMA StepArrive == ASSUME Inv, Arrive PROVE Inv'
<1>0. post.hand = <<>> /\ post.of \in Viewers /\ post.at = "sent"
  BY DEF Arrive, Inv, Typed, Posted
<1>1. CASE Answered
  BY <1>0, <1>1, AnsweredFollows, ViewStays, PostStep DEF Arrive
<1>2. CASE enabled /\ view[post.of].reg /\ post' = [post EXCEPT !.at = "ack"] /\ UNCHANGED tab
  <2>1. /\ UNCHANGED <<picture, damage, closers, enabled, display, opened, shut, switch, late,
                       stream, screen, down, slipped, view, tab>>
    BY <1>2 DEF Arrive, PostOnly, machine, manager
  <2>2. Typed'
    BY <1>0, <1>2, <2>1 DEF Inv, Typed, Views, Closers, Switched, Wire, Posted, PostFields, Tabbed, Drawing
  <2>3. post'.of = post.of /\ post'.hand = <<>> /\ Past'
    BY <1>0, <1>2 DEF Past, Inv, Typed, Posted, PostFields
  <2>4. Unborns' /\ InTime' /\ Leaving'
    BY <2>1 DEF Inv, Core, Unborns, Early, InTime, Registered, At, Leaving, Going
  <2>5. Begins' /\ InHand'
    BY <1>0, <1>2, <2>1, <2>3 DEF Inv, Core, Begins, Begun, WillClose, InHand
  <2>6. Newcomers'
    BY <2>1 DEF Inv, Core, Newcomers
  <2>7. Pressed'
    BY <1>0, <2>1, <2>3 DEF Inv, Core, Pressed, Releaser, WillClose, Alone
  <2> QED BY <2>2, <2>4, <2>5, <2>6, <2>7 DEF Inv, Core
<1> QED BY <1>1, <1>2 DEF Arrive

\* apply notes a key: the note is its viewer's.
LEMMA StepNote == ASSUME Inv, Note PROVE Inv'
<1> DEFINE v == post.of
           x == Head(post.events)
<1>0. /\ v \in Viewers /\ post.at = "events" /\ post.events # <<>> /\ x \in BOOLEAN
      /\ post.events \in Seq(BOOLEAN)
  BY DEF Note, Inv, Typed, Posted
<1>1. UNCHANGED <<picture, damage, closers, enabled, display, opened, shut, switch, late,
                  stream, screen, down, slipped, tab>>
  BY DEF Note, PostOnly, machine, manager
<1>2. /\ DOMAIN view' = Viewers
      /\ \A u \in Viewers : view'[u] = IF u = v THEN [view[v] EXCEPT !.held = x] ELSE view[u]
  BY DEF Note, Inv, Typed, Views
<1>3. post'.of = v /\ post'.hand = <<x>> /\ post'.at = "events"
  BY <1>0 DEF Note, Inv, Typed, Posted, PostFields
<1>4. /\ view'[v].held = x
      /\ \A u \in Viewers :
            /\ view'[u].at = view[u].at /\ view'[u].d = view[u].d /\ view'[u].reg = view[u].reg
            /\ view'[u].taken = view[u].taken /\ view'[u].served = view[u].served
            /\ u # v => view'[u].held = view[u].held
  BY <1>0, <1>2 DEF Inv, Typed, Views, Viewing, ViewFields
<1>5. Typed'
  <2>1. Views'
    BY <1>0, <1>2 DEF Inv, Typed, Views, Viewing, ViewFields
  <2>2. Posted(post')
    BY <1>0 DEF Note, Inv, Typed, Posted, PostFields
  <2> QED BY <1>1, <2>1, <2>2 DEF Inv, Typed, Closers, Switched, Wire, Tabbed, Drawing
<1>6. Past /\ Past'
  BY <1>0, <1>3 DEF Past
<1>7. Unborns'
  <2>1. ~Early(v)
    BY <1>0, <1>6 DEF Inv, Core, Unborns, Begins, Begun, WillClose
  <2> QED BY <1>1, <1>4, <2>1 DEF Inv, Core, Unborns, Early
<1>8. Begins' /\ InHand'
  BY <1>0, <1>1, <1>3, <1>4, <1>6 DEF Inv, Core, Begins, Begun, WillClose, InHand
<1>9. InTime' /\ Leaving'
  BY <1>1, <1>4 DEF Inv, Core, InTime, Registered, At, Leaving, Going
<1>10. Newcomers'
  BY <1>1, <1>3, <1>4, <1>6 DEF Inv, Core, Newcomers
<1>11. Pressed'
  BY <1>3 DEF Pressed, Releaser
<1> QED BY <1>5, <1>7, <1>8, <1>9, <1>10, <1>11 DEF Inv, Core

LEMMA StepTouch == ASSUME Inv, Touch PROVE Inv'
<1> DEFINE v == post.of
           w == view[v]
           x == Head(post.hand)
<1>0. /\ v \in Viewers /\ post.at = "events" /\ post.hand # <<>> /\ x \in BOOLEAN
  <2>1. post.hand \in Seq(BOOLEAN) /\ post.hand # <<>>
    BY DEF Touch, Inv, Typed, Posted
  <2>2. x \in BOOLEAN
    BY <2>1
  <2> QED BY <2>1, <2>2 DEF Touch, Inv, Typed, Posted
<1>1. UNCHANGED <<picture, damage, closers, enabled, display, opened, shut, switch, late,
                  stream, screen, view, tab>>
  BY DEF Touch, PostOnly, machine, manager
<1>2. post'.of = v /\ post'.hand = <<>> /\ post'.at = "events" /\ Past /\ Past'
  BY <1>0 DEF Touch, Inv, Typed, Posted, PostFields, Past
<1>3. /\ down' = (IF w.d \in shut THEN down ELSE x)
      /\ slipped' = (slipped \/ w.d \in shut \/ (x /\ w.taken))
  BY DEF Touch, Type
<1>4. Typed'
  <2>1. Posted(post')
    <3>1. post' = [post EXCEPT !.hand = <<>>] /\ Posted(post)
      BY DEF Touch, Inv, Typed
    <3>2. <<>> \in Seq(BOOLEAN)
      OBVIOUS
    <3> QED BY <1>0, <3>1, <3>2 DEF Posted, PostFields
  <2>2. down' \in BOOLEAN /\ slipped' \in BOOLEAN
    BY <1>0, <1>3 DEF Inv, Typed
  <2> QED BY <1>1, <2>1, <2>2 DEF Inv, Typed, Views, Closers, Switched, Wire, Tabbed, Drawing
<1>5. Unborns' /\ InTime' /\ Leaving'
  BY <1>1 DEF Inv, Core, Unborns, Early, InTime, Registered, At, Leaving, Going
<1>6. Begins' /\ InHand' /\ Newcomers'
  BY <1>1, <1>2 DEF Inv, Core, Begins, Begun, WillClose, InHand, Newcomers
<1>7. Pressed'
  <2> SUFFICES ASSUME down', ~slipped'
               PROVE  Releaser'
    BY DEF Pressed
  <2>1. w.d \notin shut /\ x /\ ~w.taken
    BY <1>0, <1>3
  <2>2. w.held /\ WillClose(v)
    BY <1>0, <1>2, <2>1 DEF Inv, Core, InHand, Begins, Begun
  <2> QED BY <1>0, <1>1, <2>1, <2>2 DEF Releaser, WillClose
<1> QED BY <1>4, <1>5, <1>6, <1>7 DEF Inv, Core
-----------------------------------------------------------------------------
(* The loop                                                                 *)

\* A step of a viewer's loop that leaves its status.
LEMMA LoopStep ==
    ASSUME Inv, LoopOnly, NEW v \in Viewers, NEW u, view' = [view EXCEPT ![v] = u], Viewing(u),
           u.at = view[v].at, u.d = view[v].d, u.reg = view[v].reg,
           u.held = view[v].held, u.taken = view[v].taken, u.served = view[v].served, Wire'
    PROVE  Inv'
<1>1. /\ UNCHANGED <<picture, damage, closers, enabled, display, opened, shut, switch, late,
                     screen, down, slipped, tab, post>>
  BY DEF LoopOnly, machine, manager
<1>2. Views' /\ SameStatus
  BY OneView
<1>3. PostFollows
  BY <1>1 DEF PostFollows, Past
<1>4. Core'
  BY <1>1, <1>2, <1>3, CoreStays DEF Inv, Typed
<1>5. Typed'
  BY <1>1, <1>2 DEF Inv, Typed, Closers, Switched, Tabbed, Posted, Drawing
<1> QED BY <1>4, <1>5 DEF Inv

\* It changes, and keeps its status.
Steady(u, w) == /\ Viewing(u) /\ u.at = w.at /\ u.d = w.d /\ u.reg = w.reg
                /\ u.held = w.held /\ u.taken = w.taken /\ u.served = w.served

LEMMA CarryWire ==
    ASSUME Wire, NEW v, NEW f \in Frames, Carry(v, f)
    PROVE  Wire'
BY DEF Wire, Carry

LEMMA StillWire == Wire /\ UNCHANGED stream => Wire'
BY DEF Wire

LEMMA StepLook == ASSUME Inv, NEW v \in Viewers, Look(v) PROVE Inv'
<1> DEFINE w == view[v]
<1>1. Viewing(w) /\ damage \in Nat
  BY DEF Inv, Typed, Views
<1>2. PICK u : view' = [view EXCEPT ![v] = u] /\ Steady(u, w)
  <2> DEFINE idle == ~Ready(v) \/ (w.changes = damage /\ ~w.wantKey)
             grabs == [w EXCEPT !.pc = "grab", !.key = w.wantKey, !.changes = damage]
             after(r) == IF idle THEN r ELSE [grabs EXCEPT !.wake = r.wake, !.pacing = r.pacing]
  <2>1. Steady(w, w) /\ Steady([w EXCEPT !.wake = FALSE], w) /\ Steady([w EXCEPT !.pacing = FALSE], w)
    BY <1>1 DEF Steady, Viewing, ViewFields
  <2>2. Steady([w EXCEPT !.wake = FALSE, !.pacing = TRUE], w) /\ Steady([w EXCEPT !.pacing = TRUE], w)
    BY <1>1 DEF Steady, Viewing, ViewFields
  <2>3. Steady(grabs, w)
    BY <1>1 DEF Steady, Viewing, ViewFields
  <2>4. \A a, b : Steady([grabs EXCEPT !.wake = a, !.pacing = b], w)
    <3> HIDE DEF grabs
    <3> QED BY <2>3 DEF Steady, Viewing, ViewFields
  <2>5. \A r : Steady(r, w) => Steady(after(r), w)
    <3> HIDE DEF grabs, idle
    <3> QED BY <2>4
  <2>6. \E u : Steady(u, w) /\ Set(v, u)
    <3> HIDE DEF after
    <3>1. CASE \/ Set(v, after([w EXCEPT !.wake = FALSE]))
               \/ Set(v, [w EXCEPT !.wake = FALSE, !.pacing = TRUE])
      BY <2>1, <2>2, <2>5, <3>1
    <3>2. CASE Set(v, after([w EXCEPT !.pacing = FALSE]))
      BY <2>1, <2>5, <3>2
    <3>3. CASE Set(v, after(w)) \/ Set(v, [w EXCEPT !.pacing = TRUE])
      BY <2>1, <2>2, <2>5, <3>3
    <3> QED BY <3>1, <3>2, <3>3 DEF Look, after
  <2> QED BY <2>6 DEF Set
<1>3. LoopOnly /\ Wire'
  BY StillWire DEF Look, Inv, Typed
<1> QED BY <1>2, <1>3, LoopStep DEF Steady

LEMMA StepTimeOut == ASSUME Inv, NEW v \in Viewers, TimeOut(v) PROVE Inv'
<1> DEFINE w == view[v]
           u == [w EXCEPT !.inFlight = {}, !.acked = w.sent]
<1>1. Viewing(w)
  BY DEF Inv, Typed, Views
<1>2. Steady(u, w)
  BY <1>1 DEF Steady, Viewing, ViewFields
<1>3. view' = [view EXCEPT ![v] = u] /\ LoopOnly /\ Wire'
  BY StillWire DEF TimeOut, Inv, Typed, Views
<1> HIDE DEF u
<1> QED BY <1>2, <1>3, LoopStep DEF Steady

LEMMA StepGrab == ASSUME Inv, NEW v \in Viewers, Grab(v) PROVE Inv'
<1> DEFINE w == view[v]
           key == w.key \/ w.prev = 0
           u == IF ~key /\ w.prev = picture THEN [w EXCEPT !.pc = "wait"]
                ELSE [w EXCEPT !.pc = "encode", !.key = key, !.pix = picture]
<1>1. Viewing(w) /\ picture \in Shown
  BY DEF Inv, Typed, Views, Shown
<1>2. Steady(u, w)
  <2>1. Steady([w EXCEPT !.pc = "wait"], w)
    BY <1>1 DEF Steady, Viewing, ViewFields
  <2>2. ASSUME NEW k \in BOOLEAN
        PROVE  Steady([w EXCEPT !.pc = "encode", !.key = k, !.pix = picture], w)
    BY <1>1 DEF Steady, Viewing, ViewFields
  <2>3. key \in BOOLEAN
    BY <1>1 DEF Viewing
  <2> HIDE DEF key
  <2> QED BY <2>1, <2>2, <2>3
<1>3. view' = [view EXCEPT ![v] = u] /\ LoopOnly /\ Wire'
  BY StillWire DEF Grab, Set, Inv, Typed
<1> HIDE DEF u
<1> QED BY <1>2, <1>3, LoopStep DEF Steady

LEMMA StepFault == ASSUME Inv, NEW v \in Viewers, Fault(v) PROVE Inv'
<1> DEFINE w == view[v]
<1>1. Viewing(w)
  BY DEF Inv, Typed, Views
<1>2. PICK p \in {w.prev, w.pix} : view' = [view EXCEPT ![v].pc = "wait", ![v].prev = p]
  BY DEF Fault
<1> DEFINE u == [w EXCEPT !.pc = "wait", !.prev = p]
<1>3. Steady(u, w)
  BY <1>1 DEF Steady, Viewing, ViewFields
<1>4. view' = [view EXCEPT ![v] = u] /\ LoopOnly /\ Wire'
  BY <1>2, StillWire DEF Fault, Inv, Typed, Views
<1> HIDE DEF u
<1> QED BY <1>3, <1>4, LoopStep DEF Steady

\* One more frame is on its way.
LEMMA SentViewing == ASSUME NEW w, Viewing(w) PROVE Steady(Sent(w), w)
<1>1. w.inFlight \cup {w.sent + 1} \subseteq 1..(w.sent + 1)
  BY DEF Viewing
<1> QED BY <1>1 DEF Steady, Viewing, ViewFields, Sent

LEMMA StepSend == ASSUME Inv, NEW v \in Viewers, Send(v) PROVE Inv'
<1> DEFINE w == view[v]
           s == Sent(w)
           u == [s EXCEPT !.pc = "wait", !.prev = w.pix, !.wantKey = FALSE, !.refine = TRUE]
<1>1. Viewing(w)
  BY DEF Inv, Typed, Views
<1>2. Steady(s, w)
  BY <1>1, SentViewing
<1>3. Steady(u, w)
  <2> HIDE DEF s
  <2> QED BY <1>1, <1>2 DEF Steady, Viewing, ViewFields
<1>4. Frame(w.sent + 1, w.key, w.pix) \in Frames
  BY <1>1 DEF Viewing, Frame, Frames
<1>5. Wire'
  BY <1>4, CarryWire DEF Send, Inv, Typed
<1>6. view' = [view EXCEPT ![v] = u] /\ LoopOnly
  BY DEF Send, Set
<1> HIDE DEF u
<1> QED BY <1>3, <1>5, <1>6, LoopStep DEF Steady

LEMMA StepRefine == ASSUME Inv, NEW v \in Viewers, Refine(v) PROVE Inv'
<1> DEFINE w == view[v]
           s == Sent(w)
<1>1. Viewing(w)
  BY DEF Inv, Typed, Views
<1>2. Steady([w EXCEPT !.refine = FALSE], w)
  BY <1>1 DEF Steady, Viewing, ViewFields
<1>3. Steady([s EXCEPT !.refine = FALSE], w)
  <2>1. Steady(s, w)
    BY <1>1, SentViewing
  <2> HIDE DEF s
  <2> QED BY <1>1, <2>1 DEF Steady, Viewing, ViewFields
<1>4. Frame(w.sent + 1, FALSE, w.prev) \in Frames
  BY <1>1 DEF Viewing, Frame, Frames
<1>5. Wire'
  BY <1>4, CarryWire, StillWire DEF Refine, Inv, Typed
<1>6. PICK u : view' = [view EXCEPT ![v] = u] /\ Steady(u, w)
  <2> HIDE DEF s
  <2> QED BY <1>2, <1>3 DEF Refine, Set, s
<1> QED BY <1>5, <1>6, LoopStep DEF Steady, Refine

\* Something is drawn.
LEMMA StepDraw == ASSUME Inv, NEW p \in Pictures, Draw(p) PROVE Inv'
<1>1. UNCHANGED <<closers, enabled, display, opened, shut, switch, late, slipped,
                  screen, down, view, tab, post, stream>> /\ picture' \in Pictures /\ damage' \in Nat
  BY DEF Draw, manager, ghosts, Inv, Typed
<1>2. Core'
  BY <1>1, CoreStays, ViewStays DEF Inv, Typed, PostFollows, Past
<1>3. Typed'
  BY <1>1 DEF Inv, Typed, Views, Closers, Switched, Tabbed, Posted, Drawing, Wire
<1> QED BY <1>2, <1>3 DEF Inv
-----------------------------------------------------------------------------
(* A viewer comes                                                           *)

\* Whoever would let go of the key still will.
LEMMA PressedStays ==
    ASSUME Core, Closers, UNCHANGED <<down, slipped, shut>>, late \subseteq late',
           post.hand # <<>> => post'.hand # <<>>,
           \A v \in Viewers : view[v].held /\ WillClose(v) =>
               /\ view'[v].held /\ WillClose(v)' /\ view'[v].d = view[v].d
               /\ Alone(v) => Alone(v)',
           \A c \in closers : c.held => c \in closers' /\ view'[c.of].d = view[c.of].d
    PROVE  Pressed'
<1> SUFFICES ASSUME down, ~slipped PROVE Releaser'
  BY DEF Pressed
<1>1. Releaser
  BY DEF Core, Pressed
<1>2. ASSUME NEW v \in Viewers, view[v].held, WillClose(v), view[v].d \notin shut \/ Alone(v) \/ v \in late
      PROVE  Releaser'
  BY <1>2 DEF Releaser
<1>3. ASSUME NEW c \in closers, c.held, view[c.of].d \notin shut \/ c.by = "handler" \/ c.of \in late
      PROVE  Releaser'
  BY <1>3 DEF Releaser
<1>4. CASE post.hand # <<>>
  BY <1>4 DEF Releaser
<1> QED BY <1>1, <1>2, <1>3, <1>4 DEF Releaser

\* A viewer moves on, and nothing else is known of it afterwards.
LEMMA AtMoves ==
    ASSUME Inv, NEW v \in Viewers, NEW x, view' = [view EXCEPT ![v].at = x],
           x \in {"none", "asked", "checked", "ending", "over"},
           x \in {"none", "asked", "checked"} => Early(v),
           x = "checked" => enabled, PostFollows,
           UNCHANGED <<down, slipped, closers, late, shut, display, enabled, switch>>
    PROVE  Views' /\ Core'
<1>1. Views' /\ DOMAIN view' = Viewers
  BY DEF Inv, Typed, Views, Viewing, ViewFields
<1>2. \A u \in Viewers :
          /\ view'[u].at = (IF u = v THEN x ELSE view[u].at)
          /\ view'[u].d = view[u].d /\ view'[u].reg = view[u].reg
          /\ view'[u].held = view[u].held /\ view'[u].taken = view[u].taken
          /\ view'[u].served = view[u].served
  BY DEF Inv, Typed, Views, Viewing, ViewFields
<1>3. Unborns'
  BY <1>2 DEF Inv, Core, Unborns, Early
<1>4. Begins' /\ InHand' /\ Newcomers'
  BY <1>2 DEF Inv, Core, Begins, Begun, WillClose, InHand, Newcomers, PostFollows, Past,
              Typed, Posted
<1>5. InTime' /\ Leaving'
  BY <1>2 DEF Inv, Core, InTime, Leaving, Registered, At, Going
<1>6. Pressed'
  BY <1>2, PressedStays DEF Inv, Typed, WillClose, Alone, PostFollows, Closers, Closing
<1> QED BY <1>1, <1>3, <1>4, <1>5, <1>6 DEF Core

LEMMA StepCheck == ASSUME Inv, NEW v \in Viewers, Check(v) PROVE Inv'
<1>1. UNCHANGED <<picture, damage, closers, enabled, display, opened, shut, switch, late, slipped,
                  screen, down, post, stream>>
  BY DEF Check, machine, manager, ghosts
<1>2. Tabbed(tab')
  BY DEF Check, Inv, Typed, Tabbed, TabFields
<1>3. Views' /\ Core'
  <2> DEFINE x == IF enabled THEN "checked" ELSE "over"
  <2>1. Early(v) /\ PostFollows /\ view' = [view EXCEPT ![v].at = x]
    BY <1>1 DEF Check, At, Early, PostFollows, Past
  <2>2. x \in {"none", "asked", "checked", "ending", "over"} /\ (x = "checked" => enabled)
    OBVIOUS
  <2> HIDE DEF x
  <2> QED BY <1>1, <2>1, <2>2, AtMoves
<1> QED BY <1>1, <1>2, <1>3 DEF Inv, Typed, Closers, Switched, Posted, Drawing, Wire

LEMMA StepEnd == ASSUME Inv, NEW v \in Viewers, End(v) PROVE Inv'
<1>1. UNCHANGED <<picture, damage, closers, enabled, display, opened, shut, switch, late, slipped,
                  screen, down, post, stream, tab>>
  BY DEF End, LoopOnly, machine, manager
<1>2. Views' /\ Core'
  <2> DEFINE x == "over"
  <2>1. PostFollows /\ view' = [view EXCEPT ![v].at = x]
    BY <1>1 DEF End, PostFollows, Past
  <2>2. /\ x \in {"none", "asked", "checked", "ending", "over"} /\ x # "checked"
        /\ x \in {"none", "asked", "checked"} => Early(v)
    BY <2>1
  <2> HIDE DEF x
  <2> QED BY <1>1, <2>1, <2>2, AtMoves
<1> QED BY <1>1, <1>2 DEF Inv, Typed, Closers, Switched, Posted, Drawing, Wire, Tabbed

LEMMA StepReconnect == ASSUME Inv, NEW v \in Viewers, Reconnect(v) PROVE Inv'
<1>1. UNCHANGED <<picture, damage, closers, enabled, display, opened, shut, switch, late, slipped,
                  screen, down, post>>
  BY DEF Reconnect, machine, manager, ghosts
<1>2. Tabbed(tab') /\ Wire'
  BY DEF Reconnect, Inv, Typed, Tabbed, TabFields, Wire
<1>3. Views' /\ Core'
  <2> DEFINE x == "asked"
  <2>1. Early(v) /\ PostFollows /\ view' = [view EXCEPT ![v].at = x]
    BY <1>1 DEF Reconnect, At, Early, PostFollows, Past
  <2>2. /\ x \in {"none", "asked", "checked", "ending", "over"} /\ x # "checked"
        /\ x \in {"none", "asked", "checked"} => Early(v)
    BY <2>1
  <2> HIDE DEF x
  <2> QED BY <1>1, <2>1, <2>2, AtMoves
<1> QED BY <1>1, <1>2, <1>3 DEF Inv, Typed, Closers, Switched, Posted, Drawing

\* The display that is open, or a new one.
LEMMA OpeningSwitched ==
    ASSUME Switched, Opening, UNCHANGED <<shut, enabled>>,
           DOMAIN switch' = DOMAIN switch, switch'.at = switch.at, switch'.todo = switch.todo,
           switch'.d = switch.d
    PROVE  /\ Switched' /\ display' # 0 /\ display' \in Nat
           /\ display # 0 => display' = display
<1>1. CASE display = 0
  BY <1>1 DEF Switched, Opening
<1>2. CASE display # 0
  BY <1>2 DEF Switched, Opening
<1> QED BY <1>1, <1>2

LEMMA StepOpen == ASSUME Inv, NEW v \in Viewers, Open(v) PROVE Inv'
<1>1. UNCHANGED <<picture, damage, closers, enabled, shut, switch, late, slipped,
                  screen, down, post, stream, tab>>
  BY DEF Open, machine, ghosts
<1>2. /\ Switched' /\ display' # 0 /\ display' \in Nat
      /\ display # 0 => display' = display
  BY <1>1, OpeningSwitched DEF Open, Inv, Typed, Switched
<1> DEFINE w == view[v]
           r == [w EXCEPT !.at = "opened", !.d = display']
<1>3. view' = [view EXCEPT ![v] = r] /\ DOMAIN view = Viewers
  BY DEF Open, Inv, Typed, Views
<1>4. /\ Viewing(r) /\ r.at = "opened" /\ r.d = display' /\ r.reg = w.reg
      /\ r.held = w.held /\ r.taken = w.taken /\ r.served = w.served
  <2>1. Viewing(w)
    BY DEF Inv, Typed, Views
  <2> QED BY <1>2, <2>1 DEF Viewing, ViewFields
<1> HIDE DEF r
<1>12. Views'
  BY <1>3, <1>4 DEF Inv, Typed, Views
<1>5. \A u \in Viewers :
          /\ view'[u].at = (IF u = v THEN "opened" ELSE view[u].at)
          /\ view'[u].d = (IF u = v THEN display' ELSE view[u].d)
          /\ view'[u].reg = view[u].reg
          /\ view'[u].held = view[u].held /\ view'[u].taken = view[u].taken
          /\ view'[u].served = view[u].served
  BY <1>3, <1>4
<1>6. view[v].at = "checked" /\ Early(v)
  BY DEF Open, At, Early
<1>7. Unborns'
  BY <1>1, <1>5, <1>6 DEF Inv, Core, Unborns, Early
<1>8. Begins' /\ InHand' /\ Newcomers'
  <2>1. ~view[v].reg
    BY <1>6 DEF Inv, Core, Unborns
  <2>2. Begins' /\ InHand'
    BY <1>1, <1>5 DEF Inv, Core, Begins, Begun, WillClose, InHand, Past, Typed, Posted
  <2>3. Newcomers'
    BY <1>1, <1>5, <2>1 DEF Inv, Core, Newcomers
  <2> QED BY <2>2, <2>3
<1>9. InTime' /\ Leaving'
  BY <1>1, <1>2, <1>5, <1>6 DEF Inv, Core, InTime, Leaving, Registered, At, Going
<1>10. Pressed'
  <2>1. ~view[v].held /\ \A c \in closers : c.of # v
    BY <1>6 DEF Inv, Core, Unborns
  <2> QED BY <1>1, <1>5, <2>1, PressedStays DEF Inv, Typed, WillClose, Alone, Closers, Closing
<1>11. Typed'
  BY <1>1, <1>2, <1>12 DEF Inv, Typed, Closers, Posted, Drawing, Wire, Tabbed
<1> QED BY <1>7, <1>8, <1>9, <1>10, <1>11 DEF Inv, Core

LEMMA StepRegister == ASSUME Inv, NEW v \in Viewers, Register(v) PROVE Inv'
<1>1. UNCHANGED <<picture, damage, closers, enabled, display, opened, shut, switch, late, slipped,
                  screen, down, post, tab>>
  BY DEF Register, machine, manager, ghosts
<1> DEFINE w == view[v]
           r == [w EXCEPT !.at = "run", !.reg = TRUE, !.served = TRUE, !.changes = damage - 1]
<1>2. view' = [view EXCEPT ![v] = r] /\ DOMAIN view = Viewers
  BY DEF Register, Inv, Typed, Views
<1>13. /\ Viewing(r) /\ r.at = "run" /\ r.d = w.d /\ r.reg = TRUE
       /\ r.held = w.held /\ r.taken = w.taken /\ r.served = TRUE
  <2>1. Viewing(w)
    BY DEF Inv, Typed, Views
  <2> QED BY <2>1 DEF Viewing, ViewFields
<1> HIDE DEF r
<1>3. Views'
  BY <1>2, <1>13 DEF Inv, Typed, Views
<1>4. \A u \in Viewers :
          /\ view'[u].at = (IF u = v THEN "run" ELSE view[u].at)
          /\ view'[u].reg = (IF u = v THEN TRUE ELSE view[u].reg)
          /\ view'[u].served = (IF u = v THEN TRUE ELSE view[u].served)
          /\ view'[u].d = view[u].d
          /\ view'[u].held = view[u].held /\ view'[u].taken = view[u].taken
  BY <1>2, <1>13
<1>5. /\ view[v].at = "opened" /\ ~view[v].held /\ ~view[v].taken /\ ~view[v].served
      /\ \A c \in closers : c.of # v
  BY DEF Register, At, Inv, Core, Unborns, Early
<1>6. Unborns'
  BY <1>1, <1>4 DEF Inv, Core, Unborns, Early
<1>7. Begins' /\ InHand'
  BY <1>1, <1>4 DEF Inv, Core, Begins, Begun, WillClose, InHand, Past, Typed, Posted
<1>8. Newcomers'
  <2>1. v \notin late => view[v].d # switch.d
    BY <1>5 DEF Inv, Core, InTime, At, Typed, Switched
  <2> QED BY <1>1, <1>4, <2>1 DEF Inv, Core, Newcomers
<1>9. InTime' /\ Leaving'
  <2> HIDE DEF w
  <2>1. ASSUME NEW u \in Viewers \ late
        PROVE  /\ At(u, "checked")' \/ At(u, "opened")' \/ Registered(u)' => enabled \/ switch.at = "stored"
               /\ At(u, "opened")' \/ Registered(u)' => view'[u].d = display /\ display # 0
    BY <1>4, <1>5 DEF Inv, Core, InTime, Registered, At
  <2>2. ASSUME NEW u \in Viewers \ late, At(u, "run")', ~view'[u].reg
        PROVE  switch.at = "closing" /\ view'[u].d = switch.d /\ Going(u)
    BY <1>4, <2>2 DEF Inv, Core, Leaving, At
  <2>3. InTime'
    BY <1>1, <2>1 DEF InTime
  <2>4. Leaving'
    BY <1>1, <2>2 DEF Leaving, Going
  <2> QED BY <2>3, <2>4
<1>10. Pressed'
  BY <1>1, <1>4, <1>5, PressedStays DEF Inv, Typed, WillClose, Alone, Closers, Closing
<1>11. Wire'
  <2>1. Hello(v) \in Hellos
    BY DEF Hello, Hellos
  <2>2. <<Hello(v)>> \in Seq(Hellos \cup Frames)
    BY <2>1
  <2> QED BY <2>2 DEF Register, Inv, Typed, Wire
<1>12. Typed'
  BY <1>1, <1>3, <1>11 DEF Inv, Typed, Closers, Posted, Drawing, Tabbed, Switched
<1> QED BY <1>6, <1>7, <1>8, <1>9, <1>10, <1>12 DEF Inv, Core
-----------------------------------------------------------------------------
(* A viewer goes                                                            *)

\* Whose close is under way is no longer early.
LEMMA CloserLate == ASSUME Inv, NEW c \in closers
                    PROVE  c.of \in Viewers /\ ~Early(c.of) /\ Closing(c)
BY DEF Inv, Core, Unborns, Typed, Closers, Closing

\* What a close leaves of the other variables.
LEMMA CloseTyped ==
    ASSUME Inv, CloseOnly, Views', Closers', Switched', Tabbed(tab'),
           down' \in BOOLEAN, slipped' \in BOOLEAN
    PROVE  Typed' /\ UNCHANGED post
BY DEF Inv, Typed, CloseOnly, machine, Posted, Drawing, Wire

\* A close goes on to its next stage, without the keys.
LEMMA GoesOn ==
    ASSUME Inv, NEW c \in closers, c.at # "release", NEW x \in {"wait", "swap"}, Goes(c, x)
    PROVE  /\ Closers'
           /\ \A d \in closers : d # c => d \in closers'
           /\ \A d \in closers' : \E e \in closers : d.of = e.of /\ d.by = e.by
           /\ \A d \in closers' : d \in closers \/ (d.of = c.of /\ d.at = x)
           /\ \A v \in Viewers : (\E d \in closers : d.of = v /\ d.at # "release")
                              => \E d \in closers' : d.of = v /\ d.at # "release"
<1> DEFINE n == [c EXCEPT !.at = x]
<1>1. Closing(c) /\ closers' = (closers \ {c}) \cup {n}
  BY DEF Goes, Inv, Typed, Closers
<1>2. Closing(n) /\ n.of = c.of /\ n.by = c.by /\ n.at = x
  BY <1>1 DEF Closing
<1> HIDE DEF n
<1>3. Closers'
  BY <1>1, <1>2 DEF Inv, Typed, Closers
<1> QED BY <1>1, <1>2, <1>3

LEMMA StepHandlerLeaves == ASSUME Inv, NEW v \in Viewers, HandlerLeaves(v) PROVE Inv'
<1> DEFINE w == view[v]
           r == [w EXCEPT !.served = FALSE]
           n == Closer(v, "handler")
<1>1. /\ UNCHANGED <<down, display, shut, switch, late, slipped, enabled, opened, post>>
      /\ closers' = closers \cup {n} /\ w.served
  BY DEF HandlerLeaves, CloseOnly
<1>2. view' = [view EXCEPT ![v] = r] /\ DOMAIN view = Viewers
  BY DEF HandlerLeaves, Inv, Typed, Views
<1>3. /\ Viewing(r) /\ r.at = w.at /\ r.d = w.d /\ r.reg = w.reg
      /\ r.held = w.held /\ r.taken = w.taken /\ r.served = FALSE
  <2>1. Viewing(w)
    BY DEF Inv, Typed, Views
  <2> QED BY <2>1 DEF Viewing, ViewFields
<1>4. n.of = v /\ n.by = "handler" /\ n.at = "cancel" /\ n.held = FALSE /\ Closing(n)
  BY DEF Closer, Closing
<1> HIDE DEF r, n
<1>5. \A u \in Viewers :
          /\ view'[u].at = view[u].at /\ view'[u].d = view[u].d /\ view'[u].reg = view[u].reg
          /\ view'[u].held = view[u].held /\ view'[u].taken = view[u].taken
          /\ u # v => view'[u].served = view[u].served
  BY <1>2, <1>3
<1>6. ~Early(v)
  BY <1>1 DEF Inv, Core, Unborns
<1>7. Typed'
  <2>1. Tabbed(tab')
    BY DEF HandlerLeaves, Inv, Typed, Tabbed, TabFields
  <2>2. Views' /\ Closers' /\ Switched'
    BY <1>1, <1>2, <1>3, <1>4 DEF Inv, Typed, Views, Closers, Switched
  <2> QED BY <1>1, <2>1, <2>2, CloseTyped DEF HandlerLeaves, Inv, Typed
<1>8. \A u \in Viewers : (WillClose(u) => WillClose(u)') /\ (Alone(u) => Alone(u)')
  <2>1. WillClose(v)'
    BY <1>1, <1>4 DEF WillClose
  <2>2. \A u \in Viewers : u # v /\ WillClose(u) => WillClose(u)'
    BY <1>1, <1>5 DEF WillClose
  <2>3. \A u \in Viewers : Alone(u) => Alone(u)'
    BY <1>1, <1>4, <1>5 DEF Alone
  <2> QED BY <2>1, <2>2, <2>3
<1>9. Unborns'
  <2> SUFFICES ASSUME NEW u \in Viewers, Early(u)'
               PROVE  /\ ~view'[u].reg /\ ~view'[u].served /\ ~view'[u].held /\ ~view'[u].taken
                      /\ u \notin switch'.todo /\ \A c \in closers' : c.of # u
    BY DEF Unborns
  <2>1. Early(u) /\ u # v
    BY <1>5, <1>6 DEF Early
  <2> QED BY <1>1, <1>4, <1>5, <2>1 DEF Inv, Core, Unborns
<1>10. Begins' /\ InHand' /\ Newcomers'
  <2>1. Begins'
    BY <1>1, <1>5, <1>8 DEF Inv, Core, Begins, Begun, Past, Typed, Posted
  <2>2. InHand' /\ Newcomers'
    BY <1>1, <1>5 DEF Inv, Core, InHand, Newcomers, Past, Typed, Posted
  <2> QED BY <2>1, <2>2
<1>11. InTime' /\ Leaving'
  <2>1. InTime'
    BY <1>1, <1>5 DEF Inv, Core, InTime, Registered, At
  <2>2. \A u \in Viewers : Going(u) => Going(u)'
    BY <1>1 DEF Going
  <2>3. Leaving'
    BY <1>1, <1>5, <2>2 DEF Inv, Core, Leaving, At
  <2> QED BY <2>1, <2>3
<1>12. Pressed'
  BY <1>1, <1>5, <1>8, PressedStays DEF Inv, Typed, Closers, Closing
<1> QED BY <1>7, <1>9, <1>10, <1>11, <1>12 DEF Inv, Core

LEMMA StepCancel == ASSUME Inv, NEW c \in closers, Cancel(c) PROVE Inv'
<1> DEFINE v == c.of
           w == view[v]
           r == IF w.at = "run" THEN Cancelled(w) ELSE w
<1>0. v \in Viewers /\ ~Early(v) /\ Closing(c) /\ c.at = "cancel" /\ ~c.held
  BY CloserLate DEF Cancel, Closing
<1>1. /\ UNCHANGED <<down, display, shut, switch, late, slipped, enabled, opened, post, tab>>
      /\ Goes(c, "wait")
  BY DEF Cancel, CloseCall, CloseOnly
<1>2. view' = [view EXCEPT ![v] = r] /\ DOMAIN view = Viewers
  BY DEF Cancel, Inv, Typed, Views
<1>3. /\ Viewing(r) /\ r.at # "run" /\ (r.at = w.at \/ r.at = "ending")
      /\ r.d = w.d /\ r.reg = w.reg
      /\ r.held = w.held /\ r.taken = w.taken /\ r.served = w.served
  <2>1. Viewing(w)
    BY <1>0 DEF Inv, Typed, Views
  <2>2. /\ Viewing(Cancelled(w)) /\ Cancelled(w).at = "ending"
        /\ Cancelled(w).d = w.d /\ Cancelled(w).reg = w.reg /\ Cancelled(w).held = w.held
        /\ Cancelled(w).taken = w.taken /\ Cancelled(w).served = w.served
    <3> HIDE DEF w
    <3> QED BY <2>1 DEF Viewing, ViewFields, Cancelled, Unborn, Shown
  <2>3. CASE w.at = "run"
    <3> HIDE DEF w
    <3> QED BY <2>2, <2>3
  <2>4. CASE w.at # "run"
    <3> HIDE DEF w
    <3> QED BY <2>1, <2>4
  <2> QED BY <2>3, <2>4
<1> HIDE DEF r
<1>4. /\ Closers'
      /\ \A d \in closers : d # c => d \in closers'
      /\ \A d \in closers' : \E e \in closers : d.of = e.of /\ d.by = e.by
      /\ \A d \in closers' : d \in closers \/ (d.of = v /\ d.at = "wait")
      /\ \A u \in Viewers : (\E d \in closers : d.of = u /\ d.at # "release")
                          => \E d \in closers' : d.of = u /\ d.at # "release"
  <2>1. c.at # "release"
    BY <1>0
  <2> QED BY <1>1, <2>1, GoesOn
<1>5. \A u \in Viewers :
          /\ view'[u].d = view[u].d /\ view'[u].reg = view[u].reg
          /\ view'[u].held = view[u].held /\ view'[u].taken = view[u].taken
          /\ view'[u].served = view[u].served
          /\ view'[u].at = view[u].at \/ (u = v /\ view'[u].at = "ending")
  BY <1>2, <1>3
<1>6. Typed'
  <2>1. Views' /\ Switched' /\ Tabbed(tab')
    BY <1>1, <1>2, <1>3 DEF Inv, Typed, Views, Switched, Tabbed
  <2> QED BY <1>1, <1>4, <2>1, CloseTyped DEF Cancel, CloseCall, Inv, Typed
<1>7. \A u \in Viewers : (WillClose(u) => WillClose(u)') /\ (Alone(u) => Alone(u)')
  <2>1. \A u \in Viewers : WillClose(u) => WillClose(u)'
    BY <1>4, <1>5 DEF WillClose
  <2>2. \A u \in Viewers : Alone(u) => Alone(u)'
    BY <1>1, <1>4, <1>5 DEF Alone
  <2> QED BY <2>1, <2>2
<1>8. Unborns'
  <2> SUFFICES ASSUME NEW u \in Viewers, Early(u)'
               PROVE  /\ ~view'[u].reg /\ ~view'[u].served /\ ~view'[u].held /\ ~view'[u].taken
                      /\ u \notin switch'.todo /\ \A d \in closers' : d.of # u
    BY DEF Unborns
  <2>1. Early(u)
    BY <1>5 DEF Early
  <2> QED BY <1>1, <1>4, <1>5, <2>1 DEF Inv, Core, Unborns
<1>9. Begins' /\ InHand' /\ Newcomers'
  <2>1. Begins'
    BY <1>1, <1>5, <1>7 DEF Inv, Core, Begins, Begun, Past, Typed, Posted
  <2>2. InHand' /\ Newcomers'
    BY <1>1, <1>5 DEF Inv, Core, InHand, Newcomers, Past, Typed, Posted
  <2> QED BY <2>1, <2>2
<1>10. InTime' /\ Leaving'
  <2>1. InTime'
    BY <1>1, <1>5 DEF Inv, Core, InTime, Registered, At
  <2>2. ASSUME NEW u \in Viewers \ late, At(u, "run")', ~view'[u].reg
        PROVE  switch.at = "closing" /\ view'[u].d = switch.d /\ Going(u)'
    <3>1. u # v /\ view[u].at = "run" /\ ~view[u].reg
      BY <1>2, <1>3, <1>5, <2>2 DEF At
    <3>2. switch.at = "closing" /\ view[u].d = switch.d /\ Going(u)
      BY <3>1 DEF Inv, Core, Leaving, At
    <3>3. Going(u)'
      BY <1>1, <1>4, <3>1, <3>2 DEF Going
    <3> QED BY <1>5, <3>2, <3>3
  <2>3. Leaving'
    BY <1>1, <2>2 DEF Leaving
  <2> QED BY <2>1, <2>3
<1>11. Pressed'
  BY <1>0, <1>1, <1>4, <1>5, <1>7, PressedStays DEF Inv, Typed, Closers, Closing
<1> QED BY <1>6, <1>8, <1>9, <1>10, <1>11 DEF Inv, Core

LEMMA StepForget == ASSUME Inv, NEW c \in closers, Forget(c) PROVE Inv'
<1> DEFINE v == c.of
           w == view[v]
           r == [w EXCEPT !.reg = FALSE]
<1>0. v \in Viewers /\ ~Early(v) /\ Closing(c) /\ c.at = "wait" /\ ~c.held /\ w.at = "over"
  BY CloserLate DEF Forget, Closing, At
<1>1. /\ UNCHANGED <<down, display, shut, switch, late, slipped, enabled, opened, post, tab>>
      /\ Goes(c, "swap")
  BY DEF Forget, CloseCall, CloseOnly
<1>2. view' = [view EXCEPT ![v] = r] /\ DOMAIN view = Viewers
  BY DEF Forget, Inv, Typed, Views
<1>3. /\ Viewing(r) /\ r.at = w.at /\ r.d = w.d /\ r.reg = FALSE
      /\ r.held = w.held /\ r.taken = w.taken /\ r.served = w.served
  <2>1. Viewing(w)
    BY <1>0 DEF Inv, Typed, Views
  <2> QED BY <2>1 DEF Viewing, ViewFields
<1> HIDE DEF r
<1>4. /\ Closers'
      /\ \A d \in closers : d # c => d \in closers'
      /\ \A d \in closers' : \E e \in closers : d.of = e.of /\ d.by = e.by
      /\ \A d \in closers' : d \in closers \/ (d.of = v /\ d.at = "swap")
      /\ \A u \in Viewers : (\E d \in closers : d.of = u /\ d.at # "release")
                          => \E d \in closers' : d.of = u /\ d.at # "release"
  <2>1. c.at # "release"
    BY <1>0
  <2> QED BY <1>1, <2>1, GoesOn
<1>5. \A u \in Viewers :
          /\ view'[u].d = view[u].d /\ view'[u].at = view[u].at
          /\ view'[u].held = view[u].held /\ view'[u].taken = view[u].taken
          /\ view'[u].served = view[u].served
          /\ (view'[u].reg => view[u].reg) /\ (u # v => view'[u].reg = view[u].reg)
  BY <1>2, <1>3
<1>12. ~view'[v].reg
  BY <1>0, <1>2, <1>3
<1>6. Typed'
  <2>1. Views' /\ Switched' /\ Tabbed(tab')
    BY <1>1, <1>2, <1>3 DEF Inv, Typed, Views, Switched, Tabbed
  <2> QED BY <1>1, <1>4, <2>1, CloseTyped DEF Forget, CloseCall, Inv, Typed
<1>7. \A u \in Viewers : (WillClose(u) => WillClose(u)') /\ (Alone(u) => Alone(u)')
  <2>1. \A u \in Viewers : WillClose(u) => WillClose(u)'
    BY <1>4, <1>5 DEF WillClose
  <2>2. \A u \in Viewers : Alone(u) => Alone(u)'
    BY <1>1, <1>4, <1>5 DEF Alone
  <2> QED BY <2>1, <2>2
<1>8. Unborns'
  <2> SUFFICES ASSUME NEW u \in Viewers, Early(u)'
               PROVE  /\ ~view'[u].reg /\ ~view'[u].served /\ ~view'[u].held /\ ~view'[u].taken
                      /\ u \notin switch'.todo /\ \A d \in closers' : d.of # u
    BY DEF Unborns
  <2>1. Early(u)
    BY <1>5 DEF Early
  <2> QED BY <1>1, <1>4, <1>5, <2>1 DEF Inv, Core, Unborns
<1>9. Begins' /\ InHand' /\ Newcomers'
  <2>1. Begins'
    BY <1>1, <1>5, <1>7 DEF Inv, Core, Begins, Begun, Past, Typed, Posted
  <2>2. InHand' /\ Newcomers'
    BY <1>1, <1>5 DEF Inv, Core, InHand, Newcomers, Past, Typed, Posted
  <2> QED BY <2>1, <2>2
<1>10. InTime' /\ Leaving'
  <2>1. InTime'
    BY <1>1, <1>5 DEF Inv, Core, InTime, Registered, At
  <2>2. ASSUME NEW u \in Viewers \ late, At(u, "run")', ~view'[u].reg
        PROVE  switch.at = "closing" /\ view'[u].d = switch.d /\ Going(u)'
    <3>1. u # v /\ view[u].at = "run" /\ ~view[u].reg
      BY <1>0, <1>5, <2>2 DEF At
    <3>2. switch.at = "closing" /\ view[u].d = switch.d /\ Going(u)
      BY <3>1 DEF Inv, Core, Leaving, At
    <3>3. Going(u)'
      BY <1>1, <1>4, <3>1, <3>2 DEF Going
    <3> QED BY <1>5, <3>2, <3>3
  <2>3. Leaving'
    BY <1>1, <2>2 DEF Leaving
  <2> QED BY <2>1, <2>3
<1>11. Pressed'
  BY <1>0, <1>1, <1>4, <1>5, <1>7, PressedStays DEF Inv, Typed, Closers, Closing
<1> QED BY <1>6, <1>8, <1>9, <1>10, <1>11 DEF Inv, Core

LEMMA StepTakeKeys == ASSUME Inv, NEW c \in closers, TakeKeys(c) PROVE Inv'
<1> DEFINE v == c.of
           w == view[v]
           r == [w EXCEPT !.held = FALSE, !.taken = TRUE]
           n == [c EXCEPT !.at = "release", !.held = w.held]
<1>0. v \in Viewers /\ ~Early(v) /\ Closing(c) /\ c.at = "swap" /\ ~c.held /\ Viewing(w)
  <2>1. v \in Viewers /\ ~Early(v) /\ Closing(c)
    BY CloserLate
  <2> QED BY <2>1 DEF TakeKeys, Closing, Inv, Typed, Views
<1>1. /\ UNCHANGED <<down, display, shut, switch, late, slipped, enabled, opened, post, tab>>
      /\ closers' = (closers \ {c}) \cup {n}
  BY DEF TakeKeys, CloseCall, CloseOnly
<1>2. view' = [view EXCEPT ![v] = r] /\ DOMAIN view = Viewers
  BY DEF TakeKeys, Inv, Typed, Views
<1>3. /\ Viewing(r) /\ r.at = w.at /\ r.d = w.d /\ r.reg = w.reg
      /\ r.held = FALSE /\ r.taken = TRUE /\ r.served = w.served
  <2> HIDE DEF w
  <2> QED BY <1>0 DEF Viewing, ViewFields
<1>4. n.of = v /\ n.by = c.by /\ n.at = "release" /\ n.held = w.held /\ Closing(n)
  <2>1. w.held \in BOOLEAN
    BY <1>0 DEF Viewing
  <2> HIDE DEF w
  <2> QED BY <1>0, <2>1 DEF Closing
<1> HIDE DEF r, n
<1>5. \A u \in Viewers :
          /\ view'[u].d = view[u].d /\ view'[u].at = view[u].at /\ view'[u].reg = view[u].reg
          /\ view'[u].served = view[u].served
          /\ u # v => view'[u].held = view[u].held /\ view'[u].taken = view[u].taken
  BY <1>2, <1>3
<1>6. view'[v].taken /\ ~view'[v].held
  BY <1>0, <1>2, <1>3
<1>7. Typed'
  <2>1. Views' /\ Switched' /\ Tabbed(tab')
    BY <1>1, <1>2, <1>3 DEF Inv, Typed, Views, Switched, Tabbed
  <2>2. Closers'
    BY <1>1, <1>4 DEF Inv, Typed, Closers
  <2> QED BY <1>1, <2>1, <2>2, CloseTyped DEF TakeKeys, CloseCall, Inv, Typed
<1>8. \A u \in Viewers : (u # v /\ WillClose(u) => WillClose(u)') /\ (Alone(u) => Alone(u)')
  <2>1. \A u \in Viewers : u # v /\ WillClose(u) => WillClose(u)'
    BY <1>1, <1>5 DEF WillClose
  <2>2. \A u \in Viewers : Alone(u) => Alone(u)'
    BY <1>1, <1>4, <1>5 DEF Alone
  <2> QED BY <2>1, <2>2
<1>9. Unborns'
  <2> SUFFICES ASSUME NEW u \in Viewers, Early(u)'
               PROVE  /\ ~view'[u].reg /\ ~view'[u].served /\ ~view'[u].held /\ ~view'[u].taken
                      /\ u \notin switch'.todo /\ \A d \in closers' : d.of # u
    BY DEF Unborns
  <2>1. Early(u) /\ u # v
    BY <1>0, <1>5 DEF Early
  <2> QED BY <1>1, <1>4, <1>5, <2>1 DEF Inv, Core, Unborns
<1>10. Begins' /\ InHand' /\ Newcomers'
  <2>1. Begun(v)'
    BY <1>6 DEF Begun
  <2>2. \A u \in Viewers : Begun(u) => Begun(u)'
    BY <1>5, <1>8, <2>1 DEF Begun
  <2>3. Begins'
    <3>1. \A u \in Viewers : view'[u].reg => Begun(u)'
      BY <1>5, <2>2 DEF Inv, Core, Begins
    <3>2. Past' => Begun(post.of) /\ post.of \in Viewers
      BY <1>1 DEF Inv, Core, Begins, Past, Typed, Posted
    <3>3. post.of \in Viewers /\ Begun(post.of) => Begun(post.of)'
      <4> SUFFICES ASSUME post.of \in Viewers, Begun(post.of) PROVE Begun(post.of)'
        OBVIOUS
      <4>1. CASE post.of = v
        BY <1>1, <1>6, <4>1 DEF Begun
      <4>2. CASE post.of # v
        BY <1>1, <1>5, <1>8, <4>2 DEF Begun, WillClose
      <4> QED BY <4>1, <4>2
    <3> QED BY <3>1, <3>2, <3>3 DEF Begins
  <2>4. InHand'
    <3> SUFFICES ASSUME post'.hand # <<>>
                 PROVE  view'[post'.of].taken \/ view'[post'.of].held = Head(post'.hand)
      BY DEF InHand
    <3>1. post' = post /\ post.of \in Viewers
      BY <1>1 DEF Inv, Typed, Posted
    <3> QED BY <1>5, <1>6, <3>1 DEF Inv, Core, InHand
  <2>5. Newcomers'
    BY <1>1, <1>5 DEF Inv, Core, Newcomers
  <2> QED BY <2>3, <2>4, <2>5
<1>11. InTime' /\ Leaving'
  <2>1. InTime'
    BY <1>1, <1>5 DEF Inv, Core, InTime, Registered, At
  <2>2. \A u \in Viewers : Going(u) => Going(u)'
    BY <1>0, <1>1 DEF Going
  <2>3. Leaving'
    BY <1>1, <1>5, <2>2 DEF Inv, Core, Leaving, At
  <2> QED BY <2>1, <2>3
<1>12. Pressed'
  <2> SUFFICES ASSUME down, ~slipped PROVE Releaser'
    BY <1>1 DEF Pressed
  <2>1. Releaser
    BY DEF Inv, Core, Pressed
  <2>2. ASSUME NEW u \in Viewers, view[u].held, WillClose(u), view[u].d \notin shut \/ Alone(u) \/ u \in late
        PROVE  Releaser'
    <3>1. CASE u # v
      BY <1>1, <1>5, <1>8, <2>2, <3>1 DEF Releaser
    <3>2. CASE u = v
      <4>1. n \in closers' /\ n.held /\ n.of = u
        BY <1>1, <1>4, <2>2, <3>2
      <4>2. Alone(u) => n.by = "handler"
        BY <1>4, <3>2 DEF Alone
      <4> QED BY <1>1, <1>5, <2>2, <4>1, <4>2 DEF Releaser
    <3> QED BY <3>1, <3>2
  <2>3. ASSUME NEW d \in closers, d.held, view[d.of].d \notin shut \/ d.by = "handler" \/ d.of \in late
        PROVE  Releaser'
    <3>1. d \in closers' /\ d.of \in Viewers
      BY <1>0, <1>1, <2>3, CloserLate
    <3> QED BY <1>1, <1>5, <2>3, <3>1 DEF Releaser
  <2>4. CASE post.hand # <<>>
    BY <1>1, <2>4 DEF Releaser
  <2> QED BY <2>1, <2>2, <2>3, <2>4 DEF Releaser
<1> QED BY <1>7, <1>9, <1>10, <1>11, <1>12 DEF Inv, Core

LEMMA StepLetGo == ASSUME Inv, NEW c \in closers, LetGo(c) PROVE Inv'
<1>0. c.of \in Viewers /\ Closing(c) /\ c.at = "release"
  BY CloserLate DEF LetGo
<1>1. /\ UNCHANGED <<view, display, shut, switch, late, enabled, opened, post, tab>>
      /\ closers' = closers \ {c}
  BY DEF LetGo, CloseCall, CloseOnly
<1>2. /\ down' = IF c.held /\ view[c.of].d \notin shut THEN FALSE ELSE down
      /\ slipped' = (slipped \/ /\ c.held /\ view[c.of].d \in shut
                                /\ c.by = "handler" \/ c.of \in late)
  BY DEF LetGo, Type
<1>3. Typed'
  <2>1. Views' /\ Switched' /\ Tabbed(tab') /\ Closers'
    BY <1>1 DEF Inv, Typed, Views, Switched, Tabbed, Closers
  <2>2. down' \in BOOLEAN /\ slipped' \in BOOLEAN
    BY <1>2 DEF Inv, Typed
  <2> QED BY <2>1, <2>2, CloseTyped DEF LetGo, CloseCall
<1>4. \A u : (WillClose(u) => WillClose(u)') /\ (Alone(u) => Alone(u)')
             /\ (Going(u) => Going(u)')
  BY <1>0, <1>1 DEF WillClose, Alone, Going
<1>5. Unborns' /\ InHand' /\ Newcomers'
  BY <1>1 DEF Inv, Core, Unborns, Early, InHand, Newcomers, Past
<1>6. Begins'
  <2>1. \A u \in Viewers : view'[u].reg => Begun(u)'
    BY <1>1, <1>4 DEF Inv, Core, Begins, Begun
  <2>2. Past' => Begun(post.of)'
    BY <1>0, <1>1 DEF Inv, Core, Begins, Begun, WillClose, Past
  <2> QED BY <1>1, <2>1, <2>2 DEF Begins
<1>7. InTime' /\ Leaving'
  BY <1>1, <1>4 DEF Inv, Core, InTime, Leaving, Registered, At
<1>8. Pressed'
  <2> SUFFICES ASSUME down', ~slipped' PROVE Releaser'
    BY DEF Pressed
  <2>1. /\ down /\ ~slipped
        /\ c.held => view[c.of].d \in shut /\ c.by # "handler" /\ c.of \notin late
    BY <1>2
  <2>2. Releaser
    BY <2>1 DEF Inv, Core, Pressed
  <2>3. ASSUME NEW u \in Viewers, view[u].held, WillClose(u), view[u].d \notin shut \/ Alone(u) \/ u \in late
        PROVE  Releaser'
    BY <1>1, <1>4, <2>3 DEF Releaser
  <2>4. ASSUME NEW d \in closers, d.held, view[d.of].d \notin shut \/ d.by = "handler" \/ d.of \in late
        PROVE  Releaser'
    <3>1. d # c
      BY <2>1, <2>4
    <3> QED BY <1>1, <2>4, <3>1 DEF Releaser
  <2>5. CASE post.hand # <<>>
    BY <1>1, <2>5 DEF Releaser
  <2> QED BY <2>2, <2>3, <2>4, <2>5 DEF Releaser
<1> QED BY <1>3, <1>5, <1>6, <1>7, <1>8 DEF Inv, Core
-----------------------------------------------------------------------------
(* The switch                                                               *)

LEMMA StepTurnOff == ASSUME Inv, TurnOff PROVE Inv'
<1>1. /\ UNCHANGED <<picture, damage, down, display, opened, shut, view, closers, stream, post,
                     tab, screen, late, slipped>>
      /\ enabled' = FALSE /\ switch.at = "none" /\ switch' = [switch EXCEPT !.at = "stored"]
  BY DEF TurnOff, machine, ghosts
<1>2. /\ switch'.at = "stored" /\ switch'.todo = switch.todo /\ switch'.d = switch.d
      /\ DOMAIN switch' = {"at", "todo", "d", "on"}
  BY <1>1 DEF Inv, Typed, Switched
<1>3. Typed'
  BY ZenonT(40), <1>1, <1>2 DEF Inv, Typed, Views, Closers, Posted, Drawing, Wire, Tabbed, Switched
<1>4. Unborns' /\ Begins' /\ InHand'
  BY <1>1, <1>2 DEF Inv, Core, Unborns, Early, Begins, Begun, WillClose, InHand, Past
<1>5. InTime' /\ Leaving' /\ Newcomers'
  <2>1. InTime'
    BY <1>1, <1>2 DEF Inv, Core, InTime, Registered, At
  <2>2. Leaving'
    BY <1>1 DEF Inv, Core, Leaving, At
  <2>3. Newcomers'
    BY <1>2 DEF Newcomers
  <2> QED BY <2>1, <2>2, <2>3
<1>6. Pressed'
  BY <1>1, <1>2, PressedStays DEF Inv, Typed, WillClose, Alone
<1> QED BY <1>3, <1>4, <1>5, <1>6 DEF Inv, Core

LEMMA StepTakeAll == ASSUME Inv, TakeAll PROVE Inv'
<1>1. /\ UNCHANGED <<down, shut, slipped, closers, post, tab, enabled, opened>>
      /\ switch.at = "stored"
      /\ late' = late \cup {v \in Viewers : view[v].at \in {"checked", "opened"}}
      /\ display' = 0
  BY DEF TakeAll, CloseOnly
<1>2. /\ switch'.at = "closing" /\ switch'.todo = {v \in Viewers : view[v].reg}
      /\ switch'.d = display /\ DOMAIN switch' = {"at", "todo", "d", "on"}
  BY DEF TakeAll, Inv, Typed, Switched
<1>3. Views' /\ \A u \in Viewers :
          /\ view'[u].d = view[u].d /\ view'[u].at = view[u].at /\ ~view'[u].reg
          /\ view'[u].held = view[u].held /\ view'[u].taken = view[u].taken
          /\ view'[u].served = view[u].served
  <2>1. view' = [v \in Viewers |-> [view[v] EXCEPT !.reg = FALSE]]
    BY DEF TakeAll
  <2>2. ASSUME NEW u \in Viewers
        PROVE  /\ Viewing([view[u] EXCEPT !.reg = FALSE])
               /\ LET r == [view[u] EXCEPT !.reg = FALSE] IN
                  /\ r.d = view[u].d /\ r.at = view[u].at /\ r.reg = FALSE
                  /\ r.held = view[u].held /\ r.taken = view[u].taken /\ r.served = view[u].served
    <3>1. Viewing(view[u])
      BY DEF Inv, Typed, Views
    <3> QED BY <3>1 DEF Viewing, ViewFields
  <2>3. Views'
    BY <2>1, <2>2 DEF Views
  <2> QED BY <2>1, <2>2, <2>3
<1>4. Typed'
  <2>1. Switched' /\ Tabbed(tab') /\ Closers'
    BY <1>1, <1>2 DEF Inv, Typed, Switched, Tabbed, Closers
  <2> QED BY <1>1, <1>3, <2>1, CloseTyped DEF TakeAll, Inv, Typed
<1>5. \A u \in Viewers : WillClose(u) => WillClose(u)'
  BY <1>1, <1>3 DEF WillClose
<1>6. Unborns'
  BY <1>1, <1>2, <1>3 DEF Inv, Core, Unborns, Early
<1>7. Begins' /\ InHand' /\ Newcomers'
  <2>1. Past' => Begun(post.of)'
    <3>1. post.of \in Viewers /\ Begun(post.of) => Begun(post.of)'
      BY <1>1, <1>3 DEF Begun, WillClose
    <3> QED BY <1>1, <3>1 DEF Inv, Core, Begins, Past, Typed, Posted
  <2>2. Begins'
    BY <1>1, <1>3, <2>1 DEF Begins
  <2>3. InHand' /\ Newcomers'
    BY <1>1, <1>3 DEF Inv, Core, InHand, Newcomers, Typed, Posted
  <2> QED BY <2>2, <2>3
<1>8. InTime' /\ Leaving'
  <2>1. InTime'
    BY <1>1, <1>3 DEF InTime, Registered, At
  <2>2. ASSUME NEW u \in Viewers \ late', At(u, "run")', ~view'[u].reg
        PROVE  switch'.at = "closing" /\ view'[u].d = switch'.d /\ Going(u)'
    <3>1. u \in Viewers \ late /\ At(u, "run")
      BY <1>1, <1>3, <2>2 DEF At
    <3>2. view[u].reg
      BY <1>1, <3>1 DEF Inv, Core, Leaving
    <3>3. view[u].d = display
      BY <3>1, <3>2 DEF Inv, Core, InTime, Registered
    <3> QED BY <1>2, <1>3, <3>1, <3>2, <3>3 DEF Going
  <2> QED BY <2>1, <2>2 DEF Leaving
<1>9. Pressed'
  <2>1. \A u \in Viewers : Alone(u) => Alone(u)'
    BY <1>1, <1>2, <1>3 DEF Alone
  <2> QED BY <1>1, <1>3, <1>5, <2>1, PressedStays DEF Inv, Typed, Closers, Closing
<1> QED BY <1>4, <1>6, <1>7, <1>8, <1>9 DEF Inv, Core

LEMMA StepCloseNext == ASSUME Inv, NEW v \in Viewers, CloseNext(v) PROVE Inv'
<1> DEFINE n == Closer(v, "manager")
<1>1. /\ UNCHANGED <<down, display, shut, view, tab, late, slipped, enabled, opened, post>>
      /\ switch.at = "closing" /\ v \in switch.todo /\ closers' = closers \cup {n}
  BY DEF CloseNext, CloseOnly
<1>2. /\ switch'.at = switch.at /\ switch'.todo = switch.todo \ {v} /\ switch'.d = switch.d
      /\ DOMAIN switch' = {"at", "todo", "d", "on"}
  BY DEF CloseNext, Inv, Typed, Switched
<1>3. n.of = v /\ n.by = "manager" /\ n.at = "cancel" /\ n.held = FALSE /\ Closing(n)
  BY DEF Closer, Closing
<1> HIDE DEF n
<1>4. Typed'
  <2>1. Switched' /\ Tabbed(tab') /\ Closers' /\ Views'
    BY <1>1, <1>2, <1>3 DEF Inv, Typed, Switched, Tabbed, Closers, Views
  <2> QED BY <1>1, <2>1, CloseTyped DEF CloseNext, Inv, Typed
<1>5. \A u : (WillClose(u) => WillClose(u)') /\ (Alone(u) => Alone(u)')
             /\ (Going(u) => Going(u)')
  <2>1. \A u : WillClose(u) => WillClose(u)'
    BY <1>1 DEF WillClose
  <2>2. \A u : Alone(u) => Alone(u)'
    BY <1>1, <1>2, <1>3 DEF Alone
  <2>3. \A u : Going(u) => Going(u)'
    BY <1>1, <1>2, <1>3 DEF Going
  <2> QED BY <2>1, <2>2, <2>3
<1>6. Unborns'
  <2>1. ~Early(v)
    BY <1>1 DEF Inv, Core, Unborns
  <2> QED BY <1>1, <1>2, <1>3, <2>1 DEF Inv, Core, Unborns, Early
<1>7. Begins'
  <2>1. \A u \in Viewers : view'[u].reg => Begun(u)'
    BY <1>1, <1>5 DEF Inv, Core, Begins, Begun
  <2>2. Past' => Begun(post.of)'
    BY <1>1 DEF Inv, Core, Begins, Begun, WillClose, Past
  <2> QED BY <1>1, <2>1, <2>2 DEF Begins
<1>8. InHand' /\ Newcomers' /\ InTime' /\ Leaving'
  BY <1>1, <1>2, <1>5 DEF Inv, Core, InHand, Newcomers, InTime, Leaving, Registered, At, Past
<1>9. Pressed'
  BY <1>1, <1>5, PressedStays DEF Inv, Typed
<1> QED BY <1>4, <1>6, <1>7, <1>8, <1>9 DEF Inv, Core

LEMMA StepCloseDisplay == ASSUME Inv, CloseDisplay PROVE Inv'
<1>1. /\ UNCHANGED <<picture, damage, down, enabled, view, closers, stream, post, tab, screen,
                     late, slipped>>
      /\ switch.at = "closing" /\ switch.todo = {} /\ ~ClosingOne
      /\ shut' = shut \cup ({switch.d} \ {0}) /\ Opening
      /\ switch'.at = "none" /\ switch'.todo = {} /\ switch'.d = 0
      /\ DOMAIN switch' = {"at", "todo", "d", "on"}
  BY DEF CloseDisplay, machine, ghosts, Inv, Typed, Switched
<1>2. Switched'
  <2>1. /\ opened \in Nat /\ display \in 0..opened /\ shut \subseteq 1..opened
        /\ switch.d \in 0..opened /\ display \notin shut /\ (display # 0 => display # switch.d)
    BY DEF Inv, Typed, Switched
  <2>2. shut' \subseteq 1..opened /\ (display # 0 => display \notin shut')
    <3>1. \A x \in {switch.d} \ {0} : x \in 1..opened /\ (display # 0 => display # x)
      BY <2>1
    <3>2. \A x : x \in shut' <=> x \in shut \/ x \in {switch.d} \ {0}
      BY <1>1
    <3> QED BY <2>1, <3>1, <3>2
  <2>3. /\ opened' \in Nat /\ display' \in 0..opened' /\ shut' \subseteq 1..opened'
        /\ display' \notin shut' /\ display' # 0
    <3>1. CASE display = 0
      BY <1>1, <2>1, <2>2, <3>1 DEF Opening
    <3>2. CASE display # 0
      BY <1>1, <2>1, <2>2, <3>2 DEF Opening
    <3> QED BY <3>1, <3>2
  <2> QED BY <1>1, <2>1, <2>3 DEF Inv, Typed, Switched
<1>3. Typed'
  BY <1>1, <1>2 DEF Inv, Typed, Views, Closers, Posted, Drawing, Wire, Tabbed
<1>4. Unborns' /\ Begins' /\ InHand' /\ Newcomers'
  BY <1>1 DEF Inv, Core, Unborns, Early, Begins, Begun, WillClose, InHand, Newcomers, Past
<1>5. \A c \in closers : c.by = "handler"
  <2>1. \A c \in closers : c.by \in {"handler", "manager"}
    BY DEF Inv, Typed, Closers, Closing
  <2> QED BY <1>1, <2>1 DEF ClosingOne
<1>6. InTime' /\ Leaving'
  <2>1. display # 0 => display' = display
    BY <1>1 DEF Opening
  <2>2. \A v \in Viewers \ late : ~(At(v, "run") /\ ~view[v].reg)
    BY <1>1 DEF Inv, Core, Leaving, Going, ClosingOne
  <2>3. InTime'
    BY <1>1, <2>1 DEF Inv, Core, InTime, At, Registered
  <2>4. Leaving'
    BY <1>1, <2>2 DEF Leaving, At
  <2> QED BY <2>3, <2>4
<1>7. Pressed'
  <2> SUFFICES ASSUME down, ~slipped PROVE Releaser'
    BY <1>1 DEF Pressed
  <2>1. Releaser
    BY DEF Inv, Core, Pressed
  <2>2. ASSUME NEW u \in Viewers, view[u].held, WillClose(u),
               view[u].d \notin shut \/ Alone(u) \/ u \in late
        PROVE  Releaser'
    <3>1. WillClose(u)'
      BY <1>1, <2>2 DEF WillClose
    <3>2. CASE u \in late
      BY <1>1, <2>2, <3>1, <3>2 DEF Releaser
    <3>3. CASE ~view[u].reg
      <4>1. Alone(u)'
        BY <1>1, <1>5, <3>3 DEF Alone
      <4> QED BY <1>1, <2>2, <3>1, <4>1 DEF Releaser
    <3>4. CASE u \notin late /\ view[u].reg
      <4>1. view[u].d # switch.d /\ view[u].d \notin shut
        BY <1>1, <2>2, <3>4 DEF Inv, Core, Newcomers, Alone
      <4>2. view'[u].d \notin shut'
        BY <1>1, <4>1
      <4> QED BY <1>1, <2>2, <3>1, <4>2 DEF Releaser
    <3> QED BY <3>2, <3>3, <3>4
  <2>3. ASSUME NEW d \in closers, d.held PROVE Releaser'
    BY <1>1, <1>5, <2>3 DEF Releaser
  <2>4. CASE post.hand # <<>>
    BY <1>1, <2>4 DEF Releaser
  <2> QED BY <2>1, <2>2, <2>3, <2>4 DEF Releaser
<1> QED BY <1>3, <1>4, <1>6, <1>7 DEF Inv, Core

LEMMA StepTurnOn == ASSUME Inv, TurnOn PROVE Inv'
<1>1. /\ UNCHANGED <<picture, damage, down, display, opened, shut, view, closers, stream, post,
                     tab, screen, late, slipped>>
      /\ enabled' = TRUE /\ switch' = [switch EXCEPT !.on = TRUE]
  BY DEF TurnOn, machine, ghosts
<1>2. /\ switch'.at = switch.at /\ switch'.todo = switch.todo /\ switch'.d = switch.d
      /\ DOMAIN switch' = {"at", "todo", "d", "on"}
  BY <1>1 DEF Inv, Typed, Switched
<1>3. Typed'
  <2>1. Switched'
    BY <1>1, <1>2 DEF Inv, Typed, Switched
  <2>2. Views' /\ Closers'
    BY <1>1 DEF Inv, Typed, Views, Closers
  <2> QED BY <1>1, <2>1, <2>2 DEF Inv, Typed, Posted, Drawing, Wire, Tabbed
<1>4. Unborns' /\ Begins' /\ InHand' /\ Newcomers'
  BY <1>1, <1>2 DEF Inv, Core, Unborns, Early, Begins, Begun, WillClose, InHand, Newcomers, Past
<1>5. InTime' /\ Leaving'
  BY <1>1, <1>2 DEF Inv, Core, InTime, Registered, At, Leaving, Going
<1>6. Pressed'
  BY <1>1, <1>2, PressedStays DEF Inv, Typed, WillClose, Alone
<1> QED BY <1>3, <1>4, <1>5, <1>6 DEF Inv, Core

LEMMA StepAnswerOn == ASSUME Inv, AnswerOn PROVE Inv'
<1>1. /\ UNCHANGED <<picture, damage, down, enabled, shut, view, closers, stream, post, tab,
                     screen, late, slipped>>
      /\ switch' = [switch EXCEPT !.on = FALSE] /\ Opening
  BY DEF AnswerOn, machine, ghosts
<1>2. /\ switch'.at = switch.at /\ switch'.todo = switch.todo /\ switch'.d = switch.d
      /\ DOMAIN switch' = DOMAIN switch
  BY <1>1 DEF Inv, Typed, Switched
<1>3. Switched' /\ (display # 0 => display' = display)
  BY <1>1, <1>2, OpeningSwitched DEF Inv, Typed
<1>4. Typed'
  BY <1>1, <1>3 DEF Inv, Typed, Views, Closers, Posted, Drawing, Wire, Tabbed
<1>5. Unborns' /\ Begins' /\ InHand' /\ Newcomers'
  BY <1>1, <1>2 DEF Inv, Core, Unborns, Early, Begins, Begun, WillClose, InHand, Newcomers, Past
<1>6. InTime' /\ Leaving'
  <2>1. InTime'
    BY <1>1, <1>2, <1>3 DEF Inv, Core, InTime, Registered, At
  <2>2. Leaving'
    BY <1>1, <1>2 DEF Inv, Core, Leaving, At, Going
  <2> QED BY <2>1, <2>2
<1>7. Pressed'
  BY <1>1, <1>2, PressedStays DEF Inv, Typed, WillClose, Alone
<1> QED BY <1>4, <1>5, <1>6, <1>7 DEF Inv, Core
-----------------------------------------------------------------------------
(* The theorems                                                             *)

LEMMA InitInv == ASSUME ScreenAssumption, Init PROVE Inv
<1>1. \A v \in Viewers :
          /\ Viewing(view[v]) /\ view[v].at \in {"none", "asked"} /\ ~view[v].reg
          /\ ~view[v].served /\ ~view[v].held /\ ~view[v].taken
  BY DEF Init, Unborn, Viewing, ViewFields, Shown
<1>2. Posted(post) /\ post.at = "none" /\ post.hand = <<>>
  BY Nothing DEF Init
<1>3. Tabbed(tab)
  <2>1. <<>> \in Seq(BOOLEAN)
    OBVIOUS
  <2> QED BY <2>1 DEF Init, NoTab, Tabbed, TabFields, ScreenAssumption
<1>4. Drawing(screen) /\ Wire
  <2>1. <<>> \in Seq(Frames) /\ <<>> \in Seq(Hellos \cup Frames)
    OBVIOUS
  <2> QED BY <2>1 DEF Init, Drawing, Wire, Shown
<1>5. Typed
  <2>1. Views
    BY <1>1 DEF Views, Init
  <2>2. Switched /\ Closers
    BY DEF Init, Switched, Closers
  <2> QED BY <1>2, <1>3, <1>4, <2>1, <2>2 DEF Init, Typed
<1>6. Core
  BY <1>1, <1>2 DEF Init, Core, Unborns, Begins, Past, InHand, InTime, Leaving, Newcomers, Pressed,
                    At, Registered
<1> QED BY <1>5, <1>6 DEF Inv

\* The invariant holds in every step, one action after the other.
LEMMA StepInv == ASSUME Inv, [Next]_vars PROVE Inv'
<1>1. ASSUME NEW v \in Viewers,
             Watch(v) \/ Loop(v) \/ TimeOut(v) \/ Refine(v) \/ Fault(v) \/ HandlerLeaves(v)
             \/ Reconnect(v)
      PROVE  Inv'
  <2>1. CASE Watch(v)
    BY <2>1, StepCheck, StepOpen, StepRegister DEF Watch
  <2>2. CASE Loop(v)
    BY <2>2, StepLook, StepGrab, StepSend, StepEnd DEF Loop
  <2> QED BY <1>1, <2>1, <2>2, StepTimeOut, StepRefine, StepFault, StepHandlerLeaves, StepReconnect
<1>2. ASSUME NEW c \in closers, Close(c) PROVE Inv'
  BY <1>2, StepCancel, StepForget, StepTakeKeys, StepLetGo DEF Close
<1>3. CASE PutScreen
  BY <1>3, StepTakeAll, StepCloseDisplay, StepAnswerOn, StepCloseNext DEF PutScreen
<1>4. CASE Post
  BY <1>4, StepArrive, StepPostAck, StepPostKey, StepNote, StepTouch, StepPostEnds DEF Post
<1>5. CASE Receive
  BY <1>5, StepOnHello, StepOnFrame DEF Receive
<1>6. CASE User
  BY <1>6, StepPress, StepBreak, StepStop, StepTurnOff, StepTurnOn DEF User
<1>7. CASE UNCHANGED vars
  <2>1. /\ UNCHANGED <<picture, damage, down, enabled, display, opened, shut, switch, view,
                       closers, stream, post, tab, screen, late, slipped>>
    BY <1>7 DEF vars, machine, manager, ghosts
  <2>2. Core'
    BY <2>1, CoreStays DEF Inv, Typed, SameStatus, PostFollows, Past
  <2>3. Typed'
    BY <2>1 DEF Inv, Typed, Views, Closers, Posted, Drawing, Wire, Tabbed, Switched
  <2> QED BY <2>2, <2>3 DEF Inv
<1>8. (\E p \in Pictures : Draw(p)) \/ Lose \/ Drawn \/ Garble => Inv'
  BY StepDraw, StepLose, StepDrawn, StepGarble
<1> QED BY <1>1, <1>2, <1>3, <1>4, <1>5, <1>6, <1>7, <1>8 DEF Next

THEOREM ScreenInvariant == Spec => []Inv
<1>1. Init => Inv
  BY InitInv, ScreenAssumption
<1>2. Inv /\ [Next]_vars => Inv'
  BY StepInv
<1> QED BY <1>1, <1>2, PTL DEF Spec

\* Once sharing has been turned off nobody watches who came in time, and nobody
\* who watches in time is left with a display that is closed: a viewer is found
\* in one of the two tables the switch reads, or was seen on its way.
THEOREM OffIsOff == Spec => []OffMeansOff
<1>1. Inv => TypeOK
  BY DEF Inv, Typed, TypeOK, Views, Viewing, Switched, Posted, Tabbed, Drawing, Shown
<1>2. Inv => \A v \in Viewers \ late : At(v, "run") => ~SwitchedOff /\ view[v].d \notin shut
  <2> SUFFICES ASSUME Inv, NEW v \in Viewers \ late, At(v, "run")
               PROVE  ~SwitchedOff /\ view[v].d \notin shut
    OBVIOUS
  <2>1. CASE view[v].reg
    BY <2>1 DEF Inv, Core, InTime, Registered, Typed, Switched, SwitchedOff
  <2>2. CASE ~view[v].reg
    BY <2>2 DEF Inv, Core, Leaving, Typed, Switched, SwitchedOff
  <2> QED BY <2>1, <2>2
<1>3. Inv => OffMeansOff
  BY <1>1, <1>2 DEF OffMeansOff
<1> QED BY <1>3, ScreenInvariant, PTL

\* No key stays down when its viewer is gone, unless it was touched in the middle
\* of that: somebody whose release reaches the machine is always on the way.
THEOREM KeysComeUp == Spec => []NothingStaysPressed
<1>1. Inv => NothingStaysPressed
  BY DEF Inv, Core, Pressed, Releaser, NothingStaysPressed, Keeper
<1> QED BY <1>1, ScreenInvariant, PTL
=============================================================================
