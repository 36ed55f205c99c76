------------------------------ MODULE Screens ------------------------------
(***************************************************************************)
(* The machine's screen in a browser tab: the switch and the display that  *)
(* screen/manager.go opens and closes, the loop that encodes frames for    *)
(* one viewer, the requests that acknowledge frames and carry input        *)
(* (server/api_screen.go, screen/input.go), and the tab that draws what    *)
(* comes (web/src/screen.js), with a codec whose frames build on the frame *)
(* before (VP8, VP9).                                                      *)
(*                                                                         *)
(* A picture of the screen is a value, and the input is one key.  The      *)
(* window of unacknowledged frames is a number, and how long a frame lasts *)
(* is left open.  Loop and pointer wake up thirty times a second, so what  *)
(* the loop waits for is read off the state of the moment.                 *)
(*                                                                         *)
(* A step ends where the code releases Manager.mu or Viewer.mu, has called *)
(* the display, or handles one message.                                    *)
(***************************************************************************)
EXTENDS FiniteSets, Integers, SequencesExt

CONSTANTS
    Pictures,       \* what the screen may show
    Viewers,        \* 1..n, each tab or reconnect takes the next one
    Window,         \* rateControl.window: frames that may be unacknowledged
    Budgets         \* how much of each thing may happen; one of them does

\* what changes on the screen, grabs and encodings that fail, decoders that
\* fail, requests that are lost; connections that break, tabs that close, keys
\* pressed, the switch turned
Kinds == {"draw", "fault", "garble", "lose", "break", "quit", "press", "switch"}
ASSUME ScreenAssumption ==
    /\ Pictures \subseteq Nat \ {0} /\ Pictures # {}
    /\ Viewers \subseteq Nat \ {0} /\ 1 \in Viewers /\ Window \in Nat \ {0}
    /\ Budgets \subseteq [Kinds -> Nat]

VARIABLES
    \* the machine
    picture,        \* what its screen shows
    damage,         \* Display.Changes
    down,           \* the key is down
    \* the manager
    enabled,        \* ScreenEnabled
    display,        \* Manager.display, 0 when it is not open
    opened,         \* displays opened so far
    shut,           \* those closed again
    view,           \* the viewers
    closers,        \* calls of Viewer.Close under way
    switch,         \* the request that turns sharing off, with Manager.Close, and
                    \* whether one that turned it on has its answer to come
    \* the wire
    stream,         \* messages on their way to the tab
    post,           \* the tab's one request in flight
    \* the tab
    tab,            \* InputQueue and the connection
    screen,         \* ScreenStream's decoder and canvas
    \* observations, and what is left of the budget
    late,           \* viewers that were on their way when sharing was turned off
    lost,           \* a request for a key frame came to nothing
    missed,         \* viewer -> the last change was seen and not encoded
    slipped,        \* the key was touched past Close, or on a closed display, or let
                    \* go there for a viewer that was on its way
    left

machine == <<picture, damage>>
manager == <<enabled, display, opened, shut, switch>>
ghosts  == <<late, lost, missed, slipped>>
vars    == <<machine, down, manager, view, closers, stream, post, tab, screen, ghosts, left>>

\* none -> asked -> checked -> opened -> run -> ending -> over; held: Viewer.keys;
\* taken: a Close has taken them; served: streamScreen has not returned
Unborn == [at |-> "none", d |-> 0, reg |-> FALSE, pc |-> "wait", wake |-> FALSE,
           wantKey |-> TRUE, changes |-> 0, pacing |-> FALSE, refine |-> FALSE,
           key |-> FALSE, pix |-> 0, prev |-> 0, sent |-> 0, acked |-> 0,
           inFlight |-> {}, held |-> FALSE, taken |-> FALSE, served |-> FALSE]
NoPost == [at |-> "none", of |-> 0, ack |-> 0, key |-> FALSE, events |-> <<>>,
           hand |-> <<>>]
NoTab  == [conn |-> 0, viewer |-> 0, ack |-> 0, sentAck |-> 0, key |-> FALSE,
           events |-> <<>>, holding |-> FALSE, refused |-> FALSE, closed |-> TRUE]
Hello(v) == [type |-> "hello", of |-> v]
Frame(seq, key, pix) == [type |-> "frame", seq |-> seq, key |-> key, pix |-> pix]

Spend(kind) == left[kind] > 0 /\ left' = [left EXCEPT ![kind] = @ - 1]
At(v, at)   == view[v].at = at
Set(v, r)   == view' = [view EXCEPT ![v] = r]
Later(a, b) == IF a > b THEN a ELSE b

\* A tab has asked for its first viewer.
Init ==
    /\ picture \in Pictures /\ damage = 0 /\ down = FALSE
    /\ enabled = TRUE /\ display = 0 /\ opened = 0 /\ shut = {}
    /\ switch = [at |-> "none", todo |-> {}, d |-> 0, on |-> FALSE]
    /\ view = [v \in Viewers |-> IF v = 1 THEN [Unborn EXCEPT !.at = "asked"] ELSE Unborn]
    /\ closers = {} /\ stream = <<>> /\ post = NoPost
    /\ tab = [NoTab EXCEPT !.conn = 1, !.closed = FALSE]
    /\ screen = [needKey |-> TRUE, pending |-> <<>>, shown |-> 0]
    /\ late = {} /\ lost = FALSE /\ missed = [v \in Viewers |-> FALSE] /\ slipped = FALSE
    /\ left \in Budgets

\* Something is drawn, perhaps what was there before.
Draw(p) ==
    /\ Spend("draw")
    /\ picture' = p /\ damage' = damage + 1
    /\ UNCHANGED <<down, manager, view, closers, stream, post, tab, screen, ghosts>>

\* Display.Key
Type(d, press) == down' = IF d \in shut THEN down ELSE press
-----------------------------------------------------------------------------
(* A viewer comes                                                           *)

\* screenManager, the check of the switch.  The browser does not try again
\* after a refusal.
CheckNothing(v) ==                      \* mutant
    /\ At(v, "asked")
    /\ view' = [view EXCEPT ![v].at = "checked"]
    /\ UNCHANGED <<machine, down, manager, closers, stream, post, tab, screen, ghosts, left>>
Check(v) ==
    /\ At(v, "asked")
    /\ view' = [view EXCEPT ![v].at = IF enabled THEN "checked" ELSE "over"]
    /\ tab' = IF ~enabled /\ tab.conn = v THEN [tab EXCEPT !.conn = 0, !.refused = TRUE] ELSE tab
    /\ UNCHANGED <<machine, down, manager, closers, stream, post, screen, ghosts, left>>

\* Manager.Display
Opening == /\ display' = IF display = 0 THEN opened + 1 ELSE display
           /\ opened' = IF display = 0 THEN opened + 1 ELSE opened
Open(v) ==
    /\ At(v, "checked")
    /\ Opening
    /\ view' = [view EXCEPT ![v].at = "opened", ![v].d = display']
    /\ UNCHANGED <<machine, down, enabled, shut, switch, closers, stream, post, tab, screen,
                   ghosts, left>>

\* The rest of Watch, up to run's loop.
Register(v) ==
    /\ At(v, "opened")
    /\ view' = [view EXCEPT ![v].at = "run", ![v].reg = TRUE, ![v].served = TRUE,
                          ![v].changes = damage - 1]
    /\ stream' = IF tab.conn = v THEN <<Hello(v)>> ELSE stream
    /\ UNCHANGED <<machine, down, manager, closers, post, tab, screen, ghosts, left>>
-----------------------------------------------------------------------------
(* run, one viewer's loop                                                   *)

InLoop(v, pc) == At(v, "run") /\ view[v].pc = pc
LoopOnly == UNCHANGED <<machine, down, manager, closers, post, tab, screen, late, slipped>>

\* ready
Ready(v) == Cardinality(view[v].inFlight) < Window

\* Its acknowledgements are assumed lost.
Quiet(v)  == view[v].inFlight # {}
TimeOut(v) ==
    /\ InLoop(v, "wait")
    /\ Quiet(v)
    /\ view' = [view EXCEPT ![v].inFlight = {}, ![v].acked = view[v].sent]
    /\ LoopOnly /\ UNCHANGED <<stream, lost, missed, left>>

\* Woken, by damage, an acknowledgement, a request or the end of the frame
\* interval, it takes note of the changes it is about to grab.
Look(v) ==
    LET w == view[v]
        idle == ~Ready(v) \/ (w.changes = damage /\ ~w.wantKey)
        grabs == [w EXCEPT !.pc = "grab", !.key = w.wantKey, !.changes = damage]
        after(r) == IF idle THEN r ELSE [grabs EXCEPT !.wake = r.wake, !.pacing = r.pacing]
    IN
    /\ InLoop(v, "wait")
    /\ \/ /\ w.wake
          /\ \/ Set(v, after([w EXCEPT !.wake = FALSE]))
             \/ ~idle /\ Set(v, [w EXCEPT !.wake = FALSE, !.pacing = TRUE])
       \/ /\ w.pacing
          /\ Set(v, after([w EXCEPT !.pacing = FALSE]))
       \/ /\ ~w.pacing /\ Ready(v) /\ w.changes # damage
          /\ Set(v, after(w)) \/ Set(v, [w EXCEPT !.pacing = TRUE])
    /\ LoopOnly /\ UNCHANGED <<stream, lost, missed, left>>

\* The screen's pixels, for a key frame when there is no frame yet.
Grab(v) ==
    LET w == view[v]
        key == w.key \/ w.prev = 0 IN
    /\ InLoop(v, "grab")
    /\ w.d \notin shut
    /\ Set(v, IF ~key /\ w.prev = picture THEN [w EXCEPT !.pc = "wait"]
              ELSE [w EXCEPT !.pc = "encode", !.key = key, !.pix = picture])
    /\ LoopOnly /\ UNCHANGED <<stream, lost, missed, left>>

\* The grab or the encoder fails, or the encoder has nothing to send: the changes
\* count as seen.
Fault(v) ==
    /\ InLoop(v, "grab") \/ InLoop(v, "encode")
    /\ IF view[v].d \in shut /\ view[v].pc = "grab" THEN UNCHANGED left ELSE Spend("fault")
    /\ \E p \in {view[v].prev} \cup (IF view[v].pc = "encode" THEN {view[v].pix} ELSE {}) :
           view' = [view EXCEPT ![v].pc = "wait", ![v].prev = p]
    /\ missed' = [missed EXCEPT ![v] = TRUE]
    /\ LoopOnly /\ UNCHANGED <<stream, lost>>

\* sendFrame; a tab that has gone gets nothing.
Sent(w) == [w EXCEPT !.sent = @ + 1, !.inFlight = @ \cup {w.sent + 1}]
Carry(v, f) == stream' = IF tab.conn = v THEN Append(stream, f) ELSE stream

\* The request for a key frame is settled, whenever it was made.
Send(v) ==
    LET w == view[v] IN
    /\ InLoop(v, "encode")
    /\ Set(v, [Sent(w) EXCEPT !.pc = "wait", !.prev = w.pix, !.wantKey = FALSE,
                              !.refine = TRUE])
    /\ Carry(v, Frame(w.sent + 1, w.key, w.pix))
    /\ lost' = IF tab.conn = v THEN ~w.key /\ (lost \/ w.wantKey) ELSE lost
    /\ missed' = [missed EXCEPT ![v] = FALSE]
    /\ LoopOnly /\ UNCHANGED left

\* A still screen is encoded once more, if the codec can.
Refine(v) ==
    LET w == view[v] IN
    /\ InLoop(v, "wait")
    /\ w.refine /\ w.changes = damage /\ Ready(v)
    /\ \/ Set(v, [w EXCEPT !.refine = FALSE]) /\ UNCHANGED stream
       \/ /\ Set(v, [Sent(w) EXCEPT !.refine = FALSE])
          /\ Carry(v, Frame(w.sent + 1, FALSE, w.prev))
    /\ LoopOnly /\ UNCHANGED <<lost, missed, left>>

\* Cancelled, it forgets what it knew wherever it is, ends, and closes the stream.
Cancelled(w) == [Unborn EXCEPT !.at = "ending", !.d = w.d, !.reg = w.reg, !.held = w.held,
                               !.taken = w.taken, !.served = w.served]
End(v) ==
    /\ At(v, "ending")
    /\ view' = [view EXCEPT ![v].at = "over"]
    /\ LoopOnly /\ UNCHANGED <<stream, lost, missed, left>>
-----------------------------------------------------------------------------
(* A viewer goes: its handler, the switch, or both close it                 *)

CloseOnly == UNCHANGED <<machine, enabled, opened, stream, post, screen, lost, missed>>

Closer(v, by) == [of |-> v, by |-> by, at |-> "cancel", held |-> FALSE]
Goes(c, at)  == closers' = (closers \ {c}) \cup {[c EXCEPT !.at = at]}

\* streamScreen returns: the stream is over, or a write finds the tab gone.
HandlerLeaves(v) ==
    /\ view[v].served
    /\ At(v, "over") \/ tab.conn # v
    /\ closers' = closers \cup {Closer(v, "handler")}
    /\ view' = [view EXCEPT ![v].served = FALSE]
    /\ tab' = IF tab.conn = v THEN [tab EXCEPT !.conn = 0] ELSE tab
    /\ UNCHANGED <<down, display, shut, switch, late, slipped, left>> /\ CloseOnly

CloseCall == /\ UNCHANGED <<display, shut, switch, tab, late, left>>
             /\ CloseOnly

\* Viewer.Close
Cancel(c) ==
    /\ c \in closers /\ c.at = "cancel"
    /\ view' = [view EXCEPT ![c.of] = IF @.at = "run" THEN Cancelled(@) ELSE @]
    /\ Goes(c, "wait")
    /\ UNCHANGED <<down, slipped>> /\ CloseCall
Forget(c) ==
    /\ c \in closers /\ c.at = "wait" /\ At(c.of, "over")
    /\ view' = [view EXCEPT ![c.of].reg = FALSE]
    /\ Goes(c, "swap")
    /\ UNCHANGED <<down, slipped>> /\ CloseCall

DropKeys(c) ==                          \* mutant: the keys are forgotten, not let go of
    /\ c \in closers /\ c.at = "swap"
    /\ view' = [view EXCEPT ![c.of].held = FALSE, ![c.of].taken = TRUE]
    /\ Goes(c, "release")
    /\ UNCHANGED <<down, slipped>> /\ CloseCall
TakeKeys(c) ==
    /\ c \in closers /\ c.at = "swap"
    /\ closers' = (closers \ {c}) \cup
           {[c EXCEPT !.at = "release", !.held = view[c.of].held]}
    /\ view' = [view EXCEPT ![c.of].held = FALSE, ![c.of].taken = TRUE]
    /\ UNCHANGED <<down, slipped>> /\ CloseCall

\* The handler may come too late for its display, and so may the switch for a viewer
\* that it has missed before.
LetGo(c) ==
    /\ c \in closers /\ c.at = "release"
    /\ IF c.held THEN Type(view[c.of].d, FALSE) ELSE UNCHANGED down
    /\ slipped' = (slipped \/ /\ c.held /\ view[c.of].d \in shut
                              /\ c.by = "handler" \/ c.of \in late)
    /\ closers' = closers \ {c}
    /\ UNCHANGED view /\ CloseCall

\* putScreen stores the switch, for one device after another, while the other
\* position is being carried out or not (two requests that turn it off do not
\* overlap) ...
TurnOff ==
    /\ enabled /\ switch.at = "none"
    /\ Spend("switch")
    /\ enabled' = FALSE
    /\ switch' = [switch EXCEPT !.at = "stored"]
    /\ UNCHANGED <<machine, down, display, opened, shut, view, closers, stream, post, tab,
                   screen, ghosts>>

\* ... Manager.Close takes the viewers and the display, closes one after the
\* other ...
TakeAll ==
    /\ switch.at = "stored"
    /\ switch' = [switch EXCEPT !.at = "closing", !.d = display,
                                !.todo = {v \in Viewers : view[v].reg}]
    /\ view' = [v \in Viewers |-> [view[v] EXCEPT !.reg = FALSE]]
    /\ display' = 0
    /\ late' = late \cup {v \in Viewers : view[v].at \in {"checked", "opened"}}
    /\ UNCHANGED <<down, shut, closers, tab, slipped, left>> /\ CloseOnly

ClosingOne == \E c \in closers : c.by = "manager"
CloseNext(v) ==
    /\ switch.at = "closing" /\ v \in switch.todo /\ ~ClosingOne
    /\ switch' = [switch EXCEPT !.todo = @ \ {v}]
    /\ closers' = closers \cup {Closer(v, "manager")}
    /\ UNCHANGED <<down, display, shut, view, tab, late, slipped, left>> /\ CloseOnly

\* ... and the display, and the answer asks the display for its size, which
\* opens it again (Info).
CloseDisplay ==
    /\ switch.at = "closing" /\ switch.todo = {} /\ ~ClosingOne
    /\ shut' = shut \cup ({switch.d} \ {0})
    /\ switch' = [switch EXCEPT !.at = "none", !.todo = {}, !.d = 0]
    /\ Opening
    /\ UNCHANGED <<machine, down, enabled, view, closers, stream, post, tab, screen, ghosts,
                   left>>

TurnOn ==
    /\ ~enabled /\ ~switch.on
    /\ Spend("switch")
    /\ enabled' = TRUE
    /\ switch' = [switch EXCEPT !.on = TRUE]
    /\ UNCHANGED <<machine, down, display, opened, shut, view, closers, stream, post, tab,
                   screen, ghosts>>
AnswerOn ==
    /\ switch.on
    /\ switch' = [switch EXCEPT !.on = FALSE]
    /\ Opening
    /\ UNCHANGED <<machine, down, enabled, shut, view, closers, stream, post, tab, screen,
                   ghosts, left>>
-----------------------------------------------------------------------------
(* The tab's requests                                                       *)

\* InputQueue.flush
Worth(t) == /\ ~t.closed /\ t.viewer # 0
            /\ t.events # <<>> \/ t.ack # t.sentAck \/ t.key
Body(t)  == [at |-> "sent", of |-> t.viewer, ack |-> t.ack, key |-> t.key,
             events |-> t.events, hand |-> <<>>]
Emptied(t) == [t EXCEPT !.events = <<>>, !.sentAck = t.ack, !.key = FALSE]
Flush(t, free) == IF free /\ Worth(t) THEN tab' = Emptied(t) /\ post' = Body(t)
                  ELSE tab' = t /\ post' = IF free THEN NoPost ELSE post
Push(t)  == Flush(t, post.at = "none")
Answered == Flush(tab, TRUE)

PostOnly == UNCHANGED <<machine, manager, closers, stream, screen, late, missed>>

\* It does not arrive, and is not sent again: a request for a key frame is gone,
\* or the acknowledgement that one waits for.
Lose ==
    /\ post.at = "sent"
    /\ Spend("lose")
    /\ lost' = (lost \/ (post.of = tab.viewer /\ (post.key \/ view[post.of].wantKey)))
    /\ Answered
    /\ UNCHANGED <<down, view, slipped>> /\ PostOnly

\* screenInput, from the switch and the viewer on.
Arrive ==
    /\ post.at = "sent"
    /\ IF enabled /\ view[post.of].reg
       THEN post' = [post EXCEPT !.at = "ack"] /\ UNCHANGED tab
       ELSE Answered
    /\ UNCHANGED <<down, view, slipped, lost, left>> /\ PostOnly

Acked(w, seq) ==
    IF seq > w.acked /\ seq <= w.sent
    THEN [w EXCEPT !.acked = seq, !.inFlight = {n \in @ : n > seq}] ELSE w

\* Ack
PostAck ==
    /\ post.at = "ack"
    /\ view' = IF post.ack = 0 \/ ~At(post.of, "run") THEN view
               ELSE [view EXCEPT ![post.of] = [Acked(@, post.ack) EXCEPT !.wake = TRUE]]
    /\ post' = [post EXCEPT !.at = "key"]
    /\ UNCHANGED <<down, tab, slipped, lost, left>> /\ PostOnly

NoPoke ==                               \* mutant: the loop is not woken
    /\ post.at = "key"
    /\ view' = IF post.key /\ At(post.of, "run")
               THEN [view EXCEPT ![post.of].wantKey = TRUE] ELSE view
    /\ post' = [post EXCEPT !.at = "events"]
    /\ UNCHANGED <<down, tab, slipped, lost, left>> /\ PostOnly
\* RequestKey
PostKey ==
    /\ post.at = "key"
    /\ view' = IF post.key /\ At(post.of, "run")
               THEN [view EXCEPT ![post.of].wantKey = TRUE, ![post.of].wake = TRUE] ELSE view
    /\ post' = [post EXCEPT !.at = "events"]
    /\ UNCHANGED <<down, tab, slipped, lost, left>> /\ PostOnly

\* apply notes the key, and then touches it.
Note ==
    /\ post.at = "events" /\ post.hand = <<>> /\ post.events # <<>>
    /\ view' = [view EXCEPT ![post.of].held = Head(post.events)]
    /\ post' = [post EXCEPT !.hand = <<Head(post.events)>>, !.events = Tail(@)]
    /\ UNCHANGED <<down, tab, slipped, lost, left>> /\ PostOnly
Touch ==
    /\ post.at = "events" /\ post.hand # <<>>
    /\ LET w == view[post.of] IN
       /\ Type(w.d, Head(post.hand))
       /\ slipped' = (slipped \/ w.d \in shut \/ (Head(post.hand) /\ w.taken))
    /\ post' = [post EXCEPT !.hand = <<>>]
    /\ UNCHANGED <<view, tab, lost, left>> /\ PostOnly
PostEnds ==
    /\ post.at = "events" /\ post.hand = <<>> /\ post.events = <<>>
    /\ Answered
    /\ UNCHANGED <<down, view, slipped, lost, left>> /\ PostOnly
-----------------------------------------------------------------------------
(* The tab                                                                  *)

TabOnly == UNCHANGED <<machine, down, manager, view, closers, late, missed, slipped>>

\* setViewer and resetDecoder
OnHello ==
    /\ stream # <<>> /\ Head(stream).type = "hello"
    /\ tab' = [tab EXCEPT !.viewer = Head(stream).of, !.ack = 0, !.sentAck = 0,
                          !.key = FALSE, !.events = <<>>]
    /\ screen' = [screen EXCEPT !.needKey = TRUE, !.pending = <<>>]
    /\ stream' = Tail(stream)
    /\ lost' = FALSE
    /\ UNCHANGED <<post, left>> /\ TabOnly

\* decode: without a key frame there is nothing to draw on.
OnFrame ==
    /\ stream # <<>> /\ Head(stream).type = "frame"
    /\ LET f == Head(stream) IN
       IF screen.needKey /\ ~f.key
       THEN /\ Push([tab EXCEPT !.ack = Later(@, f.seq)])
            /\ UNCHANGED screen
       ELSE /\ screen' = [screen EXCEPT !.needKey = FALSE, !.pending = Append(@, f)]
            /\ UNCHANGED <<tab, post>>
    /\ stream' = Tail(stream)
    /\ UNCHANGED <<lost, left>> /\ TabOnly

\* The decoder's output is drawn.
Drawn ==
    /\ screen.pending # <<>>
    /\ LET f == Head(screen.pending) IN
       /\ screen' = [screen EXCEPT !.shown = f.pix, !.pending = Tail(@)]
       /\ Push([tab EXCEPT !.ack = Later(@, f.seq)])
    /\ UNCHANGED <<stream, lost, left>> /\ TabOnly

\* failDecoder: the acknowledgement goes first, and the request for a key frame
\* with the next one.
Garble ==
    /\ screen.pending # <<>>
    /\ Spend("garble")
    /\ LET t == [tab EXCEPT !.ack = Later(@, Last(screen.pending).seq)] IN
       IF post.at = "none" /\ Worth(t)
       THEN post' = Body(t) /\ tab' = [Emptied(t) EXCEPT !.key = TRUE]
       ELSE Push([t EXCEPT !.key = TRUE])
    /\ screen' = [screen EXCEPT !.needKey = TRUE, !.pending = <<>>]
    /\ UNCHANGED <<stream, lost>> /\ TabOnly

\* A key goes down, or comes up.
Press ==
    /\ ~tab.closed /\ tab.viewer # 0
    /\ IF tab.holding THEN UNCHANGED left ELSE Spend("press")
    /\ Push([tab EXCEPT !.holding = ~@, !.events = Append(@, ~tab.holding)])
    /\ UNCHANGED <<stream, screen, lost>> /\ TabOnly

\* The connection breaks.
Break ==
    /\ tab.conn # 0
    /\ Spend("break")
    /\ tab' = [tab EXCEPT !.conn = 0] /\ stream' = <<>>
    /\ UNCHANGED <<post, screen, lost>> /\ TabOnly

\* It opens again by itself, as a new viewer, unless sharing is off by now
\* (onError of ScreenView).
Reconnect(v) ==
    /\ tab.conn = 0 /\ ~tab.refused /\ ~tab.closed
    /\ At(v, "none") /\ \A u \in Viewers : u < v => ~At(u, "none")
    /\ view' = [view EXCEPT ![v].at = "asked"]
    /\ tab' = [tab EXCEPT !.conn = v] /\ stream' = <<>>
    /\ UNCHANGED <<machine, down, manager, closers, post, screen, ghosts, left>>

\* stop lets go of the key, as far as a request can still go out.
Stop ==
    /\ ~tab.closed
    /\ \/ tab.conn = 0 /\ ~enabled /\ UNCHANGED left
       \/ Spend("quit")
    /\ LET up == IF tab.holding /\ tab.viewer # 0 THEN <<FALSE>> ELSE <<>>
           t  == [tab EXCEPT !.events = @ \o up]
       IN post' = IF post.at = "none" /\ Worth(t) THEN Body(t) ELSE post
    /\ tab' = NoTab /\ screen' = [needKey |-> TRUE, pending |-> <<>>, shown |-> 0]
    /\ stream' = <<>> /\ lost' = FALSE
    /\ TabOnly
-----------------------------------------------------------------------------
Watch(v)  == Check(v) \/ Open(v) \/ Register(v)
Loop(v)   == Look(v) \/ Grab(v) \/ Send(v) \/ End(v)
Close(c)  == Cancel(c) \/ Forget(c) \/ TakeKeys(c) \/ LetGo(c)
PutScreen == TakeAll \/ CloseDisplay \/ AnswerOn \/ \E v \in Viewers : CloseNext(v)
Post      == Arrive \/ PostAck \/ PostKey \/ Note \/ Touch \/ PostEnds
Receive   == OnHello \/ OnFrame
User      == Press \/ Break \/ Stop \/ TurnOff \/ TurnOn

Next ==
    \/ \E p \in Pictures : Draw(p)
    \/ \E v \in Viewers : \/ Watch(v) \/ Loop(v) \/ TimeOut(v) \/ Refine(v) \/ Fault(v)
                          \/ HandlerLeaves(v) \/ Reconnect(v)
    \/ \E c \in closers : Close(c)
    \/ PutScreen \/ Post \/ Lose \/ Receive \/ Drawn \/ Garble \/ User

Spec == Init /\ [][Next]_vars

\* Goroutines go on, requests and messages are handled unless a fault takes
\* them, acknowledgements are given up on, and a browser connects again.
FairSpec ==
    /\ Spec
    /\ \A v \in Viewers : /\ WF_vars(Watch(v)) /\ WF_vars(Loop(v)) /\ WF_vars(TimeOut(v))
                          /\ WF_vars(HandlerLeaves(v)) /\ WF_vars(Reconnect(v))
    /\ WF_vars(\E c \in closers : Close(c)) /\ WF_vars(PutScreen)
    /\ WF_vars(Post) /\ WF_vars(Receive) /\ WF_vars(Drawn)
-----------------------------------------------------------------------------
TypeOK ==
    /\ picture \in Pictures /\ damage \in Nat /\ down \in BOOLEAN
    /\ display \in 0..opened /\ shut \subseteq 1..opened
    /\ switch.at \in {"none", "stored", "closing"} /\ switch.todo \subseteq Viewers
    /\ \A v \in Viewers :
          /\ view[v].at \in {"none", "asked", "checked", "opened", "run", "ending", "over"}
          /\ view[v].pc \in {"wait", "grab", "encode"}
          /\ view[v].acked <= view[v].sent /\ view[v].inFlight \subseteq 1..view[v].sent
    /\ post.of \in Viewers \cup {0} /\ tab.conn \in Viewers \cup {0}
    /\ screen.shown \in Pictures \cup {0}

SwitchedOff == ~enabled /\ switch.at = "none"

\* Once sharing has been turned off nobody watches, but for a tab whose request
\* had passed the check and was not registered yet; and nobody who watches in
\* time is left with a display that is closed (putScreen, Manager.Close, Watch).
OffMeansOff ==
    /\ TypeOK
    /\ \A v \in Viewers \ late : At(v, "run") => ~SwitchedOff /\ view[v].d \notin shut

\* Who will let go of the key: a viewer that has a Close to come, a Close that has
\* taken it, or a request that has it in hand.
WillClose(v) == view[v].served \/ \E c \in closers : c.of = v /\ c.at # "release"
Keeper == \/ \E v \in Viewers : view[v].held /\ WillClose(v)
          \/ \E c \in closers : c.held
          \/ post.hand # <<>>

\* No key stays down on the machine when its viewer is gone, however it went and
\* whoever closed it, unless it was touched in the middle of that (Viewer.Close,
\* Viewer.apply, Manager.Close).
NothingStaysPressed == down /\ ~slipped => Keeper

Attached(v) == tab.conn = v /\ At(v, "run") /\ v \notin late
Excused(v)  == lost \/ missed[v]

\* A tab that stays comes to show what the machine shows: after decoders that fail,
\* acknowledgements that are lost and changes in the middle of a frame, unless a
\* request for a key frame came to nothing or a change could not be encoded
\* (run, Ack, ready, RequestKey; decode, failDecoder, flush).
PictureReturns == <>[](\A v \in Viewers : Attached(v) /\ ~Excused(v) => screen.shown = picture)
=============================================================================
