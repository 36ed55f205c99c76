------------------------------- MODULE Events -------------------------------
(***************************************************************************)
(* What a window knows of the turns of one project: the hub that fans      *)
(* events out (runner/hub.go), the streams that carry them (server/sse.go  *)
(* with the shared folder watcher of server/watch.go), the turns that      *)
(* publish (Launch and consume of runner/runner.go) and the window that    *)
(* shows one task (web/src/store.js).                                      *)
(*                                                                         *)
(* The window draws a running turn from events, and the rest from reads of *)
(* the session.  It reads again whenever a stream opens and whenever a     *)
(* turn ends, because either may have been missed: a stream that falls     *)
(* behind is dropped, and connections break.                               *)
(*                                                                         *)
(* The transcript of a session is the number of writes made to it.  A step *)
(* ends where the code releases Hub.mu, watchers.mu or Runner.mu, writes   *)
(* the store, reads it for an answer, or handles one event.                *)
(***************************************************************************)
EXTENDS FiniteSets, Integers, Sequences

CONSTANTS
    Sessions,
    Project,        \* the topic of their project
    None,           \* no task shown
    Streams,        \* numbers of streams, used again once one is over
    Buffer,         \* subscriberBuffer
    Allowances      \* how much of each thing may happen; one of them does

\* turns, streamed pieces, launches that fail; tasks shown, connections broken,
\* reads that fail
Uses == {"turn", "say", "refuse", "show", "break", "fail"}
ASSUME EventsAssumption ==
    /\ Streams \subseteq Nat \ {0} /\ 1 \in Streams /\ Buffer \in Nat \ {0}
    /\ Project \notin Sessions /\ None \notin Sessions
    /\ Allowances \subseteq [Uses -> Nat]

VARIABLES
    \* each turn and what the store holds of its session
    phase,          \* session -> idle, launching, running or finishing
    written,        \* session -> writes to its transcript
    turns,          \* session -> its last turn
    announced,      \* session -> the transcript when a turn last ended
    publishing,     \* session -> what its turn has still to publish, in order
    slow,           \* session -> subscribers it took off, not closed yet
    \* the hub and the streams
    byTopic,        \* Hub.byTopic
    stream,         \* what the server has of each stream
    refs,           \* projectWatch.refs
    watching,       \* the project is in watchers.open
    \* the window
    current,        \* its stream, 0 while it waits to connect again
    tab,            \* the task it shows
    reads,          \* its reads of sessions in flight
    lastMoved,      \* lastTurnEvent
    spare           \* what is left of the allowance

runner    == <<phase, written, turns, announced>>
hub       == <<byTopic, stream, refs, watching>>
window    == <<current, tab, reads, lastMoved>>
eventVars == <<runner, publishing, slow, hub, window, spare>>

Topics == Sessions \cup {Project}

\* free -> asked -> subscribed -> open -> leaving -> free
Free == [pc |-> "free", topics |-> {}, ch |-> <<>>, closed |-> FALSE]
Empty == [of |-> None, seen |-> 0, turn |-> 0, live |-> FALSE, running |-> FALSE,
          doubt |-> FALSE]

Event(type, s, final) == [type |-> type, of |-> s, turn |-> turns'[s], final |-> final]
Use(kind) == spare[kind] > 0 /\ spare' = [spare EXCEPT ![kind] = @ - 1]
Wanted(of) == {Project} \cup ({of} \ {None})

\* A window that is up, with one task on screen and no turn running.
EventsInit ==
    /\ phase = [s \in Sessions |-> "idle"]
    /\ written = [s \in Sessions |-> 0]
    /\ turns = [s \in Sessions |-> 0]
    /\ announced = [s \in Sessions |-> 0]
    /\ publishing = [s \in Sessions |-> <<>>]
    /\ slow = [s \in Sessions |-> {}]
    /\ \E s \in Sessions :
          /\ tab = [Empty EXCEPT !.of = s]
          /\ byTopic = [t \in Topics |-> IF t \in Wanted(s) THEN {1} ELSE {}]
          /\ stream = [k \in Streams |->
                IF k = 1 THEN [Free EXCEPT !.pc = "open", !.topics = Wanted(s)] ELSE Free]
    /\ refs = 1 /\ watching = TRUE
    /\ current = 1 /\ reads = {} /\ lastMoved = <<>>
    /\ spare \in Allowances
-----------------------------------------------------------------------------
(* A turn                                                                   *)

Silent(s) == publishing[s] = <<>> /\ slow[s] = {}

\* The turn is active, then stored, then its prompt: one step, since a read of all
\* three, which goes the other way round, finds nothing new between them.
Launch(s) ==
    /\ phase[s] = "idle"
    /\ Use("turn")
    /\ phase' = [phase EXCEPT ![s] = "launching"]
    /\ turns' = [turns EXCEPT ![s] = @ + 1]
    /\ written' = [written EXCEPT ![s] = @ + 1]
    /\ UNCHANGED <<announced, publishing, slow, hub, window>>

\* The provider did not start: the failure is stored, and nothing published.
Refuse(s) ==
    /\ phase[s] = "launching"
    /\ Use("refuse")
    /\ phase' = [phase EXCEPT ![s] = "idle"]
    /\ written' = [written EXCEPT ![s] = @ + 1]
    /\ UNCHANGED <<turns, announced, publishing, slow, hub, window>>

Both(s, e) == <<<<s, e>>, <<Project, e>>>>

Started(s) ==
    /\ phase[s] = "launching"
    /\ phase' = [phase EXCEPT ![s] = "running"]
    /\ UNCHANGED <<written, turns, announced, slow, hub, window, spare>>
    /\ publishing' = [publishing EXCEPT ![s] = Both(s, Event("started", s, FALSE))]

\* Prose is published and kept for later; a reply that leaves the turn open, as
\* a tool call, stores it first.
Say(s) ==
    /\ phase[s] = "running" /\ Silent(s)
    /\ Use("say")
    /\ \E type \in {"text", "done"} :
          /\ written' = [written EXCEPT ![s] = IF type = "text" THEN @ ELSE @ + 1]
          /\ UNCHANGED <<phase, turns, announced, slow, hub, window>>
          /\ publishing' = [publishing EXCEPT ![s] = <<<<s, Event(type, s, FALSE)>>>>]

Finish(s) ==
    /\ phase[s] = "running" /\ Silent(s)
    /\ phase' = [phase EXCEPT ![s] = "finishing"]
    /\ written' = [written EXCEPT ![s] = @ + 1]
    /\ announced' = [announced EXCEPT ![s] = written'[s]]
    /\ UNCHANGED <<turns, slow, hub, window, spare>>
    /\ publishing' = [publishing EXCEPT ![s] = Both(s, Event("done", s, TRUE))]

\* release: the turn is active until its end has been published.
Release(s) ==
    /\ phase[s] = "finishing" /\ Silent(s)
    /\ phase' = [phase EXCEPT ![s] = "idle"]
    /\ UNCHANGED <<written, turns, announced, publishing, slow, hub, window, spare>>
-----------------------------------------------------------------------------
(* The hub                                                                  *)

DropFromOne(K, topic) ==                \* mutant: a slow subscriber keeps its other topics
    [byTopic EXCEPT ![topic] = @ \ K]
\* drop
DropFrom(K, topic) == [t \in Topics |-> byTopic[t] \ K]

\* Publish: a subscriber with no room is dropped, and closed after the lock.
Publish(s) ==
    /\ publishing[s] # <<>> /\ slow[s] = {}
    /\ LET topic == publishing[s][1][1]
           e     == publishing[s][1][2]
           full  == {k \in byTopic[topic] : Len(stream[k].ch) >= Buffer}
           sent  == byTopic[topic] \ full
       IN /\ stream' = [k \in Streams |-> IF k \in sent THEN [stream[k] EXCEPT !.ch = Append(@, e)]
                                                        ELSE stream[k]]
          /\ byTopic' = DropFrom(full, topic)
          /\ slow' = [slow EXCEPT ![s] = full]
    /\ publishing' = [publishing EXCEPT ![s] = Tail(@)]
    /\ UNCHANGED <<runner, refs, watching, window, spare>>

ForgetSlow(s) ==                        \* mutant: a dropped subscriber is not closed
    /\ slow[s] # {}
    /\ slow' = [slow EXCEPT ![s] = {}]
    /\ UNCHANGED <<runner, publishing, hub, window, spare>>
CloseSlow(s) ==
    /\ slow[s] # {}
    /\ stream' = [k \in Streams |-> IF k \in slow[s] THEN [stream[k] EXCEPT !.closed = TRUE]
                                                     ELSE stream[k]]
    /\ slow' = [slow EXCEPT ![s] = {}]
    /\ UNCHANGED <<runner, publishing, byTopic, refs, watching, window, spare>>
-----------------------------------------------------------------------------
(* A stream                                                                 *)

At(k, pc) == stream[k].pc = pc
Move(k, pc) == stream' = [stream EXCEPT ![k].pc = pc]

\* streamAll: the first to look at the project starts its watcher (acquire), and
\* the channel is registered under every topic (SubscribeMany).
Subscribe(k) ==
    /\ At(k, "asked")
    /\ Move(k, "subscribed")
    /\ refs' = refs + 1 /\ watching' = TRUE
    /\ byTopic' = [t \in Topics |-> IF t \in stream[k].topics THEN byTopic[t] \cup {k}
                                                              ELSE byTopic[t]]
    /\ UNCHANGED <<runner, publishing, slow, window, spare>>

\* watchers.acquire's release
ReleaseWatch(k) ==
    /\ refs' = refs - 1 /\ watching' = (refs' > 0)

\* The channel was closed and is empty, or a write finds the client gone.  The
\* window hears of the end only in the first case.
Leave(k) ==
    /\ stream[k].pc \in {"subscribed", "open"}
    /\ current # k \/ (At(k, "open") /\ stream[k].closed /\ stream[k].ch = <<>>)
    /\ Move(k, "leaving")
    /\ ReleaseWatch(k)
    /\ current' = IF current = k THEN 0 ELSE current
    /\ UNCHANGED <<runner, publishing, slow, byTopic, tab, reads, lastMoved, spare>>

\* The unsubscribe of SubscribeMany.  The number is used again once nobody is
\* left who would close the channel.
Unsubscribe(k) ==
    /\ At(k, "leaving") /\ \A s \in Sessions : k \notin slow[s]
    /\ byTopic' = [t \in Topics |-> byTopic[t] \ {k}]
    /\ stream' = [stream EXCEPT ![k] = Free]
    /\ UNCHANGED <<runner, publishing, slow, refs, watching, window, spare>>
-----------------------------------------------------------------------------
(* The window's reads                                                       *)

Superseded == {[r EXCEPT !.latest = FALSE] : r \in reads}
Read(kind, of, preserve) ==
    [kind |-> kind, of |-> of, preserve |-> preserve, last |-> tab.turn, latest |-> TRUE,
     at |-> "asked", seen |-> 0, turn |-> 0, running |-> FALSE, doubt |-> FALSE]
\* syncMessages, up to the request
Syncing(preserve) == Superseded \cup {Read("sync", tab.of, preserve)}

\* getSession: messages, then turns, then whether a turn runs.  An answer nobody
\* waits for any more is left as it is.
Answering(r, q) == reads' = (reads \ {r}) \cup {q}
ReadMessages(r) ==
    /\ r.at = "asked"
    /\ Answering(r, [r EXCEPT !.at = "messages", !.seen = written[r.of]])
ReadTurns(r) ==
    /\ r.at = "messages"
    /\ Answering(r, [r EXCEPT !.at = "turns", !.turn = turns[r.of]])
\* In doubt: the turn is still active, and will publish no more of its end (or,
\* while it launches, perhaps nothing at all).
ReadRunning(r) ==
    /\ r.at = "turns"
    /\ Answering(r, [r EXCEPT !.at = "answered", !.running = phase[r.of] # "idle",
                       !.doubt = \/ phase[r.of] = "launching"
                                 \/ phase[r.of] = "finishing" /\ Len(publishing[r.of]) < 2])

GetSession ==
    /\ \E r \in reads : ReadMessages(r) \/ ReadTurns(r) \/ ReadRunning(r)
    /\ UNCHANGED <<runner, publishing, slow, hub, current, tab, lastMoved, spare>>

Redrawn(r) == [of |-> r.of, seen |-> r.seen, turn |-> r.turn, live |-> FALSE,
               running |-> r.running, doubt |-> r.doubt]
Kept(r) == r.preserve /\ tab.running /\ r.running /\ r.last = r.turn

Settled(r) == r.latest /\ r.last = tab.turn

\* syncMessages, from the answer
Synced(r) ==
    /\ r \in reads /\ r.kind = "sync" /\ r.at = "answered"
    /\ tab' = IF ~Settled(r) THEN tab
              ELSE IF Kept(r) THEN [tab EXCEPT !.running = TRUE, !.doubt = r.doubt]
              ELSE Redrawn(r)
    /\ reads' = reads \ {r}
    /\ UNCHANGED <<runner, publishing, slow, hub, current, lastMoved, spare>>

ReadFails(r) ==
    /\ r \in reads
    /\ Use("fail")
    /\ tab' = IF r.kind = "sync" /\ r.latest THEN [tab EXCEPT !.doubt = TRUE] ELSE tab
    /\ reads' = reads \ {r}
    /\ UNCHANGED <<runner, publishing, slow, hub, current, lastMoved>>
-----------------------------------------------------------------------------
(* The window's tab and its stream                                          *)

\* A new EventSource: the request for stream k is on its way.
Ask(k, of) ==
    /\ At(k, "free") /\ \A j \in Streams : j < k => ~At(j, "free")
    /\ current' = k
    /\ stream' = [stream EXCEPT ![k] = [Free EXCEPT !.pc = "asked", !.topics = Wanted(of)]]

\* onopen
Opened(k) ==
    /\ At(k, "subscribed") /\ current = k
    /\ Move(k, "open")
    /\ reads' = IF tab.of = None THEN reads ELSE Syncing(TRUE)
    /\ UNCHANGED <<runner, publishing, slow, byTopic, refs, watching, current, tab,
                   lastMoved, spare>>

\* The connection breaks; EventSource connects again by itself.
Break ==
    /\ current # 0 /\ At(current, "open")
    /\ Use("break")
    /\ current' = 0
    /\ UNCHANGED <<runner, publishing, slow, hub, tab, reads, lastMoved>>
ConnectAgain(k) ==
    /\ current = 0
    /\ Ask(k, tab.of)
    /\ UNCHANGED <<runner, publishing, slow, byTopic, refs, watching, tab, reads,
                   lastMoved, spare>>

\* openTask reads the session; the answer puts the tab in place of the shown one
\* (setContextTab), which changes the subscription (resubscribe).
OpenTask(s) ==
    /\ s # tab.of /\ \A r \in reads : r.kind = "sync"
    /\ Use("show")
    /\ reads' = reads \cup {Read("open", s, FALSE)}
    /\ UNCHANGED <<runner, publishing, slow, hub, current, tab, lastMoved>>
ShowTask(r, k) ==
    /\ r \in reads /\ r.kind = "open" /\ r.at = "answered"
    /\ tab' = Redrawn(r)
    /\ reads' = {[q EXCEPT !.latest = FALSE] : q \in reads \ {r}}
    /\ Ask(k, r.of)
    /\ UNCHANGED <<runner, publishing, slow, byTopic, refs, watching, lastMoved, spare>>

\* closeTab
CloseTask(k) ==
    /\ tab.of # None /\ \A r \in reads : r.kind = "sync"
    /\ Use("show")
    /\ tab' = Empty
    /\ reads' = Superseded
    /\ Ask(k, None)
    /\ UNCHANGED <<runner, publishing, slow, byTopic, refs, watching, lastMoved>>
-----------------------------------------------------------------------------
(* The window's events                                                      *)

Moves(e) == e.type = "started" \/ (e.type = "done" /\ e.final)
Moved(e) == <<e.type, e.of, e.turn>>

\* onSessionEvent
Drawn(e) ==
    CASE e.type = "started" ->
           [tab EXCEPT !.turn = IF e.turn > @ THEN e.turn ELSE @, !.live = TRUE, !.running = TRUE]
      [] Moves(e) /\ e.type = "done" -> [tab EXCEPT !.running = FALSE]
      [] OTHER -> [tab EXCEPT !.live = TRUE]
Rereads(e) == e.type = "done" /\ e.final

\* onEvent: the start and the end of a turn come twice, by session and project.
Deliver ==
    /\ current # 0 /\ At(current, "open") /\ stream[current].ch # <<>>
    /\ LET e == Head(stream[current].ch)
           ignored == Moves(e) /\ Moved(e) = lastMoved
       IN /\ lastMoved' = IF Moves(e) THEN Moved(e) ELSE lastMoved
          /\ tab' = IF ignored \/ e.of # tab.of THEN tab ELSE Drawn(e)
          /\ reads' = IF ignored \/ e.of # tab.of \/ ~Rereads(e) THEN reads ELSE Syncing(FALSE)
    /\ stream' = [stream EXCEPT ![current].ch = Tail(@)]
    /\ UNCHANGED <<runner, publishing, slow, byTopic, refs, watching, current, spare>>
-----------------------------------------------------------------------------
Turn(s) == Refuse(s) \/ Started(s) \/ Say(s) \/ Finish(s) \/ Release(s)
Hub(s) == Publish(s) \/ CloseSlow(s)
Serve(k) == Subscribe(k) \/ Opened(k) \/ Leave(k) \/ Unsubscribe(k)
Follow == GetSession \/ Deliver \/ (\E r \in reads : Synced(r))
User(k) == CloseTask(k) \/ (\E r \in reads : ShowTask(r, k))

EventsNext ==
    \/ \E s \in Sessions : Launch(s) \/ Turn(s) \/ Hub(s) \/ OpenTask(s)
    \/ \E k \in Streams : Serve(k) \/ ConnectAgain(k) \/ User(k)
    \/ Follow \/ Break
    \/ \E r \in reads : ReadFails(r)

EventsSpec == EventsInit /\ [][EventsNext]_eventVars

\* Every goroutine goes on and a turn comes to its end, requests are answered,
\* and the browser hands events on and connects again.
FairEventsSpec ==
    /\ EventsSpec
    /\ \A s \in Sessions : /\ WF_eventVars(Started(s)) /\ WF_eventVars(Finish(s))
                           /\ WF_eventVars(Release(s)) /\ WF_eventVars(Hub(s))
    /\ \A k \in Streams : WF_eventVars(Serve(k)) /\ WF_eventVars(ConnectAgain(k))
    /\ WF_eventVars(Follow) /\ WF_eventVars(\E r \in reads, k \in Streams : ShowTask(r, k))
-----------------------------------------------------------------------------
EventsTypeOK ==
    /\ phase \in [Sessions -> {"idle", "launching", "running", "finishing"}]
    /\ \A k \in Streams :
          /\ stream[k].pc \in {"free", "asked", "subscribed", "open", "leaving"}
          /\ Len(stream[k].ch) \in 0..Buffer /\ stream[k].topics \subseteq Topics
    /\ byTopic \in [Topics -> SUBSET Streams] /\ slow \in [Sessions -> SUBSET Streams]
    /\ refs \in Nat /\ current \in Streams \cup {0}
    /\ tab.of \in Sessions \cup {None}

RegisteredIsOpen ==
    \A t \in Topics : \A k \in byTopic[t] : ~stream[k].closed /\ ~At(k, "free")
WatchedWhileShown ==
    watching <=> \E k \in Streams : stream[k].pc \in {"subscribed", "open"}

\* However streams come, go and are dropped beside each other: a channel holds no
\* more than it has room for, no event is sent on a closed one, which would end the
\* program, since a closed subscriber is in no topic, whoever closed it
\* (Hub.Publish, SubscribeMany); and the folder is watched exactly while a stream
\* that looks at the project is there (watchers.acquire).
StreamsLeaveNothing == EventsTypeOK /\ RegisteredIsOpen /\ WatchedWhileShown

Agrees ==
    /\ tab.seen >= announced[tab.of] /\ ~tab.live /\ ~tab.running

\* A task left open comes to agree with the store for good, to the last turn
\* that ended and shown as not running, whatever was missed, doubled, reordered
\* or answered late on the way (syncMessages, onopen, onEvent), unless its last
\* read failed or was answered in doubt.
CatchesUp == <>[](tab.of # None /\ ~tab.doubt => current # 0 /\ Agrees)
=============================================================================
