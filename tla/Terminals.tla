------------------------------ MODULE Terminals ------------------------------
(***************************************************************************)
(* Shells on pseudo-terminals and the windows that draw them:              *)
(* app/internal/terminals with server/api_terminals.go, and the client of  *)
(* web/src/terminals.js.                                                   *)
(*                                                                         *)
(* A window follows all its terminals over one stream.  A stream that      *)
(* falls behind is closed; the window connects again with the byte counts  *)
(* it has reached, and is given what it missed, or the scrollback as a new *)
(* screen.  A byte of output is its number, counted from 1.                *)
(*                                                                         *)
(* A step ends where the code releases a terminal's mutex or the manager's *)
(* mutex, or has flushed a batch to the client.                            *)
(***************************************************************************)
EXTENDS Integers, SequencesExt

CONSTANTS
    Ids,            \* terminals that may ever be opened
    Projects,
    ProjectOf,      \* terminal -> its project
    Windows,
    Streams,        \* numbers of streams, used again once one is over
    ReadChunk,      \* bytes of one read
    Scrollback, StreamBuffer, MaxJoined,
    Budgets         \* how much of each thing may happen; one of them does

ASSUME BoundsAssumption ==
    {ReadChunk, Scrollback, StreamBuffer, MaxJoined} \subseteq Nat \ {0}
\* shells opened, bytes of output, shells that exit by themselves, views opened,
\* closes by the user, connections broken
Kinds == {"open", "output", "exit", "watch", "close", "break"}
ASSUME BudgetAssumption == Budgets \subseteq [Kinds -> Nat]
ASSUME IdsAssumption == ProjectOf \in [Ids -> Projects] /\ Streams \subseteq Nat \ {0}

VARIABLES
    \* the manager
    opening,        \* shells that run and are not in the list yet
    open,           \* Manager.open
    going,          \* taken off the list, not stopped yet
    closing,        \* Server.closing: the program is about to quit
    \* each terminal
    started, closed, written, kept, readers, watched, exited,
    \* each stream of the server, and what is on its way to the window
    stream,
    \* each window
    view,           \* what it shows of each terminal
    current,        \* the stream it listens to, 0 for none
    left            \* what is left of the budget

manager   == <<opening, open, going, closing>>
terminals == <<started, closed, written, kept, readers, watched, exited>>
windows   == <<view, current>>
vars      == <<manager, terminals, stream, windows, left>>

Frame(t, data, at, exit, reset, replay) ==
    [id |-> t, data |-> data, at |-> at, exit |-> exit, reset |-> reset,
     replay |-> replay]

\* free -> attaching -> serving -> leaving -> free
Idle == [pc |-> "free", todo |-> {}, watches |-> {}, ch |-> <<>>,
         dead |-> FALSE, wire |-> <<>>, over |-> FALSE]

Unseen == [on |-> FALSE, at |-> 0, screen |-> <<>>, live |-> <<>>, told |-> FALSE]

Spend(kind) == left[kind] > 0 /\ left' = [left EXCEPT ![kind] = @ - 1]
Least(a, b) == IF a < b THEN a ELSE b
Bytes(from, to) == [i \in 1..(to - from) |-> from + i]

Init ==
    /\ opening = {} /\ open = {} /\ going = {} /\ closing = FALSE
    /\ started = {} /\ closed = {}
    /\ written = [t \in Ids |-> 0]
    /\ kept = [t \in Ids |-> 0]
    /\ readers = [t \in Ids |-> {}]
    /\ watched = [t \in Ids |-> FALSE]
    /\ exited = [t \in Ids |-> FALSE]
    /\ stream = [s \in Streams |-> Idle]
    /\ view = [w \in Windows |-> [t \in Ids |-> Unseen]]
    /\ current = [w \in Windows |-> 0]
    /\ left \in Budgets
-----------------------------------------------------------------------------
(* The manager                                                              *)

\* Open starts the shell, and only later is the terminal in the list.
Start(t) ==
    /\ t \notin started /\ ~closing
    /\ Spend("open")
    /\ started' = started \cup {t}
    /\ opening' = opening \cup {t}
    /\ UNCHANGED <<open, going, closing, closed, written, kept, readers, watched,
                   exited, stream, windows>>

Opened(t) ==
    /\ t \in opening
    /\ opening' = opening \ {t}
    /\ open' = open \cup {t}
    /\ UNCHANGED <<going, closing, terminals, stream, windows, left>>

Drop(S) ==
    /\ open' = open \ S
    /\ going' = going \cup S

Close(t) ==
    /\ t \in open
    /\ Drop({t})
    /\ Spend("close")
    /\ UNCHANGED <<opening, closing, terminals, stream, windows>>

CloseProject(p) ==
    /\ \E t \in open : ProjectOf[t] = p
    /\ Drop({t \in open : ProjectOf[t] = p})
    /\ Spend("close")
    /\ UNCHANGED <<opening, closing, terminals, stream, windows>>

\* Server.Shutdown ends the terminals and then the streams.
Shutdown ==
    /\ ~closing
    /\ Drop(open)
    /\ closing' = TRUE
    /\ Spend("close")
    /\ UNCHANGED <<opening, terminals, stream, windows>>

\* stop hangs the shell up and kills it; its output comes to an end.
Stop(t) ==
    /\ t \in going
    /\ going' = going \ {t}
    /\ closed' = closed \cup {t}
    /\ UNCHANGED <<opening, open, closing, started, written, kept, readers, watched,
                   exited, stream, windows, left>>
-----------------------------------------------------------------------------
(* One shell and its readers                                                *)

SentOrSkipped(c, frame) ==              \* mutant: a full channel loses a frame
    IF c.dead \/ Len(c.ch) >= StreamBuffer THEN c ELSE [c EXCEPT !.ch = Append(@, frame)]
\* stream.send: a full channel ends the stream.
Sent(c, frame) ==
    IF c.dead THEN c
    ELSE IF Len(c.ch) < StreamBuffer THEN [c EXCEPT !.ch = Append(@, frame)]
    ELSE [c EXCEPT !.dead = TRUE]
Takes(c) == ~c.dead /\ Len(c.ch) < StreamBuffer

SendTo(S, frame) ==
    stream' = [s \in Streams |-> IF s \in S THEN Sent(stream[s], frame) ELSE stream[s]]

\* remember: the tail is cut once it has grown to twice the scrollback.
Trimmed(k) == IF k <= 2 * Scrollback THEN k ELSE Scrollback

\* pump and publish: one read, remembered and sent to every reader.
Output(t) ==
    /\ t \in started \ opening /\ ~exited[t]
    /\ \E n \in 1..ReadChunk :
        /\ n <= left["output"]
        /\ left' = [left EXCEPT !["output"] = @ - n]
        /\ written' = [written EXCEPT ![t] = @ + n]
        /\ kept' = [kept EXCEPT ![t] = Trimmed(@ + n)]
        /\ SendTo(readers[t], Frame(t, Bytes(written[t], written[t] + n),
                                    written[t] + n, FALSE, FALSE, FALSE))
    /\ readers' = [readers EXCEPT ![t] = {s \in @ : Takes(stream[s])}]
    /\ UNCHANGED <<manager, started, closed, watched, exited, windows>>

\* The shell exits by itself, or was hung up: pump is at the end of its output.
Finish(t) ==
    /\ t \in started \ opening /\ ~exited[t]
    /\ IF t \in closed THEN UNCHANGED left ELSE Spend("exit")
    /\ exited' = [exited EXCEPT ![t] = TRUE]
    /\ SendTo(readers[t], Frame(t, <<>>, written[t], TRUE, FALSE, FALSE))
    /\ readers' = [readers EXCEPT ![t] = {}]
    /\ UNCHANGED <<manager, started, closed, written, kept, watched, windows>>
-----------------------------------------------------------------------------
(* A stream of the server                                                   *)

\* since: what a watcher that has `from' bytes missed, and whether that is a
\* whole screen rather than the next piece of one.
SinceStart(t, from) == [data |-> Bytes(written[t] - kept[t], written[t]),  \* mutant
                        reset |-> FALSE]
Since(t, from) ==
    LET oldest == written[t] - kept[t] IN
    IF from = written[t] THEN [data |-> <<>>, reset |-> FALSE]
    ELSE IF oldest <= from /\ from < written[t]
    THEN [data |-> Bytes(from, written[t]), reset |-> FALSE]
    ELSE [data |-> Bytes(oldest, written[t]), reset |-> TRUE]

\* Frame.Replay: a new screen of output that was drawn before; its queries are
\* not answered again.
Afresh(t, from, reset) == watched[t] /\ reset          \* mutant
Replay(t, from, reset)    == watched[t] /\ (from = 0 \/ reset)

\* attach, under the lock publish takes: what was missed, then the rest.
Catch(s, watch) ==
    LET t      == watch.id
        missed == Since(t, watch.from)
        frame  == Frame(t, missed.data, written[t], FALSE, missed.reset,
                        Replay(t, watch.from, missed.reset))
        caught == IF missed.data = <<>> THEN stream[s] ELSE Sent(stream[s], frame)
        last   == Frame(t, <<>>, written[t], TRUE, FALSE, FALSE)
    IN IF exited[t] THEN Sent(caught, last) ELSE caught

Attach(s) ==
    /\ stream[s].pc = "attaching"
    /\ \E watch \in stream[s].todo :
        LET t == watch.id
            found == t \in open
            c == IF found THEN Catch(s, watch) ELSE stream[s]
        IN /\ stream' = [stream EXCEPT ![s] =
                 [c EXCEPT !.todo = @ \ {watch},
                           !.watches = IF found THEN @ \cup {t} ELSE @]]
           /\ watched' = IF found THEN [watched EXCEPT ![t] = TRUE] ELSE watched
           /\ readers' = IF found /\ ~exited[t]
                         THEN [readers EXCEPT ![t] = @ \cup {s}] ELSE readers
    /\ UNCHANGED <<manager, started, closed, written, kept, exited, windows, left>>

Attached(s) ==
    /\ stream[s].pc = "attaching" /\ stream[s].todo = {}
    /\ stream' = [stream EXCEPT ![s].pc = "serving"]
    /\ UNCHANGED <<manager, terminals, windows, left>>

\* Coalesce: runs of one terminal's output become one frame.
Joinable(f, last) ==
    /\ f.id = last.id /\ f.data # <<>> /\ ~f.reset /\ ~f.exit
    /\ ~last.exit /\ last.data # <<>> /\ f.replay = last.replay
    /\ Len(last.data) < MaxJoined

Joined(frames, f) ==
    LET last == Last(frames) IN
    IF frames # <<>> /\ Joinable(f, last)
    THEN [frames EXCEPT ![Len(frames)] = [last EXCEPT !.data = @ \o f.data, !.at = f.at]]
    ELSE Append(frames, f)
Coalesce(ch) ==
    LET joined[n \in 0..Len(ch)] == IF n = 0 THEN <<>> ELSE Joined(joined[n - 1], ch[n])
    IN  joined[Len(ch)]

\* The handler flushes what is queued; a closed channel ends it afterwards.
Flush(s) ==
    /\ stream[s].pc = "serving"
    /\ stream[s].ch # <<>> \/ stream[s].dead \/ closing
    /\ \/ /\ stream[s].ch # <<>>
          /\ stream' = [stream EXCEPT ![s].ch = <<>>,
                            ![s].wire = @ \o Coalesce(stream[s].ch),
                            ![s].pc = IF stream[s].dead THEN "leaving" ELSE @,
                            ![s].over = stream[s].dead]
       \/ /\ stream[s].ch = <<>> \/ closing
          /\ stream' = [stream EXCEPT ![s].pc = "leaving", ![s].over = TRUE]
    /\ UNCHANGED <<manager, terminals, windows, left>>

\* The client is gone or the connection broke: a write or a heartbeat fails.
Listened(s) == \E w \in Windows : current[w] = s
Abandon(s) ==
    /\ stream[s].pc = "serving" /\ ~Listened(s)
    /\ stream' = [stream EXCEPT ![s].pc = "leaving", ![s].over = TRUE]
    /\ UNCHANGED <<manager, terminals, windows, left>>

\* unsubscribe: detach from one terminal after the other, then close.
Detach(s) ==
    /\ stream[s].pc = "leaving"
    /\ \/ \E t \in stream[s].watches :
            /\ readers' = [readers EXCEPT ![t] = @ \ {s}]
            /\ stream' = [stream EXCEPT ![s].watches = @ \ {t}]
       \/ /\ stream[s].watches = {} /\ ~Listened(s)
          /\ stream' = [stream EXCEPT ![s] = Idle]
          /\ UNCHANGED readers
    /\ UNCHANGED <<manager, started, closed, written, kept, watched, exited, windows,
                   left>>
-----------------------------------------------------------------------------
(* A window                                                                 *)

Shown(w) == {t \in Ids : view[w][t].on}

\* open(): a new stream, asked for what each view has not drawn yet.  The old
\* one is closed first.
Reached(v)   == v.at
Connect(w, v) ==
    LET asked == {[id |-> t, from |-> Reached(v[t])] : t \in {u \in Ids : v[u].on}} IN
    IF asked = {} \/ closing
    THEN /\ current' = [current EXCEPT ![w] = 0]
         /\ UNCHANGED stream
    ELSE \E s \in Streams :
            /\ stream[s] = Idle /\ \A r \in Streams : stream[r] = Idle => s <= r
            /\ stream' = [stream EXCEPT ![s] =
                             [Idle EXCEPT !.pc = "attaching", !.todo = asked]]
            /\ current' = [current EXCEPT ![w] = s]

\* watchTerminal: one more view, and the set has changed.
Watch(w, t) ==
    /\ t \in open /\ ~view[w][t].on
    /\ Spend("watch")
    /\ LET v == [view[w] EXCEPT ![t].on = TRUE] IN
        /\ view' = [view EXCEPT ![w] = v]
        /\ Connect(w, v)
    /\ UNCHANGED <<manager, terminals>>

Unwatch(w, t) ==
    /\ view[w][t].on
    /\ LET v == [view[w] EXCEPT ![t] = [Unseen EXCEPT !.live = view[w][t].live]] IN
        /\ view' = [view EXCEPT ![w] = v]
        /\ Connect(w, v)
    /\ UNCHANGED <<manager, terminals, left>>

\* onData and onExit.
Drawn(v, f) ==
    IF f.data # <<>>
    THEN [v EXCEPT !.at = f.at,
                   !.screen = IF f.reset THEN f.data ELSE @ \o f.data,
                   !.live = IF f.replay THEN @ ELSE @ \o f.data]
    ELSE IF f.exit THEN [v EXCEPT !.at = f.at, !.told = TRUE] ELSE v

Receive(w) ==
    LET s == current[w] IN
    /\ s # 0 /\ stream[s].wire # <<>>
    /\ stream' = [stream EXCEPT ![s].wire = Tail(@)]
    /\ LET f == Head(stream[s].wire) IN
        view' = IF view[w][f.id].on
                THEN [view EXCEPT ![w][f.id] = Drawn(@, f)] ELSE view
    /\ UNCHANGED <<manager, terminals, current, left>>

\* onerror, after every event that arrived; the retry opens another one.
Reconnect(w) ==
    LET s == current[w] IN
    /\ s # 0 /\ stream[s].over /\ stream[s].wire = <<>>
    /\ Connect(w, view[w])
    /\ UNCHANGED <<manager, terminals, view, left>>

\* The connection breaks: what was on its way is lost.
Break(w) ==
    LET s == current[w] IN
    /\ s # 0
    /\ Spend("break")
    /\ Connect(w, view[w])
    /\ UNCHANGED <<manager, terminals, view>>
-----------------------------------------------------------------------------
StreamStep(s)  == Attach(s) \/ Attached(s) \/ Flush(s) \/ Abandon(s) \/ Detach(s)
WindowStep(w)  == Receive(w) \/ Reconnect(w)

Next ==
    \/ \E t \in Ids : \/ Start(t) \/ Opened(t) \/ Close(t) \/ Stop(t)
                      \/ Output(t) \/ Finish(t)
    \/ \E p \in Projects : CloseProject(p)
    \/ Shutdown
    \/ \E s \in Streams : StreamStep(s)
    \/ \E w \in Windows : \/ \E t \in Ids : Watch(w, t) \/ Unwatch(w, t)
                          \/ WindowStep(w) \/ Break(w)

Spec == Init /\ [][Next]_vars

\* Goroutines that can run do, a hung up shell ends, and a browser reads its
\* stream and connects again.
Fairness ==
    /\ \A t \in Ids : WF_vars(Opened(t) \/ Stop(t)) /\ WF_vars(Finish(t) /\ t \in closed)
    /\ \A s \in Streams : WF_vars(StreamStep(s))
    /\ \A w \in Windows : WF_vars(WindowStep(w))

FairSpec == Spec /\ Fairness
-----------------------------------------------------------------------------
(* Properties                                                               *)

TypeOK ==
    /\ opening \cup open \cup going \subseteq Ids /\ closing \in BOOLEAN
    /\ started \cup closed \subseteq Ids
    /\ exited \in [Ids -> BOOLEAN]
    /\ watched \in [Ids -> BOOLEAN]
    /\ written \in [Ids -> Nat]
    /\ kept \in [Ids -> 0..2 * Scrollback]
    /\ readers \in [Ids -> SUBSET Streams]
    /\ left \in [Kinds -> Nat]
    /\ \A s \in Streams : Len(stream[s].ch) <= StreamBuffer
    /\ current \in [Windows -> Streams \cup {0}]

\* However often the stream is dropped, broken and opened again, and whatever
\* other terminals share it: a window's screen is a run of the shell's output
\* without a gap and without a byte drawn twice, up to the count it will ask to
\* resume from, it holds whatever of that the server would still keep, and it
\* is complete once the window was told that the shell has exited.
ScreenIsTrue == TypeOK /\
    \A w \in Windows, t \in Ids :
        LET v == view[w][t] IN
        /\ v.screen = Bytes(v.at - Len(v.screen), v.at)
        /\ Len(v.screen) >= Least(v.at, Scrollback)
        /\ v.told => v.at = written[t]

\* A window answers a query in the output at most once, although a view that is
\* opened again, as a reloaded page does, draws it again.
QueriesAnsweredOnce ==
    \A w \in Windows, t \in Ids : IsInjective(view[w][t].live)

\* As long as a window goes on showing an open terminal, it draws all of its
\* output and learns of its exit, although its stream is dropped whenever it
\* falls behind.
CatchesUp ==
    \A w \in Windows, t \in Ids :
        <>[](view[w][t].on /\ t \in open /\ ~closing) =>
            <>[](/\ view[w][t].at = written[t]
                 /\ exited[t] => view[w][t].told)
=============================================================================
