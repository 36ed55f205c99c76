-------------------------- MODULE FollowUpsProofs --------------------------
(***************************************************************************)
(* No prompt vanishes between the queue, the turn and the transcript       *)
(* (FollowUpPlaces), what joins a turn is what the agent has started on,   *)
(* a turn that ends by itself has taken all it accepted, and an agent      *)
(* starts on a prompt again only after a failure: for any number of        *)
(* prompts, calls, turns, failures and crashes.                            *)
(*                                                                         *)
(* One thing is assumed of every theorem: a reply takes longer than the    *)
(* statements that the dispatcher has still to execute (InTime).  The      *)
(* promise needs no more.  The other three are about the turns that start  *)
(* from the queue, from Send and from Send now: there nobody asks for an   *)
(* unprocessed prompt again (NoneSentAgain).                               *)
(***************************************************************************)
EXTENDS FollowUps, FiniteSetTheorems, SequenceTheorems, TLAPS

\* A reply takes longer than the dispatcher's statements.
InTime == \A b \in Budgets : b["overtake"] = 0

\* Nobody asks for an unprocessed prompt again.
NoneSentAgain == \A b \in Budgets : b["resend"] = 0 /\ b["requeue"] = 0

\* A prompt two hands took, one of them with a message of the transcript.
Crossed(p) == ~NoneSentAgain /\ p \in grabbed
-----------------------------------------------------------------------------
(* Where everything is                                                      *)

\* What a call is about, as far as its kind says, and where it may be.
Fits(c) ==
    /\ c.kind \in {"resend", "requeue"} => ~NoneSentAgain /\ c.row = 0 /\ c.msg # 0
    /\ c.kind = "resend" =>
          c.at \in {"called", "looked", "stored", "written", "ending", "start", "claimed"}
    /\ c.kind = "requeue" => c.at \in {"called", "looked"}
    /\ c.kind = "send" =>
          /\ c.row = 0 /\ (c.msg # 0 <=> c.at \in {"stored", "written"})
          /\ c.at \in {"called", "looked", "stored", "written", "ending", "start", "claimed"}
    /\ c.kind = "force" =>
          /\ c.row # 0 /\ c.msg = 0
          /\ c.at \in {"called", "looked", "stored", "written", "ending", "start", "parked"}
    /\ c.kind = "run" =>
          /\ c.row # 0 /\ c.msg = 0
          /\ c.at \in {"lock", "called", "looked", "ending", "start", "claimed", "drop"}

Typed == TypeOK /\ \A c \in calls : Fits(c)

Spared == /\ left["overtake"] = 0
          /\ NoneSentAgain => left["resend"] = 0 /\ left["requeue"] = 0

\* Rows and messages have their ids alone, and messages are of turns so far.
Apart == /\ \A a, b \in queue : a.id = b.id => a = b
         /\ \A a, b \in messages : a.id = b.id => a = b
         /\ \A m \in messages : m.turn <= turns

\* What a turn has besides its stage.
Reading == consume.pc \in {"loop", "join"}
Stages ==
    /\ turn.stage = "running" <=> consume.pc # "off"
    /\ consume.pc = "off" => consume = Idle
    /\ turn.stage # "none" => turns > 0
    /\ turn.stage = "claimed" => /\ open = Fresh
                                 /\ \A m \in messages : m.turn # turns
    /\ ~Reading => ~cli.on /\ events = <<>>
    /\ consume.pc \notin {"loop", "join", "leave"} =>
          open.pending = <<>> /\ ~open.followUp /\ Handing = {}
    /\ consume.pc # "untaken" => consume.untaken = <<>>
    /\ consume.pc = "join" <=> consume.id # 0

\* One call at most is handing over, has claimed the task, or holds the
\* dispatch lock.
Alone ==
    /\ \A c, d \in Handing : c = d
    /\ \A c \in calls : c.at = "claimed" => turn.stage = "claimed"
    /\ \A c, d \in calls : c.at = "claimed" /\ d.at = "claimed" => c = d
    /\ \A c, d \in calls : c.kind = "run" /\ d.kind = "run" /\ c.at # "lock" /\ d.at # "lock" => c = d

\* While the dispatcher is on its way no reply ends, and no prompt is taken.
Outrun == (\E c \in calls : c.kind = "run") =>
    /\ ~open.followUp /\ Handing = {}
    /\ \A i \in DOMAIN events : events[i].type # "done"

\* The row that the dispatcher has is in the queue until it drops it.
RunRow == \A c \in calls : c.kind = "run" /\ c.at # "lock" =>
    \E r \in queue : r.id = c.row /\ r.prompt = c.prompt

\* What is known of a prompt.
InQueue(p) == \E r \in queue : r.prompt = p
HasText(p) == \E m \in messages : m.prompt = p
Stored(p)  == InQueue(p) \/ HasText(p)
Afresh ==
    /\ \A r \in queue : r.prompt <= accepted
    /\ \A m \in messages : m.prompt <= accepted
    /\ \A c \in calls : c.prompt <= accepted
    /\ \A p \in deleted \cup displaced \cup grabbed : p <= accepted

\* A prompt that is sent is nowhere else, and it is stored while it is handed over.
Gone(p)   == p \in deleted \/ p \in displaced
SentAlone == \A c \in calls : c.kind = "send" /\ ~Crossed(c.prompt) =>
    /\ ~InQueue(c.prompt) /\ ~Gone(c.prompt)
    /\ \A d \in calls : d.prompt = c.prompt => d = c
    /\ c \notin Handing => ~HasText(c.prompt)
    /\ c \in Handing =>
          /\ \E m \in messages : m.id = c.msg /\ m.prompt = c.prompt /\ m.turn = 0
          /\ \A m \in messages : m.prompt = c.prompt => m.id = c.msg

\* What the turn holds is in the transcript, without a turn, and held once,
\* unless somebody asks for a prompt of the transcript again.
Live(id) == \E m \in messages : m.id = id /\ m.turn = 0 /\ m.prompt # 0
Once(s)  == \A i, j \in DOMAIN s : s[i] = s[j] => i = j
Holds == NoneSentAgain =>
    /\ \A c \in Handing : c.msg # 0 => c.msg \notin InSeq(open.pending) /\ c.msg # consume.id
    /\ \A id \in InSeq(open.pending) \cup InSeq(consume.untaken) : Live(id)
    /\ consume.id # 0 => Live(consume.id) /\ consume.id \notin InSeq(open.pending)
    /\ Once(open.pending) /\ Once(consume.untaken)

\* The prompt that is replied to has a message in the turn.
InTurnAs(p, id) == \E m \in messages : m.turn = turns /\ m.prompt = p /\ (id # 0 => m.id = id)
Replying ==
    Reading => /\ consume.inFlight # 0 => \/ Crossed(consume.inFlight)
                                           \/ InTurnAs(consume.inFlight, consume.inFlightMsg)
               /\ consume.inFlight = 0 => consume.inFlightMsg = 0
               /\ consume.interrupted # 0 => \/ Crossed(consume.interrupted)
                                              \/ InTurnAs(consume.interrupted, consume.interruptedMsg)
               /\ consume.interrupted = 0 => consume.interruptedMsg = 0

\* A turn that has produced nothing has one prompt, and takes no other.
TaskComes(i) == \E j \in DOMAIN events : j < i /\ events[j].type = "task"
Barren ==
    Reading /\ ~consume.produced =>
        /\ consume.pc = "loop" /\ open.pending = <<>> /\ ~open.followUp
        /\ Handing = {} /\ waiting = <<>>
        /\ cli.tasks => TaskComes(Len(events) + 1)
        /\ \A i \in DOMAIN events : /\ events[i].type = "done" /\ events[i].open => TaskComes(i)
                                    /\ events[i].type # "taken"
        /\ \A m \in messages : m.turn = turns /\ m.prompt # 0 /\ ~Crossed(m.prompt) =>
              /\ consume.inFlight # 0 => m.prompt = consume.inFlight
              /\ consume.interrupted # 0 => m.prompt = consume.interrupted

\* A row may go once its prompt is in the transcript, or has another row.
MayDrop == \A c \in calls : c.at = "drop" =>
    Crossed(c.prompt) \/ HasText(c.prompt) \/ \E r \in queue : r.prompt = c.prompt /\ r.id # c.row

\* A row that is handed over was there.
HandedOver == \A c \in Handing : c.row # 0 =>
    Crossed(c.prompt) \/ Stored(c.prompt) \/ Gone(c.prompt)

Inv == /\ Typed /\ Spared /\ Apart /\ Stages /\ Alone /\ Outrun /\ RunRow /\ Afresh
       /\ SentAlone /\ Holds /\ Replying /\ Barren /\ MayDrop /\ HandedOver
-----------------------------------------------------------------------------
(* Ids and sequences                                                        *)

\* A new id is in use nowhere.
LEMMA NewId ==
    ASSUME NEW S, NEW id, id \in Nat, \A x \in S : x.id \in Nat, Store!IsNewId(S, id)
    PROVE  \A x \in S : x.id # id
BY DEF Store!IsNewId

\* A message that is stored has an id of its own.
LEMMA NewMsg ==
    ASSUME NEW ms, ms \subseteq Message, NEW id, IsNewMsg(ms, id)
    PROVE  id \in MsgIds /\ id \in Nat \ {0} /\ \A m \in ms : m.id # id
<1>1. id \in MsgIds /\ id \in Nat \ {0} /\ \A m \in ms : m.id \in Nat
  BY FollowUpAssumption DEF IsNewMsg, Message
<1> QED BY <1>1, NewId DEF IsNewMsg

\* So has a row.
LEMMA NewRowId ==
    ASSUME queue \subseteq QueueRow, NEW id \in NewRow
    PROVE  id \in RowIds /\ \A r \in queue : r.id # id
<1>1. id \in RowIds /\ id \in Nat /\ \A r \in queue : r.id \in Nat
  BY FollowUpAssumption DEF NewRow, QueueRow
<1> QED BY <1>1, NewId DEF NewRow

\* Ids and prompts are numbers above 0.
LEMMA NatIds ==
    /\ 0 \notin MsgIds /\ 0 \notin RowIds /\ 0 \notin Prompts
    /\ MsgIds \subseteq Nat /\ RowIds \subseteq Nat /\ Prompts \subseteq Nat
BY FollowUpAssumption

\* A message that moves to the end has an id no other has.
LEMMA EndId ==
    ASSUME NEW ms, ms \subseteq Message, NEW m \in ms, NEW id \in EndIds(ms, m)
    PROVE  id \in MsgIds /\ \A o \in ms : o.id = id => o.id = m.id
<1>1. CASE \A o \in ms : o.id <= m.id
  BY <1>1 DEF EndIds, Message
<1>2. CASE ~\A o \in ms : o.id <= m.id
  <2>1. IsNewMsg(ms, id)
    BY <1>2 DEF EndIds, IsNewMsg
  <2> QED BY <2>1, NewMsg
<1> QED BY <1>1, <1>2

\* A message that moves keeps its prompt.
LEMMA MovedTo ==
    ASSUME NEW ms, ms \subseteq Message, NEW m \in ms, NEW t, NEW id
    PROVE  Moved(ms, m, t, id) = (ms \ {m}) \cup {[id |-> id, prompt |-> m.prompt, turn |-> t]}
<1> DEFINE r == [m EXCEPT !.id = id]
<1>1. r = [id |-> id, prompt |-> m.prompt, turn |-> m.turn]
  BY DEF Message
<1>2. [m EXCEPT !.id = id, !.turn = t] = [r EXCEPT !.turn = t]
  OBVIOUS
<1> HIDE DEF r
<1>3. [r EXCEPT !.turn = t] = [id |-> id, prompt |-> m.prompt, turn |-> t]
  BY <1>1
<1> QED BY <1>2, <1>3 DEF Moved

\* What a sequence holds, and that once, when it grows by one ...
LEMMA InSeqAppend ==
    ASSUME NEW S, NEW s \in Seq(S), NEW e \in S
    PROVE  InSeq(Append(s, e)) = InSeq(s) \cup {e}
<1>1. Append(s, e) \in Seq(S) /\ Len(Append(s, e)) = Len(s) + 1 /\ Len(s) \in Nat
  BY AppendProperties
<1>2. \A i \in 1..Len(s) : Append(s, e)[i] = s[i]
  BY AppendProperties
<1>3. Append(s, e)[Len(s) + 1] = e
  BY AppendProperties
<1>4. DOMAIN s = 1..Len(s) /\ DOMAIN Append(s, e) = 1..(Len(s) + 1)
  BY <1>1
<1> QED BY <1>1, <1>2, <1>3, <1>4 DEF InSeq

\* ... element it does not hold ...
LEMMA OnceAppend ==
    ASSUME NEW S, NEW s \in Seq(S), NEW e \in S, Once(s), e \notin InSeq(s)
    PROVE  Once(Append(s, e))
<1>1. Append(s, e) \in Seq(S) /\ Len(Append(s, e)) = Len(s) + 1 /\ Len(s) \in Nat
  BY AppendProperties
<1>2. \A i \in 1..Len(s) : Append(s, e)[i] = s[i] /\ s[i] # e
  BY AppendProperties DEF InSeq
<1>3. Append(s, e)[Len(s) + 1] = e
  BY AppendProperties
<1>4. DOMAIN s = 1..Len(s) /\ DOMAIN Append(s, e) = 1..(Len(s) + 1)
  BY <1>1
<1> QED BY <1>1, <1>2, <1>3, <1>4 DEF Once

\* ... and when its first element goes.
LEMMA Tails ==
    ASSUME NEW S, NEW s \in Seq(S), s # <<>>
    PROVE  /\ Tail(s) \in Seq(S) /\ Len(Tail(s)) = Len(s) - 1 /\ Len(s) \in Nat \ {0}
           /\ DOMAIN s = 1..Len(s) /\ DOMAIN Tail(s) = 1..(Len(s) - 1)
           /\ \A i \in 1..(Len(s) - 1) : Tail(s)[i] = s[i + 1]
           /\ Head(s) = s[1] /\ Head(s) \in S
<1>1. Tail(s) \in Seq(S) /\ Len(Tail(s)) = Len(s) - 1 /\ Len(s) \in Nat \ {0}
  BY HeadTailProperties, EmptySeq
<1> QED BY <1>1, HeadTailProperties

\* A sequence holds its first element and what its tail holds ...
LEMMA InSeqTail ==
    ASSUME NEW S, NEW s \in Seq(S), s # <<>>
    PROVE  InSeq(s) = {Head(s)} \cup InSeq(Tail(s))
<1>1. \A x \in InSeq(s) : x \in {Head(s)} \cup InSeq(Tail(s))
  <2> SUFFICES ASSUME NEW i \in DOMAIN s, s[i] # Head(s) PROVE s[i] \in InSeq(Tail(s))
    BY DEF InSeq
  <2>1. i - 1 \in DOMAIN Tail(s) /\ Tail(s)[i - 1] = s[i]
    BY Tails
  <2> QED BY <2>1 DEF InSeq
<1>2. InSeq(Tail(s)) \subseteq InSeq(s) /\ Head(s) \in InSeq(s)
  BY Tails DEF InSeq
<1> QED BY <1>1, <1>2

\* ... and none of it twice, if it held nothing twice.
LEMMA OnceTail ==
    ASSUME NEW S, NEW s \in Seq(S), s # <<>>, Once(s)
    PROVE  Once(Tail(s)) /\ Head(s) \notin InSeq(Tail(s))
<1>1. Once(Tail(s))
  BY Tails DEF Once
<1>2. Head(s) \notin InSeq(Tail(s))
  BY Tails DEF Once, InSeq
<1> QED BY <1>1, <1>2
-----------------------------------------------------------------------------
(* The transcript                                                           *)

ApartIn(ms) == \A a, b \in ms : a.id = b.id => a = b

\* Only what the agent wrote in this turn is added.
Prose(ms, ns) == /\ ms \subseteq ns /\ ns \subseteq Message /\ ApartIn(ns)
                 /\ \A m \in ns \ ms : m.prompt = 0 /\ m.turn = turns

\* A message that is stored leaves the others alone.
LEMMA Writes ==
    ASSUME NEW ms, ms \subseteq Message, ApartIn(ms), turns \in 0..MaxTurns,
           NEW p \in OrNone, NEW t \in 0..MaxTurns, NEW id, IsNewMsg(ms, id)
    PROVE  /\ Added(ms, p, t, id) \subseteq Message /\ ApartIn(Added(ms, p, t, id))
           /\ [id |-> id, prompt |-> p, turn |-> t] \in Message
           /\ \A m \in ms : m.id # id
<1>1. id \in MsgIds /\ \A m \in ms : m.id # id
  BY NewMsg
<1> QED BY <1>1 DEF Added, ApartIn, Message

\* So does the prose that is flushed.
LEMMA Flushes ==
    ASSUME NEW ms, ms \subseteq Message, ApartIn(ms), turns \in 0..MaxTurns,
           NEW said, NEW ns \in Flushed(ms, said)
    PROVE  Prose(ms, ns)
<1>1. CASE ~said
  BY <1>1 DEF Flushed, Prose
<1>2. ASSUME NEW id, IsNewMsg(ms, id), ns = Added(ms, 0, turns, id) PROVE Prose(ms, ns)
  BY <1>2, Writes DEF Added, Prose, OrNone
<1> QED BY <1>1, <1>2 DEF Flushed

\* Prose after prose is prose.
LEMMA ProseTwice == ASSUME NEW l, NEW m, NEW n, Prose(l, m), Prose(m, n) PROVE Prose(l, n)
BY DEF Prose
-----------------------------------------------------------------------------
(* Calls that move on                                                       *)

\* Another place of the same call.
Ats == {"called", "looked", "stored", "written", "ending", "start", "lock", "parked",
        "claimed", "drop"}
Moves(c, d, x) == /\ d \in Call /\ d.at = x
                  /\ d.kind = c.kind /\ d.row = c.row /\ d.prompt = c.prompt /\ d.msg = c.msg

\* A call that goes on to another place.
LEMMA MovesTo ==
    ASSUME NEW c \in Call, NEW x \in Ats
    PROVE  Moves(c, [c EXCEPT !.at = x], x)
BY DEF Call, Ats, Moves

\* A call that has looked.
LEMMA MovesOn ==
    ASSUME NEW c \in Call, NEW t \in 0..MaxTurns
    PROVE  Moves(c, [c EXCEPT !.at = "looked", !.turn = t], "looked")
<1>1. [c EXCEPT !.at = "looked", !.turn = t] \in Call
  BY DEF Call
<1> QED BY <1>1 DEF Call, Moves

\* It has read its row.
Reads(c, d, x, p) == /\ d \in Call /\ d.at = x /\ d.prompt = p
                     /\ d.kind = c.kind /\ d.row = c.row /\ d.msg = c.msg

\* A call that has read its row.
LEMMA ReadsRow ==
    ASSUME NEW c \in Call, NEW p \in Prompts, NEW x \in Ats
    PROVE  Reads(c, [c EXCEPT !.at = x, !.prompt = p], x, p)
<1>1. [c EXCEPT !.at = x, !.prompt = p] \in Call
  BY DEF Call, Ats
<1> QED BY <1>1 DEF Call, Reads

\* It has another message, or none.
Stores(c, d, x, id) == /\ d \in Call /\ d.at = x /\ d.msg = id
                       /\ d.kind = c.kind /\ d.row = c.row /\ d.prompt = c.prompt

\* A call that has stored its message.
LEMMA StoresMsg ==
    ASSUME NEW c \in Call, NEW id \in Ids, NEW x \in Ats
    PROVE  Stores(c, [c EXCEPT !.at = x, !.msg = id], x, id)
<1>1. [c EXCEPT !.at = x, !.msg = id] \in Call
  BY DEF Call, Ids, Ats
<1> QED BY <1>1 DEF Call, Stores

\* It goes on as a run of its row.
Runs(c, d) == /\ d \in Call /\ d.at = "lock" /\ d.kind = "run"
              /\ d.row = c.row /\ d.prompt = c.prompt /\ d.msg = c.msg

\* A Send now that waits for the dispatch lock.
LEMMA RunsRow ==
    ASSUME NEW c \in Call
    PROVE  Runs(c, [c EXCEPT !.kind = "run", !.at = "lock"])
<1>1. [c EXCEPT !.kind = "run", !.at = "lock"] \in Call
  BY DEF Call
<1> QED BY <1>1 DEF Call, Runs

\* A step of one call, of those that are there, that starts nothing.
NewCallOf(d) ==
    /\ d \in Call /\ Fits(d) /\ d.at \notin {"stored", "written", "claimed", "drop"}
    /\ d.prompt <= accepted'
    /\ d.kind = "run" =>
          /\ turn.stage = "none" \/ \E c \in calls : c.kind = "run"
          /\ d.at # "lock" => /\ \E r \in queue : r.id = d.row /\ r.prompt = d.prompt
                              /\ ~Dispatching \/ \E c \in calls \ calls' : c.kind = "run" /\ c.at # "lock"
    /\ d.kind = "send" =>
          \/ d.prompt > accepted
          \/ \E c \in calls \ calls' : c.kind = "send" /\ c.prompt = d.prompt /\ c \notin Handing
    /\ d.kind # "send" =>
          \/ InQueue(d.prompt)
          \/ HasText(d.prompt) /\ Handing = {}
          \/ \E c \in calls : c.kind # "send" /\ c.prompt = d.prompt

Data == <<queue, messages, turns, open, consume, provider, deleted, displaced>>
CallsOnly ==
    /\ UNCHANGED Data
    /\ turn' \in Turn /\ turn'.stage = turn.stage
    /\ accepted' \in Nat /\ accepted' >= accepted
    /\ left' \in [Kinds -> Nat] /\ \A k \in Kinds : left'[k] <= left[k]
    /\ Handing' = Handing
    /\ \A d, e \in calls' \ calls : d = e
    /\ \A d \in calls' \ calls : NewCallOf(d)

\* What is not left is not given again.
LEMMA SparedKept ==
    ASSUME Inv, left' \in [Kinds -> Nat], \A k \in Kinds : left'[k] <= left[k]
    PROVE  Spared'
BY DEF Inv, Spared, Kinds

\* Prompts compare as numbers.
LEMMA PromptsAreNat ==
    ASSUME Typed
    PROVE  /\ \A r \in queue : r.prompt \in Nat
           /\ \A m \in messages : m.prompt \in Nat
           /\ \A c \in calls : c.prompt \in Nat
           /\ \A p \in deleted \cup displaced \cup grabbed : p \in Nat
<1>1. \A r \in queue : r.prompt \in Prompts
  BY DEF Typed, TypeOK, QueueRow
<1>2. \A m \in messages : m.prompt \in Prompts \cup {0}
  BY DEF Typed, TypeOK, Message, OrNone
<1>3. \A c \in calls : c.prompt \in Prompts
  BY DEF Typed, TypeOK, Call
<1>4. deleted \cup displaced \cup grabbed \subseteq Prompts
  BY DEF Typed, TypeOK
<1>5. \A p \in Prompts : p \in Nat
  BY NatIds
<1> QED BY <1>1, <1>2, <1>3, <1>4, <1>5

\* Calls that move on keep the invariant.
LEMMA CallsOnlyInv ==
    ASSUME Inv, CallsOnly, UNCHANGED <<owed, starts, setbacks, grabbed>>
    PROVE  Inv'
<1>0. TypeOK'
  <2>1. calls' \subseteq Call
    BY DEF CallsOnly, NewCallOf, Inv, Typed, TypeOK
  <2> QED BY <2>1 DEF CallsOnly, Data, provider, Inv, Typed, TypeOK
<1>1. UNCHANGED <<queue, messages, turns, open, consume, cli, waiting, closed, events, deleted, displaced, grabbed>>
  BY DEF CallsOnly, Data, provider
<1>2. Handing' = Handing /\ turn'.stage = turn.stage
  BY DEF CallsOnly
<1>3. Typed'
  BY <1>0 DEF CallsOnly, NewCallOf, Inv, Typed, Fits
<1>4. Spared'
  BY SparedKept DEF CallsOnly
<1>5. Apart' /\ Stages' /\ Holds' /\ Replying' /\ Barren'
  <2>1. Apart' /\ Holds'
    BY <1>1, <1>2 DEF Inv, Apart, Holds, Live
  <2>2. Stages'
    BY <1>1, <1>2 DEF Inv, Stages, Reading
  <2>3. Replying'
    BY <1>1 DEF Inv, Replying, Reading, InTurnAs, Crossed
  <2>4. Barren'
    BY <1>1, <1>2 DEF Inv, Barren, Reading, TaskComes, Crossed
  <2> QED BY <2>1, <2>2, <2>3, <2>4
<1>6. Alone'
  BY <1>2 DEF Inv, Alone, CallsOnly, NewCallOf, Dispatching
<1>7. Outrun'
  <2> SUFFICES ASSUME \E c \in calls' : c.kind = "run"
               PROVE  /\ ~open.followUp /\ Handing = {}
                      /\ \A i \in DOMAIN events : events[i].type # "done"
    BY <1>1, <1>2 DEF Outrun
  <2>1. turn.stage = "none" \/ \E c \in calls : c.kind = "run"
    BY DEF CallsOnly, NewCallOf
  <2>2. CASE turn.stage = "none"
    BY <2>2 DEF Inv, Stages, Reading, Typed, TypeOK, Turn
  <2> QED BY <2>1, <2>2 DEF Inv, Outrun
<1>8. RunRow'
  BY <1>1 DEF Inv, RunRow, CallsOnly, NewCallOf
<1>9. Afresh'
  <2>1. accepted \in Nat /\ accepted' \in Nat /\ accepted <= accepted'
    BY DEF CallsOnly, Inv, Typed, TypeOK
  <2>2. /\ \A r \in queue : r.prompt \in Nat
        /\ \A m \in messages : m.prompt \in Nat
        /\ \A c \in calls : c.prompt \in Nat
        /\ \A p \in deleted \cup displaced \cup grabbed : p \in Nat
    BY PromptsAreNat DEF Inv
  <2>3. \A c \in calls' : c \in calls \/ c.prompt <= accepted'
    BY DEF CallsOnly, NewCallOf
  <2> QED BY <1>1, <2>1, <2>2, <2>3 DEF Inv, Afresh
<1>10. SentAlone'
  <2> SUFFICES ASSUME NEW c \in calls', c.kind = "send", ~Crossed(c.prompt)
               PROVE  /\ ~InQueue(c.prompt) /\ ~Gone(c.prompt)
                      /\ \A d \in calls' : d.prompt = c.prompt => d = c
                      /\ c \notin Handing => ~HasText(c.prompt)
                      /\ c \in Handing =>
                            /\ \E m \in messages : m.id = c.msg /\ m.prompt = c.prompt /\ m.turn = 0
                            /\ \A m \in messages : m.prompt = c.prompt => m.id = c.msg
    BY <1>1, <1>2 DEF SentAlone, InQueue, HasText, Gone, Crossed
  <2>1. \A p \in Prompts : p > accepted =>
            ~InQueue(p) /\ ~HasText(p) /\ ~Gone(p) /\ \A d \in calls : d.prompt # p
    <3>1. accepted \in Nat
      BY DEF Inv, Typed, TypeOK
    <3> QED BY <3>1, NatIds DEF Inv, Afresh, InQueue, HasText, Gone
  <2>2. \A d \in calls' : d.prompt \in Prompts
    BY <1>0 DEF TypeOK, Call
  <2>3. CASE c \in calls
    <3>1. \A d \in calls' \ calls : d.prompt # c.prompt
      <4> SUFFICES ASSUME NEW d \in calls' \ calls, d.prompt = c.prompt PROVE FALSE
        OBVIOUS
      <4>0. /\ ~InQueue(c.prompt) /\ (\A x \in calls : x.prompt = c.prompt => x = c)
            /\ c \notin Handing => ~HasText(c.prompt)
        BY <2>3 DEF Inv, SentAlone
      <4>1. CASE d.kind = "send"
        BY <2>1, <2>2, <2>3, <4>0, <4>1 DEF CallsOnly, NewCallOf
      <4>2. CASE d.kind # "send"
        BY <2>3, <4>0, <4>2 DEF CallsOnly, NewCallOf
      <4> QED BY <4>1, <4>2
    <3> QED BY <2>3, <3>1 DEF Inv, SentAlone
  <2>4. CASE c \notin calls
    <3>1. c \notin Handing
      BY <2>4 DEF Handing
    <3>2. \A d \in calls' \ calls : d = c
      BY <2>4 DEF CallsOnly
    <3>3. CASE c.prompt > accepted
      BY <2>1, <2>2, <3>1, <3>2, <3>3
    <3>4. ASSUME NEW b \in calls \ calls', b.kind = "send", b.prompt = c.prompt, b \notin Handing
          PROVE  /\ ~InQueue(c.prompt) /\ ~Gone(c.prompt) /\ ~HasText(c.prompt)
                 /\ \A d \in calls' : d.prompt = c.prompt => d = c
      BY <3>2, <3>4 DEF Inv, SentAlone
    <3> QED BY <2>4, <3>1, <3>3, <3>4 DEF CallsOnly, NewCallOf
  <2> QED BY <2>3, <2>4
<1>11. MayDrop' /\ HandedOver'
  BY <1>1, <1>2 DEF Inv, MayDrop, HandedOver, CallsOnly, NewCallOf, HasText, Stored, InQueue, Gone, Crossed
<1> QED BY <1>3, <1>4, <1>5, <1>6, <1>7, <1>8, <1>9, <1>10, <1>11 DEF Inv

Calm == UNCHANGED <<owed, starts, setbacks, grabbed>>
Still == UNCHANGED <<Data, accepted, left>> /\ turn' \in Turn /\ turn'.stage = turn.stage

\* Spending leaves less.
LEMMA SpendLess ==
    ASSUME Typed, NEW k \in Kinds, Spend(k)
    PROVE  left' \in [Kinds -> Nat] /\ (\A x \in Kinds : left'[x] <= left[x]) /\ left[k] > 0
<1>1. left \in [Kinds -> Nat] /\ left[k] \in Nat /\ left[k] > 0
  BY DEF Typed, TypeOK, Spend
<1>2. left' = [left EXCEPT ![k] = left[k] - 1]
  BY DEF Spend
<1> QED BY <1>1, <1>2

\* What stays the same keeps its type.
LEMMA SameTurn ==
    ASSUME Typed
    PROVE  /\ UNCHANGED turn => turn' \in Turn /\ turn'.stage = turn.stage
           /\ accepted \in Nat /\ accepted >= accepted
           /\ left \in [Kinds -> Nat] /\ \A k \in Kinds : left[k] <= left[k]
<1>1. turn \in Turn /\ accepted \in Nat /\ left \in [Kinds -> Nat]
  BY DEF Typed, TypeOK
<1> QED BY <1>1

\* A call goes on that hands nothing over.
LEMMA OneCall ==
    ASSUME Inv, Still, NEW c \in calls, NEW d \in Call, calls' = (calls \ {c}) \cup {d}, Fits(d),
           d.at \notin {"stored", "written", "claimed", "drop"}, c.at \notin {"stored", "written"},
           d.prompt = c.prompt, d.row = c.row,
           \/ d.kind = c.kind
           \/ c.kind # "send" /\ d.kind = "run" /\ d.at = "lock" /\ turn.stage = "none",
           d.kind = "run" /\ d.at # "lock" => c.at # "lock"
    PROVE  CallsOnly
<1>1. Handing' = Handing
  BY DEF Handing
<1>2. d = c \/ c \notin calls'
  OBVIOUS
<1>3. d.prompt <= accepted /\ accepted' = accepted
  BY DEF Inv, Afresh, Still
<1>4. ASSUME d.kind = "run", d # c, d.at # "lock"
      PROVE  /\ \E r \in queue : r.id = d.row /\ r.prompt = d.prompt
             /\ c \in calls \ calls' /\ c.kind = "run" /\ c.at # "lock"
  BY <1>2, <1>4 DEF Inv, RunRow
<1>5. d # c => NewCallOf(d)
  BY <1>2, <1>3, <1>4 DEF NewCallOf, Handing
<1>6. \A e \in calls' \ calls : e = d /\ d # c
  OBVIOUS
<1> QED BY <1>1, <1>5, <1>6, SameTurn DEF CallsOnly, Still, Inv

\* A call ends that hands nothing over.
LEMMA CallEnds ==
    ASSUME Inv, Still, NEW c \in calls, calls' = calls \ {c}, c.at \notin {"stored", "written"}
    PROVE  CallsOnly
<1>1. Handing' = Handing
  BY DEF Handing
<1> QED BY <1>1, SameTurn DEF CallsOnly, Still, Inv

\* A call that changes no other variable.
LEMMA Stands ==
    ASSUME Typed, UnchangedTurn, UNCHANGED <<db, ghost, left>>
    PROVE  Still /\ Calm
<1>1. UNCHANGED <<Data, turn, accepted, left>> /\ Calm
  BY DEF UnchangedTurn, db, ghost, provider, Data, Calm
<1> QED BY <1>1, SameTurn DEF Still

\* The steps of calls that change nothing but calls, or cancel the turn.
LEMMA LookInv == ASSUME Inv, NEW c, Look(c) PROVE CallsOnly /\ Calm
<1> DEFINE t == IF turn.stage = "none" THEN 0 ELSE turns
           d == [c EXCEPT !.at = "looked", !.turn = t]
<1>1. c \in calls /\ c.at = "called" /\ c \in Call /\ Fits(c)
  BY DEF Look, Inv, Typed, TypeOK
<1>2. t \in 0..MaxTurns
  BY FollowUpAssumption DEF Inv, Typed, TypeOK
<1>3. calls' = (calls \ {c}) \cup {d}
  BY DEF Look
<1>4. Moves(c, d, "looked")
  BY <1>1, <1>2, MovesOn
<1>5. Still /\ Calm
  BY Stands DEF Look, Inv
<1> HIDE DEF d
<1>6. Fits(d)
  BY <1>1, <1>4 DEF Fits, Moves
<1> QED BY <1>1, <1>3, <1>4, <1>5, <1>6, OneCall DEF Moves

LEMMA NotTakingInv == ASSUME Inv, NEW c, NotTaking(c) PROVE CallsOnly /\ Calm
<1>1. c \in calls /\ c.at = "looked" /\ c.kind # "requeue" /\ c \in Call /\ Fits(c)
  BY DEF NotTaking, Inv, Typed, TypeOK
<1>2. PICK x \in {"ending", "start"} : calls' = (calls \ {c}) \cup {[c EXCEPT !.at = x]}
  BY DEF NotTaking, To
<1> DEFINE d == [c EXCEPT !.at = x]
<1>4. Moves(c, d, x)
  BY <1>1, MovesTo DEF Ats
<1>5. Still /\ Calm
  BY Stands DEF NotTaking, Inv
<1> HIDE DEF d
<1>6. Fits(d)
  BY <1>1, <1>4 DEF Fits, Moves
<1> QED BY <1>1, <1>2, <1>4, <1>5, <1>6, OneCall DEF Moves, d

LEMMA EndedInv == ASSUME Inv, NEW c, Ended(c) PROVE CallsOnly /\ Calm
<1>1. c \in calls /\ c.at = "ending" /\ c \in Call /\ Fits(c)
  BY DEF Ended, Inv, Typed, TypeOK
<1> DEFINE d == [c EXCEPT !.at = "start"]
<1>2. calls' = (calls \ {c}) \cup {d}
  BY DEF Ended, To
<1>4. Moves(c, d, "start")
  BY <1>1, MovesTo DEF Ats
<1>5. Still /\ Calm
  BY Stands DEF Ended, Inv
<1> HIDE DEF d
<1>6. Fits(d)
  BY <1>1, <1>4 DEF Fits, Moves
<1> QED BY <1>1, <1>2, <1>4, <1>5, <1>6, OneCall DEF Moves

LEMMA RefusedInv == ASSUME Inv, NEW c, RefuseHandOver(c) PROVE CallsOnly /\ Calm
<1>1. c \in calls /\ c.at = "looked" /\ c \in Call /\ Fits(c) /\ Handing = {} /\ open.followUp
  BY DEF RefuseHandOver, Takes, StillThere, Unlocked, Inv, Typed, TypeOK
<1>2. Still /\ Calm
  BY Stands DEF RefuseHandOver, Inv
<1>3. c.kind # "run"
  BY <1>1 DEF Inv, Outrun
<1>4. CASE calls' = calls \ {c}
  BY <1>1, <1>2, <1>4, CallEnds
<1>5. CASE c.kind = "force" /\ calls' = (calls \ {c}) \cup {[c EXCEPT !.at = "start"]}
  <2> DEFINE d == [c EXCEPT !.at = "start"]
  <2>1. Moves(c, d, "start")
    BY <1>1, MovesTo DEF Ats
  <2> HIDE DEF d
  <2>2. Fits(d)
    BY <1>1, <1>5, <2>1 DEF Fits, Moves
  <2> QED BY <1>1, <1>2, <1>5, <2>1, <2>2, OneCall DEF d, Moves
<1> QED BY <1>3, <1>4, <1>5 DEF RefuseHandOver, Dispatched, Done, To

LEMMA ParkInv == ASSUME Inv, NEW c, Park(c) PROVE CallsOnly /\ Calm
<1>1. c \in calls /\ c.at \in {"start", "ending"} /\ c.kind = "force" /\ c \in Call /\ Fits(c)
  BY DEF Park, Inv, Typed, TypeOK
<1>2. turn \in Turn
  BY DEF Inv, Typed, TypeOK
<1>3. turn' \in Turn /\ turn'.stage = turn.stage
  BY <1>2 DEF Park, Turn
<1>4. Still /\ Calm
  BY <1>3 DEF Park, Still, Data, Calm, db, provider, ghost
<1>5. CASE calls' = calls \ {c}
  BY <1>1, <1>4, <1>5, CallEnds
<1>6. CASE calls' = (calls \ {c}) \cup {[c EXCEPT !.kind = "run", !.at = "lock"]} /\ turn.stage = "none"
  <2> DEFINE d == [c EXCEPT !.kind = "run", !.at = "lock"]
  <2>1. Runs(c, d)
    BY <1>1, RunsRow
  <2> HIDE DEF d
  <2>2. Fits(d)
    BY <1>1, <2>1 DEF Fits, Runs
  <2> QED BY <1>1, <1>4, <1>6, <2>1, <2>2, OneCall DEF d, Runs
<1>7. CASE calls' = (calls \ {c}) \cup {[c EXCEPT !.at = "parked"]}
  <2> DEFINE d == [c EXCEPT !.at = "parked"]
  <2>1. Moves(c, d, "parked")
    BY <1>1, MovesTo DEF Ats
  <2> HIDE DEF d
  <2>2. Fits(d)
    BY <1>1, <2>1 DEF Fits, Moves
  <2> QED BY <1>1, <1>4, <1>7, <2>1, <2>2, OneCall DEF d, Moves
<1> QED BY <1>5, <1>6, <1>7 DEF Park, To, Done

LEMMA RunForcedInv == ASSUME Inv, NEW c, RunForced(c) PROVE CallsOnly /\ Calm
<1>1. c \in calls /\ c.at = "lock" /\ c \in Call /\ Fits(c) /\ ~Dispatching
  BY DEF RunForced, Inv, Typed, TypeOK
<1>2. Still /\ Calm
  BY Stands DEF RunForced, Inv
<1>3. CASE calls' = calls \ {c}
  BY <1>1, <1>2, <1>3, CallEnds
<1>4. ASSUME NEW r \in Rows(c.row), calls' = (calls \ {c}) \cup {[c EXCEPT !.at = "called", !.prompt = r.prompt]}
      PROVE  CallsOnly
  <2> DEFINE d == [c EXCEPT !.at = "called", !.prompt = r.prompt]
  <2>1. r \in queue /\ r.id = c.row /\ r.prompt \in Prompts
    BY DEF Rows, Inv, Typed, TypeOK, QueueRow
  <2>2. Reads(c, d, "called", r.prompt)
    BY <1>1, <2>1, ReadsRow DEF Ats
  <2> HIDE DEF d
  <2> USE DEF Reads
  <2>7. c.kind = "run"
    BY <1>1 DEF Fits, Call
  <2>3. Fits(d)
    BY <1>1, <2>2, <2>7 DEF Fits
  <2>4. calls' = (calls \ {c}) \cup {d}
    BY <1>4 DEF d
  <2>5. Handing' = Handing
    BY <1>1, <2>2, <2>4 DEF Handing
  <2>6. NewCallOf(d)
    BY <1>1, <1>2, <2>1, <2>2, <2>3, <2>7 DEF NewCallOf, InQueue, Still, Inv, Afresh
  <2> QED BY <1>2, <2>4, <2>5, <2>6, SameTurn DEF CallsOnly, Still, Inv
<1> QED BY <1>2, <1>3, <1>4 DEF RunForced, Done

\* A call that is new.
LEMMA CallBegins ==
    ASSUME Inv, NEW d \in Call, calls' = calls \cup {d}, d.at = "called", NewCallOf(d), UNCHANGED <<Data, turn>>,
           accepted' \in Nat, accepted' >= accepted,
           left' \in [Kinds -> Nat], \A k \in Kinds : left'[k] <= left[k]
    PROVE  CallsOnly
<1>1. Handing' = Handing
  BY DEF Handing
<1> QED BY <1>1, SameTurn DEF CallsOnly, Inv

\* The calls that begin.
LEMMA ForceInv == ASSUME Inv, NEW r, ForceCalled(r) PROVE CallsOnly /\ Calm
<1> DEFINE d == NewCall("force", left["force"], r.prompt, r.id, 0)
<1>1. r \in queue /\ r.prompt \in Prompts /\ r.id \in RowIds
  BY DEF ForceCalled, Inv, Typed, TypeOK, QueueRow
<1>2. left["force"] \in Nat /\ left' \in [Kinds -> Nat] /\ \A k \in Kinds : left'[k] <= left[k]
  BY SpendLess DEF ForceCalled, Inv, Typed, TypeOK, Kinds
<1>3. d \in Call /\ d.kind = "force" /\ d.row = r.id /\ d.msg = 0 /\ d.at = "called" /\ d.prompt = r.prompt
  BY <1>1, <1>2, FollowUpAssumption DEF NewCall, Call, Ids
<1>4. calls' = calls \cup {d} /\ UNCHANGED <<Data, turn, accepted>> /\ Calm
  BY DEF ForceCalled, UnchangedTurn, db, ghost, Data, provider, Calm
<1> HIDE DEF d
<1>5. Fits(d)
  BY <1>1, <1>3, NatIds DEF Fits
<1>6. NewCallOf(d)
  BY <1>1, <1>3, <1>4, <1>5 DEF NewCallOf, InQueue, Inv, Afresh
<1> QED BY <1>2, <1>3, <1>4, <1>6, CallBegins, SameTurn DEF Inv

LEMMA ResendInv == ASSUME Inv, NEW kind \in {"resend", "requeue"}, NEW m, ResendCalled(kind, m)
    PROVE CallsOnly /\ Calm
<1> DEFINE d == NewCall(kind, left[kind], m.prompt, 0, m.id)
<1>1. m \in messages /\ m.prompt \in Prompts /\ m.id \in MsgIds /\ Handing = {}
  BY DEF ResendCalled, Unprocessed, Unlocked, Inv, Typed, TypeOK, Message, OrNone
<1>2. left[kind] \in Nat /\ left[kind] > 0 /\ left' \in [Kinds -> Nat] /\ \A k \in Kinds : left'[k] <= left[k]
  BY SpendLess DEF ResendCalled, Inv, Typed, TypeOK, Kinds
<1>3. d \in Call /\ d.kind = kind /\ d.row = 0 /\ d.msg = m.id /\ d.at = "called" /\ d.prompt = m.prompt
  BY <1>1, <1>2, FollowUpAssumption DEF NewCall, Call, Ids
<1>4. calls' = calls \cup {d} /\ UNCHANGED <<Data, turn, accepted>> /\ Calm
  BY DEF ResendCalled, UnchangedTurn, db, ghost, Data, provider, Calm
<1> HIDE DEF d
<1>5. ~NoneSentAgain
  BY <1>2 DEF Inv, Spared
<1>6. Fits(d)
  BY <1>1, <1>3, <1>5, NatIds DEF Fits
<1>7. NewCallOf(d)
  BY <1>1, <1>3, <1>4, <1>6 DEF NewCallOf, HasText, Inv, Afresh
<1> QED BY <1>2, <1>3, <1>4, <1>7, CallBegins, SameTurn DEF Inv

LEMMA DispatchInv == ASSUME Inv, NEW r, Dispatch(r) PROVE CallsOnly /\ Calm
<1> DEFINE d == NewCall("run", 0, r.prompt, r.id, 0)
<1>1. r \in queue /\ r.prompt \in Prompts /\ r.id \in RowIds
  BY DEF Dispatch, Inv, Typed, TypeOK, QueueRow
<1>2. left' \in [Kinds -> Nat] /\ \A k \in Kinds : left'[k] <= left[k]
  BY SameTurn DEF Dispatch, Inv
<1>3. d \in Call /\ d.kind = "run" /\ d.row = r.id /\ d.msg = 0 /\ d.at = "called" /\ d.prompt = r.prompt
  BY <1>1, FollowUpAssumption DEF NewCall, Call, Ids
<1>4. calls' = calls \cup {d} /\ UNCHANGED <<Data, turn, accepted>> /\ Calm
  BY DEF Dispatch, UnchangedTurn, db, ghost, Data, provider, Calm
<1>5. turn.stage = "none" /\ ~Dispatching
  BY DEF Dispatch
<1> HIDE DEF d
<1>6. Fits(d)
  BY <1>1, <1>3, NatIds DEF Fits
<1>7. NewCallOf(d)
  BY <1>1, <1>3, <1>4, <1>5, <1>6 DEF NewCallOf, InQueue, Inv, Afresh
<1> QED BY <1>2, <1>3, <1>4, <1>7, CallBegins, SameTurn DEF Inv

LEMMA SendInv == ASSUME Inv, SendCalled PROVE CallsOnly /\ Calm
<1> DEFINE p == accepted + 1
           d == NewCall("send", left["send"], p, 0, 0)
<1>1. p \in Prompts /\ accepted \in Nat
  BY DEF SendCalled, Inv, Typed, TypeOK
<1>2. left["send"] \in Nat /\ left' \in [Kinds -> Nat] /\ \A k \in Kinds : left'[k] <= left[k]
  BY SpendLess DEF SendCalled, Inv, Typed, TypeOK, Kinds
<1>3. d \in Call /\ d.kind = "send" /\ d.row = 0 /\ d.msg = 0 /\ d.at = "called" /\ d.prompt = p
  BY <1>1, <1>2, FollowUpAssumption DEF NewCall, Call, Ids
<1>4. calls' = calls \cup {d} /\ UNCHANGED <<Data, turn>> /\ Calm /\ accepted' = p
  BY DEF SendCalled, UnchangedTurn, db, ghost, Data, provider, Calm
<1> HIDE DEF d
<1>5. Fits(d)
  BY <1>1, <1>3, NatIds DEF Fits
<1>6. NewCallOf(d)
  BY <1>1, <1>3, <1>4, <1>5 DEF NewCallOf
<1> QED BY <1>1, <1>2, <1>3, <1>4, <1>6, CallBegins DEF Inv
-----------------------------------------------------------------------------
(* The CLI                                                                  *)

\* Events that are emitted come behind the others.
LEMMA Grows ==
    ASSUME Typed, NEW evs \in Seq(Event), Emit(evs)
    PROVE  /\ events' \in Seq(Event) /\ Len(events') = Len(events) + Len(evs)
           /\ Len(events) \in Nat /\ Len(evs) \in Nat
           /\ DOMAIN events = 1..Len(events) /\ DOMAIN evs = 1..Len(evs)
           /\ DOMAIN events' = 1..(Len(events) + Len(evs))
           /\ \A i \in DOMAIN events : events'[i] = events[i]
           /\ \A i \in DOMAIN evs : events'[Len(events) + i] = evs[i]
<1>1. events \in Seq(Event)
  BY DEF Typed, TypeOK
<1>2. events \o evs \in Seq(Event) /\ Len(events \o evs) = Len(events) + Len(evs)
  BY <1>1, ConcatProperties
<1>3. \A i \in 1..(Len(events) + Len(evs)) :
        (events \o evs)[i] = IF i <= Len(events) THEN events[i] ELSE evs[i - Len(events)]
  BY <1>1, ConcatProperties
<1>4. Len(events) \in Nat /\ Len(evs) \in Nat
  BY <1>1
<1>5. \A i \in 1..Len(events) : (events \o evs)[i] = events[i]
  BY <1>3, <1>4
<1>6. ASSUME NEW i \in 1..Len(evs) PROVE (events \o evs)[Len(events) + i] = evs[i]
  <2>1. Len(events) + i \in 1..(Len(events) + Len(evs)) /\ ~(Len(events) + i <= Len(events))
        /\ (Len(events) + i) - Len(events) = i
    BY <1>4
  <2> QED BY <1>3, <2>1
<1>7. events' = events \o evs
  BY DEF Emit
<1> QED BY <1>1, <1>2, <1>4, <1>5, <1>6, <1>7

\* What a step of the CLI may do to the turn that is read.
CliMoves(evs) ==
    /\ InTurn
    /\ Emit(evs)
    /\ cli' \in Cli /\ waiting' \in Seq(Prompts) /\ closed' \in BOOLEAN
    /\ starts' \in [Prompts -> Nat] /\ setbacks' \in [Prompts -> Nat]
    /\ left' \in [Kinds -> Nat] /\ \A k \in Kinds : left'[k] <= left[k]
    /\ (\E c \in calls : c.kind = "run") => \A i \in DOMAIN evs : evs[i].type # "done"
    /\ waiting = <<>> => waiting' = <<>> /\ \A i \in DOMAIN evs : evs[i].type # "taken"
    /\ cli'.tasks => cli.tasks \/ \E i \in DOMAIN evs : evs[i].type = "task"
    /\ \A i \in DOMAIN evs : evs[i].type = "done" /\ evs[i].open => StaysOpen

\* Such a step keeps the invariant.
LEMMA CliMovesInv ==
    ASSUME Inv, NEW evs \in Seq(Event), CliMoves(evs)
    PROVE  Inv' /\ UNCHANGED <<queue, messages, deleted, displaced, grabbed, Handing>>
<1>1. UNCHANGED <<queue, messages, turns, turn, open, consume, calls, accepted, owed, deleted, displaced, grabbed>>
  BY DEF CliMoves, InTurn, db
<1>2. Handing' = Handing
  BY <1>1 DEF Handing
<1>3. events' \in Seq(Event)
  BY Grows DEF CliMoves, Inv
<1>4. Typed'
  BY <1>1, <1>3 DEF CliMoves, Inv, Typed, TypeOK, Fits
<1>5. Spared'
  BY SparedKept DEF CliMoves
<1>6. Apart' /\ Alone' /\ RunRow' /\ Afresh'
  BY <1>1, <1>2 DEF Inv, Apart, Alone, RunRow, Afresh
<1>7. SentAlone' /\ Holds' /\ MayDrop' /\ HandedOver'
  <2>1. SentAlone'
    BY <1>1, <1>2 DEF Inv, SentAlone, InQueue, HasText, Gone, Crossed
  <2>2. Holds'
    BY <1>1, <1>2 DEF Inv, Holds, Live
  <2>3. MayDrop' /\ HandedOver'
    BY <1>1, <1>2 DEF Inv, MayDrop, HandedOver, HasText, Stored, InQueue, Gone, Crossed
  <2> QED BY <2>1, <2>2, <2>3
<1>8. Reading /\ cli.on
  BY DEF CliMoves, InTurn, Inv, Stages
<1>9. Stages'
  BY <1>1, <1>2, <1>8 DEF Inv, Stages, Reading
<1>10. Replying'
  BY <1>1 DEF Inv, Replying, Reading, InTurnAs, Crossed
<1>11. Outrun'
  <2> SUFFICES ASSUME \E c \in calls : c.kind = "run"
               PROVE  ~open.followUp /\ Handing = {} /\ \A i \in DOMAIN events' : events'[i].type # "done"
    BY <1>1, <1>2 DEF Outrun
  <2>1. /\ ~open.followUp /\ Handing = {}
        /\ \A i \in DOMAIN events : events[i].type # "done"
        /\ \A i \in DOMAIN evs : evs[i].type # "done"
    BY DEF Inv, Outrun, CliMoves
  <2>2. ASSUME NEW i \in DOMAIN events' PROVE events'[i].type # "done"
    <3>1. i \in DOMAIN events \/ i - Len(events) \in DOMAIN evs
      BY Grows DEF CliMoves, Inv
    <3>2. i - Len(events) \in DOMAIN evs => events'[i] = evs[i - Len(events)]
      BY Grows DEF CliMoves, Inv
    <3> QED BY <2>1, <3>1, <3>2, Grows DEF CliMoves, Inv
  <2> QED BY <2>1, <2>2
<1>12. Barren'
  <2> SUFFICES ASSUME ~consume.produced
               PROVE  /\ waiting' = <<>>
                      /\ cli'.tasks => TaskComes(Len(events) + 1)'
                      /\ \A i \in DOMAIN events' :
                            /\ events'[i].type = "done" /\ events'[i].open => TaskComes(i)'
                            /\ events'[i].type # "taken"
    BY <1>1, <1>2, <1>8 DEF Inv, Barren, Reading, Crossed
  <2>1. /\ waiting = <<>> /\ waiting' = <<>>
        /\ cli.tasks => TaskComes(Len(events) + 1)
        /\ \A i \in DOMAIN events : /\ events[i].type = "done" /\ events[i].open => TaskComes(i)
                                    /\ events[i].type # "taken"
        /\ \A i \in DOMAIN evs : evs[i].type # "taken"
        /\ \A i \in DOMAIN evs : evs[i].type = "done" /\ evs[i].open => cli.tasks
    BY <1>8 DEF Inv, Barren, CliMoves, StaysOpen
  <2> DEFINE Comes(i) == \E j \in DOMAIN events' : j < i /\ events'[j].type = "task"
  <2>20. /\ DOMAIN events \subseteq DOMAIN events' /\ DOMAIN events = 1..Len(events) /\ Len(events) \in Nat
         /\ \A i \in DOMAIN events : events'[i] = events[i]
    BY Grows DEF CliMoves, Inv
  <2>2. \A i \in Nat : TaskComes(i) => Comes(i)
    BY <2>20 DEF TaskComes
  <2>3. ASSUME NEW i \in Nat, Len(events) < i, TaskComes(Len(events) + 1) PROVE Comes(i)
    <3>1. PICK j \in DOMAIN events : j < Len(events) + 1 /\ events[j].type = "task"
      BY <2>3 DEF TaskComes
    <3>2. j \in DOMAIN events' /\ j < i /\ events'[j] = events[j]
      BY <2>3, <2>20, <3>1
    <3> QED BY <3>1, <3>2
  <2>4. Len(events) \in Nat /\ Len(events') \in Nat /\ Len(events') = Len(events) + Len(evs) /\ Len(evs) \in Nat
    BY Grows DEF CliMoves, Inv
  <2>5. cli'.tasks => Comes(Len(events') + 1)
    <3>1. CASE cli.tasks
      BY SMTT(30), <2>1, <2>3, <2>4, <3>1
    <3>2. ASSUME NEW i \in DOMAIN evs, evs[i].type = "task" PROVE Comes(Len(events') + 1)
      <4>1. Len(events) + i \in DOMAIN events' /\ events'[Len(events) + i] = evs[i] /\ Len(events) + i < Len(events') + 1
        BY Grows DEF CliMoves, Inv
      <4> QED BY <3>2, <4>1
    <3> QED BY <3>1, <3>2 DEF CliMoves
  <2>6. ASSUME NEW i \in DOMAIN events'
        PROVE  /\ events'[i].type = "done" /\ events'[i].open => Comes(i)
               /\ events'[i].type # "taken"
    <3>1. i \in Nat
      BY Grows DEF CliMoves, Inv
    <3>2. CASE i \in DOMAIN events
      BY <2>1, <2>2, <3>1, <3>2, Grows DEF CliMoves, Inv
    <3>3. CASE i \notin DOMAIN events
      <4>1. i - Len(events) \in DOMAIN evs /\ Len(events) < i /\ events'[i] = evs[i - Len(events)]
        BY <3>3, Grows DEF CliMoves, Inv
      <4> QED BY <2>1, <2>3, <3>1, <4>1
    <3> QED BY <3>2, <3>3
  <2> QED BY <2>1, <2>5, <2>6 DEF TaskComes
<1> QED BY <1>1, <1>2, <1>4, <1>5, <1>6, <1>7, <1>9, <1>10, <1>11, <1>12 DEF Inv

\* Sequences of one event and of none.
LEMMA OneEvent ==
    ASSUME NEW e \in Event
    PROVE  <<e>> \in Seq(Event) /\ DOMAIN <<e>> = {1} /\ <<e>>[1] = e
OBVIOUS

LEMMA NoEvent == <<>> \in Seq(Event) /\ DOMAIN <<>> = {}
OBVIOUS

\* An attempt that failed counts against the prompt that was answered.
LEMMA SetBack ==
    ASSUME Typed
    PROVE  [p \in Prompts |-> IF p = cli.answering THEN setbacks[p] + 1 ELSE setbacks[p]]
              \in [Prompts -> Nat]
<1>1. \A p \in Prompts : setbacks[p] \in Nat
  BY DEF Typed, TypeOK
<1> QED BY <1>1

\* Every step of the CLI is such a step.
LEMMA CliInv == ASSUME Inv, CliAction
    PROVE  Inv' /\ UNCHANGED <<queue, messages, deleted, displaced, grabbed, Handing>>
<1>0. /\ cli \in Cli /\ waiting \in Seq(Prompts) /\ closed \in BOOLEAN
      /\ starts \in [Prompts -> Nat] /\ setbacks \in [Prompts -> Nat]
      /\ left \in [Kinds -> Nat] /\ (\A k \in Kinds : left[k] <= left[k])
      /\ Typed
  BY SameTurn DEF Inv, Typed, TypeOK
<1>1. CASE CliSays
  <2> DEFINE e == Ev("text", 0, FALSE)
  <2>1. e \in Event /\ e.type = "text"
    BY DEF Ev, Event, OrNone
  <2>2. left' \in [Kinds -> Nat] /\ \A k \in Kinds : left'[k] <= left[k]
    BY <1>0, <1>1, SpendLess DEF CliSays, Kinds
  <2> HIDE DEF e
  <2>3. CliMoves(<<e>>)
    BY <1>0, <1>1, <2>1, <2>2, OneEvent DEF CliSays, CliMoves, e
  <2> QED BY <2>1, <2>3, OneEvent, CliMovesInv
<1>2. CASE CliStartsTask
  <2> DEFINE e == Ev("task", 0, FALSE)
  <2>1. e \in Event /\ e.type = "task"
    BY DEF Ev, Event, OrNone
  <2>2. left' \in [Kinds -> Nat] /\ \A k \in Kinds : left'[k] <= left[k]
    BY <1>0, <1>2, SpendLess DEF CliStartsTask, Kinds
  <2>3. cli' \in Cli
    BY <1>0, <1>2 DEF CliStartsTask, Cli
  <2> HIDE DEF e
  <2>4. CliMoves(<<e>>)
    BY <1>0, <1>2, <2>1, <2>2, <2>3, OneEvent DEF CliStartsTask, CliMoves, e
  <2> QED BY <2>1, <2>4, OneEvent, CliMovesInv
<1>3. CASE CliTaskEnds
  <2>1. cli' \in Cli /\ cli'.tasks = FALSE
    BY <1>0, <1>3 DEF CliTaskEnds, Cli
  <2>2. Emit(<<>>)
    BY <1>3, <1>0 DEF CliTaskEnds, Emit, Typed, TypeOK
  <2>3. CliMoves(<<>>)
    BY <1>0, <1>3, <2>1, <2>2, NoEvent DEF CliTaskEnds, CliMoves
  <2> QED BY <2>3, NoEvent, CliMovesInv
<1>4. CASE CliResult
  <2>1. PICK outcome \in {"fine", "error", "away"} :
          /\ IF outcome = "fine" THEN UNCHANGED <<setbacks, left>>
             ELSE /\ Spend("fail")
                  /\ setbacks' = [p \in Prompts |->
                        IF p = cli.answering THEN setbacks[p] + 1 ELSE setbacks[p]]
          /\ Emit((IF outcome = "fine" THEN <<>> ELSE <<Ev(outcome, 0, FALSE)>>)
                     \o <<Ev("done", 0, StaysOpen)>>)
    BY <1>4 DEF CliResult
  <2> DEFINE e == Ev(outcome, 0, FALSE)
             d == Ev("done", 0, StaysOpen)
             evs == (IF outcome = "fine" THEN <<>> ELSE <<e>>) \o <<d>>
  <2>2. cli' \in Cli /\ cli'.tasks = cli.tasks
    BY <1>0, <1>4 DEF CliResult, Cli, OrNone
  <2>3. outcome # "fine" => e \in Event /\ e.type = outcome
    BY DEF Ev, Event, OrNone
  <2>4. d \in Event /\ d.type = "done" /\ (d.open <=> StaysOpen)
    BY <1>0 DEF Ev, Event, OrNone, StaysOpen, Cli
  <2>5. setbacks' \in [Prompts -> Nat] /\ left' \in [Kinds -> Nat] /\ \A k \in Kinds : left'[k] <= left[k]
    <3>1. CASE outcome = "fine"
      BY <1>0, <2>1, <3>1
    <3>2. CASE outcome # "fine"
      BY <1>0, <2>1, <3>2, SetBack, SpendLess DEF Kinds
    <3> QED BY <3>1, <3>2
  <2>6. \A c \in calls : c.kind # "run"
    BY <1>4, <1>0 DEF CliResult, Inv, Spared
  <2>7. closed' \in BOOLEAN /\ UNCHANGED <<waiting, starts>> /\ InTurn /\ Emit(evs)
    BY <1>0, <1>4, <2>1 DEF CliResult
  <2> HIDE DEF e, d
  <2>8. evs \in Seq(Event) /\ \A i \in DOMAIN evs : evs[i] = d \/ (evs[i] = e /\ outcome # "fine")
    <3>1. CASE outcome = "fine"
      <4>1. evs = <<d>>
        BY <3>1
      <4> QED BY <4>1, <2>4
    <3>2. CASE outcome # "fine"
      <4>1. evs = <<e>> \o <<d>> /\ <<e>> \in Seq(Event) /\ <<d>> \in Seq(Event)
        BY <2>3, <2>4, <3>2
      <4>2. /\ evs \in Seq(Event) /\ Len(evs) = 2
            /\ \A i \in 1..2 : evs[i] = IF i <= 1 THEN <<e>>[i] ELSE <<d>>[i - 1]
        BY <4>1, ConcatProperties
      <4>3. DOMAIN evs = 1..2 /\ evs[1] = e /\ evs[2] = d
        BY <4>2
      <4> QED BY <4>2, <4>3, <3>2
    <3> QED BY <3>1, <3>2
  <2> HIDE DEF evs
  <2>9. CliMoves(evs)
    BY <1>0, <2>2, <2>3, <2>4, <2>5, <2>6, <2>7, <2>8 DEF CliMoves
  <2> QED BY <2>8, <2>9, CliMovesInv
<1>5. CASE CliTakes
  <2> DEFINE e == Ev("taken", Head(waiting), FALSE)
  <2>1. Head(waiting) \in Prompts /\ Tail(waiting) \in Seq(Prompts)
    BY <1>0, <1>5, Tails DEF CliTakes
  <2>2. e \in Event /\ e.type = "taken"
    BY <2>1 DEF Ev, Event, OrNone
  <2>3. cli' \in Cli /\ cli'.tasks = cli.tasks
    BY <1>0, <1>5, <2>1 DEF CliTakes, Cli, OrNone
  <2>4. starts' \in [Prompts -> Nat]
    <3>1. starts[Head(waiting)] + 1 \in Nat
      BY <1>0, <2>1
    <3> QED BY <1>0, <1>5, <3>1 DEF CliTakes
  <2>5. Emit(<<e>>)
    BY <1>5 DEF CliTakes, Echo
  <2> HIDE DEF e
  <2>6. CliMoves(<<e>>)
    BY <1>0, <1>5, <2>1, <2>2, <2>3, <2>4, <2>5, OneEvent DEF CliTakes, CliMoves
  <2> QED BY <2>2, <2>6, OneEvent, CliMovesInv
<1>6. CASE CliExits
  <2>1. cli' \in Cli /\ cli'.tasks = cli.tasks
    BY <1>0, <1>6 DEF CliExits, Cli
  <2>2. Emit(<<>>)
    BY <1>6, <1>0 DEF CliExits, Emit, Typed, TypeOK
  <2>3. CliMoves(<<>>)
    BY <1>0, <1>6, <2>1, <2>2, NoEvent DEF CliExits, CliMoves
  <2> QED BY <2>3, NoEvent, CliMovesInv
<1>7. CASE CliDies
  <2>1. cli' \in Cli /\ cli'.tasks = cli.tasks
    BY <1>0, <1>7 DEF CliDies, Cli
  <2>2. setbacks' \in [Prompts -> Nat] /\ closed' \in BOOLEAN /\ UNCHANGED <<waiting, starts>> /\ InTurn
    BY <1>0, <1>7, SetBack DEF CliDies
  <2>3. CASE UNCHANGED <<events, left>>
    <3>1. Emit(<<>>)
      BY <1>0, <2>3 DEF Emit, Typed, TypeOK
    <3>2. CliMoves(<<>>)
      BY <1>0, <2>1, <2>2, <2>3, <3>1, NoEvent DEF CliMoves
    <3> QED BY <3>2, NoEvent, CliMovesInv
  <2>4. ASSUME NEW outcome \in {"error", "away"}, Spend("die"), Emit(<<Ev(outcome, 0, FALSE)>>)
        PROVE  Inv' /\ UNCHANGED <<queue, messages, deleted, displaced, grabbed, Handing>>
    <3> DEFINE e == Ev(outcome, 0, FALSE)
    <3>1. e \in Event /\ e.type = outcome
      BY DEF Ev, Event, OrNone
    <3>2. left' \in [Kinds -> Nat] /\ \A k \in Kinds : left'[k] <= left[k]
      BY <1>0, <2>4, SpendLess DEF Kinds
    <3>3. Emit(<<e>>)
      BY <2>4
    <3> HIDE DEF e
    <3>4. CliMoves(<<e>>)
      BY <1>0, <2>1, <2>2, <3>1, <3>2, <3>3, OneEvent DEF CliMoves
    <3> QED BY <3>1, <3>4, OneEvent, CliMovesInv
  <2> QED BY <1>7, <2>3, <2>4 DEF CliDies
<1> QED BY <1>1, <1>2, <1>3, <1>4, <1>5, <1>6, <1>7 DEF CliAction
-----------------------------------------------------------------------------
(* Where a prompt may go                                                    *)

RowHanding(p)  == \E c \in Handing : c.row # 0 /\ c.prompt = p
SendHanding(p) == \E c \in Handing : c.kind = "send" /\ c.prompt = p
Queued(p)      == InQueue(p) \/ RowHanding(p)

\* What a step leaves of a prompt's row and of its text.
MayMove(p) ==
    /\ SendHanding(p)' => SendHanding(p) \/ (~Queued(p) /\ ~HasText(p) /\ ~Gone(p))
    /\ HasText(p) /\ ~SendHanding(p) => Queued(p)' \/ HasText(p)'
    /\ Queued(p) => Queued(p)' \/ HasText(p)' \/ Gone(p)'
    /\ (p \in deleted => p \in deleted') /\ (p \in displaced => p \in displaced')
    /\ (p \in deleted' => p \in deleted \/ Queued(p)) /\ (p \in displaced' => p \in displaced \/ Queued(p))
    /\ Gone(p) /\ ~Queued(p) /\ ~HasText(p) => ~Queued(p)' /\ ~HasText(p)'
AllMayMove == grabbed \subseteq grabbed' /\ \A p \in Prompts \ grabbed' : MayMove(p)

\* A prompt that is being sent is new.
SendsNew == \A p \in Prompts \ grabbed : SendHanding(p) => ~Queued(p) /\ ~Gone(p)
LEMMA SendIsNew == Inv => SendsNew
<1> SUFFICES ASSUME Inv, NEW p \in Prompts \ grabbed, SendHanding(p)
             PROVE  ~Queued(p) /\ ~Gone(p)
  BY DEF SendsNew
<1>1. PICK c \in Handing : c.kind = "send" /\ c.prompt = p
  BY DEF SendHanding
<1>2. c \in calls
  BY DEF Handing
<1>3. ~InQueue(p) /\ ~Gone(p) /\ \A d \in calls : d.prompt = p => d = c
  BY <1>1, <1>2 DEF Inv, SentAlone, Crossed
<1>4. ~RowHanding(p)
  BY <1>1, <1>2, <1>3 DEF RowHanding, Handing, Inv, Typed, Fits
<1> QED BY <1>3, <1>4 DEF Queued

\* So is every other what its text and its row make it.
PlaceIs(p) ==
    /\ p \in grabbed => PlaceOf(p) = "crossed"
    /\ p \notin grabbed =>
       /\ Queued(p) => PlaceOf(p) = "queued"
       /\ ~Queued(p) /\ SendHanding(p) => PlaceOf(p) = "new"
       /\ ~Queued(p) /\ ~SendHanding(p) =>
             /\ HasText(p) => PlaceOf(p) \in {"held", "unprocessed", "turn"}
             /\ ~HasText(p) => PlaceOf(p) = (IF p \in deleted THEN "deleted"
                                             ELSE IF p \in displaced THEN "lost" ELSE "new")

\* The place of every prompt is told by its row and its text ...
LEMMA AllPlaces == \A p \in Prompts : PlaceIs(p)
<1> SUFFICES ASSUME NEW p \in Prompts PROVE PlaceIs(p)
  OBVIOUS
<1>1. /\ (\E r \in queue : r.prompt = p) <=> InQueue(p)
      /\ (\E c \in Handing : c.row # 0 /\ c.prompt = p) <=> RowHanding(p)
      /\ (\E c \in Handing : c.kind = "send" /\ c.prompt = p) <=> SendHanding(p)
      /\ (\E m \in messages : m.prompt = p) <=> HasText(p)
  BY DEF InQueue, RowHanding, SendHanding, HasText
<1>2. (HasMsg(p, MsgIds) => HasText(p)) /\ (Held(p) => HasText(p))
  BY DEF HasMsg, Held, HasText
<1> QED BY <1>1, <1>2 DEF PlaceOf, Queued, PlaceIs

\* ... after a step, too.
LEMMA AllPlacesNext == (\A p \in Prompts : PlaceIs(p))'
BY AllPlaces, PTL

\* A prompt that is being sent after a step is new then.
LEMMA SendIsNewNext == (Inv => SendsNew)'
BY SendIsNew, PTL

\* A step that leaves what MayMove says moves a prompt as the promise allows.
LEMMA PlaceMoves ==
    ASSUME Inv, Inv', AllMayMove, NEW p \in Prompts, PlaceOf(p)' # PlaceOf(p)
    PROVE  <<PlaceOf(p), PlaceOf(p)'>> \in Promise!Moves \/ PlaceOf(p)' = "crossed"
<1> DEFINE a == PlaceOf(p)
           b == PlaceOf(p)'
<1>1. CASE p \in grabbed'
  BY <1>1, AllPlacesNext DEF PlaceIs
<1>2. CASE p \notin grabbed'
  <2>1. p \notin grabbed /\ MayMove(p)
    BY <1>2 DEF AllMayMove
  <2>2. PlaceIs(p)
    BY AllPlaces
  <2>3. PlaceIs(p)'
    BY AllPlacesNext
  <2>4. SendHanding(p) => ~Queued(p) /\ ~Gone(p)
    BY <2>1, SendIsNew DEF SendsNew
  <2>5. b = "new" => a = "new"
    BY <1>2, <2>1, <2>2, <2>3, <2>4 DEF MayMove, PlaceIs, Gone
  <2>6. b = "deleted" => a \in {"deleted", "queued"}
    BY <1>2, <2>1, <2>2, <2>3, <2>4 DEF MayMove, PlaceIs, Gone
  <2>7. b = "lost" => a \in {"lost", "queued"}
    BY <1>2, <2>1, <2>2, <2>3, <2>4 DEF MayMove, PlaceIs, Gone
  <2>8. a \in {"deleted", "lost"} => b = a
    BY <1>2, <2>1, <2>2, <2>3, <2>4 DEF MayMove, PlaceIs, Gone
  <2>9. /\ a \in {"new", "queued", "held", "turn", "unprocessed", "deleted", "lost"}
        /\ b \in {"new", "queued", "held", "turn", "unprocessed", "deleted", "lost"}
    BY <1>2, <2>1, <2>2, <2>3 DEF PlaceIs
  <2>10. <<a, b>> \in Promise!Moves \/ a = b
    BY <2>5, <2>6, <2>7, <2>8, <2>9 DEF Promise!Moves
  <2> QED BY <2>10 DEF a, b
<1> QED BY <1>1, <1>2

\* A step that leaves the store and the hand-over alone moves nothing.
LEMMA NothingMoves ==
    ASSUME UNCHANGED <<queue, messages, deleted, displaced, grabbed, Handing>>
    PROVE  AllMayMove
<1> SUFFICES ASSUME NEW p \in Prompts PROVE MayMove(p)
  BY DEF AllMayMove
<1>1. InQueue(p)' <=> InQueue(p)
  BY DEF InQueue
<1>2. RowHanding(p)' <=> RowHanding(p)
  BY DEF RowHanding
<1>3. SendHanding(p)' <=> SendHanding(p)
  BY DEF SendHanding
<1>4. HasText(p)' <=> HasText(p)
  BY DEF HasText
<1> QED BY <1>1, <1>2, <1>3, <1>4 DEF MayMove, Queued, Gone
-----------------------------------------------------------------------------
(* The queue: what a request does to it                                     *)

\* Rows come for new prompts; a row that goes leaves a message or is deleted.
RowsMove ==
    /\ UNCHANGED <<turns, open, consume, provider, starts, setbacks, grabbed, displaced>>
    /\ turn' \in Turn /\ turn'.stage = turn.stage
    /\ calls' \subseteq calls /\ \A c \in calls \ calls' : c.at = "parked"
    /\ accepted' \in Nat /\ accepted' >= accepted
    /\ left' \in [Kinds -> Nat] /\ \A k \in Kinds : left'[k] <= left[k]
    /\ owed' \subseteq Prompts /\ deleted' \subseteq Prompts
    /\ queue' \subseteq QueueRow /\ \A a, b \in queue' : a.id = b.id => a = b
    /\ messages' \subseteq Message /\ ApartIn(messages') /\ messages \subseteq messages'
    /\ \A r \in queue' \ queue : r.prompt > accepted /\ r.prompt <= accepted'
    /\ \A m \in messages' \ messages : m.turn = 0 /\ InQueue(m.prompt)
    /\ deleted \subseteq deleted' /\ \A p \in deleted' \ deleted : InQueue(p)
    /\ \A r \in queue \ queue' : ~Dispatching /\ (r.prompt \in deleted' \/ HasText(r.prompt)')

\* Such a step keeps the invariant and the promise.
LEMMA RowsMoveInv == ASSUME Inv, RowsMove PROVE Inv' /\ AllMayMove
<1>1. UNCHANGED <<turns, open, consume, cli, waiting, closed, events, starts, setbacks, grabbed, displaced>>
  BY DEF RowsMove, provider
<1>2. Handing' = Handing /\ turn'.stage = turn.stage /\ calls' \subseteq calls
  BY DEF Handing, RowsMove
<1>3. Typed'
  BY <1>1 DEF RowsMove, Inv, Typed, TypeOK, Fits
<1>4. Spared'
  BY SparedKept DEF RowsMove
<1>5. accepted \in Nat /\ accepted' \in Nat /\ accepted' >= accepted /\ turns \in Nat
  BY FollowUpAssumption DEF RowsMove, Inv, Typed, TypeOK
<1>6. /\ (\A r \in queue : r.prompt \in Nat) /\ (\A m \in messages : m.prompt \in Nat)
      /\ (\A c \in calls : c.prompt \in Nat) /\ \A p \in deleted \cup displaced \cup grabbed : p \in Nat
  BY PromptsAreNat DEF Inv
<1>7. Apart'
  BY <1>1, <1>5 DEF RowsMove, Inv, Apart, ApartIn
<1>8. Stages'
  BY <1>1, <1>2 DEF Inv, Stages, Reading, RowsMove
<1>9. Alone' /\ Outrun'
  BY <1>1, <1>2 DEF Inv, Alone, Outrun
<1>10. RunRow'
  BY <1>1 DEF RowsMove, Inv, RunRow, Dispatching
<1>11. \A p \in Nat : InQueue(p) => p <= accepted
  BY DEF Inv, Afresh, InQueue
<1>12. Afresh'
  <2>1. \A r \in queue' : r.prompt <= accepted'
    BY <1>5, <1>6 DEF RowsMove, Inv, Afresh
  <2>2. \A m \in messages' : m.prompt \in Nat
    <3>1. \A m \in messages' : m.prompt \in Prompts \cup {0}
      BY DEF RowsMove, Message, OrNone
    <3>2. \A p \in Prompts : p \in Nat
      BY NatIds
    <3> QED BY <3>1, <3>2
  <2>3. \A m \in messages' : m.prompt <= accepted'
    BY <1>5, <1>6, <1>11, <2>2 DEF RowsMove, Inv, Afresh
  <2>4. (\A c \in calls : c.prompt <= accepted') /\ \A p \in displaced \cup grabbed : p <= accepted'
    BY <1>5, <1>6 DEF Inv, Afresh
  <2>5. \A p \in deleted' : p \in Nat
    BY <1>3, NatIds DEF Typed, TypeOK
  <2>6. \A p \in deleted' : p <= accepted'
    BY <1>5, <1>6, <1>11, <2>5 DEF RowsMove, Inv, Afresh
  <2> QED BY <1>1, <1>2, <2>1, <2>3, <2>4, <2>6 DEF Afresh
<1>13. SentAlone'
  <2> SUFFICES ASSUME NEW c \in calls, c.kind = "send", ~Crossed(c.prompt)
               PROVE  /\ ~InQueue(c.prompt)' /\ ~Gone(c.prompt)'
                      /\ \A d \in calls : d.prompt = c.prompt => d = c
                      /\ c \notin Handing => ~HasText(c.prompt)'
                      /\ c \in Handing =>
                            /\ \E m \in messages' : m.id = c.msg /\ m.prompt = c.prompt /\ m.turn = 0
                            /\ \A m \in messages' : m.prompt = c.prompt => m.id = c.msg
    BY <1>1, <1>2 DEF SentAlone, InQueue, HasText, Crossed
  <2>1. /\ ~InQueue(c.prompt) /\ ~Gone(c.prompt)
        /\ \A d \in calls : d.prompt = c.prompt => d = c
        /\ c \notin Handing => ~HasText(c.prompt)
        /\ c \in Handing =>
              /\ \E m \in messages : m.id = c.msg /\ m.prompt = c.prompt /\ m.turn = 0
              /\ \A m \in messages : m.prompt = c.prompt => m.id = c.msg
    BY DEF Inv, SentAlone
  <2>2. c.prompt <= accepted /\ c.prompt \in Nat
    BY <1>6 DEF Inv, Afresh
  <2>3. ~InQueue(c.prompt)'
    BY <1>5, <2>1, <2>2 DEF RowsMove, InQueue
  <2>4. \A m \in messages' : m.prompt = c.prompt => m \in messages
    BY <2>1 DEF RowsMove
  <2>5. ~Gone(c.prompt)'
    BY <2>1 DEF RowsMove, Gone
  <2> QED BY <2>1, <2>3, <2>4, <2>5 DEF HasText, RowsMove
<1>14. Holds' /\ Replying'
  <2>1. \A id : Live(id) => Live(id)'
    BY DEF Live, RowsMove
  <2>2. \A p, id : InTurnAs(p, id) => InTurnAs(p, id)'
    BY <1>1 DEF InTurnAs, RowsMove
  <2>3. Holds'
    BY <1>1, <1>2, <2>1 DEF Inv, Holds
  <2>4. Replying'
    BY <1>1, <2>2 DEF Inv, Replying, Reading, Crossed
  <2> QED BY <2>3, <2>4
<1>15. Barren'
  <2>1. Reading => turns > 0
    BY DEF Inv, Stages, Reading, Typed, TypeOK, Turn
  <2>2. Reading => \A m \in messages' : m.turn = turns => m \in messages
    BY <1>5, <2>1 DEF RowsMove
  <2> QED BY <1>1, <1>2, <2>2 DEF Inv, Barren, Reading, TaskComes, Crossed
<1>16. \A p : InQueue(p) => InQueue(p)' \/ HasText(p)' \/ p \in deleted'
  BY DEF InQueue, RowsMove
<1>17. \A p : HasText(p) => HasText(p)'
  BY DEF HasText, RowsMove
<1>18. MayDrop'
  <2> SUFFICES ASSUME NEW c \in calls, c.at = "drop"
               PROVE  Crossed(c.prompt) \/ HasText(c.prompt)' \/ \E r \in queue' : r.prompt = c.prompt /\ r.id # c.row
    BY <1>1, <1>2 DEF MayDrop, Crossed
  <2>1. c.kind = "run"
    BY DEF Inv, Typed, TypeOK, Fits, Call
  <2>2. queue \subseteq queue'
    BY <2>1 DEF RowsMove, Dispatching
  <2> QED BY <1>17, <2>2 DEF Inv, MayDrop
<1>19. HandedOver'
  <2>1. \A p : Gone(p) => Gone(p)'
    BY DEF Gone, RowsMove
  <2> QED BY <1>1, <1>2, <1>16, <1>17, <2>1 DEF Inv, HandedOver, Stored, RowsMove, Crossed, Gone
<1>20. Inv'
  BY <1>3, <1>4, <1>7, <1>8, <1>9, <1>10, <1>12, <1>13, <1>14, <1>15, <1>18, <1>19 DEF Inv
<1>21. ASSUME NEW p \in Prompts PROVE MayMove(p)
  <2>1. SendHanding(p)' = SendHanding(p) /\ RowHanding(p)' = RowHanding(p)
    BY <1>2 DEF SendHanding, RowHanding
  <2>2. (p \in deleted => p \in deleted') /\ (p \in deleted' => p \in deleted \/ InQueue(p))
    BY DEF RowsMove
  <2>3. Gone(p) /\ ~InQueue(p) /\ ~HasText(p) => ~InQueue(p)' /\ ~HasText(p)'
    <3>1. Gone(p) => p <= accepted /\ p \in Nat
      BY <1>6 DEF Inv, Afresh, Gone
    <3>2. Gone(p) /\ ~InQueue(p) => ~InQueue(p)'
      BY <1>5, <3>1 DEF RowsMove, InQueue
    <3>3. ~InQueue(p) /\ ~HasText(p) => ~HasText(p)'
      BY DEF RowsMove, HasText
    <3> QED BY <3>2, <3>3
  <2> QED BY <1>1, <2>1, <2>2, <2>3, <1>16, <1>17 DEF MayMove, Queued, Gone
<1> QED BY <1>1, <1>20, <1>21 DEF AllMayMove

\* Enqueue, Delete and Stop are such steps.
LEMMA EnqueueInv == ASSUME Inv, Enqueue PROVE Inv' /\ AllMayMove
<1> DEFINE p == accepted + 1
<1>1. p \in Prompts /\ accepted \in Nat /\ accepted' = p /\ owed' = owed \cup {p} /\ owed \subseteq Prompts
  BY DEF Enqueue, Inv, Typed, TypeOK
<1>2. left' \in [Kinds -> Nat] /\ \A k \in Kinds : left'[k] <= left[k]
  BY SpendLess DEF Enqueue, Kinds, Inv
<1>3. PICK id \in NewRow : queue' = queue \cup {[id |-> id, prompt |-> p]}
  BY DEF Enqueue
<1>4. queue \subseteq QueueRow /\ messages \subseteq Message /\ deleted \subseteq Prompts /\ turn \in Turn
  BY DEF Inv, Typed, TypeOK
<1>5. id \in RowIds /\ \A r \in queue : r.id # id
  BY <1>4, NewRowId
<1>6. UNCHANGED <<messages, turns, turn, open, consume, calls, provider, deleted, starts, setbacks, grabbed, displaced>>
  BY DEF Enqueue, UnchangedTurn
<1>7. queue' \subseteq QueueRow /\ (\A a, b \in queue' : a.id = b.id => a = b)
  BY <1>1, <1>3, <1>4, <1>5 DEF QueueRow, Inv, Apart
<1>8. ApartIn(messages)
  BY DEF Inv, Apart, ApartIn
<1>9. accepted' \in Nat /\ accepted' >= accepted /\ p > accepted /\ p <= accepted'
  BY <1>1
<1>10. \A r \in queue' \ queue : r.prompt = p
  BY <1>3
<1> HIDE DEF p
<1>11. RowsMove
  BY <1>1, <1>2, <1>3, <1>4, <1>6, <1>7, <1>8, <1>9, <1>10 DEF RowsMove
<1> QED BY <1>11, RowsMoveInv

LEMMA DeleteInv == ASSUME Inv, NEW r, Delete(r) PROVE Inv' /\ AllMayMove
<1>1. left' \in [Kinds -> Nat] /\ \A k \in Kinds : left'[k] <= left[k]
  BY SpendLess DEF Delete, Kinds, Inv
<1>2. /\ queue \subseteq QueueRow /\ messages \subseteq Message /\ deleted \subseteq Prompts /\ turn \in Turn
      /\ owed \subseteq Prompts /\ accepted \in Nat /\ accepted >= accepted
  BY SameTurn DEF Inv, Typed, TypeOK
<1>3. UNCHANGED <<messages, turns, turn, open, consume, provider, starts, setbacks, grabbed, displaced, accepted, owed>>
  BY DEF Delete, UnchangedTurn
<1>8. calls' \subseteq calls /\ \A c \in calls \ calls' : c.at = "parked"
  BY DEF Delete
<1>4. r \in queue /\ r.prompt \in Prompts /\ InQueue(r.prompt) /\ ~Dispatching
  BY <1>2 DEF Delete, QueueRow, InQueue
<1>5. queue' = queue \ {r} /\ deleted' = deleted \cup {r.prompt}
  BY DEF Delete
<1>6. ApartIn(messages) /\ \A a, b \in queue' : a.id = b.id => a = b
  BY <1>5 DEF Inv, Apart, ApartIn
<1>7. RowsMove
  BY <1>1, <1>2, <1>3, <1>4, <1>5, <1>6, <1>8 DEF RowsMove
<1> QED BY <1>7, RowsMoveInv

LEMMA StopInv == ASSUME Inv, Stop PROVE Inv' /\ AllMayMove
<1>1. left' \in [Kinds -> Nat] /\ \A k \in Kinds : left'[k] <= left[k]
  BY SpendLess DEF Stop, Kinds, Inv
<1>2. /\ queue \subseteq QueueRow /\ messages \subseteq Message /\ deleted \subseteq Prompts /\ turn \in Turn
      /\ owed \subseteq Prompts /\ accepted \in Nat /\ accepted >= accepted
  BY SameTurn DEF Inv, Typed, TypeOK
<1>3. UNCHANGED <<turns, open, consume, calls, provider, starts, setbacks, grabbed, displaced, accepted, owed, deleted>>
  BY DEF Stop, ghost
<1>4. PICK ids \in [queue -> MsgIds] :
        LET stopped == {[id |-> ids[r], prompt |-> r.prompt, turn |-> 0] : r \in queue}
        IN  /\ \A r, s \in queue : ids[r] = ids[s] => r = s
            /\ \A m \in stopped :
                 Store!IsNewId({o \in messages \cup stopped : o.id < m.id}, m.id)
                 /\ m.id \notin {o.id : o \in messages}
                 /\ \A o \in messages : o.id < m.id
            /\ messages' = messages \cup stopped
  BY DEF Stop
<1> DEFINE msg(r) == [id |-> ids[r], prompt |-> r.prompt, turn |-> 0]
           stopped == {[id |-> ids[r], prompt |-> r.prompt, turn |-> 0] : r \in queue}
<1>50. messages' = messages \cup stopped /\ \A r, s \in queue : ids[r] = ids[s] => r = s
  BY <1>4
<1>51. ASSUME NEW m \in stopped, NEW o \in messages PROVE m.id # o.id
  <2>1. m.id \notin {x.id : x \in messages}
    BY <1>4
  <2> QED BY <2>1
<1>5. (\A r \in queue : msg(r) \in stopped) /\ \A m \in stopped : \E r \in queue : m = msg(r)
  OBVIOUS
<1>6. \A r \in queue : msg(r) \in Message /\ msg(r).turn = 0 /\ msg(r).prompt = r.prompt /\ msg(r).id = ids[r]
  BY <1>2, FollowUpAssumption DEF QueueRow, Message, OrNone
<1> HIDE DEF msg, stopped
<1>7. messages' \subseteq Message /\ messages \subseteq messages'
  BY <1>2, <1>5, <1>50, <1>6
<1>8. ApartIn(messages')
  BY <1>5, <1>50, <1>51, <1>6 DEF Inv, Apart, ApartIn
<1>9. \A m \in messages' \ messages : m.turn = 0 /\ InQueue(m.prompt)
  BY <1>5, <1>50, <1>6 DEF InQueue
<1>10. \A r \in queue : HasText(r.prompt)'
  BY <1>5, <1>50, <1>6 DEF HasText
<1>11. queue' = {} /\ ~Dispatching
  BY DEF Stop
<1>12. turn' \in Turn /\ turn'.stage = turn.stage
  BY <1>2 DEF Stop, Turn
<1>13. RowsMove
  BY <1>1, <1>2, <1>3, <1>7, <1>8, <1>9, <1>10, <1>11, <1>12 DEF RowsMove
<1> QED BY <1>13, RowsMoveInv
-----------------------------------------------------------------------------
(* A prompt is handed over                                                  *)

\* What is crossed stays so.
LEMMA CrossedStays == ASSUME grabbed \subseteq grabbed' PROVE \A p : Crossed(p) => Crossed(p)'
BY DEF Crossed

\* The prompts that meet under one id are prompts so far.
LEMMA MixedOf ==
    ASSUME Inv, NEW p \in Prompts, p <= accepted, NEW id
    PROVE  /\ Mixed(p, id) \subseteq Prompts /\ \A q \in Mixed(p, id) : q <= accepted
           /\ \A m \in messages : m.id = id /\ m.prompt # p /\ m.prompt # 0 => m.prompt \in Mixed(p, id)
           /\ \A m \in messages : m.id = id /\ m.prompt # p => p \in Mixed(p, id)
<1>1. \A m \in messages : m.prompt \in Prompts \cup {0} /\ m.prompt <= accepted
  BY DEF Inv, Typed, TypeOK, Message, OrNone, Afresh
<1>2. PromptOf(id) \subseteq Prompts \cup {0} /\ \A q \in PromptOf(id) : q <= accepted
  BY <1>1 DEF PromptOf
<1>3. \A m \in messages : m.id = id => m.prompt \in PromptOf(id)
  BY DEF PromptOf
<1> QED BY <1>2, <1>3, NatIds DEF Mixed

\* No message is without an id.
LEMMA NoMix == ASSUME Inv, NEW p PROVE Mixed(p, 0) = {}
<1>1. \A m \in messages : m.id # 0
  BY NatIds DEF Inv, Typed, TypeOK, Message
<1>2. PromptOf(0) = {}
  BY <1>1 DEF PromptOf
<1> QED BY <1>2 DEF Mixed

\* What is so while a call hands over.
LEMMA WhileHanding ==
    ASSUME Inv, NEW c \in Handing
    PROVE  /\ Handing = {c} /\ c \in calls /\ c \in Call /\ Fits(c) /\ c.kind \in {"send", "force", "resend"}
           /\ \A d \in calls : d.kind # "run"
           /\ consume.pc \in {"loop", "join", "leave"} /\ consume.untaken = <<>>
           /\ turn.stage = "running" /\ turns > 0
           /\ Reading => consume.produced
<1>1. Handing = {c}
  BY DEF Inv, Alone
<1>2. c \in calls /\ c \in Call /\ Fits(c) /\ c.kind \in {"send", "force", "resend"}
  BY DEF Handing, Inv, Typed, TypeOK, Fits, Call
<1>3. \A d \in calls : d.kind # "run"
  BY DEF Inv, Outrun
<1>4. consume.pc \in {"loop", "join", "leave"} /\ consume.untaken = <<>> /\ turn.stage = "running" /\ turns > 0
  BY DEF Inv, Stages
<1>5. Reading => consume.produced
  BY DEF Inv, Barren
<1> QED BY <1>1, <1>2, <1>3, <1>4, <1>5

\* While the turn takes prompts, and nobody hands one over.
LEMMA WhileTaking ==
    ASSUME Inv, NEW c, HandOver(c)
    PROVE  /\ Handing = {} /\ c \in calls /\ c \in Call /\ Fits(c) /\ c.at = "looked"
           /\ c.kind \in {"send", "force", "resend"} /\ (c.msg # 0 <=> c.kind = "resend")
           /\ \A d \in calls : d.kind # "run"
           /\ consume.pc \in {"loop", "join", "leave"} /\ consume.untaken = <<>>
           /\ turn.stage = "running" /\ turns > 0
           /\ Reading => consume.produced
<1>1. /\ Handing = {} /\ c \in calls /\ c.at = "looked" /\ open.followUp /\ turn.stage # "none"
      /\ c.kind # "requeue"
  BY DEF HandOver, Takes, Unlocked, StillThere
<1>2. \A d \in calls : d.kind # "run"
  BY <1>1 DEF Inv, Outrun
<1>3. c \in Call /\ Fits(c)
  BY <1>1 DEF Inv, Typed, TypeOK
<1>4. c.kind \in {"send", "force", "resend"} /\ (c.msg # 0 <=> c.kind = "resend")
  BY <1>1, <1>2, <1>3 DEF Fits, Call
<1>5. turn.stage = "running"
  BY <1>1 DEF Inv, Stages, Fresh, Typed, TypeOK, Turn
<1>6. consume.pc \in {"loop", "join", "leave"} /\ consume.untaken = <<>> /\ turns > 0
  BY <1>1, <1>5 DEF Inv, Stages
<1>7. Reading => consume.produced
  BY <1>1 DEF Inv, Barren
<1> QED BY <1>1, <1>2, <1>3, <1>4, <1>5, <1>6, <1>7

\* A message that is stored.
LEMMA NewText ==
    ASSUME Inv, NEW p \in OrNone, NEW t \in 0..MaxTurns, NEW id, IsNewMsg(messages, id),
           messages' = Added(messages, p, t, id)
    PROVE  /\ messages' \subseteq Message /\ ApartIn(messages')
           /\ messages' = messages \cup {[id |-> id, prompt |-> p, turn |-> t]}
           /\ \A m \in messages : m.id # id
           /\ id \in MsgIds /\ id # 0
<1>1. messages \subseteq Message /\ ApartIn(messages) /\ turns \in 0..MaxTurns
  BY DEF Inv, Typed, TypeOK, Apart, ApartIn
<1>2. id \in MsgIds /\ id # 0
  BY <1>1, NewMsg
<1> QED BY <1>1, <1>2, Writes DEF Added

\* Stages, as far as a hand-over can change them.
LEMMA StagesStay ==
    ASSUME Inv, UNCHANGED <<turns, turn, consume, cli, events>>,
           turn.stage = "running", consume.pc \in {"loop", "join", "leave"}
    PROVE  Stages'
BY DEF Inv, Stages, Reading

\* The call that hands a row over.
LEMMA HandOverRow ==
    ASSUME Inv, NEW c, HandOver(c), c.row # 0
    PROVE  Inv' /\ AllMayMove
<1>1. /\ Handing = {} /\ c \in calls /\ c \in Call /\ Fits(c) /\ c.at = "looked"
      /\ c.kind = "force" /\ c.msg = 0
      /\ \A d \in calls : d.kind # "run"
      /\ consume.pc \in {"loop", "join", "leave"} /\ consume.untaken = <<>>
      /\ turn.stage = "running" /\ turns > 0
      /\ Reading => consume.produced
  BY WhileTaking DEF Fits
<1>2. PICK r \in Rows(c.row) : calls' = (calls \ {c}) \cup {[c EXCEPT !.at = "stored", !.prompt = r.prompt]}
  BY DEF HandOver
<1>3. r \in queue /\ r.prompt \in Prompts
  BY DEF Rows, Inv, Typed, TypeOK, QueueRow
<1> DEFINE d == [c EXCEPT !.at = "stored", !.prompt = r.prompt]
<1>4. Reads(c, d, "stored", r.prompt)
  BY <1>1, <1>3, ReadsRow DEF Ats
<1> HIDE DEF d
<1>5. calls' = (calls \ {c}) \cup {d} /\ d \in Call /\ d.at = "stored" /\ d.prompt = r.prompt /\ d.kind = "force"
      /\ d.row = c.row /\ d.msg = 0
  BY <1>1, <1>2, <1>4 DEF d, Reads
<1>6. UNCHANGED <<queue, messages, turns, turn, open, consume, cli, waiting, closed, events, accepted, owed, deleted, displaced,
                  starts, setbacks, grabbed, left>>
  BY <1>1, NoMix DEF HandOver, UnchangedTurn, provider
<1>7. Handing' = {d}
  BY <1>1, <1>5 DEF Handing
<1>8. Typed'
  <2>1. Fits(d)
    BY <1>1, <1>5 DEF Fits
  <2>2. calls' \subseteq Call
    BY <1>5 DEF Inv, Typed, TypeOK
  <2> QED BY <1>5, <1>6, <2>1, <2>2 DEF Inv, Typed, TypeOK, Fits
<1>9. Spared' /\ Apart' /\ Holds' /\ Replying'
  <2>1. Spared' /\ Apart'
    BY <1>6 DEF Inv, Spared, Apart
  <2>2. Holds'
    BY <1>5, <1>6, <1>7 DEF Inv, Holds, Live
  <2>3. Replying'
    BY <1>6 DEF Inv, Replying, Reading, InTurnAs, Crossed
  <2> QED BY <2>1, <2>2, <2>3
<1>10. Stages'
  BY <1>1, <1>6, StagesStay
<1>11. Alone'
  BY <1>1, <1>5, <1>6, <1>7 DEF Inv, Alone
<1>12. Outrun' /\ RunRow' /\ MayDrop'
  <2>1. \A e \in calls' : e.kind # "run" /\ e.at # "drop"
    BY <1>1, <1>5 DEF Inv, Typed, TypeOK, Call, Fits
  <2> QED BY <2>1 DEF Outrun, RunRow, MayDrop
<1>13. Afresh'
  BY <1>3, <1>5, <1>6 DEF Inv, Afresh
<1>14. SentAlone'
  <2> SUFFICES ASSUME NEW e \in calls', e.kind = "send", ~Crossed(e.prompt)
               PROVE  /\ ~InQueue(e.prompt) /\ ~Gone(e.prompt)
                      /\ \A x \in calls' : x.prompt = e.prompt => x = e
                      /\ e \notin {d} => ~HasText(e.prompt)
                      /\ e # d
    BY <1>6, <1>7 DEF SentAlone, InQueue, HasText, Gone, Crossed
  <2>1. e \in calls /\ e # d /\ e \notin Handing
    BY <1>1, <1>5
  <2> QED BY <1>3, <1>5, <2>1 DEF Inv, SentAlone, InQueue
<1>15. Barren'
  BY <1>1, <1>6 DEF Barren, Reading
<1>16. HandedOver'
  BY <1>3, <1>5, <1>6, <1>7 DEF HandedOver, Stored, InQueue
<1>17. Inv'
  BY <1>8, <1>9, <1>10, <1>11, <1>12, <1>13, <1>14, <1>15, <1>16 DEF Inv
<1>18. ASSUME NEW p \in Prompts PROVE MayMove(p)
  <2>1. InQueue(p)' = InQueue(p) /\ HasText(p)' = HasText(p)
    BY <1>6 DEF InQueue, HasText
  <2>2. ~RowHanding(p) /\ ~SendHanding(p) /\ ~SendHanding(p)'
    BY <1>1, <1>5, <1>7 DEF RowHanding, SendHanding
  <2>3. RowHanding(p)' => InQueue(p)
    BY <1>3, <1>5, <1>7 DEF RowHanding, InQueue
  <2> QED BY <1>6, <2>1, <2>2, <2>3 DEF MayMove, Queued, Gone
<1> QED BY <1>6, <1>17, <1>18 DEF AllMayMove

\* The call that hands a new prompt over: it is stored first.
LEMMA HandOverNew ==
    ASSUME Inv, NEW c, HandOver(c), c.row = 0, c.msg = 0
    PROVE  Inv' /\ AllMayMove
<1>1. /\ Handing = {} /\ c \in calls /\ c \in Call /\ Fits(c) /\ c.at = "looked"
      /\ c.kind = "send" /\ c.msg = 0
      /\ \A d \in calls : d.kind # "run"
      /\ consume.pc \in {"loop", "join", "leave"} /\ consume.untaken = <<>>
      /\ turn.stage = "running" /\ turns > 0
      /\ Reading => consume.produced
  BY WhileTaking DEF Fits
<1>2. PICK id \in MsgIds : /\ IsNewMsg(messages, id)
                           /\ messages' = Added(messages, c.prompt, 0, id)
                           /\ calls' = (calls \ {c}) \cup {[c EXCEPT !.at = "stored", !.msg = id]}
  BY <1>1 DEF HandOver
<1> DEFINE d == [c EXCEPT !.at = "stored", !.msg = id]
           n == [id |-> id, prompt |-> c.prompt, turn |-> 0]
<1>3. Stores(c, d, "stored", id)
  BY <1>1, StoresMsg DEF Ats, Ids
<1>4. c.prompt \in Prompts /\ c.prompt # 0 /\ id # 0
  BY <1>1, NatIds DEF Call
<1>5. /\ messages' \subseteq Message /\ ApartIn(messages') /\ messages' = messages \cup {n}
      /\ \A m \in messages : m.id # id
  <2>1. c.prompt \in OrNone /\ 0 \in 0..MaxTurns
    BY <1>4, FollowUpAssumption DEF OrNone
  <2> QED BY <1>2, <2>1, NewText
<1>6. messages' = messages \cup {n} /\ n.id = id /\ n.prompt = c.prompt /\ n.turn = 0
  BY <1>5
<1> HIDE DEF d, n
<1>7. calls' = (calls \ {c}) \cup {d} /\ d \in Call /\ d.at = "stored" /\ d.prompt = c.prompt /\ d.kind = "send"
      /\ d.row = 0 /\ d.msg = id
  BY <1>1, <1>2, <1>3 DEF d, Stores, Fits
<1>8. UNCHANGED <<queue, turns, turn, open, consume, cli, waiting, closed, events, accepted, owed, deleted, displaced,
                  starts, setbacks, grabbed, left>>
  BY <1>1, NoMix DEF HandOver, UnchangedTurn, provider
<1>9. Handing' = {d}
  BY <1>1, <1>7 DEF Handing
<1>10. ~Crossed(c.prompt) =>
          /\ ~InQueue(c.prompt) /\ ~Gone(c.prompt) /\ ~HasText(c.prompt)
          /\ \A e \in calls : e.prompt = c.prompt => e = c
  BY <1>1 DEF Inv, SentAlone
<1>11. Typed'
  <2>1. Fits(d)
    BY <1>4, <1>7 DEF Fits
  <2>2. calls' \subseteq Call
    BY <1>7 DEF Inv, Typed, TypeOK
  <2> QED BY <1>5, <1>7, <1>8, <2>1, <2>2 DEF Inv, Typed, TypeOK, Fits
<1>12. Spared' /\ Apart'
  BY <1>5, <1>6, <1>8 DEF Inv, Spared, Apart, ApartIn, Typed, TypeOK
<1>13. Stages'
  BY <1>1, <1>8, StagesStay
<1>14. Alone'
  BY <1>1, <1>7, <1>8, <1>9 DEF Inv, Alone
<1>15. Outrun' /\ RunRow' /\ MayDrop'
  <2>1. \A e \in calls' : e.kind # "run" /\ e.at # "drop"
    BY <1>1, <1>7 DEF Inv, Typed, TypeOK, Call, Fits
  <2> QED BY <2>1 DEF Outrun, RunRow, MayDrop
<1>16. Afresh'
  BY <1>1, <1>6, <1>7, <1>8 DEF Inv, Afresh
<1>17. \A x : Live(x) => x # id
  BY <1>5 DEF Live
<1>18. Holds' /\ Replying'
  <2>1. \A x : Live(x) => Live(x)'
    BY <1>6 DEF Live
  <2>2. \A p, x : InTurnAs(p, x) => InTurnAs(p, x)'
    BY <1>6, <1>8 DEF InTurnAs
  <2>3. Holds'
    BY <1>4, <1>7, <1>8, <1>9, <1>17, <2>1 DEF Inv, Holds
  <2>4. Replying'
    BY <1>8, <2>2 DEF Inv, Replying, Reading, Crossed
  <2> QED BY <2>3, <2>4
<1>19. SentAlone'
  <2>2. ASSUME NEW e \in calls', e.kind = "send", e # d, ~Crossed(e.prompt)
        PROVE  /\ ~InQueue(e.prompt) /\ ~Gone(e.prompt) /\ ~HasText(e.prompt)'
               /\ \A x \in calls' : x.prompt = e.prompt => x = e
    <3>1. e \in calls /\ e # c /\ e \notin Handing
      BY <1>1, <1>7, <2>2
    <3>2. /\ ~InQueue(e.prompt) /\ ~Gone(e.prompt) /\ ~HasText(e.prompt)
          /\ \A x \in calls : x.prompt = e.prompt => x = e
      BY <2>2, <3>1 DEF Inv, SentAlone
    <3>3. e.prompt # c.prompt
      BY <1>1, <3>1, <3>2
    <3> QED BY <1>6, <1>7, <3>2, <3>3 DEF HasText
  <2>3. ~Crossed(c.prompt) =>
        /\ \A x \in calls' : x.prompt = c.prompt => x = d
        /\ n \in messages' /\ \A m \in messages' : m.prompt = c.prompt => m.id = id
    BY <1>6, <1>7, <1>10 DEF HasText
  <2> QED BY <1>6, <1>7, <1>8, <1>9, <1>10, <2>2, <2>3 DEF SentAlone, InQueue, Gone, Crossed
<1>20. Barren'
  BY <1>1, <1>8 DEF Barren, Reading
<1>21. HandedOver'
  BY <1>7, <1>9 DEF HandedOver
<1>22. Inv'
  BY <1>11, <1>12, <1>13, <1>14, <1>15, <1>16, <1>18, <1>19, <1>20, <1>21 DEF Inv
<1>23. ASSUME NEW p \in Prompts \ grabbed PROVE MayMove(p)
  <2>1. InQueue(p)' = InQueue(p) /\ (HasText(p) => HasText(p)')
    BY <1>6, <1>8 DEF InQueue, HasText
  <2>2. ~RowHanding(p) /\ ~SendHanding(p) /\ ~RowHanding(p)'
    BY <1>1, <1>7, <1>9 DEF RowHanding, SendHanding
  <2>3. SendHanding(p)' => p = c.prompt
    BY <1>7, <1>9 DEF SendHanding
  <2>4. HasText(p)' => HasText(p) \/ p = c.prompt
    BY <1>6 DEF HasText
  <2>5. ~Crossed(p)
    BY DEF Crossed
  <2> QED BY <1>8, <1>10, <2>1, <2>2, <2>3, <2>4, <2>5 DEF MayMove, Queued, Gone
<1> QED BY <1>8, <1>22, <1>23 DEF AllMayMove

\* The call that hands a message of the transcript over.
LEMMA HandOverOld ==
    ASSUME Inv, NEW c, HandOver(c), c.row = 0, c.msg # 0
    PROVE  Inv' /\ AllMayMove
<1>1. /\ Handing = {} /\ c \in calls /\ c \in Call /\ Fits(c) /\ c.at = "looked"
      /\ c.kind = "resend" /\ c.msg # 0
      /\ \A d \in calls : d.kind # "run"
      /\ consume.pc \in {"loop", "join", "leave"} /\ consume.untaken = <<>>
      /\ turn.stage = "running" /\ turns > 0
      /\ Reading => consume.produced
  BY WhileTaking
<1> DEFINE d == [c EXCEPT !.at = "stored"]
<1>2. Moves(c, d, "stored")
  BY <1>1, MovesTo DEF Ats
<1>3. calls' = (calls \ {c}) \cup {d}
  BY DEF HandOver, To
<1> HIDE DEF d
<1>4. /\ d \in Call /\ d.at = "stored" /\ d.prompt = c.prompt /\ d.kind = c.kind
      /\ d.row = c.row /\ d.msg = c.msg /\ Fits(d)
  BY <1>1, <1>2 DEF Moves, Fits
<1>5. UNCHANGED <<queue, messages, turns, turn, open, consume, cli, waiting, closed, events, accepted, owed, deleted,
                  displaced, starts, left>>
  BY <1>1 DEF HandOver, UnchangedTurn, provider
<1>6. Handing' = {d}
  BY <1>1, <1>3, <1>4 DEF Handing
<1>7. c.prompt \in Prompts /\ c.prompt <= accepted /\ ~NoneSentAgain
  BY <1>1 DEF Inv, Afresh, Call, Fits
<1>8. grabbed \subseteq grabbed' /\ grabbed' \subseteq Prompts /\ \A q \in grabbed' : q <= accepted
  <2>1. grabbed \subseteq Prompts /\ \A q \in grabbed : q <= accepted
    BY DEF Inv, Typed, TypeOK, Afresh
  <2>2. grabbed' \subseteq grabbed \cup Mixed(c.prompt, c.msg) \cup {c.prompt} /\ grabbed \subseteq grabbed'
    BY DEF HandOver
  <2> QED BY <1>7, <2>1, <2>2, MixedOf
<1>9. \A p : Crossed(p) => Crossed(p)'
  BY <1>8, CrossedStays
<1>10. Typed'
  <2>1. calls' \subseteq Call
    BY <1>3, <1>4 DEF Inv, Typed, TypeOK
  <2>2. UNCHANGED setbacks
    BY DEF HandOver
  <2> QED BY <1>3, <1>4, <1>5, <1>8, <2>1, <2>2 DEF Inv, Typed, TypeOK, Fits
<1>11. Spared' /\ Apart' /\ Holds' /\ Replying'
  <2>1. Spared' /\ Apart'
    BY <1>5 DEF Inv, Spared, Apart
  <2>2. Holds'
    BY <1>7 DEF Holds
  <2>3. Replying'
    BY <1>5, <1>9 DEF Inv, Replying, Reading, InTurnAs
  <2> QED BY <2>1, <2>2, <2>3
<1>12. Stages'
  BY <1>1, <1>5, StagesStay
<1>13. Alone'
  BY <1>1, <1>3, <1>4, <1>5, <1>6 DEF Inv, Alone
<1>14. Outrun' /\ RunRow' /\ MayDrop'
  <2>1. \A e \in calls' : e.kind # "run" /\ e.at # "drop"
    BY <1>1, <1>3, <1>4 DEF Inv, Typed, Fits, Call, TypeOK
  <2> QED BY <2>1 DEF Outrun, RunRow, MayDrop
<1>15. Afresh'
  <2>1. \A e \in calls' : e.prompt <= accepted
    BY <1>1, <1>3, <1>4 DEF Inv, Afresh
  <2> QED BY <1>5, <1>8, <2>1 DEF Inv, Afresh
<1>16. SentAlone'
  <2> SUFFICES ASSUME NEW e \in calls', e.kind = "send", ~Crossed(e.prompt)
               PROVE  /\ ~InQueue(e.prompt) /\ ~Gone(e.prompt)
                      /\ \A x \in calls' : x.prompt = e.prompt => x = e
                      /\ e # d /\ ~HasText(e.prompt)
    BY <1>5, <1>6, <1>9 DEF SentAlone, InQueue, HasText, Gone
  <2>1. e \in calls /\ e # d /\ e # c /\ e \notin Handing
    BY <1>1, <1>3, <1>4
  <2> QED BY <1>1, <1>3, <1>4, <2>1 DEF Inv, SentAlone
<1>17. Barren'
  BY <1>1, <1>5 DEF Barren, Reading
<1>18. HandedOver'
  BY <1>1, <1>4, <1>6 DEF HandedOver, Fits
<1>19. Inv'
  BY <1>10, <1>11, <1>12, <1>13, <1>14, <1>15, <1>16, <1>17, <1>18 DEF Inv
<1>20. ASSUME NEW p \in Prompts PROVE MayMove(p)
  <2>1. InQueue(p)' = InQueue(p) /\ HasText(p)' = HasText(p)
    BY <1>5 DEF InQueue, HasText
  <2>2. ~RowHanding(p) /\ ~SendHanding(p) /\ ~SendHanding(p)' /\ ~RowHanding(p)'
    BY <1>1, <1>4, <1>6 DEF RowHanding, SendHanding, Fits
  <2> QED BY <1>5, <2>1, <2>2 DEF MayMove, Queued, Gone
<1> QED BY <1>8, <1>19, <1>20 DEF AllMayMove

\* A hand-over begins, is written, and fails.
LEMMA HandOverInv == ASSUME Inv, NEW c, HandOver(c) PROVE Inv' /\ AllMayMove
BY HandOverRow, HandOverNew, HandOverOld

LEMMA WriteInv == ASSUME Inv, NEW c, Write(c) PROVE Inv' /\ AllMayMove
<1>1. c \in Handing /\ c.at = "stored"
  BY DEF Write, Handing
<1>2. /\ Handing = {c} /\ c \in calls /\ c \in Call /\ Fits(c) /\ c.kind \in {"send", "force", "resend"}
      /\ \A d \in calls : d.kind # "run"
      /\ consume.pc \in {"loop", "join", "leave"} /\ consume.untaken = <<>>
      /\ turn.stage = "running" /\ turns > 0
      /\ Reading => consume.produced
  BY <1>1, WhileHanding
<1> DEFINE d == [c EXCEPT !.at = "written"]
<1>3. Moves(c, d, "written")
  BY <1>2, MovesTo DEF Ats
<1>4. calls' = (calls \ {c}) \cup {d}
  BY DEF Write, To
<1> HIDE DEF d
<1>5. /\ d \in Call /\ d.at = "written" /\ d.prompt = c.prompt /\ d.kind = c.kind
      /\ d.row = c.row /\ d.msg = c.msg /\ Fits(d)
  BY <1>1, <1>2, <1>3 DEF Moves, Fits
<1>6. UNCHANGED <<queue, messages, turns, turn, open, consume, cli, closed, events, accepted, owed, deleted, displaced,
                  starts, setbacks, grabbed, left>>
  BY DEF Write, ghost, db
<1>7. Handing' = {d}
  BY <1>2, <1>4, <1>5 DEF Handing
<1>8. Typed'
  <2>1. calls' \subseteq Call
    BY <1>4, <1>5 DEF Inv, Typed, TypeOK
  <2>2. waiting' \in Seq(Prompts)
    BY <1>2 DEF Write, Inv, Typed, TypeOK, Call
  <2> QED BY <1>4, <1>5, <1>6, <2>1, <2>2 DEF Inv, Typed, TypeOK, Fits
<1>9. Spared' /\ Apart' /\ Holds' /\ Replying'
  <2>1. Spared' /\ Apart'
    BY <1>6 DEF Inv, Spared, Apart
  <2>2. Holds'
    BY <1>1, <1>5, <1>6, <1>7 DEF Inv, Holds, Live
  <2>3. Replying'
    BY <1>6 DEF Inv, Replying, Reading, InTurnAs, Crossed
  <2> QED BY <2>1, <2>2, <2>3
<1>10. Stages'
  BY <1>2, <1>6, StagesStay
<1>11. Alone'
  BY <1>2, <1>4, <1>5, <1>6, <1>7 DEF Inv, Alone
<1>12. Outrun' /\ RunRow' /\ MayDrop'
  <2>1. \A e \in calls' : e.kind # "run" /\ e.at # "drop"
    BY <1>2, <1>4, <1>5 DEF Inv, Typed, TypeOK, Call, Fits
  <2> QED BY <2>1 DEF Outrun, RunRow, MayDrop
<1>13. Afresh'
  BY <1>2, <1>4, <1>5, <1>6 DEF Inv, Afresh
<1>14. SentAlone'
  <2> SUFFICES ASSUME NEW e \in calls', e.kind = "send", ~Crossed(e.prompt)
               PROVE  /\ ~InQueue(e.prompt) /\ ~Gone(e.prompt)
                      /\ \A x \in calls' : x.prompt = e.prompt => x = e
                      /\ e # d => ~HasText(e.prompt)
                      /\ e = d =>
                            /\ \E m \in messages : m.id = e.msg /\ m.prompt = e.prompt /\ m.turn = 0
                            /\ \A m \in messages : m.prompt = e.prompt => m.id = e.msg
    BY <1>6, <1>7 DEF SentAlone, InQueue, HasText, Gone, Crossed
  <2>1. CASE e # d
    BY <1>2, <1>4, <1>5, <2>1 DEF Inv, SentAlone
  <2>2. CASE e = d
    BY <1>1, <1>2, <1>4, <1>5, <2>2 DEF Inv, SentAlone
  <2> QED BY <2>1, <2>2
<1>15. Barren'
  BY <1>2, <1>6 DEF Barren, Reading
<1>16. HandedOver'
  BY <1>1, <1>5, <1>6, <1>7 DEF Inv, HandedOver, Stored, InQueue, HasText, Gone, Crossed
<1>17. Inv'
  BY <1>8, <1>9, <1>10, <1>11, <1>12, <1>13, <1>14, <1>15, <1>16 DEF Inv
<1>18. ASSUME NEW p \in Prompts PROVE MayMove(p)
  <2>1. InQueue(p)' = InQueue(p) /\ HasText(p)' = HasText(p)
    BY <1>6 DEF InQueue, HasText
  <2>2. RowHanding(p)' = RowHanding(p) /\ SendHanding(p)' = SendHanding(p)
    BY <1>2, <1>5, <1>7 DEF RowHanding, SendHanding
  <2> QED BY <1>6, <2>1, <2>2 DEF MayMove, Queued, Gone
<1> QED BY <1>6, <1>17, <1>18 DEF AllMayMove

\* The CLI reads no more: the row stays, and a new prompt is forgotten.
LEMMA WriteFailsInv == ASSUME Inv, NEW c, WriteFails(c) PROVE Inv' /\ AllMayMove
<1>1. c \in Handing /\ c.at = "stored"
  BY DEF WriteFails, Handing
<1>2. /\ Handing = {c} /\ c \in calls /\ c \in Call /\ Fits(c) /\ c.kind \in {"send", "force", "resend"}
      /\ \A d \in calls : d.kind # "run"
      /\ consume.pc \in {"loop", "join", "leave"} /\ consume.untaken = <<>>
      /\ turn.stage = "running" /\ turns > 0
      /\ Reading => consume.produced
  BY <1>1, WhileHanding
<1> DEFINE id == IF c.kind = "send" THEN 0 ELSE c.msg
           d == [c EXCEPT !.at = "ending", !.msg = id]
<1>3. Stores(c, d, "ending", id)
  <2>1. id \in Ids
    BY <1>2 DEF Call, Ids
  <2> QED BY <1>2, <2>1, StoresMsg DEF Ats
<1>4. calls' = (calls \ {c}) \cup {d}
  BY DEF WriteFails
<1> HIDE DEF d
<1>5. /\ d \in Call /\ d.at = "ending" /\ d.prompt = c.prompt /\ d.kind = c.kind
      /\ d.row = c.row /\ Fits(d)
  BY <1>2, <1>3 DEF Stores, Fits
<1>6. UNCHANGED <<queue, turns, turn, consume, cli, waiting, closed, events, accepted, owed, deleted, displaced,
                  starts, setbacks, left>>
  BY DEF WriteFails, ghost, provider
<1>7. Handing' = {}
  BY <1>2, <1>4, <1>5 DEF Handing
<1>8. open \in Open /\ open' = [open EXCEPT !.followUp = FALSE]
  BY DEF WriteFails, Inv, Typed, TypeOK
<1>9. open' \in Open /\ open'.pending = open.pending /\ open'.followUp = FALSE
  BY <1>8 DEF Open
<1>24. c.prompt \in Prompts /\ c.prompt <= accepted
  BY <1>2 DEF Inv, Afresh, Call
<1>25. grabbed \subseteq grabbed' /\ grabbed' \subseteq Prompts /\ \A q \in grabbed' : q <= accepted
  <2>1. grabbed \subseteq Prompts /\ \A q \in grabbed : q <= accepted
    BY DEF Inv, Typed, TypeOK, Afresh
  <2>2. grabbed' \subseteq grabbed \cup Mixed(c.prompt, c.msg) /\ grabbed \subseteq grabbed'
    BY DEF WriteFails
  <2> QED BY <1>24, <2>1, <2>2, MixedOf
<1>26. \A p : Crossed(p) => Crossed(p)'
  BY <1>25, CrossedStays
<1>10. /\ messages' \subseteq messages
       /\ \A m \in messages \ messages' :
            /\ c.kind = "send" /\ m.id = c.msg
            /\ \/ m.turn = 0 /\ m.prompt = c.prompt
               \/ ~NoneSentAgain /\ (m.prompt = 0 \/ Crossed(m.prompt)')
       /\ c.kind = "send" /\ ~Crossed(c.prompt) => ~HasText(c.prompt)'
  <2>1. messages' = messages \ Forgotten(c)
    BY DEF WriteFails
  <2>2. CASE c.kind = "send"
    <3>1. messages' = messages \ {m \in messages : m.id = c.msg}
      BY <2>1, <2>2 DEF Forgotten
    <3>2. ASSUME ~Crossed(c.prompt)
          PROVE  /\ \A m \in messages : m.prompt = c.prompt => m.id = c.msg
                 /\ \A m \in messages : m.id = c.msg => m.turn = 0 /\ m.prompt = c.prompt
      <4>1. PICK n \in messages : n.id = c.msg /\ n.prompt = c.prompt /\ n.turn = 0
        BY <1>1, <1>2, <2>2, <3>2 DEF Inv, SentAlone
      <4>2. \A m \in messages : m.id = c.msg => m = n
        BY <4>1 DEF Inv, Apart
      <4> QED BY <1>1, <1>2, <2>2, <3>2, <4>1, <4>2 DEF Inv, SentAlone
    <3>3. ASSUME Crossed(c.prompt), NEW m \in messages, m.id = c.msg, m.prompt # 0
          PROVE  ~NoneSentAgain /\ Crossed(m.prompt)'
      <4>1. ~NoneSentAgain /\ (m.prompt = c.prompt \/ m.prompt \in Mixed(c.prompt, c.msg))
        BY <1>24, <3>3, MixedOf DEF Crossed
      <4>2. Mixed(c.prompt, c.msg) \subseteq grabbed'
        BY <2>2 DEF WriteFails
      <4> QED BY <1>26, <3>3, <4>1, <4>2 DEF Crossed
    <3>4. Crossed(c.prompt) => ~NoneSentAgain
      BY DEF Crossed
    <3> QED BY <2>2, <3>1, <3>2, <3>3, <3>4 DEF HasText
  <2>3. CASE c.kind # "send"
    BY <2>1, <2>3 DEF Forgotten
  <2> QED BY <2>2, <2>3
<1>11. Typed'
  <2>1. calls' \subseteq Call /\ messages' \subseteq Message
    BY <1>4, <1>5, <1>10 DEF Inv, Typed, TypeOK
  <2> QED BY <1>4, <1>5, <1>6, <1>9, <1>25, <2>1 DEF Inv, Typed, TypeOK, Fits
<1>12. Spared' /\ Apart'
  BY <1>6, <1>10 DEF Inv, Spared, Apart
<1>13. Stages'
  BY <1>2, <1>6, StagesStay
<1>14. Alone'
  BY <1>2, <1>4, <1>5, <1>6, <1>7 DEF Inv, Alone
<1>15. Outrun' /\ RunRow' /\ MayDrop'
  <2>1. \A e \in calls' : e.kind # "run" /\ e.at # "drop"
    BY <1>2, <1>4, <1>5 DEF Inv, Typed, TypeOK, Call, Fits
  <2> QED BY <2>1 DEF Outrun, RunRow, MayDrop
<1>16. Afresh'
  BY <1>2, <1>4, <1>5, <1>6, <1>10, <1>25 DEF Inv, Afresh
<1>17. Holds'
  <2> SUFFICES ASSUME NoneSentAgain PROVE Holds'
    BY DEF Holds
  <2>1. c.kind = "send" => c.msg \notin InSeq(open.pending) /\ c.msg # consume.id
    BY <1>1, <1>2 DEF Inv, Holds, Fits
  <2>2. \A id2 : Live(id2) /\ (c.kind = "send" => id2 # c.msg) => Live(id2)'
    BY <1>10 DEF Live
  <2>3. InSeq(consume.untaken) = {}
    BY <1>2 DEF InSeq
  <2> QED BY <1>6, <1>7, <1>9, <2>1, <2>2, <2>3 DEF Inv, Holds
<1>18. Replying'
  <2>1. \A p, x : InTurnAs(p, x) /\ p # 0 => InTurnAs(p, x)' \/ Crossed(p)'
    BY <1>2, <1>6, <1>10 DEF InTurnAs
  <2> QED BY <1>6, <1>26, <2>1 DEF Inv, Replying, Reading
<1>19. SentAlone'
  <2> SUFFICES ASSUME NEW e \in calls', e.kind = "send", ~Crossed(e.prompt)
               PROVE  /\ ~InQueue(e.prompt) /\ ~Gone(e.prompt)
                      /\ \A x \in calls' : x.prompt = e.prompt => x = e
                      /\ ~HasText(e.prompt)'
    BY <1>6, <1>7, <1>26 DEF SentAlone, InQueue, Gone
  <2>1. CASE e # d
    <3>1. e \in calls /\ e \notin Handing
      BY <1>2, <1>4, <2>1
    <3>2. /\ ~InQueue(e.prompt) /\ ~Gone(e.prompt) /\ ~HasText(e.prompt)
          /\ \A x \in calls : x.prompt = e.prompt => x = e
      BY <3>1 DEF Inv, SentAlone
    <3> QED BY <1>2, <1>4, <1>5, <1>10, <2>1, <3>1, <3>2 DEF HasText
  <2>2. CASE e = d
    BY <1>1, <1>2, <1>4, <1>5, <1>10, <2>2 DEF Inv, SentAlone
  <2> QED BY <2>1, <2>2
<1>20. Barren'
  BY <1>2, <1>6 DEF Barren, Reading
<1>21. HandedOver'
  BY <1>7 DEF HandedOver
<1>22. Inv'
  BY <1>11, <1>12, <1>13, <1>14, <1>15, <1>16, <1>17, <1>18, <1>19, <1>20, <1>21 DEF Inv
<1>23. ASSUME NEW p \in Prompts \ grabbed' PROVE MayMove(p)
  <2>1. InQueue(p)' = InQueue(p) /\ (HasText(p)' => HasText(p)) /\ ~Crossed(p) /\ ~Crossed(p)' /\ p # 0
    BY <1>6, <1>10, <1>25, NatIds DEF InQueue, HasText, Crossed
  <2>3. ~RowHanding(p)' /\ ~SendHanding(p)'
    BY <1>7 DEF RowHanding, SendHanding
  <2>4. HasText(p) /\ ~SendHanding(p) => HasText(p)'
    BY <1>2, <1>10, <2>1 DEF HasText, SendHanding
  <2>5. RowHanding(p) => InQueue(p) \/ HasText(p) \/ Gone(p)
    BY <2>1 DEF RowHanding, Inv, HandedOver, Stored
  <2>6. RowHanding(p) => ~SendHanding(p)
    BY <1>2 DEF RowHanding, SendHanding, Fits
  <2> QED BY <1>6, <2>1, <2>3, <2>4, <2>5, <2>6 DEF MayMove, Queued, Gone
<1> QED BY <1>22, <1>23, <1>25 DEF AllMayMove

\* The turn holds what it has taken over.
LEMMA HoldsOne ==
    ASSUME Inv, NEW id \in MsgIds, Hold(id), turns' = turns, consume' = consume, Handing' = {},
           NoneSentAgain => /\ \A x : Live(x) => Live(x)'
                            /\ Live(id)' /\ id \notin InSeq(open.pending) /\ id # consume.id
    PROVE  /\ open' \in Open /\ open'.followUp = open.followUp
           /\ InSeq(open'.pending) = InSeq(open.pending) \cup {id}
           /\ Holds'
<1>1. open \in Open /\ open.pending \in Seq(MsgIds)
  BY DEF Inv, Typed, TypeOK, Open
<1>2. open' = [open EXCEPT !.pending = Append(open.pending, id)]
  BY DEF Hold
<1>3. open'.followUp = open.followUp /\ open'.pending = Append(open.pending, id) /\ open' \in Open
  BY <1>1, <1>2, AppendProperties DEF Open
<1>4. InSeq(open'.pending) = InSeq(open.pending) \cup {id}
  BY <1>1, <1>3, InSeqAppend
<1>5. Holds'
  <2> SUFFICES ASSUME NoneSentAgain
               PROVE  /\ \A x \in InSeq(open'.pending) \cup InSeq(consume.untaken) : Live(x)'
                      /\ consume.id # 0 => Live(consume.id)' /\ consume.id \notin InSeq(open'.pending)
                      /\ Once(open'.pending) /\ Once(consume.untaken)
    BY DEF Holds
  <2>1. Once(open.pending) /\ id \notin InSeq(open.pending)
    BY DEF Inv, Holds
  <2>2. Once(open'.pending)
    BY <1>1, <1>3, <2>1, OnceAppend
  <2> QED BY <1>4, <2>2 DEF Inv, Holds
<1> QED BY <1>3, <1>4, <1>5

\* The call is done: what else its end leaves as it was.
SettleEnds(c) ==
    /\ Settle(c)
    /\ Handing = {c} /\ c \in calls /\ c \in Call /\ Fits(c) /\ c.at = "written"
    /\ calls' = calls \ {c}
    /\ Handing' = {}
    /\ \A d \in calls : d.kind # "run"
    /\ consume.pc \in {"loop", "join", "leave"} /\ consume.untaken = <<>>
    /\ turn.stage = "running" /\ turns > 0
    /\ Reading => consume.produced
    /\ UNCHANGED <<turns, turn, consume, cli, waiting, closed, events, accepted, deleted,
                   starts, setbacks, left>>
    /\ grabbed \subseteq grabbed' /\ grabbed' \subseteq grabbed \cup {c.prompt}
    /\ displaced' = displaced \cup Others(c) /\ Others(c) \subseteq Prompts
    /\ \A p \in Others(c) : InQueue(p) /\ p # c.prompt
    /\ c.row = 0 => Others(c) = {}
    /\ owed' \subseteq Prompts
    /\ c.prompt \in Prompts

\* Settle has the common part.
LEMMA SettleEndsSo == ASSUME Inv, NEW c, Settle(c) PROVE SettleEnds(c)
<1>1. c \in Handing /\ c.at = "written"
  BY DEF Settle, Handing
<1>2. /\ Handing = {c} /\ c \in calls /\ c \in Call /\ Fits(c) /\ c.kind \in {"send", "force", "resend"}
      /\ \A d \in calls : d.kind # "run"
      /\ consume.pc \in {"loop", "join", "leave"} /\ consume.untaken = <<>>
      /\ turn.stage = "running" /\ turns > 0
      /\ Reading => consume.produced
  BY <1>1, WhileHanding
<1>3. calls' = calls \ {c}
  BY <1>2 DEF Settle, Done
<1>4. Handing' = {}
  BY <1>2, <1>3 DEF Handing
<1>5. c.prompt \in Prompts /\ owed' \subseteq Prompts
  <2>1. owed' = owed \cup {c.prompt} /\ owed \subseteq Prompts
    BY DEF Settle, Inv, Typed, TypeOK
  <2> QED BY <1>2, <2>1 DEF Call
<1>6. UNCHANGED <<turns, turn, consume, cli, waiting, closed, events, accepted, deleted, starts, setbacks, left>>
  BY DEF Settle, provider
<1>7. grabbed \subseteq grabbed' /\ grabbed' \subseteq grabbed \cup {c.prompt} /\ displaced' = displaced \cup Others(c)
  BY <1>2 DEF Settle, Fits
<1>8. /\ Others(c) \subseteq Prompts /\ \A p \in Others(c) : InQueue(p) /\ p # c.prompt
      /\ c.row = 0 => Others(c) = {}
  <2>1. \A r \in queue : r.prompt \in Prompts /\ r.id # 0
    BY NatIds DEF Inv, Typed, TypeOK, QueueRow
  <2> QED BY <2>1 DEF Others, Rows, InQueue
<1> QED BY <1>1, <1>2, <1>3, <1>4, <1>5, <1>6, <1>7, <1>8 DEF SettleEnds

\* The conjuncts that every settling keeps.
SoFar(ps) == ps \subseteq Prompts /\ \A p \in ps : p <= accepted
LEMMA SettleCommon ==
    ASSUME Inv, NEW c, SettleEnds(c)
    PROVE  Spared' /\ SoFar(displaced' \cup grabbed') /\ Stages' /\ Alone' /\ Outrun' /\ RunRow' /\ MayDrop' /\ Barren' /\ HandedOver'
<1>1. Spared'
  BY DEF SettleEnds, Inv, Spared
<1>2. Stages'
  BY StagesStay DEF SettleEnds
<1>3. Alone'
  BY DEF Inv, Alone, SettleEnds
<1>4. Outrun' /\ RunRow' /\ MayDrop'
  <2>1. \A e \in calls' : e.kind # "run" /\ e.at # "drop"
    BY DEF SettleEnds, Inv, Typed, TypeOK, Call, Fits
  <2> QED BY <2>1 DEF Outrun, RunRow, MayDrop
<1>5. Barren'
  BY DEF SettleEnds, Barren, Reading
<1>6. HandedOver'
  BY DEF SettleEnds, HandedOver
<1>7. SoFar(displaced' \cup grabbed')
  <2>1. /\ c \in calls /\ c.prompt \in Prompts /\ accepted' = accepted
        /\ Others(c) \subseteq Prompts /\ (\A p \in Others(c) : InQueue(p))
        /\ grabbed' \subseteq grabbed \cup {c.prompt} /\ displaced' = displaced \cup Others(c)
    BY DEF SettleEnds
  <2>2. displaced \subseteq Prompts /\ grabbed \subseteq Prompts
    BY DEF Inv, Typed, TypeOK
  <2>3. c.prompt <= accepted /\ \A p \in displaced \cup grabbed : p <= accepted
    BY <2>1 DEF Inv, Afresh
  <2>4. \A p \in Others(c) : p <= accepted
    BY <2>1 DEF Inv, Afresh, InQueue
  <2>5. \A p \in displaced' : p \in Prompts /\ p <= accepted
    BY <2>1, <2>2, <2>3, <2>4
  <2>6. \A p \in grabbed' : p \in Prompts /\ p <= accepted
    BY <2>1, <2>2, <2>3
  <2> QED BY <2>1, <2>5, <2>6 DEF SoFar
<1> QED BY <1>1, <1>2, <1>3, <1>4, <1>5, <1>6, <1>7

\* No other call has the prompt of one that hands over.
LEMMA SendsOthers ==
    ASSUME Inv, NEW c, SettleEnds(c), NEW e \in calls, e.kind = "send", e # c, ~Crossed(e.prompt)
    PROVE  /\ ~InQueue(e.prompt) /\ ~Gone(e.prompt) /\ ~HasText(e.prompt)
           /\ e.prompt # c.prompt /\ e \notin Handing
           /\ \A x \in calls : x.prompt = e.prompt => x = e
<1>1. e \notin Handing /\ c \in calls
  BY DEF SettleEnds
<1> QED BY <1>1 DEF Inv, SentAlone

\* A new prompt is held, its message stays where it is.
LEMMA SettleNew ==
    ASSUME Inv, NEW c, Settle(c), c.kind = "send"
    PROVE  Inv' /\ AllMayMove
<1>1. SettleEnds(c)
  BY SettleEndsSo
<1>2. Hold(c.msg) /\ UNCHANGED <<queue, messages, grabbed, displaced>>
  <2>1. c.row = 0
    BY <1>1 DEF SettleEnds, Fits
  <2> QED BY <1>1, <2>1 DEF Settle, db, SettleEnds
<1>3. c \in calls /\ c \in Handing /\ c.msg # 0 /\ c.msg \in MsgIds
  <2>1. c \in calls /\ c \in Handing /\ c \in Call /\ Fits(c) /\ c.at = "written"
    BY <1>1 DEF SettleEnds
  <2> QED BY <2>1 DEF Call, Ids, Fits
<1>4. NoneSentAgain => \E n \in messages : n.id = c.msg /\ n.prompt = c.prompt /\ n.turn = 0
  BY <1>3 DEF Inv, SentAlone, Crossed
<1>5. /\ \A x : Live(x) => Live(x)'
      /\ NoneSentAgain => Live(c.msg)' /\ c.msg \notin InSeq(open.pending) /\ c.msg # consume.id
  BY <1>1, <1>2, <1>3, <1>4, NatIds DEF Live, SettleEnds, Inv, Holds
<1>6. turns' = turns /\ consume' = consume /\ Handing' = {}
  BY <1>1 DEF SettleEnds
<1>7. /\ open' \in Open /\ open'.followUp = open.followUp
      /\ InSeq(open'.pending) = InSeq(open.pending) \cup {c.msg}
      /\ Holds'
  BY <1>2, <1>3, <1>5, <1>6, HoldsOne
<1>8. Typed'
  BY <1>1, <1>2, <1>7 DEF SettleEnds, Inv, Typed, TypeOK, Fits
<1>9. Apart' /\ Replying'
  BY <1>1, <1>2 DEF SettleEnds, Inv, Apart, Replying, Reading, InTurnAs, Crossed
<1>10. Afresh'
  BY <1>1, <1>2 DEF SettleEnds, Inv, Afresh
<1>11. SentAlone'
  <2> SUFFICES ASSUME NEW e \in calls', e.kind = "send", ~Crossed(e.prompt)
               PROVE  /\ ~InQueue(e.prompt) /\ ~Gone(e.prompt)
                      /\ \A x \in calls' : x.prompt = e.prompt => x = e
                      /\ ~HasText(e.prompt)
    BY <1>1, <1>2 DEF SentAlone, InQueue, HasText, SettleEnds, Gone, Crossed
  <2>1. e \in calls /\ e # c /\ calls' \subseteq calls
    BY <1>1 DEF SettleEnds
  <2> QED BY <1>1, <2>1, SendsOthers
<1>12. Inv'
  BY <1>1, <1>7, <1>8, <1>9, <1>10, <1>11, SettleCommon DEF Inv
<1>13. ASSUME NEW p \in Prompts PROVE MayMove(p)
  <2>1. /\ InQueue(p)' = InQueue(p) /\ HasText(p)' = HasText(p) /\ deleted' = deleted /\ displaced' = displaced
    BY <1>1, <1>2 DEF InQueue, HasText, SettleEnds
  <2>2. ~RowHanding(p)' /\ ~SendHanding(p)'
    BY <1>1 DEF RowHanding, SendHanding, SettleEnds
  <2>3. ~RowHanding(p)
    BY <1>1 DEF RowHanding, SettleEnds, Fits
  <2> QED BY <2>1, <2>2, <2>3 DEF MayMove, Queued, Gone
<1> QED BY <1>1, <1>12, <1>13 DEF AllMayMove, SettleEnds

\* So is one of the transcript, which moves to its end.
LEMMA SettleOld ==
    ASSUME Inv, NEW c, Settle(c), c.kind = "resend"
    PROVE  Inv' /\ AllMayMove
<1>1. SettleEnds(c)
  BY SettleEndsSo
<1>2. c.row = 0 /\ c.msg # 0 /\ c.msg \in MsgIds /\ ~NoneSentAgain
  BY <1>1 DEF SettleEnds, Fits, Call, Ids
<1>3. UNCHANGED <<queue, grabbed, displaced>>
  BY <1>1, <1>2 DEF Settle, SettleEnds
<1>4. PICK id \in MsgIds :
        /\ Hold(id)
        /\ \/ messages' = messages
           \/ \E m \in messages : /\ m.turn = 0 /\ id \in EndIds(messages, m)
                                  /\ messages' = Moved(messages, m, 0, id)
  BY <1>2 DEF Settle, Unclaimed, UnclaimedIn, EndIds
<1>5. /\ messages' \subseteq Message /\ ApartIn(messages')
      /\ \A m \in messages' : m \in messages \/ (m.turn = 0 /\ \E n \in messages : n.prompt = m.prompt)
      /\ \A n \in messages : n \in messages' \/ (n.turn = 0 /\ \E m \in messages' : n.prompt = m.prompt)
  <2>1. messages \subseteq Message /\ ApartIn(messages)
    BY DEF Inv, Typed, TypeOK, Apart, ApartIn
  <2>2. CASE messages' = messages
    BY <2>1, <2>2
  <2>3. ASSUME NEW m \in messages, m.turn = 0, id \in EndIds(messages, m), messages' = Moved(messages, m, 0, id)
        PROVE  <1>5!1 /\ <1>5!2 /\ <1>5!3
    <3> DEFINE n == [id |-> id, prompt |-> m.prompt, turn |-> 0]
    <3>1. messages' = (messages \ {m}) \cup {n}
      BY <2>1, <2>3, MovedTo
    <3>2. n \in Message
      BY <2>1, FollowUpAssumption DEF Message
    <3>3. n.id = id /\ n.prompt = m.prompt /\ n.turn = 0
      OBVIOUS
    <3> HIDE DEF n
    <3>4. \A o \in messages : o.id = id => o = m
      BY <2>1, <2>3, EndId DEF ApartIn
    <3> QED BY <2>1, <2>3, <3>1, <3>2, <3>3, <3>4 DEF ApartIn
  <2> QED BY <1>4, <2>2, <2>3
<1>6. turns' = turns /\ consume' = consume /\ Handing' = {}
  BY <1>1 DEF SettleEnds
<1>7. open' \in Open /\ open'.followUp = open.followUp /\ Holds'
  BY <1>2, <1>4, <1>6, HoldsOne
<1>8. Typed'
  BY <1>1, <1>3, <1>5, <1>7 DEF SettleEnds, Inv, Typed, TypeOK, Fits
<1>9. turns > 0 /\ turns \in Nat
  BY <1>1, FollowUpAssumption DEF SettleEnds, Inv, Typed, TypeOK
<1>10. Apart' /\ Replying'
  <2>1. Apart'
    BY <1>3, <1>5, <1>6, <1>9 DEF Inv, Apart, ApartIn
  <2>2. \A p, x : InTurnAs(p, x) => InTurnAs(p, x)'
    BY <1>5, <1>6, <1>9 DEF InTurnAs
  <2>3. Replying'
    BY <1>3, <1>6, <2>2 DEF Inv, Replying, Reading, Crossed
  <2> QED BY <2>1, <2>3
<1>11. Afresh'
  BY <1>1, <1>3, <1>5 DEF SettleEnds, Inv, Afresh
<1>12. \A p : HasText(p)' <=> HasText(p)
  BY <1>5 DEF HasText
<1>13. SentAlone'
  <2> SUFFICES ASSUME NEW e \in calls', e.kind = "send", ~Crossed(e.prompt)
               PROVE  /\ ~InQueue(e.prompt) /\ ~Gone(e.prompt)
                      /\ \A x \in calls' : x.prompt = e.prompt => x = e
                      /\ ~HasText(e.prompt)
    BY <1>1, <1>3, <1>12 DEF SentAlone, InQueue, SettleEnds, Gone, Crossed
  <2>1. e \in calls /\ e # c /\ calls' \subseteq calls
    BY <1>1 DEF SettleEnds
  <2> QED BY <1>1, <2>1, SendsOthers
<1>14. Inv'
  BY <1>1, <1>7, <1>8, <1>10, <1>11, <1>13, SettleCommon DEF Inv
<1>15. ASSUME NEW p \in Prompts PROVE MayMove(p)
  <2>1. InQueue(p)' = InQueue(p) /\ deleted' = deleted /\ displaced' = displaced
    BY <1>1, <1>3 DEF InQueue, SettleEnds
  <2>2. ~RowHanding(p)' /\ ~SendHanding(p)'
    BY <1>1 DEF RowHanding, SendHanding, SettleEnds
  <2>3. ~RowHanding(p)
    BY <1>1, <1>2 DEF RowHanding, SettleEnds
  <2> QED BY <1>12, <2>1, <2>2, <2>3 DEF MayMove, Queued, Gone
<1> QED BY <1>3, <1>14, <1>15 DEF AllMayMove

\* A queued one becomes a message, and its row goes.
LEMMA SettleRow ==
    ASSUME Inv, NEW c, Settle(c), c.kind \notin {"send", "resend"}
    PROVE  Inv' /\ AllMayMove
<1>1. SettleEnds(c)
  BY SettleEndsSo
<1>2. c.kind = "force" /\ c.row # 0 /\ c \in calls /\ c \in Handing /\ c.prompt \in Prompts /\ c.prompt # 0
  BY <1>1, NatIds DEF SettleEnds, Fits, Call
<1>3. PICK id \in MsgIds : /\ IsNewMsg(messages, id) /\ Hold(id)
                           /\ messages' = Added(messages, c.prompt, 0, id)
  BY <1>2 DEF Settle
<1>4. queue' = Unqueued(c.row)
  BY <1>2 DEF Settle
<1> DEFINE n == [id |-> id, prompt |-> c.prompt, turn |-> 0]
<1>6. /\ messages' \subseteq Message /\ ApartIn(messages') /\ messages' = messages \cup {n}
      /\ \A m \in messages : m.id # id
      /\ id \in MsgIds /\ id # 0
  <2>1. c.prompt \in OrNone /\ 0 \in 0..MaxTurns
    BY <1>2, FollowUpAssumption DEF OrNone
  <2> QED BY <1>3, <2>1, NewText
<1>7. n.id = id /\ n.prompt = c.prompt /\ n.turn = 0
  OBVIOUS
<1> HIDE DEF n
<1>8. /\ queue' \subseteq queue
      /\ \A r \in queue \ queue' : r.prompt = c.prompt \/ r.prompt \in Others(c)
  BY <1>2, <1>4 DEF Unqueued, Rows, Others
<1>9. Live(id)' /\ \A x : Live(x) => Live(x)' /\ x # id
  BY <1>2, <1>6, <1>7 DEF Live
<1>10. turns' = turns /\ consume' = consume /\ Handing' = {}
  BY <1>1 DEF SettleEnds
<1>11. NoneSentAgain => id \notin InSeq(open.pending) /\ id # consume.id
  BY <1>6, <1>9 DEF Inv, Holds
<1>12. /\ open' \in Open /\ open'.followUp = open.followUp
       /\ InSeq(open'.pending) = InSeq(open.pending) \cup {id}
       /\ Holds'
  BY <1>3, <1>9, <1>10, <1>11, HoldsOne
<1>13. Typed'
  BY <1>1, <1>6, <1>8, <1>12, SettleCommon DEF SettleEnds, Inv, Typed, TypeOK, Fits, SoFar
<1>14. Apart'
  <2>1. turns > 0 /\ turns \in Nat
    BY <1>1, FollowUpAssumption DEF SettleEnds, Inv, Typed, TypeOK
  <2> QED BY <1>6, <1>7, <1>8, <1>10, <2>1 DEF Inv, Apart, ApartIn
<1>15. Replying'
  <2>1. \A p, x : InTurnAs(p, x) => InTurnAs(p, x)'
    BY <1>6, <1>10 DEF InTurnAs
  <2>2. \A p : Crossed(p) => Crossed(p)'
    BY <1>1, CrossedStays DEF SettleEnds
  <2> QED BY <1>10, <2>1, <2>2 DEF Inv, Replying, Reading
<1>16. Afresh'
  BY <1>1, <1>2, <1>6, <1>7, <1>8, SettleCommon DEF SettleEnds, Inv, Afresh, SoFar
<1>17. SentAlone'
  <2> SUFFICES ASSUME NEW e \in calls', e.kind = "send", ~Crossed(e.prompt)
               PROVE  /\ ~InQueue(e.prompt)' /\ ~Gone(e.prompt)'
                      /\ \A x \in calls' : x.prompt = e.prompt => x = e
                      /\ ~HasText(e.prompt)'
    <3>1. \A p : Crossed(p) => Crossed(p)'
      BY <1>1, CrossedStays DEF SettleEnds
    <3> QED BY <1>1, <3>1 DEF SentAlone, InQueue, HasText, SettleEnds
  <2>1. e \in calls /\ e # c /\ calls' \subseteq calls
    BY <1>1 DEF SettleEnds
  <2>2. /\ ~InQueue(e.prompt) /\ ~Gone(e.prompt) /\ ~HasText(e.prompt)
        /\ e.prompt # c.prompt
        /\ \A x \in calls : x.prompt = e.prompt => x = e
    BY <1>1, <2>1, SendsOthers
  <2> QED BY <1>1, <1>6, <1>7, <1>8, <2>1, <2>2 DEF InQueue, HasText, Gone, SettleEnds
<1>18. Inv'
  BY <1>1, <1>12, <1>13, <1>14, <1>15, <1>16, <1>17, SettleCommon DEF Inv
<1>19. ASSUME NEW p \in Prompts PROVE MayMove(p)
  <2>1. deleted' = deleted /\ (HasText(p) => HasText(p)') /\ (InQueue(p)' => InQueue(p))
    BY <1>1, <1>6, <1>8 DEF InQueue, HasText, SettleEnds
  <2>2. ~RowHanding(p)' /\ ~SendHanding(p)'
    BY <1>1 DEF RowHanding, SendHanding, SettleEnds
  <2>3. (RowHanding(p) <=> p = c.prompt) /\ ~SendHanding(p)
    BY <1>1, <1>2 DEF RowHanding, SendHanding, SettleEnds
  <2>4. p = c.prompt => HasText(p)'
    BY <1>6, <1>7 DEF HasText
  <2>5. p # c.prompt => (HasText(p)' => HasText(p)) /\ (InQueue(p) => InQueue(p)' \/ p \in displaced')
    BY <1>1, <1>6, <1>7, <1>8 DEF HasText, InQueue, SettleEnds
  <2>6. (p \in displaced => p \in displaced') /\ (p \in displaced' => p \in displaced \/ InQueue(p))
    BY <1>1 DEF SettleEnds
  <2> QED BY <2>1, <2>2, <2>3, <2>4, <2>5, <2>6 DEF MayMove, Queued, Gone
<1> QED BY <1>1, <1>18, <1>19 DEF AllMayMove, SettleEnds

LEMMA SettleInv == ASSUME Inv, NEW c, Settle(c) PROVE Inv' /\ AllMayMove
BY SettleNew, SettleOld, SettleRow
-----------------------------------------------------------------------------
(* A turn starts, and the process ends                                      *)

\* What is idle holds nothing.
LEMMA IdleTypes ==
    /\ NoTurn \in Turn /\ Fresh \in Open /\ Idle \in Consume /\ NoCli \in Cli
    /\ Fresh.pending = <<>> /\ ~Fresh.followUp /\ Idle.pc = "off" /\ Idle.id = 0 /\ Idle.untaken = <<>>
    /\ ~NoCli.on /\ NoTurn.stage = "none"
    /\ InSeq(<<>>) = {} /\ Once(<<>>)
<1>1. InSeq(<<>>) = {} /\ Once(<<>>)
  BY DEF InSeq, Once
<1>2. <<>> \in Seq(MsgIds)
  OBVIOUS
<1> QED BY <1>1, <1>2 DEF NoTurn, Turn, Fresh, Open, Idle, Consume, NoCli, Cli, Ids, OrNone

\* Beside no turn nothing is held, handed over or on its way.
LEMMA WithoutTurn ==
    ASSUME Inv, turn.stage # "running"
    PROVE  /\ consume = Idle /\ Handing = {} /\ ~cli.on /\ events = <<>>
           /\ open.pending = <<>> /\ ~open.followUp
           /\ turn.stage = "none" => \A c \in calls : c.at # "claimed"
<1>1. consume.pc = "off" /\ consume = Idle
  BY DEF Inv, Stages
<1> QED BY <1>1 DEF Inv, Stages, Reading, Alone

\* A call takes the task for its turn ...
LEMMA ClaimInv == ASSUME Inv, NEW c, Claim(c) PROVE Inv' /\ AllMayMove
<1>1. c \in calls /\ c.at = "start" /\ c.kind # "force" /\ c \in Call /\ Fits(c)
  BY DEF Claim, Inv, Typed, TypeOK
<1>2. UNCHANGED <<queue, messages, consume, cli, waiting, closed, events, accepted, owed, deleted, displaced,
                  starts, setbacks, grabbed, left>>
  BY DEF Claim, db, provider, ghost
<1>3. CASE turn.stage # "none"
  <2>1. calls' = calls \ {c} /\ UNCHANGED <<turns, turn, open>>
    BY <1>3 DEF Claim, Done
  <2>2. Still /\ Calm
    BY <1>2, <2>1, SameTurn DEF Still, Calm, Data, provider, Inv
  <2>3. CallsOnly
    BY <1>1, <2>1, <2>2, CallEnds
  <2>4. Inv'
    BY <2>2, <2>3, CallsOnlyInv DEF Calm
  <2>5. UNCHANGED <<queue, messages, deleted, displaced, grabbed, Handing>>
    BY <1>2, <2>1, <2>3 DEF CallsOnly
  <2> QED BY <2>4, <2>5, NothingMoves
<1>4. CASE turn.stage = "none"
  <2> DEFINE d == [c EXCEPT !.at = "claimed"]
  <2>1. Moves(c, d, "claimed")
    BY <1>1, MovesTo DEF Ats
  <2>2. /\ turns < MaxTurns /\ turns' = turns + 1 /\ open' = Fresh
        /\ calls' = (calls \ {c}) \cup {d}
        /\ turn' \in Turn /\ turn'.stage = "claimed"
    BY <1>4 DEF Claim, To, NoTurn, Turn
  <2> HIDE DEF d
  <2>3. /\ d \in Call /\ d.at = "claimed" /\ d.prompt = c.prompt /\ d.kind = c.kind
        /\ d.row = c.row /\ d.msg = c.msg /\ Fits(d)
    BY <1>1, <2>1 DEF Moves, Fits
  <2>4. /\ consume = Idle /\ Handing = {} /\ ~cli.on /\ events = <<>>
        /\ \A e \in calls : e.at # "claimed"
    BY <1>4, WithoutTurn
  <2>5. Handing' = {}
    BY <2>2, <2>3, <2>4 DEF Handing
  <2>6. turns \in 0..MaxTurns /\ turns' \in 0..MaxTurns /\ turns' > 0 /\ turns' > turns
    BY <2>2, FollowUpAssumption DEF Inv, Typed, TypeOK
  <2>7. Typed'
    <3>1. calls' \subseteq Call
      BY <2>2, <2>3 DEF Inv, Typed, TypeOK
    <3> QED BY <1>2, <2>2, <2>3, <2>6, <3>1, IdleTypes DEF Inv, Typed, TypeOK, Fits
  <2>8. \A m \in messages : m.turn <= turns' /\ m.turn # turns'
    <3>1. \A m \in messages : m.turn \in 0..MaxTurns /\ m.turn <= turns
      BY DEF Inv, Typed, TypeOK, Message, Apart
    <3> QED BY <2>6, <3>1
  <2>9. Spared' /\ Apart'
    BY <1>2, <2>8 DEF Inv, Spared, Apart
  <2>10. Stages'
    BY <1>2, <2>2, <2>4, <2>5, <2>6, <2>8, IdleTypes DEF Stages, Reading
  <2>11. Alone'
    BY <1>1, <2>2, <2>3, <2>4, <2>5 DEF Inv, Alone
  <2>12. Outrun'
    BY <1>2, <2>2, <2>4, <2>5, IdleTypes DEF Outrun
  <2>13. RunRow' /\ Afresh' /\ MayDrop' /\ HandedOver'
    BY <1>1, <1>2, <2>2, <2>3, <2>5 DEF Inv, RunRow, Afresh, MayDrop, HandedOver, HasText, Crossed
  <2>14. SentAlone'
    BY <1>1, <1>2, <2>2, <2>3, <2>4, <2>5 DEF Inv, SentAlone, InQueue, HasText, Gone, Crossed
  <2>15. Holds'
    BY <1>2, <2>2, <2>4, <2>5, IdleTypes DEF Holds
  <2>16. Replying' /\ Barren'
    BY <1>2, <2>4, IdleTypes DEF Replying, Barren, Reading
  <2>17. Inv'
    BY <2>7, <2>9, <2>10, <2>11, <2>12, <2>13, <2>14, <2>15, <2>16 DEF Inv
  <2>18. ASSUME NEW p \in Prompts PROVE MayMove(p)
    <3>1. InQueue(p)' = InQueue(p) /\ HasText(p)' = HasText(p) /\ deleted' = deleted
      BY <1>2 DEF InQueue, HasText
    <3>2. ~RowHanding(p) /\ ~SendHanding(p) /\ ~RowHanding(p)' /\ ~SendHanding(p)'
      BY <2>4, <2>5 DEF RowHanding, SendHanding
    <3> QED BY <1>2, <3>1, <3>2 DEF MayMove, Queued, Gone
  <2> QED BY <1>2, <2>17, <2>18 DEF AllMayMove
<1> QED BY <1>3, <1>4

\* ... and stores its prompt as the turn's.
LEMMA RecordInv == ASSUME Inv, NEW c, Record(c) PROVE Inv' /\ AllMayMove
<1>1. /\ c \in calls /\ c.at = "claimed" /\ c \in Call /\ Fits(c)
      /\ c.kind \in {"send", "run", "resend"} /\ (c.msg # 0 <=> c.kind = "resend")
  BY DEF Record, Inv, Typed, TypeOK, Fits, Call
<1>2. turn.stage = "claimed" /\ \A e \in calls : e.at = "claimed" => e = c
  BY <1>1 DEF Inv, Alone
<1>3. /\ consume = Idle /\ Handing = {} /\ ~cli.on /\ open = Fresh /\ turns > 0
      /\ \A m \in messages : m.turn # turns
  BY <1>2, WithoutTurn DEF Inv, Stages
<1>4. UNCHANGED <<queue, turns, open, accepted, deleted, displaced, setbacks, left>>
  BY DEF Record
<1>5. c.prompt \in Prompts /\ c.prompt # 0 /\ c.prompt <= accepted
  BY <1>1, NatIds DEF Call, Inv, Afresh
<1>31. grabbed \subseteq grabbed' /\ grabbed' \subseteq Prompts /\ \A q \in grabbed' : q <= accepted
  <2>1. grabbed \subseteq Prompts /\ \A q \in grabbed : q <= accepted
    BY DEF Inv, Typed, TypeOK, Afresh
  <2>2. grabbed' = grabbed \cup Mixed(c.prompt, c.msg)
    BY DEF Record
  <2> QED BY <1>5, <2>1, <2>2, MixedOf
<1>32. \A p : Crossed(p) => Crossed(p)'
  BY <1>31, CrossedStays
<1>6. messages \subseteq Message /\ ApartIn(messages) /\ turns \in 0..MaxTurns
  BY DEF Inv, Typed, TypeOK, Apart, ApartIn
<1>7. /\ messages' \subseteq Message /\ ApartIn(messages')
      /\ \A x \in messages : x \in messages' \/ (x.turn = 0 /\ \E y \in messages' : y.prompt = x.prompt)
      /\ \E n \in messages' :
           /\ n.turn = turns /\ \A x \in messages' : x \in messages \/ x = n
           /\ c.msg = 0 => n.prompt = c.prompt
           /\ c.msg # 0 => HasText(n.prompt)
           /\ n.prompt # c.prompt => Crossed(c.prompt)' /\ (n.prompt = 0 \/ Crossed(n.prompt)')
  <2>1. CASE c.msg = 0
    <3>1. PICK id \in MsgIds : IsNewMsg(messages, id) /\ messages' = Added(messages, c.prompt, turns, id)
      BY <2>1 DEF Record
    <3> DEFINE n == [id |-> id, prompt |-> c.prompt, turn |-> turns]
    <3>2. /\ messages' \subseteq Message /\ ApartIn(messages') /\ messages' = messages \cup {n}
          /\ \A m \in messages : m.id # id
      <4>1. c.prompt \in OrNone
        BY <1>5 DEF OrNone
      <4> QED BY <1>6, <3>1, <4>1, NewText
    <3>3. n.prompt = c.prompt /\ n.turn = turns
      OBVIOUS
    <3> HIDE DEF n
    <3> QED BY <2>1, <3>2, <3>3
  <2>2. CASE c.msg # 0
    <3>1. PICK m \in Unclaimed(c.msg) : \E id \in EndIds(messages, m) : messages' = Moved(messages, m, turns, id)
      BY <2>2 DEF Record
    <3>2. PICK id \in EndIds(messages, m) : messages' = Moved(messages, m, turns, id)
      BY <3>1
    <3>3. m \in messages /\ m.id = c.msg /\ m.turn = 0
      BY DEF Unclaimed, UnclaimedIn
    <3>13. PICK n : n = [id |-> id, prompt |-> m.prompt, turn |-> turns]
      OBVIOUS
    <3>4. messages' = (messages \ {m}) \cup {n}
      BY <1>6, <3>2, <3>3, <3>13, MovedTo
    <3>5. n \in Message
      BY <1>6, <3>3, <3>13 DEF Message, EndIds
    <3>6. n.id = id /\ n.prompt = m.prompt /\ n.turn = turns
      BY <3>13
    <3>7. \A o \in messages : o.id = id => o = m
      BY <1>6, <3>3, EndId DEF ApartIn
    <3>8. HasText(n.prompt)
      BY <3>3, <3>6 DEF HasText
    <3>9. n.prompt # c.prompt => Crossed(c.prompt)' /\ (n.prompt = 0 \/ Crossed(n.prompt)')
      <4>1. ~NoneSentAgain /\ Mixed(c.prompt, c.msg) \subseteq grabbed'
        BY <1>1, <2>2 DEF Fits, Record
      <4>2. n.prompt # c.prompt => c.prompt \in grabbed' /\ (n.prompt = 0 \/ n.prompt \in grabbed')
        <5> HIDE DEF NoneSentAgain
        <5> QED BY <1>5, <3>3, <3>6, <4>1, MixedOf
      <4> QED BY <4>1, <4>2 DEF Crossed
    <3>10. messages' \subseteq Message /\ ApartIn(messages')
      BY <1>6, <3>4, <3>5, <3>6, <3>7 DEF ApartIn
    <3>11. n \in messages' /\ n.turn = turns /\ \A x \in messages' : x \in messages \/ x = n
      BY <3>4, <3>6
    <3>12. \A x \in messages : x \in messages' \/ (x.turn = 0 /\ \E y \in messages' : y.prompt = x.prompt)
      BY <3>3, <3>4, <3>6
    <3> QED BY <2>2, <3>8, <3>9, <3>10, <3>11, <3>12
  <2> QED BY <2>1, <2>2
<1>8. PICK n \in messages' :
           /\ n.turn = turns /\ \A x \in messages' : x \in messages \/ x = n
           /\ c.msg = 0 => n.prompt = c.prompt
           /\ c.msg # 0 => HasText(n.prompt)
           /\ n.prompt # c.prompt => Crossed(c.prompt)' /\ (n.prompt = 0 \/ Crossed(n.prompt)')
  BY <1>7
<1>33. \A p : HasText(p) => HasText(p)'
  BY <1>7 DEF HasText
<1>34. \A p : HasText(p)' => HasText(p) \/ (p = c.prompt /\ c.msg = 0)
  BY <1>8 DEF HasText
<1>9. /\ turn' \in Turn /\ turn'.stage = "running"
      /\ cli' \in Cli /\ ~cli'.tasks
      /\ waiting' = <<>> /\ closed' = FALSE /\ events' = <<>>
      /\ starts' \in [Prompts -> Nat]
  <2>1. turn \in Turn /\ starts \in [Prompts -> Nat]
    BY DEF Inv, Typed, TypeOK
  <2>2. starts[c.prompt] + 1 \in Nat
    BY <1>5, <2>1
  <2>3. starts' \in [Prompts -> Nat]
    BY <2>1, <2>2 DEF Record, Launch
  <2>4. cli' \in Cli /\ ~cli'.tasks
    BY <1>5 DEF Record, Launch, NoCli, Cli, OrNone
  <2> QED BY <2>1, <2>3, <2>4 DEF Record, Launch, Turn
<1>10. /\ consume' \in Consume
       /\ consume'.pc = "loop" /\ consume'.id = 0 /\ consume'.untaken = <<>>
       /\ consume'.inFlight = c.prompt /\ consume'.inFlightMsg = 0
       /\ consume'.interrupted = 0 /\ consume'.interruptedMsg = 0
  <2>1. Idle \in Consume
    BY IdleTypes
  <2>2. consume' = [Idle EXCEPT !.pc = "loop", !.inFlight = c.prompt]
    BY DEF Record, Launch
  <2>3. [Idle EXCEPT !.pc = "loop", !.inFlight = c.prompt] \in Consume
    BY <1>5, <2>1 DEF Consume, OrNone
  <2> QED BY <2>2, <2>3 DEF Idle
<1> DEFINE d == [c EXCEPT !.at = "drop"]
<1>11. Moves(c, d, "drop")
  BY <1>1, MovesTo DEF Ats
<1>12. /\ c.kind = "run" => calls' = (calls \ {c}) \cup {d}
       /\ c.kind # "run" => calls' = calls \ {c}
  BY DEF Record, To, Done
<1> HIDE DEF d
<1>13. /\ d \in Call /\ d.at = "drop" /\ d.prompt = c.prompt /\ d.kind = c.kind
       /\ d.row = c.row /\ d.msg = c.msg
       /\ c.kind = "run" => Fits(d)
  BY <1>1, <1>11 DEF Moves, Fits
<1>14. /\ c \notin calls' /\ \A e \in calls' : e \in calls \/ (e = d /\ c.kind = "run")
  BY <1>1, <1>12, <1>13
<1>15. Handing' = {}
  BY <1>3, <1>13, <1>14 DEF Handing
<1>16. Typed'
  <2>1. calls' \subseteq Call /\ \A e \in calls' : Fits(e)
    BY <1>13, <1>14 DEF Inv, Typed, TypeOK
  <2>2. owed' \subseteq Prompts
    <3>1. owed' = owed \cup {c.prompt}
      BY DEF Record
    <3> QED BY <1>5, <3>1 DEF Inv, Typed, TypeOK
  <2>3. <<>> \in Seq(Prompts) /\ <<>> \in Seq(Event)
    OBVIOUS
  <2> QED BY <1>4, <1>7, <1>9, <1>10, <1>31, <2>1, <2>2, <2>3 DEF Inv, Typed, TypeOK
<1>17. Spared' /\ Apart'
  <2>1. turns \in Nat
    BY FollowUpAssumption DEF Inv, Typed, TypeOK
  <2> QED BY <1>4, <1>7, <1>8, <2>1 DEF Inv, Spared, Apart, ApartIn
<1>18. Stages'
  BY <1>3, <1>4, <1>9, <1>10 DEF Stages, Reading
<1>19. Alone'
  BY <1>1, <1>2, <1>12, <1>13, <1>14, <1>15 DEF Inv, Alone
<1>20. Outrun'
  BY <1>3, <1>4, <1>9, <1>15, IdleTypes DEF Outrun
<1>21. RunRow'
  BY <1>1, <1>4, <1>13, <1>14 DEF Inv, RunRow
<1>22. Afresh'
  <2>1. \A m \in messages' : m.prompt <= accepted
    BY <1>5, <1>8 DEF Inv, Afresh, HasText
  <2>2. \A e \in calls' : e.prompt <= accepted
    BY <1>1, <1>13, <1>14 DEF Inv, Afresh
  <2> QED BY <1>4, <1>31, <2>1, <2>2 DEF Inv, Afresh
<1>23. SentAlone'
  <2> SUFFICES ASSUME NEW e \in calls', e.kind = "send", ~Crossed(e.prompt)
               PROVE  /\ ~InQueue(e.prompt) /\ ~Gone(e.prompt)
                      /\ \A x \in calls' : x.prompt = e.prompt => x = e
                      /\ ~HasText(e.prompt)'
    BY <1>4, <1>15, <1>32 DEF SentAlone, InQueue, HasText, Gone
  <2>1. e \in calls /\ e # c /\ e \notin Handing
    BY <1>3, <1>13, <1>14
  <2>2. /\ ~InQueue(e.prompt) /\ ~Gone(e.prompt) /\ ~HasText(e.prompt)
        /\ \A x \in calls : x.prompt = e.prompt => x = e
    BY <2>1 DEF Inv, SentAlone
  <2> QED BY <1>1, <1>13, <1>14, <1>34, <2>1, <2>2
<1>24. Holds'
  BY <1>3, <1>4, <1>10, <1>15, IdleTypes DEF Holds
<1>25. Replying'
  BY <1>4, <1>5, <1>8, <1>10 DEF Replying, InTurnAs
<1>26. Barren'
  BY <1>3, <1>4, <1>8, <1>9, <1>10, <1>15, IdleTypes DEF Barren
<1>27. MayDrop'
  <2>1. c.kind = "run" => HasText(c.prompt)'
    BY <1>1, <1>8 DEF HasText
  <2> QED BY <1>4, <1>13, <1>14, <1>32, <1>33, <2>1 DEF Inv, MayDrop
<1>28. HandedOver'
  BY <1>15 DEF HandedOver
<1>29. Inv'
  BY <1>16, <1>17, <1>18, <1>19, <1>20, <1>21, <1>22, <1>23, <1>24, <1>25, <1>26, <1>27, <1>28 DEF Inv
<1>30. ASSUME NEW p \in Prompts \ grabbed' PROVE MayMove(p)
  <2>1. InQueue(p)' = InQueue(p) /\ ~Crossed(p)
    BY <1>4, <1>31 DEF InQueue, Crossed
  <2>2. ~RowHanding(p) /\ ~SendHanding(p) /\ ~RowHanding(p)' /\ ~SendHanding(p)'
    BY <1>3, <1>15 DEF RowHanding, SendHanding
  <2>3. p = c.prompt /\ c.msg = 0 => ~Gone(p) \/ InQueue(p)
    <3>1. CASE c.kind = "send"
      BY <1>1, <2>1, <3>1 DEF Inv, SentAlone
    <3>2. CASE c.kind = "run"
      BY <1>1, <3>2 DEF Inv, RunRow, InQueue
    <3> QED BY <1>1, <3>1, <3>2
  <2> QED BY <1>4, <1>33, <1>34, <2>1, <2>2, <2>3 DEF MayMove, Queued, Gone
<1> QED BY <1>29, <1>30, <1>31 DEF AllMayMove

\* The dispatcher's row goes.
LEMMA DropRowInv == ASSUME Inv, NEW c, DropRow(c) PROVE Inv' /\ AllMayMove
<1>1. /\ c \in calls /\ c.at = "drop" /\ c \in Call /\ c.kind = "run"
  BY DEF DropRow, Inv, Typed, TypeOK, Fits, Call
<1>2. calls' = calls \ {c} /\ queue' = Unqueued(c.row)
  BY DEF DropRow, Done
<1>3. UNCHANGED <<messages, turns, turn, open, consume, cli, waiting, closed, events, accepted, owed, deleted,
                  starts, setbacks, grabbed, left>>
  BY DEF DropRow, UnchangedTurn, provider, ghost
<1>4. Handing = {} /\ Handing' = {}
  <2>1. Handing = {}
    BY <1>1 DEF Inv, Outrun
  <2> QED BY <1>2, <2>1 DEF Handing
<1>5. PICK o \in queue : o.id = c.row /\ o.prompt = c.prompt
  BY <1>1 DEF Inv, RunRow
<1>6. queue' = queue \ {o} /\ displaced' = displaced
  BY <1>2, <1>5 DEF Unqueued, Inv, Apart, DropRow, Others, Rows
<1>7. \A e \in calls' : e.kind = "run" => e.at = "lock"
  BY <1>1, <1>2 DEF Inv, Alone
<1>8. Typed' /\ Spared' /\ Apart'
  BY <1>2, <1>3, <1>6 DEF Inv, Typed, TypeOK, Fits, Spared, Apart
<1>9. Stages' /\ Alone' /\ Outrun'
  BY <1>2, <1>3, <1>4 DEF Inv, Stages, Reading, Alone, Outrun
<1>10. RunRow' /\ MayDrop' /\ HandedOver'
  <2>1. \A e \in calls' : e.at # "drop"
    BY <1>2, <1>7 DEF Inv, Typed, TypeOK, Call, Fits
  <2> QED BY <1>4, <1>7, <2>1 DEF RunRow, MayDrop, HandedOver
<1>11. Afresh' /\ SentAlone'
  BY <1>2, <1>3, <1>4, <1>6 DEF Inv, Afresh, SentAlone, InQueue, HasText, Gone, Crossed
<1>12. Holds' /\ Replying' /\ Barren'
  <2>1. Holds'
    BY <1>3, <1>4 DEF Inv, Holds, Live
  <2>2. Replying'
    BY <1>3 DEF Inv, Replying, InTurnAs, Reading, Crossed
  <2>3. Barren'
    BY <1>3, <1>4 DEF Inv, Barren, Reading, TaskComes, Crossed
  <2> QED BY <2>1, <2>2, <2>3
<1>13. Inv'
  BY <1>8, <1>9, <1>10, <1>11, <1>12 DEF Inv
<1>14. ASSUME NEW p \in Prompts \ grabbed PROVE MayMove(p)
  <2>1. HasText(p)' = HasText(p) /\ ~Crossed(p)
    BY <1>3 DEF HasText, Crossed
  <2>2. ~RowHanding(p) /\ ~SendHanding(p) /\ ~RowHanding(p)' /\ ~SendHanding(p)'
    BY <1>4 DEF RowHanding, SendHanding
  <2>3. (InQueue(p)' => InQueue(p)) /\ (InQueue(p) /\ p # c.prompt => InQueue(p)')
    BY <1>5, <1>6 DEF InQueue
  <2>4. p = c.prompt => HasText(p) \/ InQueue(p)'
    BY <1>1, <1>5, <1>6, <2>1 DEF Inv, MayDrop, InQueue
  <2> QED BY <1>3, <1>6, <2>1, <2>2, <2>3, <2>4 DEF MayMove, Queued, Gone
<1> QED BY <1>3, <1>13, <1>14 DEF AllMayMove

\* The calls that waited for the turn go on.
LEMMA ReleasedCalls ==
    ASSUME Inv, NEW some \in SUBSET calls, calls' = Released(some)
    PROVE  /\ \A e \in calls' : \/ e \in some /\ e.at # "parked"
                                \/ \E c \in some : c.at = "parked" /\ c.kind = "force" /\ Runs(c, e)
           /\ \A c \in some : c.at # "parked" => c \in calls'
           /\ \A e \in calls' : e \in Call /\ Fits(e)
<1> DEFINE rel(c) == [c EXCEPT !.kind = "run", !.at = "lock"]
<1>1. calls' = {IF c.at = "parked" THEN rel(c) ELSE c : c \in some}
  BY DEF Released
<1>2. \A c \in some : c \in Call /\ Fits(c) /\ (c.at = "parked" => c.kind = "force" /\ c.row # 0 /\ c.msg = 0)
  BY DEF Inv, Typed, TypeOK, Fits, Call
<1>3. \A c \in some : Runs(c, rel(c))
  BY <1>2, RunsRow
<1> HIDE DEF rel
<1>4. \A e \in calls' : \/ e \in some /\ e.at # "parked"
                        \/ \E c \in some : c.at = "parked" /\ e = rel(c)
  BY <1>1
<1>5. \A c \in some : c.at = "parked" => Fits(rel(c)) /\ rel(c) \in Call
  BY <1>2, <1>3 DEF Runs, Fits
<1>6. \A c \in some : c.at # "parked" => c \in calls'
  BY <1>1
<1> QED BY <1>2, <1>3, <1>4, <1>5, <1>6

\* The turn ends.
LEMMA ReleaseInv == ASSUME Inv, Release PROVE Inv' /\ AllMayMove
<1>1. consume.pc = "untaken" /\ consume.untaken = <<>> /\ turn' = NoTurn /\ consume' = Idle
      /\ calls' = Released(calls)
  BY DEF Release
<1>2. UNCHANGED <<queue, messages, turns, open, cli, waiting, closed, events, accepted, owed, deleted, displaced,
                  starts, setbacks, grabbed, left>>
  BY DEF Release, db, provider, ghost
<1>3. /\ turn.stage = "running" /\ Handing = {} /\ open.pending = <<>> /\ ~open.followUp
      /\ ~cli.on /\ events = <<>>
  BY <1>1 DEF Inv, Stages, Reading
<1>4. \A c \in calls : c.at # "claimed"
  BY <1>3 DEF Inv, Alone
<1>5. /\ \A e \in calls' : \/ e \in calls /\ e.at # "parked"
                           \/ \E c \in calls : c.at = "parked" /\ c.kind = "force" /\ Runs(c, e)
      /\ \A c \in calls : c.at # "parked" => c \in calls'
      /\ \A e \in calls' : e \in Call /\ Fits(e)
  BY <1>1, ReleasedCalls
<1>6. \A e \in calls' : e \in calls \/ e.at = "lock"
  BY <1>5 DEF Runs
<1>7. Handing' = {}
  BY <1>3, <1>6 DEF Handing
<1>8. Typed'
  BY <1>1, <1>2, <1>5, IdleTypes DEF Inv, Typed, TypeOK
<1>9. Spared' /\ Apart'
  BY <1>2 DEF Inv, Spared, Apart
<1>10. Stages'
  BY <1>1, <1>2, <1>3, <1>7, IdleTypes DEF Stages, Reading
<1>11. Alone'
  BY <1>4, <1>6, <1>7 DEF Inv, Alone
<1>12. Outrun'
  BY <1>2, <1>3, <1>7 DEF Outrun
<1>13. RunRow' /\ MayDrop' /\ HandedOver'
  BY <1>2, <1>6, <1>7 DEF Inv, RunRow, MayDrop, HandedOver, HasText, Crossed
<1>14. Afresh'
  BY <1>2, <1>5 DEF Inv, Afresh, Runs
<1>15. SentAlone'
  <2> SUFFICES ASSUME NEW e \in calls', e.kind = "send", ~Crossed(e.prompt)
               PROVE  /\ ~InQueue(e.prompt) /\ ~Gone(e.prompt)
                      /\ \A x \in calls' : x.prompt = e.prompt => x = e
                      /\ ~HasText(e.prompt)
    BY <1>2, <1>7 DEF SentAlone, InQueue, HasText, Gone, Crossed
  <2>1. e \in calls /\ e \notin Handing
    BY <1>3, <1>5 DEF Runs
  <2>2. /\ ~InQueue(e.prompt) /\ ~Gone(e.prompt) /\ ~HasText(e.prompt)
        /\ \A x \in calls : x.prompt = e.prompt => x = e
    BY <2>1 DEF Inv, SentAlone
  <2>3. ASSUME NEW x \in calls', x.prompt = e.prompt PROVE x = e
    BY <1>5, <2>2, <2>3 DEF Runs
  <2> QED BY <2>2, <2>3
<1>16. Holds' /\ Replying' /\ Barren'
  BY <1>1, <1>2, <1>3, <1>7, IdleTypes DEF Holds, Replying, Barren, Reading
<1>17. Inv'
  BY <1>8, <1>9, <1>10, <1>11, <1>12, <1>13, <1>14, <1>15, <1>16 DEF Inv
<1>18. ASSUME NEW p \in Prompts PROVE MayMove(p)
  <2>1. InQueue(p)' = InQueue(p) /\ HasText(p)' = HasText(p) /\ deleted' = deleted
    BY <1>2 DEF InQueue, HasText
  <2>2. ~RowHanding(p) /\ ~SendHanding(p) /\ ~RowHanding(p)' /\ ~SendHanding(p)'
    BY <1>3, <1>7 DEF RowHanding, SendHanding
  <2> QED BY <1>2, <2>1, <2>2 DEF MayMove, Queued, Gone
<1> QED BY <1>2, <1>17, <1>18 DEF AllMayMove

\* A message that was queued or edited away leaves no turn behind.
LEMMA DiscardInv == ASSUME Inv, NEW c, Discard(c) PROVE Inv' /\ AllMayMove
<1>1. c \in calls /\ c.at = "claimed" /\ turn' = NoTurn /\ calls' = Released(calls \ {c})
  BY DEF Discard
<1>2. UNCHANGED <<queue, messages, turns, open, consume, cli, waiting, closed, events, accepted, owed, deleted,
                  displaced, starts, setbacks, grabbed, left>>
  BY DEF Discard, db, provider, ghost
<1>3. turn.stage = "claimed" /\ \A e \in calls : e.at = "claimed" => e = c
  BY <1>1 DEF Inv, Alone
<1>4. /\ consume = Idle /\ Handing = {} /\ ~cli.on /\ events = <<>>
      /\ open.pending = <<>> /\ ~open.followUp
  BY <1>3, WithoutTurn
<1>5. /\ \A e \in calls' : \/ e \in calls /\ e # c /\ e.at # "parked"
                           \/ \E x \in calls : x.at = "parked" /\ x.kind = "force" /\ Runs(x, e)
      /\ \A e \in calls' : e \in Call /\ Fits(e)
  <2>1. (calls \ {c}) \in SUBSET calls
    OBVIOUS
  <2> QED BY <1>1, <2>1, ReleasedCalls
<1>6. \A e \in calls' : (e \in calls /\ e # c) \/ e.at = "lock"
  BY <1>5 DEF Runs
<1>7. Handing' = {}
  BY <1>4, <1>6 DEF Handing
<1>8. Typed'
  BY <1>1, <1>2, <1>5, IdleTypes DEF Inv, Typed, TypeOK
<1>9. Spared' /\ Apart'
  BY <1>2 DEF Inv, Spared, Apart
<1>10. Stages'
  BY <1>1, <1>2, <1>4, <1>7, IdleTypes DEF Stages, Reading
<1>11. Alone'
  BY <1>3, <1>6, <1>7 DEF Inv, Alone
<1>12. Outrun'
  BY <1>2, <1>4, <1>7 DEF Outrun
<1>13. RunRow' /\ MayDrop' /\ HandedOver'
  BY <1>2, <1>6, <1>7 DEF Inv, RunRow, MayDrop, HandedOver, HasText, Crossed
<1>14. Afresh'
  BY <1>2, <1>5 DEF Inv, Afresh, Runs
<1>15. SentAlone'
  <2> SUFFICES ASSUME NEW e \in calls', e.kind = "send", ~Crossed(e.prompt)
               PROVE  /\ ~InQueue(e.prompt) /\ ~Gone(e.prompt)
                      /\ \A x \in calls' : x.prompt = e.prompt => x = e
                      /\ ~HasText(e.prompt)
    BY <1>2, <1>7 DEF SentAlone, InQueue, HasText, Gone, Crossed
  <2>1. e \in calls /\ e \notin Handing
    BY <1>4, <1>5 DEF Runs
  <2>2. /\ ~InQueue(e.prompt) /\ ~Gone(e.prompt) /\ ~HasText(e.prompt)
        /\ \A x \in calls : x.prompt = e.prompt => x = e
    BY <2>1 DEF Inv, SentAlone
  <2>3. ASSUME NEW x \in calls', x.prompt = e.prompt PROVE x = e
    BY <1>5, <2>2, <2>3 DEF Runs
  <2> QED BY <2>2, <2>3
<1>16. Holds' /\ Replying' /\ Barren'
  BY <1>2, <1>4, <1>7, IdleTypes DEF Holds, Replying, Barren, Reading
<1>17. Inv'
  BY <1>8, <1>9, <1>10, <1>11, <1>12, <1>13, <1>14, <1>15, <1>16 DEF Inv
<1>18. UNCHANGED <<queue, messages, deleted, displaced, grabbed, Handing>>
  BY <1>2, <1>4, <1>7
<1> QED BY <1>17, <1>18, NothingMoves

\* A crash leaves the database as it is.
LEMMA CrashInv == ASSUME Inv, Crash PROVE Inv' /\ AllMayMove
<1>1. /\ turn' = NoTurn /\ open' = Fresh /\ consume' = Idle /\ calls' = {}
      /\ cli' = NoCli /\ waiting' = <<>> /\ closed' = FALSE /\ events' = <<>>
      /\ setbacks' = [p \in Prompts |-> setbacks[p] + 1]
      /\ UNCHANGED <<queue, messages, turns, accepted, owed, deleted, displaced, starts, grabbed>>
  BY DEF Crash, db
<1>2. left' \in [Kinds -> Nat] /\ \A k \in Kinds : left'[k] <= left[k]
  BY SpendLess DEF Crash, Kinds, Inv
<1>3. Handing' = {}
  BY <1>1 DEF Handing
<1>4. Typed'
  <2>1. setbacks' \in [Prompts -> Nat]
    <3>1. \A p \in Prompts : setbacks[p] \in Nat
      BY DEF Inv, Typed, TypeOK
    <3> QED BY <1>1, <3>1
  <2>2. <<>> \in Seq(Prompts) /\ <<>> \in Seq(Event)
    OBVIOUS
  <2> QED BY <1>1, <1>2, <2>1, <2>2, IdleTypes DEF Inv, Typed, TypeOK
<1>5. Spared' /\ Apart'
  BY <1>1, <1>2, SparedKept DEF Inv, Apart
<1>6. Stages' /\ Holds' /\ Replying' /\ Barren' /\ Outrun'
  BY <1>1, <1>3, IdleTypes DEF Stages, Holds, Replying, Barren, Reading, Outrun
<1>7. Alone' /\ RunRow' /\ SentAlone' /\ MayDrop' /\ HandedOver'
  BY <1>1, <1>3 DEF Alone, RunRow, SentAlone, MayDrop, HandedOver
<1>8. Afresh'
  BY <1>1 DEF Inv, Afresh
<1>9. Inv'
  BY <1>4, <1>5, <1>6, <1>7, <1>8 DEF Inv
<1>10. ASSUME NEW p \in Prompts \ grabbed PROVE MayMove(p)
  <2>1. InQueue(p)' = InQueue(p) /\ HasText(p)' = HasText(p) /\ deleted' = deleted
    BY <1>1 DEF InQueue, HasText
  <2>2. ~RowHanding(p)' /\ ~SendHanding(p)'
    BY <1>3 DEF RowHanding, SendHanding
  <2>3. RowHanding(p) => InQueue(p) \/ HasText(p) \/ Gone(p)
    BY DEF RowHanding, Inv, HandedOver, Stored, Crossed
  <2> QED BY <1>1, <2>1, <2>2, <2>3 DEF MayMove, Queued, Gone
<1> QED BY <1>1, <1>9, <1>10 DEF AllMayMove
-----------------------------------------------------------------------------
(* consume                                                                  *)

\* A message of the transcript that no call hands over, unless it is crossed.
Other(o) == o \in messages /\ (Crossed(o.prompt)' \/ o.turn # 0 \/ \A c \in Handing : c.msg # o.id)

\* What was no prompt of this turn's text is not a prompt that is sent.
LEMMA OthersPrompt ==
    ASSUME Inv, grabbed \subseteq grabbed', NEW o, Other(o),
           NEW c \in calls, c.kind = "send", ~Crossed(c.prompt)'
    PROVE  o.prompt # c.prompt
<1>1. ~Crossed(c.prompt)
  BY CrossedStays
<1>2. CASE c \notin Handing
  BY <1>1, <1>2 DEF Other, Inv, SentAlone, HasText
<1>3. CASE c \in Handing
  <2> SUFFICES ASSUME o.prompt = c.prompt PROVE FALSE
    OBVIOUS
  <2>1. o \in messages /\ (o.turn # 0 \/ o.id # c.msg)
    BY <1>3 DEF Other
  <2>2. PICK n \in messages : n.id = c.msg /\ n.prompt = c.prompt /\ n.turn = 0
    BY <1>1, <1>3 DEF Inv, SentAlone
  <2>3. o.id = c.msg
    BY <1>1, <1>3, <2>1 DEF Inv, SentAlone
  <2> QED BY <2>1, <2>2, <2>3 DEF Inv, Apart
<1> QED BY <1>2, <1>3

\* What every step of consume leaves of the rows and of the transcript.
ConsumeMoves ==
    /\ UNCHANGED <<turns, turn, calls, cli, waiting, closed, accepted, owed, deleted,
                   starts, setbacks, displaced, left>>
    /\ grabbed \subseteq grabbed' /\ grabbed' \subseteq Prompts /\ \A p \in grabbed' : p <= accepted
    /\ queue \subseteq queue' /\ queue' \subseteq QueueRow /\ \A a, b \in queue' : a.id = b.id => a = b
    /\ messages' \subseteq Message /\ ApartIn(messages') /\ \A m \in messages' : m.turn <= turns
    /\ open' \in Open /\ consume' \in Consume /\ events' \in Seq(Event)
    /\ \A r \in queue' \ queue :
          Crossed(r.prompt)' \/ \E o \in messages : Other(o) /\ o.prompt = r.prompt
    /\ \A m \in messages' \ messages : m.prompt = 0 \/ \E o \in messages : Other(o) /\ o.prompt = m.prompt
    /\ \A m \in messages \ messages' : m.prompt = 0 \/ Other(m)
    /\ \A m \in messages : m.prompt # 0 =>
          \/ Crossed(m.prompt)' \/ HasText(m.prompt)'
          \/ \E r \in queue' : r.prompt = m.prompt /\ \A o \in queue : o.id # r.id

Rests == Stages /\ Outrun /\ Holds /\ Replying /\ Barren

\* Such a step keeps the invariant and the promise.
LEMMA ConsumeMovesInv ==
    ASSUME Inv, ConsumeMoves, Rests'
    PROVE  Inv' /\ AllMayMove
<1>1. /\ UNCHANGED <<turns, turn, calls, cli, waiting, closed, accepted, owed, deleted,
                     starts, setbacks, displaced, left>>
      /\ queue \subseteq queue' /\ Handing' = Handing
      /\ grabbed \subseteq grabbed' /\ \A p \in grabbed' : p <= accepted
  BY DEF ConsumeMoves, Handing
<1>2. Typed'
  BY <1>1 DEF ConsumeMoves, Inv, Typed, TypeOK, Fits
<1>3. Spared' /\ Apart' /\ Alone'
  BY <1>1 DEF ConsumeMoves, Inv, Spared, Apart, ApartIn, Alone
<1>4. RunRow'
  BY <1>1 DEF Inv, RunRow
<1>5. /\ \A r \in queue' : r \in queue \/ HasText(r.prompt) \/ Crossed(r.prompt)'
      /\ \A m \in messages' : m.prompt # 0 => HasText(m.prompt)
      /\ \A p : p # 0 /\ HasText(p) => \/ Crossed(p)' \/ HasText(p)'
                                        \/ \E r \in queue' : r.prompt = p /\ \A o \in queue : o.id # r.id
  BY DEF ConsumeMoves, HasText
<1>6. Afresh'
  <2>1. \A p : HasText(p) => p <= accepted
    BY DEF Inv, Afresh, HasText
  <2>2. accepted \in Nat
    BY DEF Inv, Typed, TypeOK
  <2>3. \A m \in messages' : m.prompt = 0 \/ m.prompt <= accepted
    BY <1>5, <2>1
  <2>4. \A r \in queue' : r.prompt <= accepted
    BY <1>1, <1>5, <2>1 DEF Inv, Afresh, Crossed
  <2>5. \A p \in deleted \cup displaced : p <= accepted
    BY DEF Inv, Afresh
  <2> QED BY <1>1, <2>2, <2>3, <2>4, <2>5 DEF Inv, Afresh
<1>7. \A c \in calls : c.prompt \in Prompts /\ c.prompt # 0
  BY NatIds DEF Inv, Typed, TypeOK, Call
<1>8. \A p : Crossed(p) => Crossed(p)'
  BY <1>1, CrossedStays
<1>9. SentAlone'
  <2> SUFFICES ASSUME NEW c \in calls, c.kind = "send", ~Crossed(c.prompt)'
               PROVE  /\ ~InQueue(c.prompt)' /\ ~Gone(c.prompt)'
                      /\ \A d \in calls : d.prompt = c.prompt => d = c
                      /\ c \notin Handing => ~HasText(c.prompt)'
                      /\ c \in Handing =>
                            /\ \E m \in messages' : m.id = c.msg /\ m.prompt = c.prompt /\ m.turn = 0
                            /\ \A m \in messages' : m.prompt = c.prompt => m.id = c.msg
    BY <1>1 DEF SentAlone, InQueue, HasText, Crossed
  <2>1. \A o : Other(o) => o.prompt # c.prompt
    BY <1>1, OthersPrompt
  <2>2. \A m : m.prompt = c.prompt => (m \in messages' <=> m \in messages)
    BY <1>7, <2>1 DEF ConsumeMoves
  <2>3. ~Crossed(c.prompt)
    BY <1>8
  <2>4. \A r \in queue' \ queue : r.prompt # c.prompt
    BY <2>1 DEF ConsumeMoves
  <2>5. ~InQueue(c.prompt)'
    BY <2>3, <2>4 DEF InQueue, Inv, SentAlone
  <2>6. ~Gone(c.prompt)'
    BY <1>1, <2>3 DEF Gone, Inv, SentAlone
  <2> QED BY <2>2, <2>3, <2>5, <2>6 DEF Inv, SentAlone, HasText
<1>10. MayDrop'
  <2> SUFFICES ASSUME NEW c \in calls, c.at = "drop"
               PROVE  \/ Crossed(c.prompt)' \/ HasText(c.prompt)'
                      \/ \E r \in queue' : r.prompt = c.prompt /\ r.id # c.row
    BY <1>1 DEF MayDrop, Crossed
  <2>1. c.kind = "run"
    BY DEF Inv, Typed, TypeOK, Fits, Call
  <2>2. \E r \in queue : r.id = c.row
    BY <2>1 DEF Inv, RunRow
  <2> QED BY <1>1, <1>5, <1>7, <1>8, <2>2 DEF Inv, MayDrop
<1>11. HandedOver'
  <2> SUFFICES ASSUME NEW c \in Handing, c.row # 0
               PROVE  Crossed(c.prompt)' \/ Stored(c.prompt)' \/ Gone(c.prompt)'
    BY <1>1 DEF HandedOver, Crossed
  <2>1. c.prompt # 0
    BY <1>7 DEF Handing
  <2>2. InQueue(c.prompt) => InQueue(c.prompt)'
    BY <1>1 DEF InQueue
  <2>3. HasText(c.prompt) => Stored(c.prompt)' \/ Crossed(c.prompt)'
    BY <1>5, <2>1 DEF Stored, InQueue
  <2>4. Gone(c.prompt)' = Gone(c.prompt)
    BY <1>1 DEF Gone
  <2> QED BY <1>8, <2>2, <2>3, <2>4 DEF Inv, HandedOver, Stored
<1>12. Inv'
  BY <1>2, <1>3, <1>4, <1>6, <1>9, <1>10, <1>11 DEF Inv, Rests
<1>13. ASSUME NEW p \in Prompts, p \notin grabbed' PROVE MayMove(p)
  <2>1. RowHanding(p)' = RowHanding(p) /\ SendHanding(p)' = SendHanding(p) /\ deleted' = deleted /\ displaced' = displaced
    BY <1>1 DEF RowHanding, SendHanding
  <2>2. p # 0 /\ ~Crossed(p)'
    BY <1>13, NatIds DEF Crossed
  <2>3. (InQueue(p) => InQueue(p)') /\ (InQueue(p)' => InQueue(p) \/ HasText(p))
    BY <1>1, <1>5, <2>2 DEF InQueue
  <2>4. (HasText(p)' => HasText(p)) /\ (HasText(p) => HasText(p)' \/ InQueue(p)')
    <3>1. HasText(p)' => HasText(p)
      BY <1>5, <2>2 DEF HasText
    <3> QED BY <1>5, <2>2, <3>1 DEF InQueue
  <2> QED BY <2>1, <2>3, <2>4 DEF MayMove, Queued, Gone
<1> QED BY <1>1, <1>12, <1>13 DEF AllMayMove

\* An event is taken.
LEMMA NextEvent ==
    ASSUME Inv, NEW type, Consuming(type)
    PROVE  /\ events' \in Seq(Event) /\ Coming \in Event /\ Coming.type = type
           /\ 1 \in DOMAIN events /\ events[1] = Coming /\ DOMAIN events' \subseteq Nat
           /\ \A i \in DOMAIN events' : i + 1 \in DOMAIN events /\ events'[i] = events[i + 1]
           /\ \A i \in Nat : TaskComes(i + 1) /\ type # "task" =>
                 \E j \in DOMAIN events' : j < i /\ events'[j].type = "task"
           /\ Len(events) \in Nat /\ Len(events') = Len(events) - 1
<1>1. events \in Seq(Event) /\ events # <<>> /\ events' = Tail(events) /\ Coming = Head(events) /\ Coming.type = type
  BY DEF Consuming, Coming, Inv, Typed, TypeOK
<1>2. /\ events' \in Seq(Event) /\ Len(events') = Len(events) - 1 /\ Len(events) \in Nat \ {0}
      /\ DOMAIN events = 1..Len(events) /\ DOMAIN events' = 1..(Len(events) - 1)
      /\ \A i \in 1..(Len(events) - 1) : events'[i] = events[i + 1]
      /\ Coming = events[1] /\ Coming \in Event
  BY <1>1, Tails
<1>3. ASSUME NEW i \in Nat, TaskComes(i + 1), type # "task"
      PROVE  \E j \in DOMAIN events' : j < i /\ events'[j].type = "task"
  <2>1. PICK j \in DOMAIN events : j < i + 1 /\ events[j].type = "task"
    BY <1>3 DEF TaskComes
  <2>2. j # 1
    BY <1>1, <1>2, <1>3, <2>1
  <2>3. j - 1 \in DOMAIN events' /\ j - 1 < i /\ events'[j - 1] = events[j]
    BY <1>2, <2>1, <2>2
  <2> QED BY <2>1, <2>3
<1> QED BY <1>1, <1>2, <1>3

\* An event that is read does not let a reply overtake the dispatcher.
LEMMA OutrunKept ==
    ASSUME Inv, NEW type, Consuming(type), open'.followUp = open.followUp
    PROVE  Outrun'
<1>1. \A i \in DOMAIN events' : i + 1 \in DOMAIN events /\ events'[i] = events[i + 1]
  BY NextEvent
<1>2. calls' = calls /\ Handing' = Handing
  BY DEF Consuming, Handing
<1> QED BY <1>1, <1>2 DEF Inv, Outrun

\* What prose leaves as it was.
LEMMA ProseKeeps ==
    ASSUME Inv, Prose(messages, messages'), turns' = turns, turns > 0
    PROVE  /\ \A x : Live(x) => Live(x)'
           /\ \A p, x : InTurnAs(p, x) => InTurnAs(p, x)'
           /\ messages \subseteq messages' /\ messages' \subseteq Message /\ ApartIn(messages')
           /\ \A m \in messages' \ messages : m.prompt = 0
           /\ \A m \in messages' : m.turn <= turns
           /\ \A m \in messages : HasText(m.prompt)'
<1>1. turns \in Nat /\ \A m \in messages : m.turn <= turns
  BY FollowUpAssumption DEF Inv, Typed, TypeOK, Apart
<1> QED BY <1>1 DEF Prose, Live, InTurnAs, HasText

\* A turn that is read.
LEMMA WhileReading ==
    ASSUME Inv, Reading
    PROVE  /\ turn.stage = "running" /\ turns > 0 /\ turns \in 0..MaxTurns
           /\ messages \subseteq Message /\ ApartIn(messages) /\ consume \in Consume /\ open \in Open
           /\ consume.untaken = <<>>
<1>1. turn.stage = "running" /\ turns > 0 /\ consume.untaken = <<>>
  BY DEF Inv, Stages, Reading
<1> QED BY <1>1 DEF Inv, Typed, TypeOK, Apart, ApartIn

\* A step that writes prose at most, and goes on reading.
Plainly ==
    /\ consume' \in Consume /\ consume'.pc = "loop"
    /\ consume'.id = consume.id /\ consume'.untaken = consume.untaken
    /\ consume.produced => consume'.produced
    /\ consume'.inFlight = consume.inFlight /\ consume'.inFlightMsg = consume.inFlightMsg
    /\ \/ consume'.interrupted = consume.interrupted /\ consume'.interruptedMsg = consume.interruptedMsg
       \/ consume'.interrupted = consume.inFlight /\ consume'.interruptedMsg = consume.inFlightMsg

\* An event that changes prose only keeps all.
LEMMA PlainInv ==
    ASSUME Inv, NEW type, Consuming(type), UNCHANGED open, Prose(messages, messages'), Plainly,
           type = "task" => consume'.produced
    PROVE  Inv' /\ AllMayMove
<1>1. consume.pc = "loop" /\ Reading
  BY DEF Consuming, Reading
<1>2. /\ turn.stage = "running" /\ turns > 0 /\ turns \in 0..MaxTurns
      /\ consume.untaken = <<>>
  BY <1>1, WhileReading
<1>3. UNCHANGED <<queue, turns, turn, calls, cli, waiting, closed, accepted, owed, deleted,
                  starts, setbacks, grabbed, displaced, left>>
  BY DEF Consuming, ghost
<1>4. /\ \A x : Live(x) => Live(x)'
      /\ \A p, x : InTurnAs(p, x) => InTurnAs(p, x)'
      /\ messages \subseteq messages' /\ messages' \subseteq Message /\ ApartIn(messages')
      /\ \A m \in messages' \ messages : m.prompt = 0
      /\ \A m \in messages' : m.turn <= turns
      /\ \A m \in messages : HasText(m.prompt)'
  BY <1>2, <1>3, ProseKeeps
<1>5. /\ events' \in Seq(Event) /\ DOMAIN events' \subseteq Nat
      /\ \A i \in DOMAIN events' : i + 1 \in DOMAIN events /\ events'[i] = events[i + 1]
      /\ \A i \in Nat : TaskComes(i + 1) /\ type # "task" =>
            \E j \in DOMAIN events' : j < i /\ events'[j].type = "task"
      /\ Len(events) \in Nat /\ Len(events') = Len(events) - 1 /\ Len(events') \in Nat
  <2>1. events' \in Seq(Event)
    BY NextEvent
  <2> QED BY <2>1, NextEvent
<1>6. ConsumeMoves
  <2>1. queue \subseteq QueueRow /\ (\A a, b \in queue : a.id = b.id => a = b) /\ open \in Open
    BY DEF Inv, Typed, TypeOK, Apart
  <2>2. grabbed \subseteq Prompts /\ \A p \in grabbed : p <= accepted
    BY DEF Inv, Typed, TypeOK, Afresh
  <2> QED BY <1>3, <1>4, <1>5, <2>1, <2>2 DEF ConsumeMoves, Plainly
<1>7. Stages'
  BY <1>1, <1>2, <1>3 DEF Inv, Stages, Reading, Plainly
<1>8. Outrun'
  BY OutrunKept
<1>9. Holds'
  <2>1. Handing' = Handing
    BY <1>3 DEF Handing
  <2> QED BY <1>4, <2>1 DEF Inv, Holds, Plainly, Consuming
<1>10. Replying'
  <2>1. /\ consume.inFlight # 0 => Crossed(consume.inFlight) \/ InTurnAs(consume.inFlight, consume.inFlightMsg)
        /\ consume.inFlight = 0 => consume.inFlightMsg = 0
        /\ consume.interrupted # 0 => Crossed(consume.interrupted) \/ InTurnAs(consume.interrupted, consume.interruptedMsg)
        /\ consume.interrupted = 0 => consume.interruptedMsg = 0
    BY <1>1 DEF Inv, Replying
  <2>2. PICK i, im, j, jm : /\ i = consume'.inFlight /\ im = consume'.inFlightMsg
                            /\ j = consume'.interrupted /\ jm = consume'.interruptedMsg
    OBVIOUS
  <2>3. \A p, x : Crossed(p) \/ InTurnAs(p, x) => Crossed(p)' \/ InTurnAs(p, x)'
    BY <1>3, <1>4 DEF Crossed
  <2>4. /\ i # 0 => Crossed(i)' \/ InTurnAs(i, im)'
        /\ i = 0 => im = 0
        /\ j # 0 => Crossed(j)' \/ InTurnAs(j, jm)'
        /\ j = 0 => jm = 0
    BY <2>1, <2>2, <2>3 DEF Plainly
  <2> QED BY <2>2, <2>4 DEF Replying, InTurnAs, Crossed
<1>11. Barren'
  <2> SUFFICES ASSUME ~consume'.produced
               PROVE  /\ open.pending = <<>> /\ ~open.followUp
                      /\ Handing' = {} /\ waiting = <<>>
                      /\ cli.tasks => \E j \in DOMAIN events' : j < Len(events') + 1 /\ events'[j].type = "task"
                      /\ \A i \in DOMAIN events' :
                            /\ events'[i].type = "done" /\ events'[i].open =>
                                  \E j \in DOMAIN events' : j < i /\ events'[j].type = "task"
                            /\ events'[i].type # "taken"
                      /\ \A m \in messages' : m.turn = turns /\ m.prompt # 0 /\ ~Crossed(m.prompt) =>
                            /\ consume'.inFlight # 0 => m.prompt = consume'.inFlight
                            /\ consume'.interrupted # 0 => m.prompt = consume'.interrupted
    BY <1>3 DEF Barren, Plainly, TaskComes, Crossed
  <2>1. ~consume.produced /\ type # "task"
    BY DEF Plainly
  <2>2. /\ open.pending = <<>> /\ ~open.followUp
        /\ Handing = {} /\ waiting = <<>>
        /\ cli.tasks => TaskComes(Len(events) + 1)
        /\ \A i \in DOMAIN events : /\ events[i].type = "done" /\ events[i].open => TaskComes(i)
                                    /\ events[i].type # "taken"
        /\ \A m \in messages : m.turn = turns /\ m.prompt # 0 /\ ~Crossed(m.prompt) =>
              /\ consume.inFlight # 0 => m.prompt = consume.inFlight
              /\ consume.interrupted # 0 => m.prompt = consume.interrupted
    BY <1>1, <2>1 DEF Inv, Barren
  <2>3. Handing' = {}
    BY <1>3, <2>2 DEF Handing
  <2>4. cli.tasks => \E j \in DOMAIN events' : j < Len(events') + 1 /\ events'[j].type = "task"
    <3>1. Len(events') + 1 = Len(events)
      BY <1>5
    <3> QED BY <1>5, <2>1, <2>2, <3>1
  <2> QED BY <1>4, <1>5, <2>1, <2>2, <2>3, <2>4 DEF Plainly
<1> QED BY <1>6, <1>7, <1>8, <1>9, <1>10, <1>11, ConsumeMovesInv DEF Rests

\* No prose is prose.
LEMMA SameProse == ASSUME Inv, messages' = messages PROVE Prose(messages, messages')
BY DEF Inv, Typed, TypeOK, Apart, ApartIn, Prose

\* Neither is more than prose what flushText stores.
LEMMA FlushedProse ==
    ASSUME Inv, NEW said, NEW ms \in Flushed(messages, said)
    PROVE  Prose(messages, ms)
<1>1. messages \subseteq Message /\ ApartIn(messages) /\ turns \in 0..MaxTurns
  BY DEF Inv, Typed, TypeOK, Apart, ApartIn
<1> QED BY <1>1, Flushes

\* Text, a task and an error are such events.
LEMMA OnTextInv == ASSUME Inv, OnText PROVE Inv' /\ AllMayMove
<1>1. Consuming("text") /\ UNCHANGED <<messages, open>> /\ consume' = [consume EXCEPT !.said = TRUE]
  BY DEF OnText
<1>2. consume \in Consume /\ consume.pc = "loop"
  BY <1>1 DEF Consuming, Inv, Typed, TypeOK
<1>3. Plainly
  <2>1. consume' \in Consume
    BY <1>1, <1>2 DEF Consume
  <2> QED BY <1>1, <1>2, <2>1 DEF Plainly, Consume
<1> QED BY <1>1, <1>3, SameProse, PlainInv

LEMMA OnTaskInv == ASSUME Inv, OnTask PROVE Inv' /\ AllMayMove
<1>1. /\ Consuming("task") /\ UNCHANGED open
      /\ consume' = [consume EXCEPT !.said = FALSE, !.produced = TRUE]
  BY DEF OnTask
<1>2. consume \in Consume /\ consume.pc = "loop"
  BY <1>1 DEF Consuming, Inv, Typed, TypeOK
<1>3. Plainly /\ consume'.produced
  <2>1. consume' \in Consume
    BY <1>1, <1>2 DEF Consume
  <2> QED BY <1>1, <1>2, <2>1 DEF Plainly, Consume
<1>4. Prose(messages, messages')
  <2>1. PICK ms \in Flushed(messages, consume.said) : messages' \in Flushed(ms, TRUE)
    BY DEF OnTask
  <2>2. Prose(messages, ms)
    BY <2>1, FlushedProse
  <2>3. turns \in 0..MaxTurns /\ ms \subseteq Message /\ ApartIn(ms)
    BY <2>2 DEF Prose, Inv, Typed, TypeOK
  <2>4. Prose(ms, messages')
    BY <2>1, <2>3, Flushes
  <2> QED BY <2>2, <2>4, ProseTwice
<1> QED BY <1>1, <1>3, <1>4, PlainInv

LEMMA OnErrorInv == ASSUME Inv, OnError PROVE Inv' /\ AllMayMove
<1>1. PICK type \in {"error", "away"} :
        /\ Consuming(type)
        /\ \E id \in MsgIds : IsNewMsg(messages, id) /\ messages' = Added(messages, 0, turns, id)
        /\ consume' = [consume EXCEPT
               !.failure = IF type = "away" THEN "away" ELSE "fault",
               !.interrupted = consume.inFlight,
               !.interruptedMsg = consume.inFlightMsg]
        /\ UNCHANGED open
  BY DEF OnError
<1>2. consume \in Consume /\ consume.pc = "loop"
  BY <1>1 DEF Consuming, Inv, Typed, TypeOK
<1>3. Plainly
  <2>1. consume' \in Consume
    BY <1>1, <1>2 DEF Consume
  <2> QED BY <1>1, <1>2, <2>1 DEF Plainly, Consume
<1>4. Prose(messages, messages')
  <2>1. PICK id \in MsgIds : IsNewMsg(messages, id) /\ messages' = Added(messages, 0, turns, id)
    BY <1>1
  <2>2. messages' \in Flushed(messages, TRUE)
    BY <2>1 DEF Flushed
  <2> QED BY <2>2, FlushedProse
<1> QED BY <1>1, <1>3, <1>4, PlainInv

\* The oldest prompt held is taken off, to join.
LEMMA OnTakenInv == ASSUME Inv, OnTaken PROVE Inv' /\ AllMayMove
<1>1. Consuming("taken") /\ UNCHANGED messages /\ Handing = {}
  BY DEF OnTaken, Unlocked
<1>2. consume \in Consume /\ consume.pc = "loop" /\ Reading /\ open \in Open /\ open.pending \in Seq(MsgIds)
  BY <1>1 DEF Consuming, Inv, Typed, TypeOK, Reading, Open
<1>3. CASE open.pending = <<>>
  <2>1. UNCHANGED <<open, consume>>
    BY <1>3 DEF OnTaken
  <2>2. Plainly
    BY <1>2, <2>1 DEF Plainly
  <2> QED BY <1>1, <2>1, <2>2, SameProse, PlainInv
<1>4. CASE open.pending # <<>>
  <2> DEFINE s == open.pending
             id == Head(s)
  <2>1. /\ open' = [open EXCEPT !.pending = Tail(s)]
        /\ consume' = [consume EXCEPT !.pc = "join", !.id = id, !.prompt = Coming.prompt]
    BY <1>4 DEF OnTaken
  <2>2. Tail(s) \in Seq(MsgIds) /\ id \in MsgIds /\ id # 0 /\ InSeq(s) = {id} \cup InSeq(Tail(s))
    BY <1>2, <1>4, Tails, InSeqTail, NatIds
  <2>3. NoneSentAgain => Once(Tail(s)) /\ id \notin InSeq(Tail(s))
    <3>1. NoneSentAgain => Once(s)
      BY DEF Inv, Holds
    <3> QED BY <1>2, <1>4, <3>1, OnceTail
  <2>4. Coming.prompt \in OrNone
    <3>1. Coming \in Event
      BY <1>1, NextEvent
    <3> QED BY <3>1 DEF Event
  <2> HIDE DEF s, id
  <2>5. open' \in Open /\ open'.pending = Tail(s) /\ open'.followUp = open.followUp
    BY <1>2, <2>1, <2>2 DEF Open
  <2>6. /\ consume' \in Consume
        /\ consume'.pc = "join" /\ consume'.id = id
        /\ consume'.untaken = consume.untaken /\ consume'.produced = consume.produced
        /\ consume'.inFlight = consume.inFlight /\ consume'.inFlightMsg = consume.inFlightMsg
        /\ consume'.interrupted = consume.interrupted /\ consume'.interruptedMsg = consume.interruptedMsg
    <3>1. consume' \in Consume
      BY <1>2, <2>1, <2>2, <2>4 DEF Consume, Ids
    <3> QED BY <1>2, <2>1, <3>1 DEF Consume
  <2>7. /\ turn.stage = "running" /\ turns > 0 /\ turns \in 0..MaxTurns
        /\ messages \subseteq Message /\ ApartIn(messages)
        /\ consume.untaken = <<>>
    BY <1>2, WhileReading
  <2>8. UNCHANGED <<queue, messages, turns, turn, calls, cli, waiting, closed, accepted, owed, deleted,
                    starts, setbacks, grabbed, displaced, left>>
    BY <1>1 DEF Consuming, ghost
  <2>9. events' \in Seq(Event)
    BY <1>1, NextEvent
  <2>10. InSeq(open'.pending) \subseteq InSeq(open.pending) /\ id \in InSeq(open.pending)
    BY <2>2, <2>5 DEF s
  <2>11. ConsumeMoves
    <3>1. queue \subseteq QueueRow /\ (\A a, b \in queue : a.id = b.id => a = b)
          /\ \A m \in messages : m.turn <= turns
      BY DEF Inv, Typed, TypeOK, Apart
    <3>2. \A m \in messages : HasText(m.prompt)'
      BY <2>8 DEF HasText
    <3>3. grabbed \subseteq Prompts /\ \A p \in grabbed : p <= accepted
      BY DEF Inv, Typed, TypeOK, Afresh
    <3> QED BY <2>5, <2>6, <2>7, <2>8, <2>9, <2>10, <3>1, <3>2, <3>3 DEF ConsumeMoves
  <2>12. Stages'
    BY <1>2, <2>2, <2>6, <2>7, <2>8 DEF Inv, Stages, Reading
  <2>13. Outrun'
    BY <1>1, <2>5, OutrunKept
  <2>14. Holds'
    <3> SUFFICES ASSUME NoneSentAgain PROVE Holds'
      BY DEF Holds
    <3>1. \A x \in InSeq(open.pending) : Live(x)'
      BY <2>8 DEF Inv, Holds, Live
    <3>2. InSeq(<<>>) = {} /\ Once(<<>>)
      BY IdleTypes
    <3>3. Handing' = {}
      BY <1>1, <2>8 DEF Handing
    <3> QED BY <2>3, <2>5, <2>6, <2>7, <2>10, <3>1, <3>2, <3>3 DEF Holds
  <2>15. Replying'
    BY <1>2, <2>6, <2>8 DEF Inv, Replying, InTurnAs, Crossed
  <2>16. Barren'
    BY <1>2, <1>4, <2>6 DEF Inv, Barren
  <2> QED BY <2>11, <2>12, <2>13, <2>14, <2>15, <2>16, ConsumeMovesInv DEF Rests
<1> QED BY <1>3, <1>4

\* A message that leaves its turn stays where it is.
LEMMA Detaches ==
    ASSUME NEW ms, ms \subseteq Message, ApartIn(ms), NEW x, NEW ns, ns = Detached(ms, x)
    PROVE  /\ ns \subseteq Message /\ ApartIn(ns)
           /\ \A m \in ms : m.turn = 0 => m \in ns
           /\ \A m \in ms : m.id # x => m \in ns
           /\ \A m \in ms : \E n \in ns : n.id = m.id /\ n.prompt = m.prompt
           /\ \A n \in ns : n \in ms \/ (n.turn = 0 /\ n.id = x /\ \E m \in ms : m.id = x /\ m.prompt = n.prompt)
<1> DEFINE out(m) == [m EXCEPT !.turn = 0]
<1>1. ns = {IF m.id = x THEN out(m) ELSE m : m \in ms}
  BY DEF Detached
<1>2. \A m \in ms : /\ out(m) \in Message /\ out(m).id = m.id /\ out(m).prompt = m.prompt /\ out(m).turn = 0
                    /\ m.turn = 0 => out(m) = m
  <2> SUFFICES ASSUME NEW m \in ms
               PROVE  /\ out(m) \in Message /\ out(m).id = m.id /\ out(m).prompt = m.prompt /\ out(m).turn = 0
                      /\ m.turn = 0 => out(m) = m
    OBVIOUS
  <2>1. m \in Message
    OBVIOUS
  <2> QED BY <2>1, FollowUpAssumption DEF Message
<1> HIDE DEF out
<1>3. \A n \in ns : n \in ms \/ \E m \in ms : m.id = x /\ n = out(m)
  BY <1>1
<1>4. \A m \in ms : (m.id = x => out(m) \in ns) /\ (m.id # x => m \in ns)
  BY <1>1
<1>5. ns \subseteq Message
  BY <1>2, <1>3
<1>6. ASSUME NEW n \in ns
      PROVE  \E m \in ms : n.id = m.id /\ ((n = m /\ m.id # x) \/ (n = out(m) /\ m.id = x))
  <2>1. PICK m \in ms : n = IF m.id = x THEN out(m) ELSE m
    BY <1>1
  <2>2. n.id = m.id
    BY <1>2, <2>1
  <2>3. (n = m /\ m.id # x) \/ (n = out(m) /\ m.id = x)
    BY <2>1
  <2> QED BY <2>2, <2>3
<1>7. ApartIn(ns)
  BY <1>6 DEF ApartIn
<1> QED BY <1>2, <1>3, <1>4, <1>5, <1>7

\* A reply ends; one that failed is detached.
LEMMA OnDoneInv == ASSUME Inv, OnDone PROVE Inv' /\ AllMayMove
<1> DEFINE settled == consume.failure # "none" /\ Coming.open
<1>1. Consuming("done") /\ Handing = {}
  BY DEF OnDone, Unlocked
<1>2. consume \in Consume /\ consume.pc = "loop" /\ Reading /\ open \in Open
  BY <1>1 DEF Consuming, Inv, Typed, TypeOK, Reading
<1>3. /\ turn.stage = "running" /\ turns > 0 /\ turns \in 0..MaxTurns
      /\ messages \subseteq Message /\ ApartIn(messages)
      /\ consume.untaken = <<>>
  BY <1>2, WhileReading
<1>4. consume.id = 0
  BY <1>2 DEF Inv, Stages
<1>5. UNCHANGED <<queue, turns, turn, calls, cli, waiting, closed, accepted, owed, deleted,
                  starts, setbacks, grabbed, displaced, left>>
  BY <1>1 DEF Consuming, ghost
<1>6. /\ events' \in Seq(Event) /\ Coming \in Event /\ Coming.type = "done" /\ 1 \in DOMAIN events /\ events[1] = Coming
      /\ DOMAIN events' \subseteq Nat
      /\ \A i \in DOMAIN events' : i + 1 \in DOMAIN events /\ events'[i] = events[i + 1]
      /\ \A i \in Nat : TaskComes(i + 1) => \E j \in DOMAIN events' : j < i /\ events'[j].type = "task"
      /\ Len(events) \in Nat /\ Len(events') = Len(events) - 1 /\ Len(events') \in Nat
  <2>1. events' \in Seq(Event)
    BY <1>1, NextEvent
  <2>2. Len(events') \in Nat
    BY <2>1
  <2>3. /\ Coming \in Event /\ Coming.type = "done" /\ 1 \in DOMAIN events /\ events[1] = Coming
        /\ DOMAIN events' \subseteq Nat
        /\ \A i \in DOMAIN events' : i + 1 \in DOMAIN events /\ events'[i] = events[i + 1]
        /\ Len(events) \in Nat /\ Len(events') = Len(events) - 1
    BY <1>1, NextEvent
  <2>4. \A i \in Nat : TaskComes(i + 1) /\ "done" # "task" => \E j \in DOMAIN events' : j < i /\ events'[j].type = "task"
    BY <1>1, NextEvent
  <2> QED BY <2>1, <2>2, <2>3, <2>4
<1>7. PICK ms \in Flushed(messages, consume.said) :
        messages' = IF settled /\ consume.interruptedMsg # 0 THEN Detached(ms, consume.interruptedMsg) ELSE ms
  BY DEF OnDone
<1>8. PICK used \in BOOLEAN :
        consume' = [consume EXCEPT
           !.said = FALSE, !.produced = @ \/ consume.said \/ used,
           !.inFlight = 0, !.inFlightMsg = 0,
           !.failure = IF settled THEN "none" ELSE @,
           !.interrupted = IF settled THEN 0 ELSE @,
           !.interruptedMsg = IF settled THEN 0 ELSE @]
  BY DEF OnDone
<1>9. /\ consume' \in Consume
      /\ consume'.pc = "loop" /\ consume'.id = 0 /\ consume'.untaken = <<>>
      /\ (consume'.produced <=> consume.produced \/ consume.said \/ used)
      /\ consume'.inFlight = 0 /\ consume'.inFlightMsg = 0
      /\ consume'.interrupted = (IF settled THEN 0 ELSE consume.interrupted)
      /\ consume'.interruptedMsg = (IF settled THEN 0 ELSE consume.interruptedMsg)
  <2> DEFINE q == consume.produced \/ consume.said \/ used
             f == IF settled THEN "none" ELSE consume.failure
             i == IF settled THEN 0 ELSE consume.interrupted
             x == IF settled THEN 0 ELSE consume.interruptedMsg
  <2>1. q \in BOOLEAN /\ f \in {"none", "fault", "away"} /\ i \in OrNone /\ x \in Ids
    BY <1>2 DEF Consume, Ids, OrNone
  <2>2. consume' = [consume EXCEPT !.said = FALSE, !.produced = q, !.inFlight = 0, !.inFlightMsg = 0,
                                   !.failure = f, !.interrupted = i, !.interruptedMsg = x]
    BY <1>8
  <2>3. 0 \in OrNone /\ 0 \in Ids
    BY DEF OrNone, Ids
  <2> HIDE DEF q, f, i, x
  <2>4. consume' \in Consume
    BY <1>2, <2>1, <2>2, <2>3 DEF Consume
  <2>5. /\ consume'.pc = "loop" /\ consume'.id = 0 /\ consume'.untaken = <<>>
        /\ consume'.produced = q
        /\ consume'.inFlight = 0 /\ consume'.inFlightMsg = 0
        /\ consume'.interrupted = i /\ consume'.interruptedMsg = x
    BY <1>2, <1>3, <1>4, <2>2 DEF Consume
  <2> QED BY <2>4, <2>5 DEF q, i, x
<1>10. /\ open' \in Open /\ open'.pending = open.pending /\ open'.followUp = Coming.open
  <2>1. open' = [open EXCEPT !.followUp = Coming.open, !.closing = ~Coming.open]
    BY DEF OnDone
  <2>2. Coming.open \in BOOLEAN
    BY <1>6 DEF Event
  <2> QED BY <1>2, <2>1, <2>2 DEF Open
<1>11. Prose(messages, ms) /\ ms \subseteq Message /\ ApartIn(ms) /\ messages \subseteq ms
  BY <1>7, FlushedProse DEF Prose
<1> HIDE DEF settled
<1>13. /\ messages' \subseteq Message /\ ApartIn(messages')
       /\ \A m \in ms : m.turn = 0 => m \in messages'
       /\ \A m \in ms : m.id # consume.interruptedMsg => m \in messages'
       /\ \A m \in ms : \E n \in messages' : n.id = m.id /\ n.prompt = m.prompt
       /\ \A n \in messages' : n \in ms \/ (/\ n.turn = 0 /\ n.id = consume.interruptedMsg /\ n.id # 0
                                            /\ \E m \in ms : m.id = n.id /\ m.prompt = n.prompt)
  <2>1. CASE settled /\ consume.interruptedMsg # 0
    BY <1>7, <1>11, <2>1, Detaches
  <2>2. CASE ~(settled /\ consume.interruptedMsg # 0)
    BY <1>7, <1>11, <2>2
  <2> QED BY <2>1, <2>2
<1>14. ~settled => messages' = ms
  BY <1>7
<1>15. \A m \in ms \ messages : m.prompt = 0 /\ m.turn = turns
  BY <1>11 DEF Prose
<1>16. turns \in Nat /\ turns # 0
  BY <1>3, FollowUpAssumption
<1>20. ConsumeMoves
  <2>1. queue \subseteq QueueRow /\ (\A a, b \in queue : a.id = b.id => a = b)
        /\ \A m \in messages : m.turn <= turns
    BY DEF Inv, Typed, TypeOK, Apart
  <2>2. \A m \in messages' : m.turn <= turns
    BY <1>13, <1>15, <1>16, <2>1
  <2>3. \A o \in messages : Other(o)
    BY <1>1 DEF Other
  <2>4. \A m \in ms : m.prompt = 0 \/ m \in messages
    BY <1>15
  <2>5. \A m \in messages' \ messages : m.prompt = 0 \/ \E o \in messages : Other(o) /\ o.prompt = m.prompt
    BY <1>13, <2>3, <2>4
  <2>6. \A m \in messages : HasText(m.prompt)'
    BY <1>11, <1>13 DEF HasText
  <2>7. grabbed \subseteq Prompts /\ \A p \in grabbed : p <= accepted
    BY DEF Inv, Typed, TypeOK, Afresh
  <2> QED BY <1>5, <1>6, <1>9, <1>10, <1>13, <2>1, <2>2, <2>3, <2>5, <2>6, <2>7 DEF ConsumeMoves
<1>21. Stages'
  BY <1>3, <1>5, <1>9 DEF Inv, Stages, Reading
<1>22. Outrun'
  <2>1. \A c \in calls : c.kind # "run"
    BY <1>6 DEF Inv, Outrun
  <2> QED BY <1>5, <2>1 DEF Outrun
<1>23. Holds'
  <2> SUFFICES ASSUME NoneSentAgain PROVE Holds'
    BY DEF Holds
  <2>1. \A x \in InSeq(open.pending) : Live(x)'
    BY <1>11, <1>13 DEF Inv, Holds, Live
  <2>2. Once(open.pending)
    BY DEF Inv, Holds
  <2>3. Handing' = {}
    BY <1>1, <1>5 DEF Handing
  <2> QED BY <1>9, <1>10, <2>1, <2>2, <2>3, IdleTypes DEF Holds
<1>24. Replying'
  <2>1. CASE settled
    BY <1>9, <2>1 DEF Replying
  <2>2. CASE ~settled
    <3>1. consume.interrupted # 0 => Crossed(consume.interrupted) \/ InTurnAs(consume.interrupted, consume.interruptedMsg)
      BY <1>2 DEF Inv, Replying
    <3>2. messages \subseteq messages'
      BY <1>11, <1>14, <2>2
    <3>3. consume.interrupted = 0 => consume.interruptedMsg = 0
      BY <1>2 DEF Inv, Replying
    <3> QED BY <1>5, <1>9, <2>2, <3>1, <3>2, <3>3 DEF Replying, InTurnAs, Crossed
  <2> QED BY <2>1, <2>2
<1>25. Barren'
  <2> SUFFICES ASSUME ~consume'.produced
               PROVE  /\ open.pending = <<>> /\ ~open'.followUp
                      /\ Handing' = {} /\ waiting = <<>>
                      /\ cli.tasks => \E j \in DOMAIN events' : j < Len(events') + 1 /\ events'[j].type = "task"
                      /\ \A i \in DOMAIN events' :
                            /\ events'[i].type = "done" /\ events'[i].open =>
                                  \E j \in DOMAIN events' : j < i /\ events'[j].type = "task"
                            /\ events'[i].type # "taken"
                      /\ \A m \in messages' : m.turn = turns /\ m.prompt # 0 /\ ~Crossed(m.prompt) /\ consume'.interrupted # 0 =>
                            m.prompt = consume'.interrupted
    BY <1>5, <1>9, <1>10 DEF Barren, TaskComes, Crossed
  <2>1. ~consume.produced /\ ~consume.said
    BY <1>9
  <2>2. /\ open.pending = <<>> /\ ~open.followUp
        /\ Handing = {} /\ waiting = <<>>
        /\ cli.tasks => TaskComes(Len(events) + 1)
        /\ \A i \in DOMAIN events : /\ events[i].type = "done" /\ events[i].open => TaskComes(i)
                                    /\ events[i].type # "taken"
        /\ \A m \in messages : m.turn = turns /\ m.prompt # 0 /\ ~Crossed(m.prompt) /\ consume.interrupted # 0 =>
              m.prompt = consume.interrupted
    BY <1>2, <2>1 DEF Inv, Barren
  <2>3. Handing' = {}
    BY <1>5, <2>2 DEF Handing
  <2>4. ~TaskComes(1)
    <3>1. events \in Seq(Event)
      BY DEF Inv, Typed, TypeOK
    <3>2. \A j \in DOMAIN events : ~(j < 1)
      BY <3>1
    <3> QED BY <3>2 DEF TaskComes
  <2>5. ~Coming.open
    BY <1>6, <2>2, <2>4
  <2>6. ~settled /\ messages' = messages
    BY <1>7, <2>1, <2>5 DEF settled, Flushed
  <2>7. cli.tasks => \E j \in DOMAIN events' : j < Len(events') + 1 /\ events'[j].type = "task"
    <3>1. Len(events') + 1 = Len(events)
      BY <1>6
    <3> QED BY <1>6, <2>2, <3>1
  <2> QED BY <1>6, <1>9, <1>10, <2>2, <2>3, <2>5, <2>6, <2>7
<1> QED BY <1>20, <1>21, <1>22, <1>23, <1>24, <1>25, ConsumeMovesInv DEF Rests

\* The prompt that was accepted joins the turn.
LEMMA JoinInv == ASSUME Inv, Join PROVE Inv' /\ AllMayMove
<1>1. consume.pc = "join" /\ Reading /\ consume \in Consume
  BY DEF Join, Reading, Inv, Typed, TypeOK
<1>2. /\ turn.stage = "running" /\ turns > 0 /\ turns \in 0..MaxTurns
      /\ messages \subseteq Message /\ ApartIn(messages) /\ open \in Open
      /\ consume.untaken = <<>>
  BY <1>1, WhileReading
<1>3. UNCHANGED <<queue, turns, turn, open, calls, cli, waiting, closed, events, accepted, owed, deleted,
                  starts, setbacks, displaced, left>>
  BY DEF Join, provider
<1> DEFINE after == [consume EXCEPT !.pc = "loop", !.id = 0, !.prompt = 0,
                       !.said = FALSE, !.produced = @ \/ consume.said]
<1>4. PICK ms \in Flushed(messages, consume.said) :
        IF UnclaimedIn(ms, consume.id) = {} THEN messages' = ms /\ consume' = after
        ELSE \E m \in UnclaimedIn(ms, consume.id) : \E id \in EndIds(ms, m) :
               /\ messages' = Moved(ms, m, turns, id)
               /\ consume' = [after EXCEPT !.inFlight = m.prompt, !.inFlightMsg = id]
  BY DEF Join
<1>5. Prose(messages, ms)
  BY <1>4, FlushedProse
<1>6. /\ ms \subseteq Message /\ ApartIn(ms) /\ messages \subseteq ms
      /\ \A m \in ms \ messages : m.prompt = 0 /\ m.turn = turns
  BY <1>5 DEF Prose
<1>7. /\ after \in Consume
      /\ after.pc = "loop" /\ after.id = 0 /\ after.untaken = <<>>
      /\ (consume.produced => after.produced)
      /\ after.inFlight = consume.inFlight /\ after.inFlightMsg = consume.inFlightMsg
      /\ after.interrupted = consume.interrupted /\ after.interruptedMsg = consume.interruptedMsg
  <2>1. after \in Consume
    BY <1>1 DEF Consume, Ids, OrNone
  <2> QED BY <1>1, <1>2, <2>1 DEF Consume
<1> HIDE DEF after
<1>8. turns \in Nat /\ turns # 0
  BY <1>2, FollowUpAssumption
\* Who hands over a message that joins has its prompt in hand with the turn.
<1>9. /\ grabbed \subseteq grabbed' /\ grabbed' \subseteq Prompts /\ \A p \in grabbed' : p <= accepted
      /\ \A c \in Handing : c.msg = consume.id => PromptOf(c.msg) \cap Prompts \subseteq grabbed'
  <2>1. grabbed' = grabbed \cup UNION {PromptOf(c.msg) \cap Prompts : c \in {d \in Handing : d.msg = consume.id}}
    BY DEF Join
  <2>2. grabbed \subseteq Prompts /\ \A p \in grabbed : p <= accepted
    BY DEF Inv, Typed, TypeOK, Afresh
  <2>3. \A id : \A p \in PromptOf(id) : p <= accepted
    BY DEF PromptOf, Inv, Afresh
  <2> QED BY <2>1, <2>2, <2>3
<1>10. \A m \in messages : m.id = consume.id => m.prompt = 0 \/ Other(m)
  <2> SUFFICES ASSUME NEW m \in messages, m.id = consume.id, m.prompt # 0, NEW c \in Handing, c.msg = m.id
               PROVE  Crossed(m.prompt)'
    BY DEF Other
  <2>1. ~NoneSentAgain
    <3>1. m.id # 0
      BY <1>2, NatIds DEF Message
    <3> QED BY <3>1 DEF Inv, Holds
  <2>2. m.prompt \in PromptOf(c.msg) \cap Prompts
    BY <1>2 DEF PromptOf, Message, OrNone
  <2> QED BY <1>9, <2>1, <2>2 DEF Crossed
<1>11. queue \subseteq QueueRow /\ (\A a, b \in queue : a.id = b.id => a = b)
       /\ (\A x \in messages : x.turn <= turns) /\ events \in Seq(Event)
  BY DEF Inv, Typed, TypeOK, Apart
\* The message is there, or it is not.
<1>12. ASSUME UnclaimedIn(ms, consume.id) = {}
       PROVE  /\ ConsumeMoves /\ Replying'
              /\ consume'.pc = "loop" /\ consume'.id = 0 /\ consume'.untaken = <<>>
              /\ consume.produced => consume'.produced
              /\ \A x \in messages : x.turn = 0 /\ x.id # consume.id => x \in messages'
  <2>1. messages' = ms /\ consume' = after
    BY <1>4, <1>12
  <2>2. ConsumeMoves
    <3>1. \A x \in ms : x.turn <= turns
      BY <1>6, <1>8, <1>11
    <3>2. \A x \in messages : HasText(x.prompt)'
      BY <1>6, <2>1 DEF HasText
    <3> QED BY <1>2, <1>3, <1>6, <1>7, <1>9, <1>11, <2>1, <3>1, <3>2 DEF ConsumeMoves
  <2>3. Replying'
    <3>1. \A p, x : Crossed(p) \/ InTurnAs(p, x) => Crossed(p)' \/ InTurnAs(p, x)'
      BY <1>3, <1>6, <1>9, <2>1 DEF Crossed, InTurnAs
    <3>2. PICK i, im, j, jm : /\ i = consume.inFlight /\ im = consume.inFlightMsg
                              /\ j = consume.interrupted /\ jm = consume.interruptedMsg
                              /\ i = consume'.inFlight /\ im = consume'.inFlightMsg
                              /\ j = consume'.interrupted /\ jm = consume'.interruptedMsg
      BY <1>7, <2>1
    <3>3. /\ i # 0 => Crossed(i) \/ InTurnAs(i, im)
          /\ i = 0 => im = 0
          /\ j # 0 => Crossed(j) \/ InTurnAs(j, jm)
          /\ j = 0 => jm = 0
      BY <1>1, <3>2 DEF Inv, Replying
    <3>4. /\ i # 0 => Crossed(i)' \/ InTurnAs(i, im)'
          /\ j # 0 => Crossed(j)' \/ InTurnAs(j, jm)'
      BY <3>1, <3>3
    <3> QED BY <3>2, <3>3, <3>4 DEF Replying, InTurnAs, Crossed
  <2> QED BY <1>6, <1>7, <2>1, <2>2, <2>3
<1>13. ASSUME UnclaimedIn(ms, consume.id) # {}
       PROVE  /\ ConsumeMoves /\ Replying'
              /\ consume'.pc = "loop" /\ consume'.id = 0 /\ consume'.untaken = <<>>
              /\ consume.produced => consume'.produced
              /\ \A x \in messages : x.turn = 0 /\ x.id # consume.id => x \in messages'
  <2>1. PICK m \in UnclaimedIn(ms, consume.id) :
          \E id \in EndIds(ms, m) :
             /\ messages' = Moved(ms, m, turns, id)
             /\ consume' = [after EXCEPT !.inFlight = m.prompt, !.inFlightMsg = id]
    BY <1>4, <1>13
  <2>2. PICK id \in EndIds(ms, m) :
             /\ messages' = Moved(ms, m, turns, id)
             /\ consume' = [after EXCEPT !.inFlight = m.prompt, !.inFlightMsg = id]
    BY <2>1
  <2>3. m \in ms /\ m.id = consume.id /\ m.turn = 0 /\ m.prompt # 0 /\ m.prompt \in OrNone /\ m \in messages
    BY <1>6 DEF UnclaimedIn, Message
  <2>4. id \in MsgIds /\ \A x \in ms : x.id = id => x = m
    BY <1>6, <2>2, <2>3, EndId DEF ApartIn
  <2> DEFINE n == [id |-> id, prompt |-> m.prompt, turn |-> turns]
  <2>5. messages' = (ms \ {m}) \cup {n} /\ n \in Message /\ n.id = id /\ n.prompt = m.prompt /\ n.turn = turns
    BY <1>2, <1>6, <2>2, <2>3, <2>4, MovedTo DEF Message
  <2>6. /\ consume' \in Consume
        /\ consume'.pc = "loop" /\ consume'.id = 0 /\ consume'.untaken = <<>>
        /\ (consume.produced => consume'.produced)
        /\ consume'.inFlight = m.prompt /\ consume'.inFlightMsg = id
        /\ consume'.interrupted = consume.interrupted /\ consume'.interruptedMsg = consume.interruptedMsg
    <3>1. consume' \in Consume
      BY <1>7, <2>2, <2>3, <2>4 DEF Consume, Ids
    <3> QED BY <1>7, <2>2, <3>1 DEF Consume
  <2> HIDE DEF n
  <2>7. \A x \in messages : x # m => x \in messages'
    BY <1>6, <2>5
  <2>8. messages' \subseteq Message /\ ApartIn(messages')
    BY <1>6, <2>4, <2>5 DEF ApartIn
  <2>9. ConsumeMoves
    <3>1. \A x \in messages' : x.turn <= turns
      BY <1>6, <1>8, <1>11, <2>5
    <3>2. Other(m)
      BY <1>10, <2>3
    <3>3. \A x \in messages' \ messages : x.prompt = 0 \/ (Other(m) /\ m.prompt = x.prompt)
      BY <1>6, <2>5, <3>2
    <3>4. \A x \in messages \ messages' : Other(x)
      BY <2>7, <3>2
    <3>5. \A x \in messages : HasText(x.prompt)'
      BY <2>5, <2>7 DEF HasText
    <3> QED BY <1>2, <1>3, <1>9, <1>11, <2>3, <2>6, <2>8, <3>1, <3>3, <3>4, <3>5 DEF ConsumeMoves
  <2>10. Replying'
    <3>1. \A x \in messages : x.turn = turns => x \in messages'
      BY <1>8, <2>3, <2>7
    <3>2. \A p, x : Crossed(p) \/ InTurnAs(p, x) => Crossed(p)' \/ InTurnAs(p, x)'
      BY <1>3, <1>9, <3>1 DEF Crossed, InTurnAs
    <3>3. InTurnAs(m.prompt, id)'
      <4>1. \E x \in messages' : x.turn = turns /\ x.prompt = m.prompt /\ x.id = id
        BY <2>5
      <4>2. PICK p : p = m.prompt
        OBVIOUS
      <4>3. InTurnAs(p, id)'
        BY <1>3, <4>1, <4>2 DEF InTurnAs
      <4> QED BY <4>2, <4>3
    <3>4. PICK p, j, jm : /\ p = m.prompt
                          /\ j = consume.interrupted /\ jm = consume.interruptedMsg
                          /\ j = consume'.interrupted /\ jm = consume'.interruptedMsg
      BY <2>6
    <3>5. /\ j # 0 => Crossed(j) \/ InTurnAs(j, jm)
          /\ j = 0 => jm = 0
      BY <1>1, <3>4 DEF Inv, Replying
    <3>6. (j # 0 => Crossed(j)' \/ InTurnAs(j, jm)') /\ InTurnAs(p, id)' /\ p # 0
      BY <2>3, <3>2, <3>3, <3>4, <3>5
    <3>7. consume'.inFlight = p /\ consume'.inFlightMsg = id
      BY <2>6, <3>4
    <3> QED BY <3>4, <3>5, <3>6, <3>7 DEF Replying, InTurnAs, Crossed
  <2> QED BY <2>3, <2>6, <2>7, <2>9, <2>10
<1>14. /\ ConsumeMoves /\ Replying'
       /\ consume'.pc = "loop" /\ consume'.id = 0 /\ consume'.untaken = <<>>
       /\ consume.produced => consume'.produced
       /\ \A x \in messages : x.turn = 0 /\ x.id # consume.id => x \in messages'
  BY <1>12, <1>13
<1>15. Stages'
  <2>1. Handing' = Handing
    BY <1>3 DEF Handing
  <2> QED BY <1>1, <1>2, <1>3, <1>14, <2>1 DEF Inv, Stages, Reading
<1>16. Outrun'
  BY <1>3 DEF Inv, Outrun, Handing
<1>17. Holds'
  <2> SUFFICES ASSUME NoneSentAgain PROVE Holds'
    BY DEF Holds
  <2>1. /\ consume.id \notin InSeq(open.pending) /\ Once(open.pending)
        /\ \A x \in InSeq(open.pending) : Live(x)
        /\ \A c \in Handing : c.msg # 0 => c.msg \notin InSeq(open.pending)
    BY <1>1 DEF Inv, Holds, Stages
  <2>2. Handing' = Handing
    BY <1>3 DEF Handing
  <2>3. \A x \in InSeq(open.pending) : Live(x)'
    BY <1>14, <2>1 DEF Live
  <2> QED BY <1>3, <1>14, <2>1, <2>2, <2>3, IdleTypes DEF Holds
<1>18. Barren'
  <2>1. consume.produced
    BY <1>1 DEF Inv, Barren
  <2> QED BY <1>14, <2>1 DEF Barren
<1> QED BY <1>14, <1>15, <1>16, <1>17, <1>18, ConsumeMovesInv DEF Rests

\* The turn is closed, and what it held is to be settled.
LEMMA LeaveInv == ASSUME Inv, Leave PROVE Inv' /\ AllMayMove
<1>1. consume.pc = "leave" /\ Handing = {} /\ consume \in Consume /\ open \in Open /\ open.pending \in Seq(MsgIds)
  BY DEF Leave, Unlocked, Inv, Typed, TypeOK, Open
<1>2. UNCHANGED <<queue, messages, turns, turn, calls, cli, waiting, closed, events, accepted, owed, deleted,
                  starts, setbacks, grabbed, displaced, left>>
  BY DEF Leave, db, provider, ghost
<1>3. consume.untaken = <<>> /\ consume.id = 0 /\ turn.stage = "running" /\ turns > 0 /\ ~cli.on /\ events = <<>>
  BY <1>1 DEF Inv, Stages, Reading
<1>4. /\ consume' \in Consume /\ consume'.pc = "untaken" /\ consume'.untaken = open.pending /\ consume'.id = 0
      /\ open' \in Open /\ open'.pending = <<>> /\ ~open'.followUp
  <2>1. /\ consume' = [consume EXCEPT !.pc = "untaken", !.untaken = open.pending]
        /\ open' = [open EXCEPT !.followUp = FALSE, !.pending = <<>>]
    BY DEF Leave
  <2>2. <<>> \in Seq(MsgIds)
    OBVIOUS
  <2>3. consume' \in Consume
    BY <1>1, <2>1 DEF Consume
  <2>4. open' \in Open
    BY <1>1, <2>1, <2>2 DEF Open
  <2> QED BY <1>1, <1>3, <2>1, <2>3, <2>4 DEF Consume, Open
<1>5. ConsumeMoves
  <2>1. queue \subseteq QueueRow /\ (\A a, b \in queue : a.id = b.id => a = b)
        /\ (\A x \in messages : x.turn <= turns) /\ events \in Seq(Event)
        /\ messages \subseteq Message /\ ApartIn(messages)
        /\ grabbed \subseteq Prompts /\ \A p \in grabbed : p <= accepted
    BY DEF Inv, Typed, TypeOK, Apart, ApartIn, Afresh
  <2>2. \A x \in messages : HasText(x.prompt)'
    BY <1>2 DEF HasText
  <2> QED BY <1>2, <1>4, <2>1, <2>2, IdleTypes DEF ConsumeMoves
<1>6. Stages'
  <2>1. Handing' = {}
    BY <1>1, <1>2 DEF Handing
  <2> QED BY <1>2, <1>3, <1>4, <2>1 DEF Stages, Reading
<1>7. Outrun'
  BY <1>2, <1>4 DEF Inv, Outrun, Handing
<1>8. Holds'
  <2>1. Handing' = {}
    BY <1>1, <1>2 DEF Handing
  <2> QED BY <1>2, <1>4, <2>1, IdleTypes DEF Inv, Holds, Live
<1>9. Replying' /\ Barren'
  BY <1>4 DEF Replying, Barren, Reading
<1> QED BY <1>5, <1>6, <1>7, <1>8, <1>9, ConsumeMovesInv DEF Rests

\* A row for a prompt comes with an id of its own.
LEMMA NewRowOf ==
    ASSUME Inv, NEW p \in Prompts, NEW row \in NewRow, queue' = queue \cup {[id |-> row, prompt |-> p]}
    PROVE  /\ queue' \subseteq QueueRow /\ queue \subseteq queue' /\ \A a, b \in queue' : a.id = b.id => a = b
           /\ \A r \in queue' \ queue : r.prompt = p
           /\ \E r \in queue' : r.prompt = p /\ \A o \in queue : o.id # r.id
<1> DEFINE n == [id |-> row, prompt |-> p]
<1>1. queue \subseteq QueueRow /\ (\A a, b \in queue : a.id = b.id => a = b)
  BY DEF Inv, Typed, TypeOK, Apart
<1>2. row \in RowIds /\ \A r \in queue : r.id # row
  BY <1>1, NewRowId
<1>3. n \in QueueRow /\ n.id = row /\ n.prompt = p
  BY <1>2 DEF QueueRow
<1> HIDE DEF n
<1>4. queue' = queue \cup {n}
  BY DEF n
<1> QED BY <1>1, <1>2, <1>3, <1>4

\* The events are over: what an outage interrupted has a row again.
LEMMA EventsOverInv == ASSUME Inv, EventsOver PROVE Inv' /\ AllMayMove
<1> DEFINE held == consume.failure = "away" /\ consume.interrupted # 0
           produced == consume.produced \/ consume.said
<1>1. consume.pc = "loop" /\ Reading /\ ~cli.on /\ events = <<>> /\ consume \in Consume
  BY DEF EventsOver, Reading, Inv, Typed, TypeOK
<1>2. /\ turn.stage = "running" /\ turns > 0 /\ turns \in 0..MaxTurns
      /\ messages \subseteq Message /\ ApartIn(messages) /\ open \in Open
      /\ consume.untaken = <<>> /\ consume.id = 0
  BY <1>1, WhileReading DEF Inv, Stages
<1>3. UNCHANGED <<turns, turn, open, calls, cli, waiting, closed, events, accepted, owed, deleted,
                  starts, setbacks, displaced, left>>
  BY DEF EventsOver, provider
<1>4. PICK ms \in Flushed(messages, consume.said) :
         IF held
         THEN /\ messages' = {m \in Kept(ms, produced) : m.id # consume.interruptedMsg}
              /\ \E row \in NewRow : queue' = queue \cup {[id |-> row, prompt |-> consume.interrupted]}
         ELSE messages' = ms /\ UNCHANGED queue
  BY DEF EventsOver
<1>5. /\ consume' \in Consume /\ consume'.pc = "leave" /\ consume'.id = 0 /\ consume'.untaken = <<>>
  <2>1. consume' = [consume EXCEPT !.pc = "leave", !.said = FALSE, !.held = held]
    BY DEF EventsOver
  <2>2. consume' \in Consume
    BY <1>1, <2>1 DEF Consume
  <2> QED BY <1>1, <1>2, <2>1, <2>2 DEF Consume
<1>6. /\ ms \subseteq Message /\ ApartIn(ms) /\ messages \subseteq ms
      /\ \A m \in ms \ messages : m.prompt = 0 /\ m.turn = turns
  BY <1>4, FlushedProse DEF Prose
<1>7. turns \in Nat /\ turns # 0
  BY <1>2, FollowUpAssumption
\* What meets under the id of the prompt that is queued again is crossed.
<1>71. /\ grabbed \subseteq grabbed' /\ grabbed' \subseteq Prompts /\ \A p \in grabbed' : p <= accepted
       /\ held => \A m \in messages : m.id = consume.interruptedMsg /\ m.prompt # consume.interrupted =>
                     m.prompt = 0 \/ m.prompt \in grabbed'
  <2>1. grabbed \subseteq Prompts /\ \A p \in grabbed : p <= accepted
    BY DEF Inv, Typed, TypeOK, Afresh
  <2>2. grabbed' = grabbed \cup (IF held THEN Mixed(consume.interrupted, consume.interruptedMsg) ELSE {})
    BY DEF EventsOver
  <2>3. CASE held
    <3>1. consume.interrupted \in Prompts
      BY <1>1, <2>3 DEF Consume, OrNone
    <3>2. consume.interrupted <= accepted
      <4>1. Crossed(consume.interrupted) \/ InTurnAs(consume.interrupted, consume.interruptedMsg)
        BY <1>1, <2>3 DEF Inv, Replying
      <4> QED BY <2>1, <4>1 DEF Crossed, InTurnAs, Inv, Afresh
    <3> QED BY <2>1, <2>2, <2>3, <3>1, <3>2, MixedOf
  <2>4. CASE ~held
    BY <2>1, <2>2, <2>4
  <2> QED BY <2>3, <2>4
\* What goes is of this turn, and of the prompt that is queued again.
<1>8. /\ messages' \subseteq ms
      /\ queue \subseteq queue' /\ queue' \subseteq QueueRow /\ (\A a, b \in queue' : a.id = b.id => a = b)
      /\ \A m \in messages \ messages' : m.prompt = 0 \/ Crossed(m.prompt)'
            \/ (m.turn # 0 /\ \E r \in queue' : r.prompt = m.prompt /\ \A o \in queue : o.id # r.id)
      /\ \A r \in queue' \ queue : Crossed(r.prompt)' \/ \E o \in messages : o.turn # 0 /\ o.prompt = r.prompt
  <2>1. CASE held
    <3>1. consume.interrupted # 0 /\ consume.interrupted \in Prompts
      BY <1>1, <2>1 DEF Consume, OrNone
    <3>2. PICK row \in NewRow : queue' = queue \cup {[id |-> row, prompt |-> consume.interrupted]}
      BY <1>4, <2>1
    <3>3. /\ queue' \subseteq QueueRow /\ queue \subseteq queue' /\ (\A a, b \in queue' : a.id = b.id => a = b)
          /\ \A r \in queue' \ queue : r.prompt = consume.interrupted
          /\ \E r \in queue' : r.prompt = consume.interrupted /\ \A o \in queue : o.id # r.id
      BY <3>1, <3>2, NewRowOf
    <3>4. messages' = {m \in ms : (produced \/ m.turn # turns) /\ m.id # consume.interruptedMsg}
      BY <1>4, <2>1 DEF Kept
    <3>5. ~produced => \A m \in messages : m.turn = turns /\ m.prompt # 0 /\ ~Crossed(m.prompt) =>
                          m.prompt = consume.interrupted
      BY <1>1, <3>1 DEF Inv, Barren
    <3>6. \A p : Crossed(p) => Crossed(p)'
      BY <1>71, CrossedStays
    <3>7. \A m \in messages : m.id = consume.interruptedMsg => m.id # 0
      BY <1>2, NatIds DEF Message
    <3>8. CASE Crossed(consume.interrupted)
      <4>1. ASSUME NEW m \in messages \ messages', m.prompt # 0
            PROVE  Crossed(m.prompt)'
        <5>1. (~produced /\ m.turn = turns) \/ m.id = consume.interruptedMsg
          BY <1>6, <3>4
        <5>2. CASE m.id = consume.interruptedMsg
          <6>1. m.prompt = consume.interrupted \/ m.prompt \in grabbed'
            BY <1>71, <2>1, <4>1, <5>2
          <6> QED BY <3>6, <3>8, <6>1 DEF Crossed
        <5>3. CASE ~produced /\ m.turn = turns
          BY <3>5, <3>6, <3>8, <4>1, <5>3
        <5> QED BY <5>1, <5>2, <5>3
      <4>2. \A r \in queue' \ queue : Crossed(r.prompt)'
        <5> SUFFICES ASSUME NEW r \in queue' \ queue PROVE Crossed(r.prompt)'
          OBVIOUS
        <5>1. r.prompt \in grabbed /\ ~NoneSentAgain
          BY <3>3, <3>8 DEF Crossed
        <5> QED BY <1>71, <5>1 DEF Crossed
      <4> QED BY <3>3, <3>4, <4>1, <4>2
    <3>9. CASE InTurnAs(consume.interrupted, consume.interruptedMsg)
      <4>1. PICK o \in messages : /\ o.turn = turns /\ o.prompt = consume.interrupted
                                  /\ consume.interruptedMsg # 0 => o.id = consume.interruptedMsg
        BY <3>9 DEF InTurnAs
      <4>2. \A m \in messages : m.id = consume.interruptedMsg => m = o
        BY <1>2, <3>7, <4>1 DEF ApartIn
      <4>3. ASSUME NEW m \in messages \ messages', m.prompt # 0, ~Crossed(m.prompt)'
            PROVE  m.turn = turns /\ m.prompt = consume.interrupted
        <5>1. (~produced /\ m.turn = turns) \/ m.id = consume.interruptedMsg
          BY <1>6, <3>4
        <5>2. ~Crossed(m.prompt)
          BY <3>6, <4>3
        <5> QED BY <3>5, <4>1, <4>2, <4>3, <5>1, <5>2
      <4> QED BY <1>7, <3>3, <3>4, <4>1, <4>3
    <3> QED BY <1>1, <3>1, <3>8, <3>9 DEF Inv, Replying
  <2>2. CASE ~held
    <3>1. queue \subseteq QueueRow /\ (\A a, b \in queue : a.id = b.id => a = b)
      BY DEF Inv, Typed, TypeOK, Apart
    <3> QED BY <1>4, <1>6, <2>2, <3>1
  <2> QED BY <2>1, <2>2
<1> HIDE DEF held, produced
<1>9. NoneSentAgain => \A m \in messages : m.turn = 0 /\ m.prompt # 0 => m \in messages'
  BY <1>8 DEF Crossed
<1>10. ConsumeMoves
  <2>1. \A x \in messages : x.turn <= turns
    BY DEF Inv, Apart
  <2>2. \A x \in messages' : x.turn <= turns
    BY <1>6, <1>7, <1>8, <2>1
  <2>3. \A x \in messages' \ messages : x.prompt = 0
    BY <1>6, <1>8
  <2>4. \A x \in messages \ messages' : x.prompt = 0 \/ Other(x)
    BY <1>8 DEF Other
  <2>5. \A r \in queue' \ queue : Crossed(r.prompt)' \/ \E o \in messages : Other(o) /\ o.prompt = r.prompt
    BY <1>8 DEF Other
  <2>6. \A x \in messages : x.prompt # 0 =>
           \/ Crossed(x.prompt)' \/ HasText(x.prompt)'
           \/ \E r \in queue' : r.prompt = x.prompt /\ \A o \in queue : o.id # r.id
    BY <1>8 DEF HasText
  <2>7. messages' \subseteq Message /\ ApartIn(messages')
    BY <1>6, <1>8 DEF ApartIn
  <2>8. events' \in Seq(Event)
    BY <1>3 DEF Inv, Typed, TypeOK
  <2> QED BY <1>2, <1>3, <1>5, <1>71, <1>8, <2>2, <2>3, <2>4, <2>5, <2>6, <2>7, <2>8 DEF ConsumeMoves
<1>11. Stages'
  BY <1>1, <1>2, <1>3, <1>5 DEF Inv, Stages, Reading
<1>12. Outrun'
  BY <1>3 DEF Inv, Outrun, Handing
<1>13. Holds'
  <2> SUFFICES ASSUME NoneSentAgain PROVE Holds'
    BY DEF Holds
  <2>1. \A x : Live(x) => Live(x)'
    BY <1>9 DEF Live
  <2>2. Handing' = Handing
    BY <1>3 DEF Handing
  <2> QED BY <1>2, <1>3, <1>5, <2>1, <2>2, IdleTypes DEF Inv, Holds
<1>14. Replying' /\ Barren'
  BY <1>5 DEF Replying, Barren, Reading
<1> QED BY <1>10, <1>11, <1>12, <1>13, <1>14, ConsumeMovesInv DEF Rests

\* A prompt that was never taken goes to the end, or behind the retry.
LEMMA SettleUntakenInv == ASSUME Inv, SettleUntaken PROVE Inv' /\ AllMayMove
<1> DEFINE s == consume.untaken
           x == Head(s)
<1>1. consume.pc = "untaken" /\ s # <<>> /\ consume \in Consume /\ s \in Seq(MsgIds)
  BY DEF SettleUntaken, Inv, Typed, TypeOK, Consume
<1>2. /\ Handing = {} /\ turn.stage = "running" /\ turns > 0 /\ ~cli.on /\ events = <<>>
      /\ open.pending = <<>> /\ ~open.followUp /\ consume.id = 0
  BY <1>1 DEF Inv, Stages, Reading
<1>3. UNCHANGED <<turns, turn, open, calls, cli, waiting, closed, events, accepted, owed, deleted,
                  starts, setbacks, grabbed, displaced, left>>
  BY DEF SettleUntaken, provider, ghost
<1>4. /\ messages \subseteq Message /\ ApartIn(messages) /\ open \in Open
      /\ queue \subseteq QueueRow /\ (\A a, b \in queue : a.id = b.id => a = b)
      /\ grabbed \subseteq Prompts /\ \A p \in grabbed : p <= accepted
  BY DEF Inv, Typed, TypeOK, Apart, ApartIn, Afresh
<1>5. Tail(s) \in Seq(MsgIds) /\ InSeq(s) = {x} \cup InSeq(Tail(s)) /\ x \in InSeq(s)
  BY <1>1, Tails, InSeqTail
<1>6. NoneSentAgain => Once(Tail(s)) /\ x \notin InSeq(Tail(s))
  <2>1. NoneSentAgain => Once(s)
    BY DEF Inv, Holds
  <2> QED BY <1>1, <2>1, OnceTail
<1>7. IF Unclaimed(x) = {} THEN UNCHANGED db
      ELSE \E m \in Unclaimed(x) :
          IF consume.held THEN \E row \in NewRow : ToQueue(m, row)
          ELSE /\ \E id \in EndIds(messages, m) : messages' = Moved(messages, m, 0, id)
               /\ UNCHANGED queue
  BY DEF SettleUntaken
<1>11. /\ consume' \in Consume /\ consume'.pc = "untaken" /\ consume'.id = 0
       /\ consume'.untaken = Tail(s)
  <2>1. consume' = [consume EXCEPT !.untaken = Tail(s)]
    BY DEF SettleUntaken
  <2> HIDE DEF s
  <2>2. consume' \in Consume
    BY <1>1, <1>5, <2>1 DEF Consume
  <2> QED BY <1>1, <1>2, <2>1, <2>2 DEF Consume
<1> HIDE DEF s, x
<1>12. ASSUME Unclaimed(x) = {}
       PROVE  /\ ConsumeMoves
              /\ \A m \in messages : m.id # x => m \in messages'
  <2>1. UNCHANGED <<queue, messages>>
    BY <1>7, <1>12 DEF db
  <2>2. \A m \in messages : m.turn <= turns
    BY DEF Inv, Apart
  <2>3. \A m \in messages : HasText(m.prompt)'
    BY <2>1 DEF HasText
  <2>4. events' \in Seq(Event)
    BY <1>3 DEF Inv, Typed, TypeOK
  <2> QED BY <1>3, <1>4, <1>11, <2>1, <2>2, <2>3, <2>4 DEF ConsumeMoves
<1>13. ASSUME Unclaimed(x) # {}
       PROVE  /\ ConsumeMoves
              /\ \A m \in messages : m.id # x => m \in messages'
  <2>1. PICK o \in Unclaimed(x) :
           \/ \E row \in NewRow : ToQueue(o, row)
           \/ /\ \E id \in EndIds(messages, o) : messages' = Moved(messages, o, 0, id)
              /\ UNCHANGED queue
    BY <1>7, <1>13
  <2>2. o \in messages /\ o.id = x /\ o.turn = 0 /\ o.prompt # 0 /\ o.prompt \in Prompts
    BY <1>4 DEF Unclaimed, UnclaimedIn, Message, OrNone
  <2>3. ASSUME NEW row \in NewRow, ToQueue(o, row)
        PROVE  /\ messages' = messages \ {o}
               /\ queue' \subseteq QueueRow /\ queue \subseteq queue' /\ (\A a, b \in queue' : a.id = b.id => a = b)
               /\ \A r \in queue' \ queue : r.prompt = o.prompt
               /\ \E r \in queue' : r.prompt = o.prompt /\ \A b \in queue : b.id # r.id
    <3>1. queue' = queue \cup {[id |-> row, prompt |-> o.prompt]} /\ messages' = messages \ {o}
      BY <2>3 DEF ToQueue
    <3> QED BY <2>2, <3>1, NewRowOf
  <2>4. ASSUME NEW id \in EndIds(messages, o), messages' = Moved(messages, o, 0, id)
        PROVE  /\ messages' \subseteq Message /\ ApartIn(messages')
               /\ \A m \in messages \ messages' : m = o
               /\ \A m \in messages' \ messages : m.prompt = o.prompt /\ m.turn = 0
               /\ HasText(o.prompt)'
    <3> DEFINE n == [id |-> id, prompt |-> o.prompt, turn |-> 0]
    <3>1. id \in MsgIds /\ \A m \in messages : m.id = id => m = o
      BY <1>4, <2>2, <2>4, EndId DEF ApartIn
    <3>2. messages' = (messages \ {o}) \cup {n}
      BY <1>4, <2>2, <2>4, MovedTo
    <3>3. n \in Message /\ n.id = id /\ n.prompt = o.prompt /\ n.turn = 0
      BY <2>2, <3>1, FollowUpAssumption DEF Message, OrNone
    <3> HIDE DEF n
    <3> QED BY <1>4, <3>1, <3>2, <3>3 DEF ApartIn, HasText
  <2>5. /\ messages' \subseteq Message /\ ApartIn(messages')
        /\ \A m \in messages \ messages' : m = o
        /\ \A m \in messages' \ messages : m.prompt = o.prompt /\ m.turn = 0
        /\ queue \subseteq queue' /\ queue' \subseteq QueueRow /\ (\A a, b \in queue' : a.id = b.id => a = b)
        /\ \A r \in queue' \ queue : r.prompt = o.prompt
        /\ HasText(o.prompt)' \/ \E r \in queue' : r.prompt = o.prompt /\ \A b \in queue : b.id # r.id
    <3>1. CASE \E row \in NewRow : ToQueue(o, row)
      <4>1. PICK row \in NewRow : ToQueue(o, row)
        BY <3>1
      <4> QED BY <1>4, <2>3, <4>1 DEF ApartIn
    <3>2. CASE /\ \E id \in EndIds(messages, o) : messages' = Moved(messages, o, 0, id)
               /\ UNCHANGED queue
      BY <1>4, <2>4, <3>2
    <3> QED BY <2>1, <3>1, <3>2
  <2>6. turns \in Nat /\ \A m \in messages : m.turn <= turns
    BY FollowUpAssumption DEF Inv, Typed, TypeOK, Apart
  <2>7. \A m \in messages' : m.turn <= turns
    BY <1>2, <2>5, <2>6
  <2>8. Other(o) /\ \A m \in messages \ messages' : Other(m)
    BY <1>2, <2>2, <2>5 DEF Other
  <2>9. \A m \in messages : m.prompt # 0 =>
           HasText(m.prompt)' \/ \E r \in queue' : r.prompt = m.prompt /\ \A b \in queue : b.id # r.id
    BY <2>5 DEF HasText
  <2>10. events' \in Seq(Event)
    BY <1>3 DEF Inv, Typed, TypeOK
  <2> QED BY <1>3, <1>4, <1>11, <2>2, <2>5, <2>7, <2>8, <2>9, <2>10 DEF ConsumeMoves
<1>14. Stages'
  <2>1. Handing' = {}
    BY <1>2, <1>3 DEF Handing
  <2> QED BY <1>2, <1>3, <1>11, <2>1 DEF Stages, Reading
<1>15. Outrun'
  BY <1>3 DEF Inv, Outrun, Handing
<1>16. Holds'
  <2> SUFFICES ASSUME NoneSentAgain PROVE Holds'
    BY DEF Holds
  <2>1. \A y \in InSeq(Tail(s)) : y # x /\ Live(y)
    BY <1>5, <1>6 DEF Inv, Holds, s
  <2>2. \A y : y # x /\ Live(y) => Live(y)'
    BY <1>12, <1>13 DEF Live
  <2>3. Once(open'.pending) /\ InSeq(open'.pending) = {}
    BY <1>2, <1>3, IdleTypes
  <2>4. Handing' = {}
    BY <1>2, <1>3 DEF Handing
  <2> QED BY <1>6, <1>11, <2>1, <2>2, <2>3, <2>4 DEF Holds
<1>17. Replying' /\ Barren'
  BY <1>11 DEF Replying, Barren, Reading
<1> QED BY <1>12, <1>13, <1>14, <1>15, <1>16, <1>17, ConsumeMovesInv DEF Rests
-----------------------------------------------------------------------------
(* A prompt of the transcript goes back to the queue                        *)

\* What moves to the queue under a call or a turn that has it in hand is crossed.
LEMMA RequeuesInv ==
    ASSUME Inv, NEW c, QueueStored(c), NEW o \in Unclaimed(c.msg), NEW row \in NewRow, ToQueue(o, row),
           grabbed' = IF c.msg \in InHand THEN grabbed \cup PromptOf(c.msg) ELSE grabbed
    PROVE  Inv' /\ AllMayMove
<1>1. c \in calls /\ c.at = "looked" /\ c.kind = "requeue" /\ ~NoneSentAgain /\ calls' = calls \ {c}
  BY DEF QueueStored, Done, Inv, Typed, Fits
<1>2. UNCHANGED <<turns, turn, open, consume, cli, waiting, closed, events, accepted, owed, deleted,
                  starts, setbacks, displaced, left>>
  BY DEF QueueStored, UnchangedTurn, provider
<1>3. Handing' = Handing
  BY <1>1 DEF Handing
<1>4. o \in messages /\ o.id = c.msg /\ o.turn = 0 /\ o.prompt # 0 /\ o.prompt \in Prompts
  BY DEF Unclaimed, UnclaimedIn, Inv, Typed, TypeOK, Message, OrNone
<1>5. queue' = queue \cup {[id |-> row, prompt |-> o.prompt]} /\ messages' = messages \ {o}
  BY DEF ToQueue
<1>6. /\ queue' \subseteq QueueRow /\ queue \subseteq queue' /\ \A a, b \in queue' : a.id = b.id => a = b
      /\ \A r \in queue' \ queue : r.prompt = o.prompt
      /\ \E r \in queue' : r.prompt = o.prompt /\ \A b \in queue : b.id # r.id
  BY <1>4, <1>5, NewRowOf
<1>7. PromptOf(c.msg) = {o.prompt}
  BY <1>4 DEF PromptOf, Inv, Apart
<1>8. /\ grabbed \subseteq grabbed' /\ grabbed' \subseteq Prompts /\ \A p \in grabbed' : p <= accepted
      /\ c.msg \in InHand => o.prompt \in grabbed'
  <2>1. o.prompt <= accepted /\ grabbed \subseteq Prompts /\ \A p \in grabbed : p <= accepted
    BY <1>4 DEF Inv, Typed, TypeOK, Afresh
  <2> QED BY <1>4, <1>7, <2>1
<1>9. \A p : Crossed(p) => Crossed(p)'
  BY <1>8, CrossedStays
<1>10. Typed'
  BY <1>1, <1>2, <1>5, <1>6, <1>8 DEF Inv, Typed, TypeOK, Fits
<1>11. Spared' /\ Apart'
  BY <1>2, <1>5, <1>6 DEF Inv, Spared, Apart
<1>12. Stages' /\ Alone' /\ Outrun'
  <2>1. Stages'
    BY <1>2, <1>3, <1>5 DEF Inv, Stages, Reading
  <2> QED BY <1>1, <1>2, <1>3, <2>1 DEF Inv, Alone, Outrun
<1>13. RunRow'
  BY <1>1, <1>6 DEF Inv, RunRow
<1>14. Afresh'
  <2>1. \A r \in queue' : r.prompt <= accepted
    BY <1>4, <1>6 DEF Inv, Afresh
  <2> QED BY <1>1, <1>2, <1>5, <1>8, <2>1 DEF Inv, Afresh
<1>15. SentAlone'
  <2> SUFFICES ASSUME NEW d \in calls, d.kind = "send", ~Crossed(d.prompt)'
               PROVE  /\ ~InQueue(d.prompt)' /\ ~Gone(d.prompt)'
                      /\ \A e \in calls : e.prompt = d.prompt => e = d
                      /\ d \notin Handing => ~HasText(d.prompt)'
                      /\ d \in Handing =>
                            /\ \E m \in messages' : m.id = d.msg /\ m.prompt = d.prompt /\ m.turn = 0
                            /\ \A m \in messages' : m.prompt = d.prompt => m.id = d.msg
    BY <1>1, <1>3 DEF SentAlone, InQueue, HasText, Crossed
  <2>1. /\ ~InQueue(d.prompt) /\ ~Gone(d.prompt)
        /\ \A e \in calls : e.prompt = d.prompt => e = d
        /\ d \notin Handing => ~HasText(d.prompt)
        /\ d \in Handing =>
              /\ \E m \in messages : m.id = d.msg /\ m.prompt = d.prompt /\ m.turn = 0
              /\ \A m \in messages : m.prompt = d.prompt => m.id = d.msg
    BY <1>9 DEF Inv, SentAlone
  <2>2. o.prompt # d.prompt
    <3> SUFFICES ASSUME o.prompt = d.prompt PROVE FALSE
      OBVIOUS
    <3>1. d \in Handing /\ d.msg = c.msg
      BY <1>4, <2>1 DEF HasText
    <3>2. o.prompt \in grabbed'
      BY <1>8, <3>1 DEF InHand
    <3> QED BY <1>1, <3>2 DEF Crossed
  <2>3. ~InQueue(d.prompt)'
    BY <1>6, <2>1, <2>2 DEF InQueue
  <2>4. ~Gone(d.prompt)'
    BY <1>2, <2>1 DEF Gone
  <2> QED BY <1>5, <2>1, <2>2, <2>3, <2>4 DEF HasText
<1>16. Holds'
  BY <1>1 DEF Holds
<1>17. Replying'
  <2>1. Reading => turns # 0
    BY DEF Inv, Stages, Reading, Typed, TypeOK
  <2>2. Reading => \A p, x : Crossed(p) \/ InTurnAs(p, x) => Crossed(p)' \/ InTurnAs(p, x)'
    BY <1>2, <1>4, <1>5, <1>9, <2>1 DEF InTurnAs
  <2>3. PICK i, im, j, jm : /\ i = consume.inFlight /\ im = consume.inFlightMsg
                            /\ j = consume.interrupted /\ jm = consume.interruptedMsg
    OBVIOUS
  <2>4. Reading => /\ i # 0 => Crossed(i)' \/ InTurnAs(i, im)'
                   /\ i = 0 => im = 0
                   /\ j # 0 => Crossed(j)' \/ InTurnAs(j, jm)'
                   /\ j = 0 => jm = 0
    BY <2>2, <2>3 DEF Inv, Replying
  <2> QED BY <1>2, <2>3, <2>4 DEF Replying, InTurnAs, Crossed, Reading
<1>18. Barren'
  BY <1>2, <1>3, <1>5, <1>8 DEF Inv, Barren, Reading, TaskComes, Crossed
<1>19. \A p : (InQueue(p) => InQueue(p)') /\ (HasText(p) => HasText(p)' \/ InQueue(p)')
  BY <1>5, <1>6 DEF InQueue, HasText
<1>20. MayDrop'
  <2> SUFFICES ASSUME NEW d \in calls, d.at = "drop"
               PROVE  \/ Crossed(d.prompt)' \/ HasText(d.prompt)'
                      \/ \E r \in queue' : r.prompt = d.prompt /\ r.id # d.row
    BY <1>1 DEF MayDrop, Crossed
  <2>1. \E r \in queue : r.id = d.row
    BY DEF Inv, Typed, TypeOK, Fits, Call, RunRow
  <2>2. HasText(d.prompt) => HasText(d.prompt)' \/ \E r \in queue' : r.prompt = d.prompt /\ r.id # d.row
    BY <1>5, <1>6, <2>1 DEF HasText
  <2> QED BY <1>6, <1>9, <2>2 DEF Inv, MayDrop
<1>21. HandedOver'
  <2>1. \A p : Gone(p)' <=> Gone(p)
    BY <1>2 DEF Gone
  <2>2. \A p : Stored(p) => Stored(p)'
    BY <1>19 DEF Stored
  <2>3. ASSUME NEW d \in Handing, d.row # 0
        PROVE  Crossed(d.prompt)' \/ Stored(d.prompt)' \/ Gone(d.prompt)'
    BY <1>9, <2>1, <2>2, <2>3 DEF Inv, HandedOver
  <2> QED BY <1>3, <2>3 DEF HandedOver, Crossed, Stored, InQueue, HasText, Gone
<1>22. Inv'
  BY <1>10, <1>11, <1>12, <1>13, <1>14, <1>15, <1>16, <1>17, <1>18, <1>20, <1>21 DEF Inv
<1>23. ASSUME NEW p \in Prompts PROVE MayMove(p)
  <2>1. RowHanding(p)' = RowHanding(p) /\ SendHanding(p)' = SendHanding(p)
    BY <1>3 DEF RowHanding, SendHanding
  <2>2. (HasText(p)' => HasText(p)) /\ (InQueue(p)' => InQueue(p) \/ HasText(p))
    BY <1>4, <1>5, <1>6 DEF InQueue, HasText
  <2> QED BY <1>2, <1>19, <2>1, <2>2 DEF MayMove, Queued, Gone
<1> QED BY <1>8, <1>22, <1>23 DEF AllMayMove

-----------------------------------------------------------------------------
(* Every step                                                               *)

\* What a call of CallsOnly does not touch moves nothing.
LEMMA CallsOnlyMove ==
    ASSUME Inv, CallsOnly, Calm
    PROVE  Inv' /\ AllMayMove
<1>1. Inv'
  BY CallsOnlyInv DEF Calm
<1>2. UNCHANGED <<queue, messages, deleted, displaced, grabbed, Handing>>
  BY DEF CallsOnly, Data, Calm
<1> QED BY <1>1, <1>2, NothingMoves

LEMMA QueueStoredInv == ASSUME Inv, NEW c, QueueStored(c) PROVE Inv' /\ AllMayMove
<1>1. CASE UNCHANGED <<db, grabbed>>
  <2>1. c \in calls /\ c.at = "looked" /\ calls' = calls \ {c}
    BY DEF QueueStored, Done
  <2>2. Still /\ Calm
    BY <1>1, SameTurn DEF QueueStored, UnchangedTurn, db, provider, Data, Still, Calm, Inv
  <2> QED BY <2>1, <2>2, CallEnds, CallsOnlyMove
<1>2. ASSUME NEW o \in Unclaimed(c.msg), NEW row \in NewRow, ToQueue(o, row),
             grabbed' = IF c.msg \in InHand THEN grabbed \cup PromptOf(c.msg) ELSE grabbed
      PROVE  Inv' /\ AllMayMove
  BY <1>2, RequeuesInv
<1> QED BY <1>1, <1>2 DEF QueueStored

\* The steps of the requests ...
LEMMA RequestInv ==
    ASSUME Inv, Request
    PROVE  Inv' /\ AllMayMove
<1>1. CASE Enqueue
  BY <1>1, EnqueueInv
<1>2. CASE SendCalled
  BY <1>2, SendInv, CallsOnlyMove
<1>3. ASSUME NEW kind \in {"resend", "requeue"}, NEW m \in messages, ResendCalled(kind, m)
      PROVE  Inv' /\ AllMayMove
  BY <1>3, ResendInv, CallsOnlyMove
<1>4. ASSUME NEW r \in queue, ForceCalled(r) PROVE Inv' /\ AllMayMove
  BY <1>4, ForceInv, CallsOnlyMove
<1>5. ASSUME NEW r \in queue, Delete(r) PROVE Inv' /\ AllMayMove
  BY <1>5, DeleteInv
<1>6. CASE Stop
  BY <1>6, StopInv
<1> QED BY <1>1, <1>2, <1>3, <1>4, <1>5, <1>6 DEF Request

\* ... of the calls under way ...
LEMMA CallStepInv ==
    ASSUME Inv, NEW c \in calls, CallStep(c)
    PROVE  Inv' /\ AllMayMove
<1>1. CASE Look(c)
  BY <1>1, LookInv, CallsOnlyMove
<1>2. CASE NotTaking(c)
  BY <1>2, NotTakingInv, CallsOnlyMove
<1>3. CASE RefuseHandOver(c)
  BY <1>3, RefusedInv, CallsOnlyMove
<1>4. CASE HandOver(c)
  BY <1>4, HandOverInv
<1>5. CASE Write(c)
  BY <1>5, WriteInv
<1>6. CASE WriteFails(c)
  BY <1>6, WriteFailsInv
<1>7. CASE Settle(c)
  BY <1>7, SettleInv
<1>8. CASE Ended(c)
  BY <1>8, EndedInv, CallsOnlyMove
<1>9. CASE QueueStored(c) \/ Discard(c)
  BY <1>9, QueueStoredInv, DiscardInv
<1>10. CASE Claim(c)
  BY <1>10, ClaimInv
<1>11. CASE Record(c)
  BY <1>11, RecordInv
<1>12. CASE DropRow(c)
  BY <1>12, DropRowInv
<1>13. CASE Park(c)
  BY <1>13, ParkInv, CallsOnlyMove
<1>14. CASE RunForced(c)
  BY <1>14, RunForcedInv, CallsOnlyMove
<1> QED BY <1>1, <1>2, <1>3, <1>4, <1>5, <1>6, <1>7, <1>8, <1>9, <1>10, <1>11, <1>12, <1>13, <1>14
        DEF CallStep

\* ... and of consume.
LEMMA ConsumeStepInv ==
    ASSUME Inv, ConsumeStep
    PROVE  Inv' /\ AllMayMove
<1>1. CASE OnText
  BY <1>1, OnTextInv
<1>2. CASE OnTask
  BY <1>2, OnTaskInv
<1>3. CASE OnError
  BY <1>3, OnErrorInv
<1>4. CASE OnDone
  BY <1>4, OnDoneInv
<1>5. CASE OnTaken
  BY <1>5, OnTakenInv
<1>6. CASE Join
  BY <1>6, JoinInv
<1>7. CASE EventsOver
  BY <1>7, EventsOverInv
<1>8. CASE Leave
  BY <1>8, LeaveInv
<1>9. CASE SettleUntaken
  BY <1>9, SettleUntakenInv
<1>10. CASE Release
  BY <1>10, ReleaseInv
<1> QED BY <1>1, <1>2, <1>3, <1>4, <1>5, <1>6, <1>7, <1>8, <1>9, <1>10 DEF ConsumeStep

\* A step that changes nothing.
LEMMA Stuttering ==
    ASSUME Inv, UNCHANGED vars
    PROVE  Inv' /\ AllMayMove
<1>1. CallsOnly /\ Calm
  <2>1. UNCHANGED <<queue, messages, turns, turn, open, consume, calls, cli, waiting, closed, events,
                    accepted, owed, deleted, starts, setbacks, grabbed, displaced, left>>
    BY DEF vars, db, provider, ghost
  <2>2. Still /\ Calm
    BY <2>1, Stands DEF UnchangedTurn, db, provider, ghost, Inv
  <2>3. Handing' = Handing
    BY <2>1 DEF Handing
  <2>4. accepted \in Nat /\ accepted >= accepted /\ left \in [Kinds -> Nat] /\ \A k \in Kinds : left[k] <= left[k]
    BY SameTurn DEF Inv
  <2>5. calls' \ calls = {}
    BY <2>1
  <2>6. CallsOnly
    BY <2>1, <2>2, <2>3, <2>4, <2>5 DEF CallsOnly, Still
  <2> QED BY <2>2, <2>6
<1> QED BY <1>1, CallsOnlyMove

\* Every step keeps the invariant, and moves prompts as they may move.
LEMMA StepInv ==
    ASSUME Inv, [Next]_vars
    PROVE  Inv' /\ AllMayMove
<1>1. CASE Request
  BY <1>1, RequestInv
<1>2. ASSUME NEW r \in queue, Dispatch(r) PROVE Inv' /\ AllMayMove
  BY <1>2, DispatchInv, CallsOnlyMove
<1>3. ASSUME NEW c \in calls, CallStep(c) PROVE Inv' /\ AllMayMove
  BY <1>3, CallStepInv
<1>4. CASE CliAction
  BY <1>4, CliInv, NothingMoves
<1>5. CASE ConsumeStep
  BY <1>5, ConsumeStepInv
<1>6. CASE Crash
  BY <1>6, CrashInv
<1>7. CASE UNCHANGED vars
  BY <1>7, Stuttering
<1> QED BY <1>1, <1>2, <1>3, <1>4, <1>5, <1>6, <1>7 DEF Next

-----------------------------------------------------------------------------
(* The theorems                                                             *)

\* The invariant holds at the start.
LEMMA InitInv == InTime /\ Init => Inv
<1> SUFFICES ASSUME InTime, Init PROVE Inv
  OBVIOUS
<1>1. /\ queue = {} /\ messages = {} /\ turns = 0 /\ turn = NoTurn /\ open = Fresh /\ consume = Idle
      /\ calls = {} /\ cli = NoCli /\ waiting = <<>> /\ closed = FALSE /\ events = <<>>
      /\ accepted = 0 /\ owed = {} /\ deleted = {} /\ grabbed = {} /\ displaced = {}
      /\ starts = [p \in Prompts |-> 0] /\ setbacks = [p \in Prompts |-> 0]
      /\ left \in Budgets
  BY DEF Init
<1>2. Handing = {}
  BY <1>1 DEF Handing
<1>3. /\ NoTurn \in Turn /\ Fresh \in Open /\ Idle \in Consume /\ NoCli \in Cli
      /\ Fresh.pending = <<>> /\ ~Fresh.followUp /\ Idle.pc = "off" /\ Idle.id = 0 /\ Idle.untaken = <<>>
      /\ ~NoCli.on /\ NoTurn.stage = "none" /\ InSeq(<<>>) = {} /\ Once(<<>>)
  BY IdleTypes
<1>4. Typed
  <2>1. left \in [Kinds -> Nat] /\ MaxTurns \in Nat
    BY <1>1, FollowUpAssumption
  <2>2. turns \in 0..MaxTurns
    BY <1>1, <2>1
  <2>3. queue \subseteq QueueRow /\ messages \subseteq Message /\ calls \subseteq Call
    BY <1>1
  <2>4. turn \in Turn /\ open \in Open /\ consume \in Consume /\ cli \in Cli
    BY <1>1, <1>3
  <2>5. waiting \in Seq(Prompts) /\ events \in Seq(Event) /\ closed \in BOOLEAN
    <3>1. <<>> \in Seq(Prompts) /\ <<>> \in Seq(Event)
      OBVIOUS
    <3> QED BY <1>1, <3>1
  <2>6. starts \in [Prompts -> Nat] /\ setbacks \in [Prompts -> Nat]
    BY <1>1
  <2>7. accepted \in Nat /\ owed \subseteq Prompts /\ deleted \subseteq Prompts /\ grabbed \subseteq Prompts /\ displaced \subseteq Prompts
    BY <1>1
  <2> QED BY <1>1, <2>1, <2>2, <2>3, <2>4, <2>5, <2>6, <2>7 DEF Typed, TypeOK
<1>5. Spared
  BY <1>1 DEF Spared, InTime, NoneSentAgain
<1>6. Apart /\ Alone /\ Outrun /\ RunRow /\ SentAlone /\ MayDrop /\ HandedOver /\ Afresh
  BY <1>1, <1>2 DEF Apart, Alone, Outrun, RunRow, SentAlone, MayDrop, HandedOver, Afresh
<1>7. Stages /\ Replying /\ Barren
  BY <1>1, <1>2, <1>3 DEF Stages, Replying, Barren, Reading
<1>8. Holds
  BY <1>1, <1>2, <1>3 DEF Holds
<1> QED BY <1>4, <1>5, <1>6, <1>7, <1>8 DEF Inv

\* Before anything is accepted every prompt is new.
LEMMA InitPlaces == Init => Promise!Init
<1> SUFFICES ASSUME Init PROVE \A p \in Prompts : PlaceOf(p) = "new"
  BY DEF Promise!Init
<1>1. queue = {} /\ messages = {} /\ calls = {} /\ deleted = {} /\ grabbed = {} /\ displaced = {}
  BY DEF Init
<1>2. Handing = {}
  BY <1>1 DEF Handing
<1> QED BY <1>1, <1>2 DEF PlaceOf, Held, HasMsg

\* Every prompt has a place ...
LEMMA PlacesNamed == \A p \in Prompts : PlaceOf(p) \in Promise!Places
BY AllPlaces DEF PlaceIs, Promise!Places

\* ... after a step, too.
LEMMA PlacesNamedNext == (\A p \in Prompts : PlaceOf(p) \in Promise!Places)'
BY PlacesNamed, PTL

\* A step moves every prompt as the promise allows, or none.
LEMMA StepPlaces ==
    ASSUME Inv, Inv', AllMayMove
    PROVE  Promise!Next
<1>1. \A p \in Prompts : PlaceOf(p)' \in Promise!Places
  BY PlacesNamedNext
<1>2. ASSUME NEW p \in Prompts, PlaceOf(p)' # PlaceOf(p)
      PROVE  <<PlaceOf(p), PlaceOf(p)'>> \in Promise!Moves \/ PlaceOf(p)' = "crossed"
  BY <1>2, PlaceMoves
<1> QED BY <1>1, <1>2 DEF Promise!Next

-----------------------------------------------------------------------------
(* The prompts held are those on their way to consume, in order             *)

Taking  == consume.pc \in {"loop", "join", "leave"}
Written == {c \in calls : c.at = "written"}
Says(id, p) == \E m \in messages : m.id = id /\ m.prompt = p

\* How many prompts are echoed by the events up to each.
Counts(r) ==
    /\ r \in [0..Len(events) -> Nat] /\ r[0] = 0
    /\ \A e \in DOMAIN events : /\ events[e].type = "taken" => r[e] = r[e - 1] + 1
                                /\ events[e].type # "taken" => r[e] = r[e - 1]
    /\ \A e, f \in 0..Len(events) : e <= f => r[e] <= r[f]

\* The prompt that is the i-th to be taken, if it is held or about to be.
Due(i, p) == /\ i \in DOMAIN open.pending => Says(open.pending[i], p)
             /\ i = Len(open.pending) + 1 => \A c \in Written : c.prompt = p

\* Those echoed come first, then those in the CLI's stdin; the last of them may
\* be written and not held yet.
InLine(r) ==
    /\ Written = {} => Len(open.pending) = r[Len(events)] + Len(waiting)
    /\ Written # {} => Len(open.pending) + 1 = r[Len(events)] + Len(waiting)
    /\ \A e \in DOMAIN events, i \in Nat, p \in OrNone :
          events[e].type = "taken" /\ i = r[e] /\ p = events[e].prompt => Due(i, p)
    /\ \A j \in DOMAIN waiting, i \in Nat, p \in OrNone :
          i = r[Len(events)] + j /\ p = waiting[j] => Due(i, p)

Line  == Taking => \E r \in [0..Len(events) -> Nat] : Counts(r) /\ InLine(r)
Joins == consume.pc = "join" => Says(consume.id, consume.prompt)

\* Stdin is closed with nothing in it, unless the CLI died.
Shut == /\ (cli.on \/ cli.orderly) /\ closed => waiting = <<>>
        /\ cli.orderly => closed /\ ~cli.on

Ordered == NoneSentAgain /\ Inv /\ Line /\ Joins /\ Shut

\* Nothing is sent a second time, so no call has a message from the start, and
\* nothing is crossed.
LEMMA NoResend ==
    ASSUME NoneSentAgain, Inv
    PROVE  /\ \A kind \in {"resend", "requeue"}, m \in messages : ~ResendCalled(kind, m)
           /\ \A c \in calls : c.kind \in {"send", "force", "run"} /\ ~QueueStored(c) /\ ~Discard(c)
           /\ \A p : ~Crossed(p)
<1>1. \A kind \in {"resend", "requeue"}, m \in messages : ~ResendCalled(kind, m)
  BY DEF Inv, Spared, ResendCalled, Spend
<1>2. ASSUME NEW c \in calls
      PROVE  c.kind \in {"send", "force", "run"} /\ ~QueueStored(c) /\ ~Discard(c)
  <2>1. c.kind \in {"send", "force", "run"} /\ (c.at = "claimed" => c.msg = 0)
    BY DEF Inv, Typed, TypeOK, Fits, Call
  <2> QED BY <2>1 DEF QueueStored, Discard
<1> QED BY <1>1, <1>2 DEF Crossed

\* What the turn holds stays as it is.
Keeps == \A m \in messages :
    m.turn = 0 /\ (m.id \in InSeq(open.pending) \/ m.id = consume.id) => m \in messages'

\* The prompt that joins is the same while its message stays.
LEMMA SameJoins ==
    ASSUME NoneSentAgain, Inv, Joins, Keeps, consume'.pc = "join" => UNCHANGED consume
    PROVE  Joins'
<1> SUFFICES ASSUME consume'.pc = "join" PROVE Says(consume.id, consume.prompt)'
  BY DEF Joins
<1>1. consume' = consume
  OBVIOUS
<1>2. consume.pc = "join" /\ consume.id # 0
  BY <1>1 DEF Inv, Stages
<1>3. Says(consume.id, consume.prompt)
  BY <1>2 DEF Joins
<1> DEFINE x == consume.id
           p == consume.prompt
<1>4. \E m \in messages' : m.id = x /\ m.prompt = p
  <2>1. PICK o \in messages : o.id = consume.id /\ o.turn = 0
    BY <1>2 DEF Inv, Holds, Live
  <2>2. PICK m \in messages : m.id = consume.id /\ m.prompt = consume.prompt
    BY <1>3 DEF Says
  <2>3. m = o
    BY <2>1, <2>2 DEF Inv, Apart
  <2> QED BY <2>1, <2>2, <2>3 DEF Keeps
<1> QED BY <1>1, <1>4 DEF Says

\* Outside the loop nothing is in line.
LEMMA OutOfLine == ASSUME consume'.pc \notin {"loop", "join", "leave"} PROVE Line' /\ Joins'
BY DEF Line, Joins, Taking

\* Stdin stays as it is.
LEMMA SameShut == ASSUME Shut, UNCHANGED <<cli, waiting, closed>> PROVE Shut'
BY DEF Shut

\* A prompt that is held stays due when its message stays.
LEMMA HeldDue ==
    ASSUME NoneSentAgain, Inv, open'.pending = open.pending, Written' = Written,
           \A m \in messages : m.turn = 0 /\ m.id \in InSeq(open.pending) => m \in messages',
           NEW i, NEW p, Due(i, p)
    PROVE  Due(i, p)'
<1>1. ASSUME i \in DOMAIN open.pending
      PROVE  \E m \in messages' : m.id = open'.pending[i] /\ m.prompt = p
  <2> DEFINE x == open.pending[i]
  <2>1. x \in InSeq(open.pending) /\ Says(x, p)
    BY <1>1 DEF Due, InSeq
  <2>2. PICK o \in messages : o.id = x /\ o.turn = 0
    BY <2>1 DEF Inv, Holds, Live
  <2>3. PICK m \in messages : m.id = x /\ m.prompt = p
    BY <2>1 DEF Says
  <2>4. m = o
    BY <2>2, <2>3 DEF Inv, Apart
  <2>5. m \in messages'
    BY <2>1, <2>2, <2>3, <2>4
  <2>6. open'.pending[i] = x
    OBVIOUS
  <2> QED BY <2>3, <2>5, <2>6
<1>2. ASSUME i = Len(open.pending) + 1, NEW c \in Written' PROVE c.prompt = p
  BY <1>2 DEF Due
<1> QED BY <1>1, <1>2 DEF Due, Says

\* And so it does when all that the turn holds stays.
LEMMA StillDue ==
    ASSUME NoneSentAgain, Inv, Keeps, open'.pending = open.pending, Written' = Written, NEW i, NEW p, Due(i, p)
    PROVE  Due(i, p)'
BY HeldDue DEF Keeps

\* The line stays when nothing in it moves.
LEMMA SameLine ==
    ASSUME NoneSentAgain, Inv, Line, Keeps, open'.pending = open.pending, Written' = Written,
           UNCHANGED <<events, waiting>>, Taking' => Taking
    PROVE  Line'
<1> SUFFICES ASSUME Taking PROVE (\E r \in [0..Len(events) -> Nat] : Counts(r) /\ InLine(r))'
  BY DEF Line
<1>1. PICK r \in [0..Len(events) -> Nat] : Counts(r) /\ InLine(r)
  BY DEF Line
<1>2. Counts(r)'
  BY <1>1 DEF Counts
<1>3. InLine(r)'
  BY <1>1, StillDue DEF InLine
<1> QED BY <1>2, <1>3 DEF Counts
-----------------------------------------------------------------------------
(* What the CLI does to the line                                            *)

\* The counts of a line.
LEMMA LineOf ==
    ASSUME Line, Taking
    PROVE  \E r \in [0..Len(events) -> Nat] : Counts(r) /\ InLine(r)
BY DEF Line

\* Events that echo nothing.
LEMMA EmitsLine ==
    ASSUME NoneSentAgain, Inv, Line, Joins, NEW evs \in Seq(Event), Emit(evs), UNCHANGED waiting, InTurn,
           \A i \in DOMAIN evs : evs[i].type # "taken"
    PROVE  Line' /\ Joins'
<1>1. UNCHANGED <<messages, open, consume, calls>> /\ Written' = Written
  BY DEF InTurn, db, Written
<1>2. Keeps
  BY <1>1 DEF Keeps
<1>3. Joins'
  BY <1>1, <1>2, SameJoins
<1>4. /\ events' \in Seq(Event) /\ Len(events') = Len(events) + Len(evs)
      /\ Len(events) \in Nat /\ Len(evs) \in Nat
      /\ DOMAIN events = 1..Len(events) /\ DOMAIN evs = 1..Len(evs)
      /\ DOMAIN events' = 1..(Len(events) + Len(evs))
      /\ \A i \in DOMAIN events : events'[i] = events[i]
      /\ \A i \in DOMAIN evs : events'[Len(events) + i] = evs[i]
  BY Grows DEF Inv
<1>5. ASSUME Taking PROVE \E q \in [0..Len(events') -> Nat] : Counts(q)' /\ InLine(q)'
  <2>1. PICK r \in [0..Len(events) -> Nat] : Counts(r) /\ InLine(r)
    BY <1>5, LineOf
  <2>2. PICK q : q = [e \in 0..(Len(events) + Len(evs)) |-> IF e <= Len(events) THEN r[e] ELSE r[Len(events)]]
    OBVIOUS
  <2>3. /\ q \in [0..Len(events') -> Nat] /\ r[Len(events)] \in Nat
        /\ \A e \in 0..Len(events) : q[e] = r[e]
        /\ \A e \in Len(events)..Len(events') : q[e] = r[Len(events)]
    <3> DEFINE L == Len(events)
               M == Len(evs)
    <3>1. L \in Nat /\ M \in Nat /\ Len(events') = L + M /\ r \in [0..L -> Nat]
      BY <1>4
    <3>2. q = [e \in 0..(L + M) |-> IF e <= L THEN r[e] ELSE r[L]]
      BY <2>2
    <3> HIDE DEF L, M
    <3>3. r[L] \in Nat /\ \A e \in 0..(L + M) : e <= L => r[e] \in Nat
      BY <3>1
    <3>4. \A e \in 0..(L + M) : q[e] = IF e <= L THEN r[e] ELSE r[L]
      BY <3>2
    <3>5. q \in [0..(L + M) -> Nat]
      BY <3>2, <3>3
    <3>6. \A e \in 0..L : q[e] = r[e]
      BY <3>1, <3>4
    <3>7. ASSUME NEW e \in L..(L + M) PROVE q[e] = r[L]
      <4>1. e \in 0..(L + M) /\ (e <= L => e = L)
        BY <3>1
      <4> QED BY <3>4, <4>1
    <3> QED BY <3>1, <3>3, <3>5, <3>6, <3>7 DEF L
  <2>4. ASSUME NEW e \in DOMAIN events'
        PROVE  /\ events'[e].type = "taken" => q[e] = q[e - 1] + 1
               /\ events'[e].type # "taken" => q[e] = q[e - 1]
    <3>1. CASE e \in DOMAIN events
      <4>1. q[e] = r[e] /\ q[e - 1] = r[e - 1] /\ events'[e] = events[e]
        BY <1>4, <2>3, <3>1
      <4> QED BY <2>1, <3>1, <4>1 DEF Counts
    <3>2. CASE e \notin DOMAIN events
      <4> DEFINE i == e - Len(events)
      <4>1. i \in DOMAIN evs /\ e = Len(events) + i
        BY <1>4, <3>2
      <4>2. events'[e] = evs[i] /\ evs[i].type # "taken"
        BY <1>4, <4>1
      <4>3. q[e] = r[Len(events)] /\ q[e - 1] = r[Len(events)]
        <5>1. e \in Len(events)..Len(events') /\ e - 1 \in Len(events)..Len(events')
          BY <1>4, <3>2
        <5> QED BY <2>3, <5>1
      <4> QED BY <4>2, <4>3
    <3> QED BY <3>1, <3>2
  <2>5. ASSUME NEW e \in 0..Len(events'), NEW f \in 0..Len(events'), e <= f
        PROVE  q[e] <= q[f]
    <3>1. \A x, y \in 0..Len(events) : x <= y => r[x] <= r[y]
      BY <2>1 DEF Counts
    <3>2. CASE f <= Len(events)
      <4>1. q[e] = r[e] /\ q[f] = r[f] /\ e \in 0..Len(events) /\ f \in 0..Len(events)
        BY <1>4, <2>3, <2>5, <3>2
      <4> QED BY <2>5, <3>1, <4>1
    <3>3. CASE ~(f <= Len(events)) /\ e <= Len(events)
      <4>1. q[e] = r[e] /\ q[f] = r[Len(events)] /\ e \in 0..Len(events) /\ Len(events) \in 0..Len(events)
        BY <1>4, <2>3, <3>3
      <4> QED BY <3>1, <3>3, <4>1
    <3>4. CASE ~(f <= Len(events)) /\ ~(e <= Len(events))
      <4>1. q[e] = r[Len(events)] /\ q[f] = r[Len(events)]
        BY <1>4, <2>3, <3>4
      <4> QED BY <2>3, <4>1
    <3> QED BY <3>2, <3>3, <3>4
  <2>6. q[0] = 0
    BY <1>4, <2>1, <2>3 DEF Counts
  <2>7. Counts(q)'
    BY <2>3, <2>4, <2>5, <2>6 DEF Counts
  <2>8. \A i \in Nat, p \in OrNone : Due(i, p) => Due(i, p)'
    BY <1>1, <1>2, StillDue
  <2>9. q[Len(events')] = r[Len(events)]
    BY <1>4, <2>3
  <2>10. ASSUME NEW e \in DOMAIN events', NEW i \in Nat, NEW p \in OrNone,
                events'[e].type = "taken", i = q[e], p = events'[e].prompt
         PROVE  Due(i, p)'
    <3>1. e \in DOMAIN events
      <4>1. CASE e \notin DOMAIN events
        <5>1. e - Len(events) \in DOMAIN evs /\ e = Len(events) + (e - Len(events))
          BY <1>4, <4>1
        <5> QED BY <1>4, <2>10, <5>1
      <4> QED BY <4>1
    <3>2. q[e] = r[e] /\ events'[e] = events[e]
      BY <1>4, <2>3, <3>1
    <3>3. Due(i, p)
      BY <2>1, <2>10, <3>1, <3>2 DEF InLine
    <3> QED BY <2>8, <3>3
  <2>11. ASSUME NEW j \in DOMAIN waiting, NEW i \in Nat, NEW p \in OrNone,
                i = r[Len(events)] + j, p = waiting[j]
         PROVE  Due(i, p)'
    <3>1. Due(i, p)
      BY <2>1, <2>11 DEF InLine
    <3> QED BY <2>8, <3>1
  <2>12. InLine(q)'
    BY <1>1, <2>1, <2>9, <2>10, <2>11 DEF InLine
  <2> QED BY <2>3, <2>7, <2>12
<1>6. Line'
  BY <1>1, <1>5 DEF Line, Taking
<1> QED BY <1>3, <1>6

\* The CLI starts on a prompt, and echoes it: it is due where it was.
LEMMA TakesLine ==
    ASSUME NoneSentAgain, Inv, Line, Joins, CliTakes
    PROVE  Line' /\ Joins'
<1> DEFINE t == Ev("taken", Head(waiting), FALSE)
<1>1. /\ UNCHANGED <<messages, open, consume, calls>> /\ Written' = Written
      /\ waiting # <<>> /\ waiting' = Tail(waiting)
  BY DEF CliTakes, InTurn, db, Written
<1>2. Keeps
  BY <1>1 DEF Keeps
<1>3. Joins'
  BY <1>1, <1>2, SameJoins
<1>4. /\ waiting \in Seq(Prompts) /\ Head(waiting) = waiting[1] /\ waiting[1] \in Prompts
      /\ Len(waiting) \in Nat \ {0} /\ Len(waiting') = Len(waiting) - 1
      /\ DOMAIN waiting = 1..Len(waiting) /\ DOMAIN waiting' = 1..(Len(waiting) - 1)
      /\ \A j \in 1..(Len(waiting) - 1) : waiting'[j] = waiting[j + 1]
  <2>1. waiting \in Seq(Prompts)
    BY DEF Inv, Typed, TypeOK
  <2> QED BY <1>1, <2>1, Tails
<1>5. t \in Event /\ t.type = "taken" /\ t.prompt = waiting[1]
  BY <1>4 DEF Ev, Event, OrNone
<1>6. Emit(<<t>>)
  BY DEF CliTakes, Echo
<1> HIDE DEF t
<1>7. /\ Len(events') = Len(events) + 1 /\ Len(events) \in Nat
      /\ DOMAIN events = 1..Len(events) /\ DOMAIN events' = 1..(Len(events) + 1)
      /\ \A i \in DOMAIN events : events'[i] = events[i]
      /\ events'[Len(events) + 1] = t
  <2>1. <<t>> \in Seq(Event) /\ Len(<<t>>) = 1 /\ DOMAIN <<t>> = {1} /\ <<t>>[1] = t
    BY <1>5, OneEvent
  <2> QED BY <1>6, <2>1, Grows DEF Inv
<1>8. ASSUME Taking PROVE \E q \in [0..Len(events') -> Nat] : Counts(q)' /\ InLine(q)'
  <2>1. PICK r \in [0..Len(events) -> Nat] : Counts(r) /\ InLine(r)
    BY <1>8, LineOf
  <2> DEFINE L == Len(events)
  <2>2. PICK q : q = [e \in 0..(L + 1) |-> IF e <= L THEN r[e] ELSE r[L] + 1]
    OBVIOUS
  <2>3. L \in Nat /\ Len(events') = L + 1 /\ r \in [0..L -> Nat] /\ r[L] \in Nat
    BY <1>7
  <2>4. /\ q \in [0..(L + 1) -> Nat]
        /\ \A e \in 0..L : q[e] = r[e]
        /\ q[L + 1] = r[L] + 1
    <3> HIDE DEF L
    <3>1. \A e \in 0..(L + 1) : e <= L => r[e] \in Nat
      BY <2>3
    <3>2. \A e \in 0..(L + 1) : q[e] = IF e <= L THEN r[e] ELSE r[L] + 1
      BY <2>2
    <3>3. q \in [0..(L + 1) -> Nat]
      BY <2>2, <2>3, <3>1
    <3>4. \A e \in 0..L : q[e] = r[e]
      BY <2>3, <3>2
    <3>5. q[L + 1] = r[L] + 1
      BY <2>3, <3>2
    <3> QED BY <3>3, <3>4, <3>5
  <2>5. \A x, y \in 0..L : x <= y => r[x] <= r[y]
    BY <2>1 DEF Counts
  <2>6. ASSUME NEW e \in DOMAIN events'
        PROVE  /\ events'[e].type = "taken" => q[e] = q[e - 1] + 1
               /\ events'[e].type # "taken" => q[e] = q[e - 1]
    <3>1. CASE e \in DOMAIN events
      <4>1. q[e] = r[e] /\ q[e - 1] = r[e - 1] /\ events'[e] = events[e]
        BY <1>7, <2>4, <3>1
      <4> QED BY <2>1, <3>1, <4>1 DEF Counts
    <3>2. CASE e \notin DOMAIN events
      <4>1. e = L + 1 /\ e - 1 = L /\ L \in 0..L
        BY <1>7, <3>2
      <4> QED BY <1>5, <1>7, <2>4, <4>1
    <3> QED BY <3>1, <3>2
  <2>7. ASSUME NEW e \in 0..(L + 1), NEW f \in 0..(L + 1), e <= f
        PROVE  q[e] <= q[f]
    <3> HIDE DEF L
    <3>1. CASE f <= L
      <4>1. q[e] = r[e] /\ q[f] = r[f] /\ e \in 0..L /\ f \in 0..L
        BY <2>3, <2>4, <2>7, <3>1
      <4> QED BY <2>5, <2>7, <4>1
    <3>2. CASE f = L + 1 /\ e <= L
      <4>1. q[e] = r[e] /\ q[f] = r[L] + 1 /\ e \in 0..L /\ L \in 0..L /\ r[e] \in Nat
        BY <2>3, <2>4, <3>2
      <4>2. r[e] <= r[L]
        BY <2>5, <3>2, <4>1
      <4> QED BY <2>3, <4>1, <4>2
    <3>3. CASE e = L + 1 /\ f = L + 1
      BY <2>3, <2>4, <3>3
    <3> QED BY <2>3, <2>7, <3>1, <3>2, <3>3
  <2>8. q[0] = 0
    BY <2>1, <2>3, <2>4 DEF Counts
  <2>9. Counts(q)'
    BY <2>3, <2>4, <2>6, <2>7, <2>8 DEF Counts
  <2>10. \A i \in Nat, p \in OrNone : Due(i, p) => Due(i, p)'
    BY <1>1, <1>2, StillDue
  <2>11. q[Len(events')] = r[L] + 1
    BY <2>3, <2>4
  <2>12. /\ Written = {} => Len(open.pending) = r[L] + Len(waiting)
         /\ Written # {} => Len(open.pending) + 1 = r[L] + Len(waiting)
         /\ \A e \in DOMAIN events, i \in Nat, p \in OrNone :
               events[e].type = "taken" /\ i = r[e] /\ p = events[e].prompt => Due(i, p)
         /\ \A j \in DOMAIN waiting, i \in Nat, p \in OrNone :
               i = r[L] + j /\ p = waiting[j] => Due(i, p)
    BY <2>1 DEF InLine
  <2>13. /\ Written' = {} => Len(open'.pending) = q[Len(events')] + Len(waiting')
         /\ Written' # {} => Len(open'.pending) + 1 = q[Len(events')] + Len(waiting')
    <3> HIDE DEF L
    <3>1. r[L] + Len(waiting) = (r[L] + 1) + (Len(waiting) - 1)
      BY <1>4, <2>3
    <3> QED BY <1>1, <1>4, <2>11, <2>12, <3>1
  <2>14. ASSUME NEW e \in DOMAIN events', NEW i \in Nat, NEW p \in OrNone,
                events'[e].type = "taken", i = q[e], p = events'[e].prompt
         PROVE  Due(i, p)'
    <3>1. CASE e \in DOMAIN events
      <4>1. q[e] = r[e] /\ events'[e] = events[e]
        BY <1>7, <2>4, <3>1
      <4> QED BY <2>10, <2>12, <2>14, <3>1, <4>1
    <3>2. CASE e \notin DOMAIN events
      <4>1. e = L + 1
        BY <1>7, <3>2
      <4>2. i = r[L] + 1 /\ p = waiting[1] /\ 1 \in DOMAIN waiting
        BY <1>4, <1>5, <1>7, <2>4, <2>14, <4>1
      <4> QED BY <2>10, <2>12, <4>2
    <3> QED BY <3>1, <3>2
  <2>15. ASSUME NEW j \in DOMAIN waiting', NEW i \in Nat, NEW p \in OrNone,
                i = (r[L] + 1) + j, p = waiting'[j]
         PROVE  Due(i, p)'
    <3> HIDE DEF L
    <3>1. j + 1 \in DOMAIN waiting /\ waiting'[j] = waiting[j + 1] /\ i = r[L] + (j + 1)
      BY <1>4, <2>3, <2>15
    <3> QED BY <2>10, <2>12, <2>15, <3>1
  <2> HIDE DEF L
  <2>16. InLine(q)'
    BY <2>11, <2>13, <2>14, <2>15 DEF InLine
  <2> QED BY <2>3, <2>4, <2>9, <2>16
<1>9. Line'
  BY <1>1, <1>8 DEF Line, Taking
<1> QED BY <1>3, <1>9

\* Every step of the CLI keeps the line.
LEMMA CliLine ==
    ASSUME NoneSentAgain, Inv, Line, Joins, CliAction
    PROVE  Line' /\ Joins'
<1>0. events \in Seq(Event)
  BY DEF Inv, Typed, TypeOK
<1>1. CASE CliSays
  <2> DEFINE e == Ev("text", 0, FALSE)
  <2>1. e \in Event /\ e.type = "text"
    BY DEF Ev, Event, OrNone
  <2>2. Emit(<<e>>) /\ InTurn /\ UNCHANGED waiting
    BY <1>1 DEF CliSays
  <2> HIDE DEF e
  <2> QED BY <2>1, <2>2, OneEvent, EmitsLine
<1>2. CASE CliStartsTask
  <2> DEFINE e == Ev("task", 0, FALSE)
  <2>1. e \in Event /\ e.type = "task"
    BY DEF Ev, Event, OrNone
  <2>2. Emit(<<e>>) /\ InTurn /\ UNCHANGED waiting
    BY <1>2 DEF CliStartsTask
  <2> HIDE DEF e
  <2> QED BY <2>1, <2>2, OneEvent, EmitsLine
<1>3. CASE CliTaskEnds
  <2>1. Emit(<<>>) /\ InTurn /\ UNCHANGED waiting
    BY <1>0, <1>3 DEF CliTaskEnds, Emit
  <2> QED BY <2>1, NoEvent, EmitsLine
<1>4. CASE CliResult
  <2>1. PICK outcome \in {"fine", "error", "away"} :
          Emit((IF outcome = "fine" THEN <<>> ELSE <<Ev(outcome, 0, FALSE)>>)
                  \o <<Ev("done", 0, StaysOpen)>>)
    BY <1>4 DEF CliResult
  <2> DEFINE e == Ev(outcome, 0, FALSE)
             d == Ev("done", 0, StaysOpen)
             evs == (IF outcome = "fine" THEN <<>> ELSE <<e>>) \o <<d>>
  <2>2. e.type = outcome /\ (outcome # "fine" => e \in Event)
    BY DEF Ev, Event, OrNone
  <2>3. d \in Event /\ d.type = "done"
    <3>1. cli \in Cli
      BY DEF Inv, Typed, TypeOK
    <3> QED BY <3>1 DEF Ev, Event, OrNone, StaysOpen, Cli
  <2>4. InTurn /\ UNCHANGED waiting /\ Emit(evs)
    BY <1>4, <2>1 DEF CliResult
  <2> HIDE DEF e, d
  <2>5. evs \in Seq(Event) /\ \A i \in DOMAIN evs : evs[i] = d \/ evs[i] = e
    <3>1. CASE outcome = "fine"
      <4>1. evs = <<d>>
        BY <3>1
      <4> QED BY SMTT(30), <4>1, <2>3
    <3>2. CASE outcome # "fine"
      <4>1. evs = <<e>> \o <<d>> /\ <<e>> \in Seq(Event) /\ <<d>> \in Seq(Event)
        BY <2>2, <2>3, <3>2
      <4>2. /\ evs \in Seq(Event) /\ Len(evs) = 2
            /\ \A i \in 1..2 : evs[i] = IF i <= 1 THEN <<e>>[i] ELSE <<d>>[i - 1]
        BY <4>1, ConcatProperties
      <4>3. DOMAIN evs = 1..2 /\ evs[1] = e /\ evs[2] = d
        BY <4>2
      <4> QED BY <4>2, <4>3
    <3> QED BY <3>1, <3>2
  <2> HIDE DEF evs
  <2>6. \A i \in DOMAIN evs : evs[i].type # "taken"
    BY <2>2, <2>3, <2>5
  <2> QED BY <2>4, <2>5, <2>6, EmitsLine
<1>5. CASE CliTakes
  BY <1>5, TakesLine
<1>6. CASE CliExits
  <2>1. Emit(<<>>) /\ InTurn /\ UNCHANGED waiting
    BY <1>0, <1>6 DEF CliExits, Emit
  <2> QED BY <2>1, NoEvent, EmitsLine
<1>7. CASE CliDies
  <2>1. CASE UNCHANGED <<events, left>>
    <3>1. Emit(<<>>) /\ InTurn /\ UNCHANGED waiting
      BY <1>0, <1>7, <2>1 DEF CliDies, Emit
    <3> QED BY <3>1, NoEvent, EmitsLine
  <2>2. ASSUME NEW outcome \in {"error", "away"}, Emit(<<Ev(outcome, 0, FALSE)>>)
        PROVE  Line' /\ Joins'
    <3> DEFINE e == Ev(outcome, 0, FALSE)
    <3>1. e \in Event /\ e.type = outcome
      BY DEF Ev, Event, OrNone
    <3>2. Emit(<<e>>) /\ InTurn /\ UNCHANGED waiting
      BY <1>7, <2>2 DEF CliDies
    <3> HIDE DEF e
    <3> QED BY <3>1, <3>2, OneEvent, EmitsLine
  <2> QED BY <1>7, <2>1, <2>2 DEF CliDies
<1> QED BY <1>1, <1>2, <1>3, <1>4, <1>5, <1>6, <1>7 DEF CliAction

\* Stdin is closed when nothing is in it, and nothing is written to it then.
LEMMA CliShut ==
    ASSUME NoneSentAgain, Inv, Shut, CliAction
    PROVE  Shut'
<1>0. cli \in Cli /\ closed \in BOOLEAN
  BY DEF Inv, Typed, TypeOK
<1>1. cli.on /\ ~cli.orderly
  <2>1. cli.on
    BY DEF CliAction, CliSays, CliStartsTask, CliTaskEnds, CliResult, CliTakes, CliExits, CliDies, InTurn
  <2> QED BY <2>1 DEF Shut
<1>2. CASE CliSays
  BY <1>2 DEF CliSays, Shut
<1>3. CASE CliStartsTask \/ CliTaskEnds
  <2>1. cli'.on = cli.on /\ cli'.orderly = cli.orderly /\ UNCHANGED <<waiting, closed>>
    BY <1>0, <1>3 DEF CliStartsTask, CliTaskEnds, Cli
  <2> QED BY <2>1 DEF Shut
<1>4. CASE CliResult
  <2>1. cli'.on = cli.on /\ cli'.orderly = cli.orderly /\ UNCHANGED waiting
    BY <1>0, <1>4 DEF CliResult, Cli
  <2>2. closed' => closed \/ waiting = <<>>
    BY <1>4 DEF CliResult, StaysOpen
  <2> QED BY <1>1, <2>1, <2>2 DEF Shut
<1>5. CASE CliTakes
  <2>1. cli'.on = cli.on /\ cli'.orderly = cli.orderly /\ UNCHANGED closed /\ waiting # <<>>
    BY <1>0, <1>5 DEF CliTakes, Cli
  <2> QED BY <1>1, <2>1 DEF Shut
<1>6. CASE CliExits
  <2>1. cli'.on = FALSE /\ cli'.orderly = TRUE /\ UNCHANGED <<waiting, closed>> /\ closed
    BY <1>0, <1>6 DEF CliExits, Cli
  <2> QED BY <1>1, <2>1 DEF Shut
<1>7. CASE CliDies
  <2>1. cli'.on = FALSE /\ cli'.orderly = cli.orderly
    BY <1>0, <1>7 DEF CliDies, Cli
  <2> QED BY <1>1, <2>1 DEF Shut
<1> QED BY <1>2, <1>3, <1>4, <1>5, <1>6, <1>7 DEF CliAction
-----------------------------------------------------------------------------
(* What a hand-over does to the line                                        *)

\* What is written is the last in stdin.
LEMMA WriteLine ==
    ASSUME NoneSentAgain, Inv, Line, Joins, NEW c, Write(c)
    PROVE  Line' /\ Joins'
<1>1. c \in Handing /\ c.at = "stored" /\ ~closed
  BY DEF Write, Handing
<1>2. Handing = {c} /\ c \in calls /\ c \in Call /\ c.prompt \in Prompts
  <2>1. Handing = {c} /\ c \in calls /\ c \in Call
    BY <1>1, WhileHanding
  <2> QED BY <2>1 DEF Call
<1> DEFINE d == [c EXCEPT !.at = "written"]
<1>3. d.at = "written" /\ d.prompt = c.prompt
  BY <1>2 DEF Call
<1>4. calls' = (calls \ {c}) \cup {d} /\ waiting' = Append(waiting, c.prompt)
      /\ UNCHANGED <<queue, messages, turns, turn, open, consume, cli, closed, events>>
  BY DEF Write, To, db
<1> HIDE DEF d
<1>5. Written = {} /\ Written' = {d}
  BY <1>1, <1>2, <1>3, <1>4 DEF Written, Handing
<1>6. Keeps
  BY <1>4 DEF Keeps
<1>7. Joins'
  BY <1>4, <1>6, SameJoins
<1>8. /\ Len(waiting) \in Nat /\ Len(waiting') = Len(waiting) + 1
      /\ DOMAIN waiting = 1..Len(waiting) /\ DOMAIN waiting' = 1..(Len(waiting) + 1)
      /\ \A j \in DOMAIN waiting : waiting'[j] = waiting[j]
      /\ waiting'[Len(waiting) + 1] = c.prompt
  <2>1. waiting \in Seq(Prompts)
    BY DEF Inv, Typed, TypeOK
  <2> QED BY <1>2, <1>4, <2>1, AppendProperties
<1>9. events \in Seq(Event) /\ Len(events) \in Nat /\ DOMAIN events = 1..Len(events) /\ Len(open.pending) \in Nat
      /\ DOMAIN open.pending = 1..Len(open.pending)
  <2>1. events \in Seq(Event) /\ open \in Open
    BY DEF Inv, Typed, TypeOK
  <2>2. open.pending \in Seq(MsgIds)
    BY <2>1 DEF Open
  <2> QED BY <2>1, <2>2
<1>10. ASSUME Taking PROVE \E q \in [0..Len(events) -> Nat] : Counts(q)' /\ InLine(q)'
  <2>1. PICK r \in [0..Len(events) -> Nat] : Counts(r) /\ InLine(r)
    BY <1>10, LineOf
  <2>2. Counts(r)'
    BY <1>4, <2>1 DEF Counts
  <2>3. Len(open.pending) = r[Len(events)] + Len(waiting) /\ r[Len(events)] \in Nat
    BY <1>5, <1>9, <2>1 DEF InLine
  <2>4. ASSUME NEW i \in Nat, NEW p, Due(i, p), i = Len(open.pending) + 1 => p = c.prompt
        PROVE  Due(i, p)'
    <3>1. i \in DOMAIN open.pending => Says(open.pending[i], p)
      BY <2>4 DEF Due
    <3>2. \A x : Says(x, p) => \E m \in messages' : m.id = x /\ m.prompt = p
      BY <1>4 DEF Says
    <3>3. \A e \in Written' : e.prompt = c.prompt
      BY <1>3, <1>5
    <3> QED BY <1>4, <2>4, <3>1, <3>2, <3>3 DEF Due, Says
  <2>5. ASSUME NEW e \in DOMAIN events, NEW i \in Nat, NEW p \in OrNone,
               events[e].type = "taken", i = r[e], p = events[e].prompt
        PROVE  Due(i, p)'
    <3>1. Due(i, p)
      BY <2>1, <2>5 DEF InLine
    <3>2. r[e] <= r[Len(events)]
      BY <1>9, <2>1 DEF Counts
    <3>3. i # Len(open.pending) + 1
      BY <1>8, <2>3, <2>5, <3>2
    <3> QED BY <2>4, <3>1, <3>3
  <2>6. ASSUME NEW j \in DOMAIN waiting', NEW i \in Nat, NEW p \in OrNone,
               i = r[Len(events)] + j, p = waiting'[j]
        PROVE  Due(i, p)'
    <3>1. CASE j \in DOMAIN waiting
      <4>1. Due(i, p)
        BY <1>8, <2>1, <2>6, <3>1 DEF InLine
      <4>2. i # Len(open.pending) + 1
        BY <1>8, <2>3, <2>6, <3>1
      <4> QED BY <2>4, <4>1, <4>2
    <3>2. CASE j \notin DOMAIN waiting
      <4>1. j = Len(waiting) + 1 /\ p = c.prompt
        BY <1>8, <2>6, <3>2
      <4>2. i = Len(open.pending) + 1 /\ i \notin DOMAIN open.pending
        BY <1>8, <1>9, <2>3, <2>6, <4>1
      <4>3. Due(i, p)
        BY <1>5, <4>2 DEF Due
      <4> QED BY <2>4, <4>1, <4>3
    <3> QED BY <3>1, <3>2
  <2>7. Len(open'.pending) + 1 = r[Len(events)] + Len(waiting')
    BY <1>4, <1>8, <1>9, <2>3
  <2>8. InLine(r)'
    BY <1>4, <1>5, <2>5, <2>6, <2>7 DEF InLine
  <2> QED BY <2>1, <2>2, <2>8
<1>11. Line'
  BY <1>4, <1>10 DEF Line, Taking
<1> QED BY <1>7, <1>11

\* And it is held as the last.
LEMMA SettleLine ==
    ASSUME NoneSentAgain, Inv, Line, Joins, NEW c, Settle(c)
    PROVE  Line' /\ Joins'
<1>1. SettleEnds(c)
  BY SettleEndsSo
<1>2. /\ c \in calls /\ c.at = "written" /\ Handing = {c} /\ c \in Handing /\ Handing' = {}
      /\ UNCHANGED <<turns, turn, consume, cli, waiting, closed, events>>
      /\ c.prompt \in Prompts
  BY <1>1 DEF SettleEnds, Handing
<1>3. Written = {c} /\ Written' = {}
  BY <1>2 DEF Written, Handing
<1>4. PICK id \in MsgIds : /\ Hold(id) /\ messages \subseteq messages'
                           /\ \E m \in messages' : m.id = id /\ m.prompt = c.prompt
  <2>1. CASE c.kind = "send"
    <3>1. Hold(c.msg) /\ messages' = messages
      <4>1. c.row = 0
        BY <1>1, <2>1 DEF SettleEnds, Fits
      <4> QED BY <2>1, <4>1 DEF Settle, db
    <3>2. \E m \in messages : m.id = c.msg /\ m.prompt = c.prompt
      <4>1. ~Crossed(c.prompt)
        BY NoResend
      <4> QED BY <1>2, <2>1, <4>1 DEF Inv, SentAlone
    <3>3. c.msg \in MsgIds
      <4>1. \A m \in messages : m.id \in MsgIds
        BY DEF Inv, Typed, TypeOK, Message
      <4> QED BY <3>2, <4>1
    <3> QED BY <3>1, <3>2, <3>3
  <2>2. CASE c.kind # "send"
    <3>1. c.kind = "force" /\ c.row # 0
      <4>1. c.kind \in {"send", "force", "run"} /\ c.kind # "run"
        BY <1>1, NoResend DEF SettleEnds
      <4> QED BY <1>1, <2>2, <4>1 DEF SettleEnds, Fits
    <3>2. PICK id \in MsgIds : /\ IsNewMsg(messages, id) /\ Hold(id)
                               /\ messages' = Added(messages, c.prompt, 0, id)
      BY <3>1 DEF Settle
    <3>3. messages \subseteq messages' /\ [id |-> id, prompt |-> c.prompt, turn |-> 0] \in messages'
      BY <3>2 DEF Added
    <3> QED BY <3>2, <3>3
  <2> QED BY <2>1, <2>2
<1>5. Keeps
  BY <1>4 DEF Keeps
<1>6. Joins'
  BY <1>2, <1>5, SameJoins
<1>7. /\ open.pending \in Seq(MsgIds) /\ open'.pending = Append(open.pending, id)
      /\ Len(open.pending) \in Nat /\ Len(open'.pending) = Len(open.pending) + 1
      /\ DOMAIN open.pending = 1..Len(open.pending) /\ DOMAIN open'.pending = 1..(Len(open.pending) + 1)
      /\ \A j \in DOMAIN open.pending : open'.pending[j] = open.pending[j]
      /\ open'.pending[Len(open.pending) + 1] = id
  <2>1. open \in Open
    BY DEF Inv, Typed, TypeOK
  <2>2. open.pending \in Seq(MsgIds) /\ open'.pending = Append(open.pending, id)
    BY <1>4, <2>1 DEF Hold, Open
  <2> QED BY <2>2, AppendProperties
<1>8. events \in Seq(Event) /\ waiting \in Seq(Prompts)
  BY DEF Inv, Typed, TypeOK
<1>9. Len(events) \in Nat /\ DOMAIN events = 1..Len(events)
      /\ Len(waiting) \in Nat /\ DOMAIN waiting = 1..Len(waiting)
  BY <1>8
<1>10. ASSUME Taking PROVE \E q \in [0..Len(events) -> Nat] : Counts(q)' /\ InLine(q)'
  <2>1. PICK r \in [0..Len(events) -> Nat] : Counts(r) /\ InLine(r)
    BY <1>10, LineOf
  <2>2. Counts(r)'
    BY <1>2, <2>1 DEF Counts
  <2>3. Len(open.pending) + 1 = r[Len(events)] + Len(waiting) /\ r[Len(events)] \in Nat
    BY <1>3, <1>9, <2>1 DEF InLine
  <2>4. ASSUME NEW i \in Nat, NEW p, Due(i, p)
        PROVE  Due(i, p)'
    <3>1. CASE i \in DOMAIN open.pending
      <4>1. PICK m \in messages : m.id = open.pending[i] /\ m.prompt = p
        BY <2>4, <3>1 DEF Due, Says
      <4>2. m \in messages' /\ open'.pending[i] = open.pending[i]
        BY <1>4, <1>7, <3>1
      <4> QED BY <1>3, <4>1, <4>2 DEF Due, Says
    <3>2. CASE i = Len(open.pending) + 1
      <4>1. c.prompt = p
        BY <1>3, <2>4, <3>2 DEF Due
      <4>2. open'.pending[i] = id
        BY <1>7, <3>2
      <4> QED BY <1>3, <1>4, <4>1, <4>2 DEF Due, Says
    <3>3. CASE i \notin DOMAIN open.pending /\ i # Len(open.pending) + 1
      <4>1. i \notin DOMAIN open'.pending
        BY <1>7, <3>3
      <4> QED BY <1>3, <4>1 DEF Due
    <3> QED BY <3>1, <3>2, <3>3
  <2>5. Len(open'.pending) = r[Len(events)] + Len(waiting)
    BY <1>7, <2>3
  <2>6. /\ \A e \in DOMAIN events, i \in Nat, p \in OrNone :
              events[e].type = "taken" /\ i = r[e] /\ p = events[e].prompt => Due(i, p)'
        /\ \A j \in DOMAIN waiting, i \in Nat, p \in OrNone :
              i = r[Len(events)] + j /\ p = waiting[j] => Due(i, p)'
    BY <2>1, <2>4 DEF InLine
  <2>7. InLine(r)'
    BY <1>2, <1>3, <2>5, <2>6 DEF InLine
  <2> QED BY <2>1, <2>2, <2>7
<1>11. Line'
  BY <1>2, <1>10 DEF Line, Taking
<1> QED BY <1>6, <1>11

\* A hand-over that begins, and one that failed, hold nothing.
LEMMA HandOverLine ==
    ASSUME NoneSentAgain, Inv, Line, Joins, NEW c, HandOver(c)
    PROVE  Line' /\ Joins'
<1>1. /\ c \in calls /\ c \in Call /\ c.at = "looked" /\ c.msg = 0
      /\ UNCHANGED <<queue, turns, turn, open, consume, cli, waiting, closed, events>>
  <2>1. c \in calls /\ c \in Call /\ c.at = "looked" /\ c.msg = 0
    <3>1. c \in calls /\ c \in Call /\ c.at = "looked" /\ (c.msg # 0 <=> c.kind = "resend")
      BY WhileTaking
    <3>2. c.kind \in {"send", "force", "run"}
      BY <3>1, NoResend
    <3> QED BY <3>1, <3>2
  <2> QED BY <2>1 DEF HandOver, UnchangedTurn, provider
<1>2. messages \subseteq messages'
  BY <1>1 DEF HandOver, Added
<1>3. PICK d : calls' = (calls \ {c}) \cup {d} /\ d.at = "stored"
  <2>1. CASE c.row # 0
    <3>1. PICK r \in Rows(c.row) : calls' = (calls \ {c}) \cup {[c EXCEPT !.at = "stored", !.prompt = r.prompt]}
      BY <2>1 DEF HandOver
    <3>2. [c EXCEPT !.at = "stored", !.prompt = r.prompt].at = "stored"
      BY <1>1 DEF Call
    <3> QED BY <3>1, <3>2
  <2>2. CASE c.row = 0
    <3>1. PICK id \in MsgIds : calls' = (calls \ {c}) \cup {[c EXCEPT !.at = "stored", !.msg = id]}
      BY <1>1, <2>2 DEF HandOver
    <3>2. [c EXCEPT !.at = "stored", !.msg = id].at = "stored"
      BY <1>1 DEF Call
    <3> QED BY <3>1, <3>2
  <2> QED BY <2>1, <2>2
<1>4. Written' = Written
  BY <1>1, <1>3 DEF Written
<1>5. Keeps
  BY <1>2 DEF Keeps
<1> QED BY <1>1, <1>4, <1>5, SameLine, SameJoins DEF Taking

\* A hand-over that failed was not in the line.
LEMMA WriteFailsLine ==
    ASSUME NoneSentAgain, Inv, Line, Joins, NEW c, WriteFails(c)
    PROVE  Line' /\ Joins'
<1>1. /\ c \in Handing /\ c \in calls /\ c.at = "stored" /\ c \in Call
      /\ UNCHANGED <<consume, cli, waiting, closed, events>>
  <2>1. c \in Handing /\ c \in calls /\ c.at = "stored" /\ UNCHANGED <<consume, cli, waiting, closed, events>>
    BY DEF WriteFails, Handing, provider
  <2> QED BY <2>1, WhileHanding
<1>2. open'.pending = open.pending
  <2>1. open \in Open
    BY DEF Inv, Typed, TypeOK
  <2> QED BY <2>1 DEF WriteFails, Open
<1>3. Written' = Written
  <2> DEFINE id == IF c.kind = "send" THEN 0 ELSE c.msg
             d == [c EXCEPT !.at = "ending", !.msg = id]
  <2>1. calls' = (calls \ {c}) \cup {d}
    BY DEF WriteFails
  <2>2. d.at = "ending"
    BY <1>1 DEF Call
  <2> HIDE DEF d
  <2> QED BY <1>1, <2>1, <2>2 DEF Written
<1>4. Keeps
  <2> SUFFICES ASSUME NEW m \in messages, m.id \in InSeq(open.pending) \/ m.id = consume.id
               PROVE  m \notin Forgotten(c)
    BY DEF Keeps, WriteFails
  <2>1. CASE c.kind = "send"
    <3>1. c.msg # 0
      BY <1>1, <2>1, WhileHanding DEF Fits
    <3>2. c.msg \notin InSeq(open.pending) /\ c.msg # consume.id
      BY <1>1, <3>1 DEF Inv, Holds
    <3> QED BY <3>2 DEF Forgotten
  <2>2. CASE c.kind # "send"
    BY <2>2 DEF Forgotten
  <2> QED BY <2>1, <2>2
<1> QED BY <1>1, <1>2, <1>3, <1>4, SameLine, SameJoins DEF Taking
-----------------------------------------------------------------------------
(* What consume does to the line                                            *)

\* An event that echoes nothing goes.
LEMMA PassLine ==
    ASSUME NoneSentAgain, Inv, Line, NEW type, Consuming(type), type # "taken", open'.pending = open.pending, Keeps
    PROVE  Line'
<1>1. /\ events' \in Seq(Event) /\ events[1].type = type /\ 1 \in DOMAIN events
      /\ \A i \in DOMAIN events' : i + 1 \in DOMAIN events /\ events'[i] = events[i + 1]
      /\ Len(events) \in Nat /\ Len(events') = Len(events) - 1
  BY NextEvent
<1>2. UNCHANGED <<calls, waiting>> /\ Written' = Written /\ Taking
  BY DEF Consuming, Written, Taking
<1>3. /\ DOMAIN events' = 1..(Len(events) - 1) /\ Len(events) >= 1 /\ DOMAIN events = 1..Len(events)
      /\ Len(events') \in Nat /\ Len(events') + 1 = Len(events)
  <2>1. events \in Seq(Event)
    BY DEF Inv, Typed, TypeOK
  <2> QED BY <1>1, <2>1
<1>4. PICK r \in [0..Len(events) -> Nat] : Counts(r) /\ InLine(r)
  BY <1>2, LineOf
<1>5. PICK q : q = [e \in 0..Len(events') |-> r[e + 1]]
  OBVIOUS
<1>6. q \in [0..Len(events') -> Nat] /\ \A e \in 0..Len(events') : e + 1 \in 0..Len(events) /\ q[e] = r[e + 1]
  <2>1. \A e \in 0..Len(events') : e + 1 \in 0..Len(events)
    BY <1>3
  <2> QED BY <1>5, <2>1
<1>7. Counts(q)'
  <2>1. q[0] = 0
    <3>1. r[1] = r[0] /\ r[0] = 0
      BY <1>1, <1>4 DEF Counts
    <3> QED BY <1>3, <1>6, <3>1
  <2>2. ASSUME NEW e \in DOMAIN events'
        PROVE  /\ events'[e].type = "taken" => q[e] = q[e - 1] + 1
               /\ events'[e].type # "taken" => q[e] = q[e - 1]
    <3>1. q[e] = r[e + 1] /\ q[e - 1] = r[e] /\ e + 1 \in DOMAIN events /\ events'[e] = events[e + 1]
      <4>1. e \in 0..Len(events') /\ e - 1 \in 0..Len(events') /\ (e - 1) + 1 = e
        BY <1>3
      <4> QED BY <1>1, <1>6, <4>1
    <3>2. (e + 1) - 1 = e
      BY <1>3
    <3> QED BY <1>4, <3>1, <3>2 DEF Counts
  <2>3. ASSUME NEW e \in 0..Len(events'), NEW f \in 0..Len(events'), e <= f
        PROVE  q[e] <= q[f]
    <3>1. e + 1 <= f + 1 /\ e + 1 \in 0..Len(events) /\ f + 1 \in 0..Len(events)
      BY <1>6, <2>3
    <3>2. r[e + 1] <= r[f + 1]
      BY <1>4, <3>1 DEF Counts
    <3> QED BY <1>6, <3>2
  <2> QED BY <1>6, <2>1, <2>2, <2>3 DEF Counts
<1>8. q[Len(events')] = r[Len(events)]
  BY <1>3, <1>6
<1>9. \A i \in Nat, p \in OrNone : Due(i, p) => Due(i, p)'
  BY <1>2, StillDue
<1>10. ASSUME NEW e \in DOMAIN events', NEW i \in Nat, NEW p \in OrNone,
              events'[e].type = "taken", i = q[e], p = events'[e].prompt
       PROVE  Due(i, p)'
  <2>1. e + 1 \in DOMAIN events /\ events'[e] = events[e + 1] /\ e \in 0..Len(events')
    BY <1>1, <1>3
  <2>2. i = r[e + 1]
    BY <1>6, <1>10, <2>1
  <2>3. Due(i, p)
    BY <1>4, <1>10, <2>1, <2>2 DEF InLine
  <2> QED BY <1>9, <2>3
<1>11. ASSUME NEW j \in DOMAIN waiting, NEW i \in Nat, NEW p \in OrNone,
              i = r[Len(events)] + j, p = waiting[j]
       PROVE  Due(i, p)'
  BY <1>4, <1>9, <1>11 DEF InLine
<1>12. InLine(q)'
  BY <1>2, <1>4, <1>8, <1>10, <1>11 DEF InLine
<1> QED BY <1>6, <1>7, <1>12 DEF Line

\* The prompt that the CLI took is the first that is held: it joins.
LEMMA OnTakenLine ==
    ASSUME NoneSentAgain, Inv, Line, Joins, OnTaken
    PROVE  Line' /\ Joins'
<1>1. Consuming("taken") /\ Handing = {} /\ UNCHANGED messages
  BY DEF OnTaken, Unlocked
<1>2. /\ events' \in Seq(Event) /\ events[1] = Coming /\ Coming.type = "taken" /\ Coming \in Event
      /\ 1 \in DOMAIN events
      /\ \A i \in DOMAIN events' : i + 1 \in DOMAIN events /\ events'[i] = events[i + 1]
      /\ Len(events) \in Nat /\ Len(events') = Len(events) - 1
  BY <1>1, NextEvent
<1>3. UNCHANGED <<calls, waiting>> /\ Written = {} /\ Written' = {} /\ Taking
  BY <1>1 DEF Consuming, Written, Taking, Handing
<1>4. /\ DOMAIN events' = 1..(Len(events) - 1) /\ Len(events) >= 1 /\ DOMAIN events = 1..Len(events)
      /\ Len(events') \in Nat /\ Len(events') + 1 = Len(events)
      /\ waiting \in Seq(Prompts) /\ Len(waiting) \in Nat /\ DOMAIN waiting = 1..Len(waiting)
  <2>1. events \in Seq(Event) /\ waiting \in Seq(Prompts)
    BY DEF Inv, Typed, TypeOK
  <2> QED BY <1>2, <2>1
<1>5. PICK r \in [0..Len(events) -> Nat] : Counts(r) /\ InLine(r)
  BY <1>3, LineOf
<1>6. r[0] = 0 /\ r[1] = 1 /\ \A e \in 1..Len(events) : r[e] >= 1
  <2>1. r[0] = 0 /\ r[1] = 1
    BY <1>2, <1>5 DEF Counts
  <2>2. \A x, y \in 0..Len(events) : x <= y => r[x] <= r[y]
    BY <1>5 DEF Counts
  <2>3. ASSUME NEW e \in 1..Len(events) PROVE r[e] >= 1
    <3>1. 1 \in 0..Len(events) /\ e \in 0..Len(events) /\ 1 <= e
      BY <1>4
    <3>2. r[1] <= r[e] /\ r[e] \in Nat
      BY <2>2, <3>1
    <3> QED BY <2>1, <3>2
  <2> QED BY <2>1, <2>3
<1>7. /\ Len(open.pending) = r[Len(events)] + Len(waiting) /\ r[Len(events)] \in Nat
      /\ r[Len(events)] >= 1
  <2>1. Len(events) \in 1..Len(events) /\ Len(events) \in 0..Len(events)
    BY <1>4
  <2> QED BY <1>3, <1>5, <1>6, <2>1 DEF InLine
<1>8. open \in Open /\ open.pending \in Seq(MsgIds) /\ open.pending # <<>>
  <2>1. open \in Open
    BY DEF Inv, Typed, TypeOK
  <2>2. open.pending \in Seq(MsgIds)
    BY <2>1 DEF Open
  <2>3. Len(open.pending) # 0
    BY <1>4, <1>7
  <2> QED BY <2>1, <2>2, <2>3
<1>9. /\ open' = [open EXCEPT !.pending = Tail(open.pending)]
      /\ consume' = [consume EXCEPT !.pc = "join", !.id = Head(open.pending), !.prompt = Coming.prompt]
  BY <1>8 DEF OnTaken
<1>10. open'.pending = Tail(open.pending)
  BY <1>8, <1>9 DEF Open
<1>11. /\ Len(open'.pending) = Len(open.pending) - 1 /\ Len(open.pending) \in Nat \ {0}
       /\ DOMAIN open.pending = 1..Len(open.pending) /\ DOMAIN open'.pending = 1..(Len(open.pending) - 1)
       /\ \A i \in 1..(Len(open.pending) - 1) : open'.pending[i] = open.pending[i + 1]
       /\ Head(open.pending) = open.pending[1]
  BY <1>8, <1>10, Tails
\* What joins is the prompt of the echo.
<1>12. Joins'
  <2>1. Coming.prompt \in OrNone
    BY <1>2 DEF Event
  <2>2. Due(1, Coming.prompt)
    <3> DEFINE p == Coming.prompt
    <3>1. p = events[1].prompt /\ 1 = r[1] /\ events[1].type = "taken" /\ 1 \in Nat
      BY <1>2, <1>6
    <3> HIDE DEF p
    <3>2. Due(1, p)
      BY <1>2, <1>5, <2>1, <3>1 DEF InLine, p
    <3> QED BY <3>2 DEF p
  <2>3. Says(open.pending[1], Coming.prompt)
    BY <1>11, <2>2 DEF Due
  <2>4. consume'.id = Head(open.pending) /\ consume'.prompt = Coming.prompt
    <3>1. consume \in Consume
      BY DEF Inv, Typed, TypeOK
    <3> QED BY <1>9, <3>1 DEF Consume
  <2>5. \E m \in messages' : m.id = consume'.id /\ m.prompt = consume'.prompt
    BY <1>1, <1>11, <2>3, <2>4 DEF Says
  <2> QED BY <2>5 DEF Joins, Says
<1>13. PICK q : q = [e \in 0..Len(events') |-> r[e + 1] - 1]
  OBVIOUS
<1>14. /\ q \in [0..Len(events') -> Nat]
       /\ \A e \in 0..Len(events') : e + 1 \in 1..Len(events) /\ q[e] = r[e + 1] - 1 /\ r[e + 1] \in Nat \ {0}
  <2>1. \A e \in 0..Len(events') : e + 1 \in 1..Len(events) /\ e + 1 \in 0..Len(events)
    BY <1>4
  <2>2. ASSUME NEW e \in 0..Len(events') PROVE r[e + 1] \in Nat \ {0} /\ r[e + 1] - 1 \in Nat
    <3>1. r[e + 1] >= 1 /\ r[e + 1] \in Nat
      BY <1>6, <2>1
    <3> QED BY <3>1
  <2> QED BY <1>13, <2>1, <2>2
<1>15. Counts(q)'
  <2>1. q[0] = 0
    <3>1. 0 \in 0..Len(events') /\ 0 + 1 = 1
      BY <1>4
    <3> QED BY <1>6, <1>14, <3>1
  <2>2. ASSUME NEW e \in DOMAIN events'
        PROVE  /\ events'[e].type = "taken" => q[e] = q[e - 1] + 1
               /\ events'[e].type # "taken" => q[e] = q[e - 1]
    <3>1. e \in 0..Len(events') /\ e - 1 \in 0..Len(events') /\ (e - 1) + 1 = e /\ (e + 1) - 1 = e
      BY <1>2, <1>4
    <3>2. q[e] = r[e + 1] - 1 /\ q[e - 1] = r[e] - 1 /\ r[e + 1] \in Nat /\ r[e] \in Nat
      <4>1. q[e - 1] = r[(e - 1) + 1] - 1 /\ r[(e - 1) + 1] \in Nat
        BY <1>14, <3>1
      <4> QED BY <1>14, <3>1, <4>1
    <3>3. e + 1 \in DOMAIN events /\ events'[e] = events[e + 1]
      BY <1>2
    <3>4. /\ events[e + 1].type = "taken" => r[e + 1] = r[e] + 1
          /\ events[e + 1].type # "taken" => r[e + 1] = r[e]
      BY <1>5, <3>1, <3>3 DEF Counts
    <3> QED BY <3>2, <3>3, <3>4
  <2>3. ASSUME NEW e \in 0..Len(events'), NEW f \in 0..Len(events'), e <= f
        PROVE  q[e] <= q[f]
    <3>1. e + 1 <= f + 1 /\ e + 1 \in 0..Len(events) /\ f + 1 \in 0..Len(events)
      BY <1>4, <2>3
    <3>2. r[e + 1] <= r[f + 1]
      BY <1>5, <3>1 DEF Counts
    <3>3. q[e] = r[e + 1] - 1 /\ q[f] = r[f + 1] - 1 /\ r[e + 1] \in Nat /\ r[f + 1] \in Nat
      BY <1>14
    <3> QED BY <3>2, <3>3
  <2> QED BY <1>14, <2>1, <2>2, <2>3 DEF Counts
<1>16. q[Len(events')] = r[Len(events)] - 1
  <2>1. Len(events') \in 0..Len(events')
    BY <1>4
  <2> QED BY <1>4, <1>14, <2>1
<1>17. ASSUME NEW i \in Nat, NEW p, Due(i + 1, p)
       PROVE  Due(i, p)'
  <2>1. ASSUME i \in DOMAIN open'.pending
        PROVE  \E m \in messages' : m.id = open'.pending[i] /\ m.prompt = p
    <3>1. i + 1 \in DOMAIN open.pending /\ open'.pending[i] = open.pending[i + 1]
      BY <1>11, <2>1
    <3>2. Says(open.pending[i + 1], p)
      BY <1>17, <3>1 DEF Due
    <3> QED BY <1>1, <3>1, <3>2 DEF Says
  <2> QED BY <1>3, <2>1 DEF Due, Says
<1>18. ASSUME NEW e \in DOMAIN events', NEW i \in Nat, NEW p \in OrNone,
              events'[e].type = "taken", i = q[e], p = events'[e].prompt
       PROVE  Due(i, p)'
  <2>1. e + 1 \in DOMAIN events /\ events'[e] = events[e + 1] /\ e \in 0..Len(events')
    BY <1>2, <1>4
  <2>2. i + 1 = r[e + 1] /\ i + 1 \in Nat
    BY <1>14, <1>18, <2>1
  <2>3. Due(i + 1, p)
    BY <1>5, <1>18, <2>1, <2>2 DEF InLine
  <2> QED BY <1>17, <2>3
<1>19. ASSUME NEW j \in DOMAIN waiting, NEW i \in Nat, NEW p \in OrNone,
              i = q[Len(events')] + j, p = waiting[j]
       PROVE  Due(i, p)'
  <2>1. i + 1 = r[Len(events)] + j /\ i + 1 \in Nat
    BY <1>4, <1>7, <1>16, <1>19
  <2>2. Due(i + 1, p)
    BY <1>5, <1>19, <2>1 DEF InLine
  <2> QED BY <1>17, <2>2
<1>20. Len(open'.pending) = q[Len(events')] + Len(waiting)
  BY <1>4, <1>7, <1>11, <1>16
<1>21. InLine(q)'
  BY <1>3, <1>18, <1>19, <1>20 DEF InLine
<1>22. Line'
  BY <1>14, <1>15, <1>21 DEF Line
<1> QED BY <1>12, <1>22

\* The end of the events takes messages of the turn only.
LEMMA OverKeeps == ASSUME NoneSentAgain, Inv, EventsOver PROVE \A m \in messages : m.turn = 0 => m \in messages'
<1> DEFINE held == consume.failure = "away" /\ consume.interrupted # 0
           produced == consume.produced \/ consume.said
<1>1. consume.pc = "loop" /\ Reading
  BY DEF EventsOver, Reading
<1>2. turns > 0 /\ turns \in 0..MaxTurns /\ messages \subseteq Message /\ ApartIn(messages) /\ consume \in Consume
  BY <1>1, WhileReading
<1>3. turns # 0
  BY <1>2, FollowUpAssumption
<1>4. PICK ms \in Flushed(messages, consume.said) :
         IF held
         THEN messages' = {m \in Kept(ms, produced) : m.id # consume.interruptedMsg}
         ELSE messages' = ms
  BY DEF EventsOver
<1>5. messages \subseteq ms
  BY <1>4, FlushedProse DEF Prose
<1>6. CASE held
  <2>1. consume.interrupted # 0
    BY <1>6
  <2>2. PICK o \in messages : /\ o.turn = turns
                              /\ consume.interruptedMsg # 0 => o.id = consume.interruptedMsg
    <3>1. ~Crossed(consume.interrupted)
      BY NoResend
    <3> QED BY <1>1, <2>1, <3>1 DEF Inv, Replying, InTurnAs
  <2>3. \A m \in messages : m.id # 0
    BY <1>2, NatIds DEF Message
  <2>4. \A m \in messages : m.id = consume.interruptedMsg => m = o
    BY <1>2, <2>2, <2>3 DEF ApartIn
  <2>5. messages' = {m \in Kept(ms, produced) : m.id # consume.interruptedMsg}
    BY <1>4, <1>6
  <2> HIDE DEF held, produced
  <2> QED BY <1>3, <1>5, <2>2, <2>4, <2>5 DEF Kept
<1>7. CASE ~held
  BY <1>4, <1>5, <1>7
<1> QED BY <1>6, <1>7
-----------------------------------------------------------------------------
(* Every step keeps the line                                                *)

\* What does not touch what the turn holds.
LEMMA BesideLine ==
    ASSUME NoneSentAgain, Inv, Line, Joins, Keeps, UNCHANGED <<events, waiting, consume>>, open'.pending = open.pending,
           Written' = Written
    PROVE  Line' /\ Joins'
BY SameLine, SameJoins DEF Taking

\* Calls that move on are beside the line.
LEMMA CallsLine ==
    ASSUME Ordered, CallsOnly
    PROVE  Line' /\ Joins' /\ Shut'
<1>1. UNCHANGED <<messages, open, consume, cli, waiting, closed, events>> /\ Handing' = Handing
  BY DEF CallsOnly, Data, provider
<1>2. \A X : {c \in X : c.at = "written"} = {c \in {d \in X : d.at \in {"stored", "written"}} : c.at = "written"}
  OBVIOUS
<1>3. Written' = Written
  <2>1. Written = {c \in Handing : c.at = "written"}
    BY DEF Written, Handing
  <2>2. Written' = {c \in Handing' : c.at = "written"}
    BY DEF Written, Handing
  <2> QED BY <1>1, <2>1, <2>2
<1>4. Keeps
  BY <1>1 DEF Keeps
<1> QED BY <1>1, <1>3, <1>4, BesideLine, SameShut DEF Ordered

\* The requests keep the line ...
LEMMA RequestLine ==
    ASSUME Ordered, Request
    PROVE  Line' /\ Joins' /\ Shut'
<1>1. NoneSentAgain /\ Inv /\ Line /\ Joins /\ Shut
  BY DEF Ordered
<1>2. ASSUME Enqueue \/ Stop \/ \E r \in queue : Delete(r)
      PROVE  Line' /\ Joins' /\ Shut'
  <2>1. /\ UNCHANGED <<open, consume, cli, waiting, closed, events>>
        /\ messages \subseteq messages'
        /\ calls' \subseteq calls /\ \A c \in calls \ calls' : c.at = "parked"
    BY <1>2 DEF Enqueue, Stop, Delete, UnchangedTurn, provider
  <2>2. Keeps /\ Written' = Written
    BY <2>1 DEF Keeps, Written
  <2> QED BY <1>1, <2>1, <2>2, BesideLine, SameShut
<1>3. CASE SendCalled
  BY <1>1, <1>3, SendInv, CallsLine
<1>4. ~\E kind \in {"resend", "requeue"}, m \in messages : ResendCalled(kind, m)
  BY <1>1, NoResend
<1>5. ASSUME NEW r \in queue, ForceCalled(r) PROVE Line' /\ Joins' /\ Shut'
  BY <1>1, <1>5, ForceInv, CallsLine
<1> QED BY <1>2, <1>3, <1>4, <1>5 DEF Request

\* The turn's first prompt is not one that is held.
LEMMA RecordLine ==
    ASSUME Ordered, NEW c, Record(c)
    PROVE  Line' /\ Joins' /\ Shut'
<1>1. c \in calls /\ c.at = "claimed" /\ turn.stage = "claimed"
  BY DEF Record, Ordered, Inv, Alone
<1>2. open.pending = <<>> /\ Handing = {} /\ open' = open
  BY <1>1, WithoutTurn DEF Record, Ordered
<1>3. Launch(c.prompt)
  BY DEF Record
<1>4. waiting' = <<>> /\ events' = <<>> /\ closed' = FALSE
  BY <1>3 DEF Launch
<1>5. consume'.pc = "loop"
  BY <1>3 DEF Launch, Idle
<1>6. cli'.orderly = FALSE
  BY <1>3 DEF Launch, NoCli
<1>7. Shut'
  BY <1>4, <1>6 DEF Shut
<1>8. Joins'
  BY <1>5 DEF Joins
<1>9. Written' = {}
  <2>1. CASE c.kind = "run"
    <3>1. calls' = (calls \ {c}) \cup {[c EXCEPT !.at = "drop"]}
      BY <2>1 DEF Record, To
    <3>2. [c EXCEPT !.at = "drop"].at = "drop"
      <4>1. c \in Call
        BY <1>1 DEF Ordered, Inv, Typed, TypeOK
      <4> QED BY <4>1 DEF Call
    <3> QED BY <1>2, <3>1, <3>2 DEF Written, Handing
  <2>2. CASE c.kind # "run"
    <3>1. calls' \subseteq calls
      BY <2>2 DEF Record, Done
    <3> QED BY <1>2, <3>1 DEF Written, Handing
  <2> QED BY <2>1, <2>2
<1>10. PICK r : r = [e \in 0..0 |-> 0]
  OBVIOUS
<1>11. Len(<<>>) = 0 /\ DOMAIN <<>> = {}
  OBVIOUS
<1>12. r \in [0..Len(events') -> Nat] /\ r[0] = 0 /\ \A e \in 0..0 : e = 0
  BY <1>4, <1>10, <1>11
<1>13. Counts(r)'
  BY <1>4, <1>11, <1>12 DEF Counts
<1>14. InLine(r)'
  <2>1. Len(open'.pending) = 0 /\ Len(waiting') = 0 /\ r[Len(events')] = 0
    BY <1>2, <1>4, <1>11, <1>12
  <2>2. DOMAIN events' = {} /\ DOMAIN waiting' = {}
    BY <1>4, <1>11
  <2>3. Len(open'.pending) = r[Len(events')] + Len(waiting')
    BY <2>1
  <2> QED BY <1>9, <2>2, <2>3 DEF InLine
<1>15. Line'
  BY <1>12, <1>13, <1>14 DEF Line
<1> QED BY <1>7, <1>8, <1>15

\* ... and so do the calls under way ...
LEMMA CallStepLine ==
    ASSUME Ordered, NEW c \in calls, CallStep(c)
    PROVE  Line' /\ Joins' /\ Shut'
<1>0. NoneSentAgain /\ Inv /\ Line /\ Joins /\ Shut
  BY DEF Ordered
<1>1. CASE Look(c)
  BY <1>0, <1>1, LookInv, CallsLine
<1>2. CASE NotTaking(c)
  BY <1>0, <1>2, NotTakingInv, CallsLine
<1>3. CASE RefuseHandOver(c)
  BY <1>0, <1>3, RefusedInv, CallsLine
<1>4. CASE HandOver(c)
  <2>1. UNCHANGED <<cli, waiting, closed>>
    BY <1>4 DEF HandOver, UnchangedTurn, provider
  <2> QED BY <1>0, <1>4, <2>1, HandOverLine, SameShut
<1>5. CASE Write(c)
  <2>1. UNCHANGED <<cli, closed>> /\ ~closed
    BY <1>5 DEF Write
  <2>2. Shut'
    BY <1>0, <2>1 DEF Shut
  <2> QED BY <1>0, <1>5, <2>2, WriteLine
<1>6. CASE WriteFails(c)
  <2>1. UNCHANGED <<cli, waiting, closed>>
    BY <1>6 DEF WriteFails, provider
  <2> QED BY <1>0, <1>6, <2>1, WriteFailsLine, SameShut
<1>7. CASE Settle(c)
  <2>1. UNCHANGED <<cli, waiting, closed>>
    BY <1>7 DEF Settle, provider
  <2> QED BY <1>0, <1>7, <2>1, SettleLine, SameShut
<1>8. CASE Ended(c)
  BY <1>0, <1>8, EndedInv, CallsLine
<1>9. ~QueueStored(c) /\ ~Discard(c)
  BY <1>0, NoResend
<1>10. CASE Claim(c)
  <2>1. CASE turn.stage # "none"
    <3>1. calls' = calls \ {c} /\ c.at = "start"
          /\ UNCHANGED <<queue, messages, open, consume, cli, waiting, closed, events>>
      BY <1>10, <2>1 DEF Claim, Done, db, provider
    <3>2. Written' = Written /\ Keeps
      BY <3>1 DEF Written, Keeps
    <3> QED BY <1>0, <3>1, <3>2, BesideLine, SameShut
  <2>2. CASE turn.stage = "none"
    <3>1. consume' = consume /\ UNCHANGED <<cli, waiting, closed>>
      BY <1>10 DEF Claim, provider
    <3>2. consume'.pc = "off"
      BY <1>0, <2>2, <3>1, WithoutTurn, IdleTypes
    <3> QED BY <1>0, <3>1, <3>2, OutOfLine, SameShut
  <2> QED BY <2>1, <2>2
<1>11. CASE Record(c)
  BY <1>11, RecordLine
<1>12. CASE DropRow(c)
  <2>1. c.at = "drop" /\ calls' = calls \ {c}
        /\ UNCHANGED <<messages, open, consume, cli, waiting, closed, events>>
    BY <1>12 DEF DropRow, Done, UnchangedTurn, provider
  <2>2. Written' = Written /\ Keeps
    BY <2>1 DEF Written, Keeps
  <2> QED BY <1>0, <2>1, <2>2, BesideLine, SameShut
<1>13. CASE Park(c)
  BY <1>0, <1>13, ParkInv, CallsLine
<1>14. CASE RunForced(c)
  BY <1>0, <1>14, RunForcedInv, CallsLine
<1> QED BY <1>1, <1>2, <1>3, <1>4, <1>5, <1>6, <1>7, <1>8, <1>9, <1>10, <1>11, <1>12, <1>13, <1>14
        DEF CallStep

\* Prose takes nothing from what is held.
LEMMA ProseLine ==
    ASSUME Ordered, NEW type, Consuming(type), type # "taken", open'.pending = open.pending,
           \A m \in messages : m.turn = 0 => m \in messages', consume'.pc = "loop"
    PROVE  Line' /\ Joins' /\ Shut'
<1>1. Keeps
  BY DEF Keeps
<1>2. Line'
  BY <1>1, PassLine DEF Ordered
<1>3. Joins'
  BY DEF Joins
<1>4. Shut'
  BY SameShut DEF Consuming, Ordered
<1> QED BY <1>2, <1>3, <1>4

\* ... and consume.
LEMMA ConsumeLine ==
    ASSUME Ordered, ConsumeStep
    PROVE  Line' /\ Joins' /\ Shut'
<1>0. NoneSentAgain /\ Inv /\ Line /\ Joins /\ Shut /\ consume \in Consume /\ open \in Open
  BY DEF Ordered, Inv, Typed, TypeOK
<1>1. CASE OnText
  <2>1. consume'.pc = "loop"
    BY <1>0, <1>1 DEF OnText, Consuming, Consume
  <2>2. Consuming("text") /\ UNCHANGED <<messages, open>>
    BY <1>1 DEF OnText
  <2> QED BY <2>1, <2>2, ProseLine
<1>2. CASE OnTask
  <2>1. consume'.pc = "loop"
    BY <1>0, <1>2 DEF OnTask, Consuming, Consume
  <2>2. Consuming("task") /\ UNCHANGED open
    BY <1>2 DEF OnTask
  <2>3. messages \subseteq messages'
    <3>1. PICK ms \in Flushed(messages, consume.said) : messages' \in Flushed(ms, TRUE)
      BY <1>2 DEF OnTask
    <3> QED BY <3>1 DEF Flushed, Added
  <2> QED BY <2>1, <2>2, <2>3, ProseLine
<1>3. CASE OnError
  <2>1. PICK type \in {"error", "away"} :
          /\ Consuming(type)
          /\ \E id \in MsgIds : messages' = Added(messages, 0, turns, id)
          /\ consume' = [consume EXCEPT
                 !.failure = IF type = "away" THEN "away" ELSE "fault",
                 !.interrupted = consume.inFlight,
                 !.interruptedMsg = consume.inFlightMsg]
    BY <1>3 DEF OnError
  <2>2. consume'.pc = "loop"
    BY <1>0, <2>1 DEF Consuming, Consume
  <2>3. messages \subseteq messages' /\ open' = open
    BY <1>3, <2>1 DEF Added, OnError
  <2> QED BY <2>1, <2>2, <2>3, ProseLine
<1>4. CASE OnDone
  <2>1. Consuming("done") /\ open'.pending = open.pending
    BY <1>0, <1>4 DEF OnDone, Open
  <2>2. consume'.pc = "loop"
    <3>1. PICK used \in BOOLEAN :
            consume' = [consume EXCEPT
              !.said = FALSE, !.produced = @ \/ consume.said \/ used,
              !.inFlight = 0, !.inFlightMsg = 0,
              !.failure = IF consume.failure # "none" /\ Coming.open THEN "none" ELSE @,
              !.interrupted = IF consume.failure # "none" /\ Coming.open THEN 0 ELSE @,
              !.interruptedMsg = IF consume.failure # "none" /\ Coming.open THEN 0 ELSE @]
      BY <1>4 DEF OnDone
    <3>2. consume.pc = "loop"
      BY <2>1 DEF Consuming
    <3> QED BY <1>0, <3>1, <3>2 DEF Consume
  <2>3. PICK ms \in Flushed(messages, consume.said) :
          messages' = ms \/ messages' = Detached(ms, consume.interruptedMsg)
    BY <1>4 DEF OnDone
  <2>4. messages \subseteq ms /\ ms \subseteq Message /\ ApartIn(ms)
    BY <1>0, <2>3, FlushedProse DEF Prose
  <2>5. \A m \in messages : m.turn = 0 => m \in messages'
    <3>1. CASE messages' = ms
      BY <2>4, <3>1
    <3>2. CASE messages' = Detached(ms, consume.interruptedMsg)
      BY <2>4, <3>2, Detaches
    <3> QED BY <2>3, <3>1, <3>2
  <2> QED BY <2>1, <2>2, <2>5, ProseLine
<1>5. CASE OnTaken
  <2>1. UNCHANGED <<cli, waiting, closed>>
    BY <1>5 DEF OnTaken, Consuming
  <2> QED BY <1>0, <1>5, <2>1, OnTakenLine, SameShut
<1>6. CASE Join
  <2>1. UNCHANGED <<calls, open, cli, waiting, closed, events>> /\ consume.pc = "join"
    BY <1>6 DEF Join, provider
  <2>2. PICK ms \in Flushed(messages, consume.said) :
          LET found == UnclaimedIn(ms, consume.id)
              after == [consume EXCEPT !.pc = "loop", !.id = 0, !.prompt = 0,
                          !.said = FALSE, !.produced = @ \/ consume.said]
          IN IF found = {} THEN messages' = ms /\ consume' = after
             ELSE \E m \in found : \E id \in EndIds(ms, m) :
                    /\ messages' = Moved(ms, m, turns, id)
                    /\ consume' = [after EXCEPT !.inFlight = m.prompt, !.inFlightMsg = id]
    BY <1>6 DEF Join
  <2> DEFINE after == [consume EXCEPT !.pc = "loop", !.id = 0, !.prompt = 0,
                          !.said = FALSE, !.produced = @ \/ consume.said]
  <2>3. after.pc = "loop" /\ DOMAIN after = DOMAIN consume
    BY <1>0 DEF Consume
  <2>4. /\ consume'.pc = "loop"
        /\ messages' = ms \/ \E m \in ms : \E id : m.id = consume.id /\ messages' = Moved(ms, m, turns, id)
    <3> HIDE DEF after
    <3>1. IF UnclaimedIn(ms, consume.id) = {} THEN messages' = ms /\ consume' = after
          ELSE \E m \in UnclaimedIn(ms, consume.id) : \E id \in EndIds(ms, m) :
                    /\ messages' = Moved(ms, m, turns, id)
                    /\ consume' = [after EXCEPT !.inFlight = m.prompt, !.inFlightMsg = id]
      BY <2>2 DEF after
    <3>2. CASE messages' = ms /\ consume' = after
      BY <2>3, <3>2
    <3>3. ASSUME NEW m \in ms, m.id = consume.id, NEW id, messages' = Moved(ms, m, turns, id),
                 consume' = [after EXCEPT !.inFlight = m.prompt, !.inFlightMsg = id]
          PROVE  consume'.pc = "loop" /\ \E n \in ms : \E x : n.id = consume.id /\ messages' = Moved(ms, n, turns, x)
      BY <2>3, <3>3
    <3> QED BY <3>1, <3>2, <3>3 DEF UnclaimedIn
  <2>5. messages \subseteq ms /\ ms \subseteq Message /\ ApartIn(ms)
    BY <1>0, <2>2, FlushedProse DEF Prose
  <2>6. consume.id # 0 /\ consume.id \notin InSeq(open.pending)
    BY <1>0, <2>1 DEF Inv, Stages, Holds
\* Only the message that joins moves.
  <2>7. \A m \in messages : m.turn = 0 /\ m.id \in InSeq(open.pending) => m \in messages'
    BY <2>4, <2>5, <2>6 DEF Moved
  <2>8. Line'
    <3>1. Written' = Written /\ Taking
      BY <2>1 DEF Written, Taking
    <3>2. \A i \in Nat, p \in OrNone : Due(i, p) => Due(i, p)'
      BY <1>0, <2>1, <2>7, <3>1, HeldDue
    <3>3. PICK r \in [0..Len(events) -> Nat] : Counts(r) /\ InLine(r)
      BY <1>0, <3>1, LineOf
    <3>4. Counts(r)'
      BY <2>1, <3>3 DEF Counts
    <3>5. InLine(r)'
      BY <2>1, <3>1, <3>2, <3>3 DEF InLine
    <3> QED BY <2>1, <3>4, <3>5 DEF Line, Counts
  <2>9. Joins'
    BY <2>4 DEF Joins
  <2> QED BY <1>0, <2>1, <2>8, <2>9, SameShut
<1>7. CASE EventsOver
  <2>1. UNCHANGED <<calls, open, cli, waiting, closed, events, turns>> /\ consume.pc = "loop"
    BY <1>7 DEF EventsOver, provider
  <2>2. consume'.pc = "leave"
    <3>1. consume' = [consume EXCEPT !.pc = "leave", !.said = FALSE,
                          !.held = consume.failure = "away" /\ consume.interrupted # 0]
      BY <1>7 DEF EventsOver
    <3> QED BY <1>0, <3>1 DEF Consume
  <2>3. \A m \in messages : m.turn = 0 => m \in messages'
    BY <1>0, <1>7, OverKeeps
  <2>4. Keeps
    BY <2>3 DEF Keeps
  <2>5. Written' = Written /\ Taking
    BY <2>1 DEF Written, Taking
  <2>6. Line'
    BY <1>0, <2>1, <2>4, <2>5, SameLine
  <2>7. Joins'
    BY <2>2 DEF Joins
  <2> QED BY <1>0, <2>1, <2>6, <2>7, SameShut
<1>8. CASE Leave
  <2>1. consume'.pc = "untaken" /\ UNCHANGED <<cli, waiting, closed>>
    BY <1>0, <1>8 DEF Leave, Consume, provider
  <2> QED BY <1>0, <2>1, OutOfLine, SameShut
<1>9. CASE SettleUntaken
  <2>1. consume' = [consume EXCEPT !.untaken = Tail(consume.untaken)] /\ consume.pc = "untaken"
        /\ UNCHANGED <<cli, waiting, closed>>
    BY <1>9 DEF SettleUntaken, provider
  <2>2. consume'.pc = "untaken"
    BY <1>0, <2>1 DEF Consume
  <2> QED BY <1>0, <2>1, <2>2, OutOfLine, SameShut
<1>10. CASE Release
  <2>1. consume'.pc = "off" /\ UNCHANGED <<cli, waiting, closed>>
    BY <1>10, IdleTypes DEF Release, provider
  <2> QED BY <1>0, <2>1, OutOfLine, SameShut
<1> QED BY <1>1, <1>2, <1>3, <1>4, <1>5, <1>6, <1>7, <1>8, <1>9, <1>10 DEF ConsumeStep

\* Every step keeps the line.
LEMMA StepLine ==
    ASSUME Ordered, [Next]_vars
    PROVE  Ordered'
<1>0. NoneSentAgain /\ Inv /\ Line /\ Joins /\ Shut
  BY DEF Ordered
<1>1. Inv'
  BY <1>0, StepInv
<1>2. CASE Request
  BY <1>1, <1>2, RequestLine DEF Ordered
<1>3. ASSUME NEW r \in queue, Dispatch(r) PROVE Line' /\ Joins' /\ Shut'
  BY <1>0, <1>3, DispatchInv, CallsLine
<1>4. ASSUME NEW c \in calls, CallStep(c) PROVE Line' /\ Joins' /\ Shut'
  BY <1>4, CallStepLine
<1>5. CASE CliAction
  BY <1>0, <1>1, <1>5, CliLine, CliShut DEF Ordered
<1>6. CASE ConsumeStep
  BY <1>1, <1>6, ConsumeLine DEF Ordered
<1>7. CASE Crash
  <2>1. consume'.pc = "off" /\ cli' = NoCli /\ closed' = FALSE
    BY <1>7, IdleTypes DEF Crash
  <2>2. Shut'
    BY <2>1 DEF Shut, NoCli
  <2> QED BY <1>1, <2>1, <2>2, OutOfLine DEF Ordered
<1>8. CASE UNCHANGED vars
  <2>1. UNCHANGED <<messages, open, consume, calls, cli, waiting, closed, events>>
    BY <1>8 DEF vars, db, provider
  <2>2. Keeps /\ Written' = Written
    BY <2>1 DEF Keeps, Written
  <2>3. Line' /\ Joins' /\ Shut'
    BY <1>0, <2>1, <2>2, BesideLine, SameShut
  <2> QED BY <1>1, <2>3 DEF Ordered
<1> QED BY <1>1, <1>2, <1>3, <1>4, <1>5, <1>6, <1>7, <1>8 DEF Next, Ordered

\* Nothing is in line at the start.
LEMMA InitLine == Init => Line /\ Joins /\ Shut
<1> SUFFICES ASSUME Init PROVE Line /\ Joins /\ Shut
  OBVIOUS
<1>1. consume.pc = "off" /\ cli = NoCli /\ ~closed
  BY IdleTypes DEF Init
<1>2. ~cli.orderly
  BY <1>1 DEF NoCli
<1> QED BY <1>1, <1>2 DEF Line, Joins, Shut, Taking

\* In a line what joins is what was taken.
LEMMA JoinsRight == Ordered => RightPromptJoins
<1> SUFFICES ASSUME Ordered, consume.pc = "join"
             PROVE  Unclaimed(consume.id) # {} /\ PromptOf(consume.id) = {consume.prompt}
  BY DEF RightPromptJoins, Ordered, Inv, Typed
<1>1. consume.id # 0
  BY DEF Ordered, Inv, Stages
<1>2. PICK o \in messages : o.id = consume.id /\ o.turn = 0 /\ o.prompt # 0
  BY <1>1 DEF Ordered, Inv, Holds, Live
<1>3. PICK m \in messages : m.id = consume.id /\ m.prompt = consume.prompt
  BY DEF Ordered, Joins, Says
<1>4. \A x \in messages : x.id = consume.id => x = m
  BY <1>3 DEF Ordered, Inv, Apart
<1> QED BY <1>2, <1>3, <1>4 DEF Unclaimed, UnclaimedIn, PromptOf

\* In a line nothing is held once all events are read and stdin is empty.
LEMMA EndsTaken == Ordered => OrderlyEndTakesAll
<1> SUFFICES ASSUME Ordered, cli.orderly, events = <<>>, Handing = {}
             PROVE  open.pending = <<>> /\ waiting = <<>>
  BY DEF OrderlyEndTakesAll, Unlocked
<1>1. waiting = <<>>
  BY DEF Ordered, Shut
<1>2. open.pending \in Seq(MsgIds)
  BY DEF Ordered, Inv, Typed, TypeOK, Open
<1>3. CASE Taking
  <2>1. PICK r \in [0..Len(events) -> Nat] : Counts(r) /\ InLine(r)
    BY <1>3, LineOf DEF Ordered
  <2>2. Len(events) = 0 /\ Len(waiting) = 0 /\ r[0] = 0
    BY <1>1, <2>1 DEF Counts
  <2>3. Written = {}
    BY DEF Written, Handing
  <2>4. Len(open.pending) = 0
    <3>1. Len(open.pending) = r[Len(events)] + Len(waiting)
      BY <2>1, <2>3 DEF InLine
    <3> QED BY <2>2, <3>1
  <2> QED BY <1>1, <1>2, <2>4
<1>4. CASE ~Taking
  BY <1>1, <1>4 DEF Ordered, Inv, Stages, Taking
<1> QED BY <1>3, <1>4
-----------------------------------------------------------------------------
(* How often an agent may still start on a prompt                           *)

One(b) == IF b THEN 1 ELSE 0

\* A row whose prompt has been given to the CLI is about to go.
Marked(r) == \E c \in calls : c.at \in {"written", "drop"} /\ c.row = r.id
Own(p)    == {r \in queue : r.prompt = p /\ ~Marked(r)}

\* What the CLI has not taken waits in its stdin, and then for leaveUntaken.
Waits(p) == IF Taking THEN {j \in DOMAIN waiting : waiting[j] = p}
            ELSE {i \in DOMAIN consume.untaken : Says(consume.untaken[i], p)}

\* A new prompt on its way, and one whose row went while it is handed over.
Sending(p) == \E c \in calls : c.kind = "send" /\ c.at # "written" /\ c.prompt = p
RowGone(p) == \E c \in calls : /\ c.at = "stored" /\ c.row # 0 /\ c.prompt = p
                              /\ \A r \in Rows(c.row) : r.prompt # p

\* The prompt that is replied to when consume comes to an event.
Turns(e)    == e.type \in {"taken", "done"}
First       == IF consume.pc = "join" THEN consume.prompt ELSE consume.inFlight
Reply(i, p) ==
    \/ \E j \in DOMAIN events : /\ j < i /\ Turns(events[j]) /\ events[j].prompt = p
                                /\ \A l \in DOMAIN events : j < l /\ l < i => ~Turns(events[l])
    \/ p = First /\ \A l \in DOMAIN events : l < i => ~Turns(events[l])

\* A prompt whose reply has failed may come back to the queue.
Fails(e) == e.type \in {"error", "away"}
Back(p)  == Reading /\ \/ consume.interrupted = p
                       \/ \E i \in DOMAIN events : Fails(events[i]) /\ Reply(i, p)

\* The starts a prompt may still have.
ToStart(p) == Cardinality(Own(p)) + Cardinality(Waits(p)) + One(Sending(p)) + One(RowGone(p))
              + One(Back(p))
Within(p)  == starts[p] + ToStart(p) <= 1 + setbacks[p]

\* What consume comes to is what the CLI replies to.
Follows == Running /\ cli.on => \A p \in OrNone : Reply(Len(events) + 1, p) => p = cli.answering
Known   == /\ \A p \in Prompts : p > accepted => starts[p] = 0
           /\ \A j \in DOMAIN waiting : waiting[j] <= accepted
           /\ \A i \in DOMAIN events : events[i].prompt <= accepted
           /\ \A i \in DOMAIN events : events[i].type = "done" => events[i].prompt = 0
           /\ IsFiniteSet(queue)
Tallied == Ordered /\ (\A p \in Prompts : Within(p)) /\ Follows /\ Known

Numbers(p) ==
    /\ IsFiniteSet(Own(p)) /\ Cardinality(Own(p)) \in Nat
    /\ IsFiniteSet(Waits(p)) /\ Cardinality(Waits(p)) \in Nat
    /\ starts[p] \in Nat /\ setbacks[p] \in Nat

\* The terms of the sum are numbers, before a step and after it.
LEMMA AreNumbers == Typed /\ IsFiniteSet(queue) => \A p \in Prompts : Numbers(p)
<1> SUFFICES ASSUME Typed, IsFiniteSet(queue), NEW p \in Prompts PROVE Numbers(p)
  OBVIOUS
<1>1. IsFiniteSet(Own(p))
  BY FS_Subset DEF Own
<1>2. waiting \in Seq(Prompts) /\ consume.untaken \in Seq(MsgIds)
      /\ starts[p] \in Nat /\ setbacks[p] \in Nat
  BY DEF Typed, TypeOK, Consume
<1>3. /\ DOMAIN waiting = 1..Len(waiting) /\ Len(waiting) \in Nat
      /\ DOMAIN consume.untaken = 1..Len(consume.untaken) /\ Len(consume.untaken) \in Nat
  BY <1>2
<1>4. IsFiniteSet(DOMAIN waiting) /\ IsFiniteSet(DOMAIN consume.untaken)
  BY <1>3, FS_Interval
<1>5. Waits(p) \subseteq DOMAIN waiting \/ Waits(p) \subseteq DOMAIN consume.untaken
  BY DEF Waits
<1>6. IsFiniteSet(Waits(p))
  BY <1>4, <1>5, FS_Subset
<1> QED BY <1>1, <1>2, <1>6, FS_CardinalityType DEF Numbers

LEMMA AreNumbersNext == (Typed /\ IsFiniteSet(queue) => \A p \in Prompts : Numbers(p))'
BY AreNumbers, PTL

\* What there is no more of.
LEMMA NoMore ==
    ASSUME NEW S, NEW T, IsFiniteSet(T), S \subseteq T
    PROVE  /\ Cardinality(S) \in Nat /\ Cardinality(T) \in Nat /\ Cardinality(S) <= Cardinality(T)
           /\ \A x \in T \ S : Cardinality(S) + 1 <= Cardinality(T)
<1>1. IsFiniteSet(S) /\ Cardinality(S) <= Cardinality(T) /\ (Cardinality(T) = Cardinality(S) => S = T)
  BY FS_Subset
<1>2. Cardinality(S) \in Nat /\ Cardinality(T) \in Nat
  BY <1>1, FS_CardinalityType
<1>3. ASSUME NEW x \in T \ S PROVE Cardinality(S) + 1 <= Cardinality(T)
  <2>1. Cardinality(S) # Cardinality(T)
    BY <1>1, <1>3
  <2> QED BY <1>1, <1>2, <2>1
<1> QED BY <1>1, <1>2, <1>3

\* What there is one more of.
LEMMA OneMore ==
    ASSUME NEW S, NEW T, IsFiniteSet(T), NEW x, S \subseteq T \cup {x}
    PROVE  Cardinality(S) <= Cardinality(T) + 1
<1>1. /\ IsFiniteSet(T \cup {x})
      /\ Cardinality(T \cup {x}) = IF x \in T THEN Cardinality(T) ELSE Cardinality(T) + 1
  BY FS_AddElement
<1>2. Cardinality(S) \in Nat /\ Cardinality(T \cup {x}) \in Nat /\ Cardinality(S) <= Cardinality(T \cup {x})
  BY <1>1, NoMore
<1>3. Cardinality(T) \in Nat
  BY FS_CardinalityType
<1> QED BY <1>1, <1>2, <1>3

\* The places of a sequence that has lost its first element.
LEMMA OnePlaceDown ==
    ASSUME NEW S, NEW T, IsFiniteSet(T), S \subseteq Nat \ {0}, \A i \in S : i + 1 \in T
    PROVE  /\ Cardinality(S) \in Nat /\ Cardinality(T) \in Nat /\ Cardinality(S) <= Cardinality(T)
           /\ 1 \in T => Cardinality(S) + 1 <= Cardinality(T)
<1>1. PICK f : f = [i \in S |-> i + 1]
  OBVIOUS
<1> DEFINE U == T \ {1}
<1>2. \A i \in S : i + 1 \in U
  OBVIOUS
<1>3. f \in [S -> U] /\ \A i, j \in S : f[i] = f[j] => i = j
  BY <1>1, <1>2
<1>4. U \subseteq T /\ IsFiniteSet(U)
  BY FS_Subset
<1> HIDE DEF U
<1>5. f \in Injection(S, U)
  BY <1>3 DEF Injection, IsInjective
<1>6. IsFiniteSet(S) /\ Cardinality(S) <= Cardinality(U)
  BY <1>4, <1>5, FS_Injection
<1>7. Cardinality(S) \in Nat /\ Cardinality(U) \in Nat /\ Cardinality(T) \in Nat
  BY <1>4, <1>6, FS_CardinalityType
<1>8. Cardinality(U) <= Cardinality(T) /\ \A x \in T \ U : Cardinality(U) + 1 <= Cardinality(T)
  BY <1>4, NoMore
<1>9. 1 \in T => 1 \in T \ U
  BY DEF U
<1> QED BY <1>6, <1>7, <1>8, <1>9

\* A prompt that is not counted more stays within its starts.
LEMMA StaysWithin ==
    ASSUME NEW p, Within(p), Numbers(p), Numbers(p)', starts'[p] = starts[p], setbacks'[p] >= setbacks[p],
           Cardinality(Own(p)') <= Cardinality(Own(p)), Cardinality(Waits(p)') <= Cardinality(Waits(p)),
           Sending(p)' => Sending(p), RowGone(p)' => RowGone(p), Back(p)' => Back(p)
    PROVE  Within(p)'
BY DEF Within, ToStart, One, Numbers

\* Only the dispatcher drops rows, and nothing is handed over meanwhile.
LEMMA DropsRun == Inv => \A c \in calls : c.at = "drop" => c.kind = "run" /\ Handing = {}
<1> SUFFICES ASSUME Inv, NEW c \in calls, c.at = "drop" PROVE c.kind = "run" /\ Handing = {}
  OBVIOUS
<1>1. c \in Call /\ Fits(c)
  BY DEF Inv, Typed, TypeOK
<1>2. c.kind = "run"
  BY <1>1 DEF Call, Fits
<1> QED BY <1>2 DEF Inv, Outrun

\* A row that is handed over is its prompt's.
LEMMA HandedRow ==
    ASSUME Inv, NEW c \in calls, c.at = "stored", NEW r \in Rows(c.row), r.prompt = c.prompt
    PROVE  r \in Own(c.prompt)
<1>1. r \in queue /\ r.id = c.row /\ r.prompt = c.prompt /\ c \in Handing
  BY DEF Rows, Handing
<1>2. ASSUME NEW d \in calls, d.at \in {"written", "drop"} PROVE d.row # r.id
  <2>1. CASE d.at = "written"
    BY <1>1, <2>1 DEF Inv, Alone, Handing
  <2>2. CASE d.at = "drop"
    BY <1>1, <2>2, DropsRun
  <2> QED BY <1>2, <2>1, <2>2
<1> QED BY <1>1, <1>2 DEF Own, Marked

\* The prompt that is replied to is one that was accepted.
LEMMA RepliesKnown ==
    ASSUME Tallied, Reading, NEW p \in Prompts, p > accepted
    PROVE  p # First /\ consume.interrupted # p
<1>0. accepted \in Nat /\ p \in Nat \ {0} /\ Inv /\ Joins
  BY NatIds DEF Tallied, Ordered, Inv, Typed, TypeOK
<1>1. \A m \in messages : m.prompt # p
  BY <1>0 DEF Inv, Afresh
<1>2. consume.inFlight # p /\ consume.interrupted # p
  <2>1. \A q : ~Crossed(q)
    BY NoResend DEF Tallied, Ordered
  <2> QED BY <1>0, <1>1, <2>1 DEF Inv, Replying, InTurnAs
<1>3. consume.pc = "join" => consume.prompt # p
  BY <1>0, <1>1 DEF Joins, Says
<1> QED BY <1>2, <1>3 DEF First

\* Of a prompt that is not accepted there is nothing.
LEMMA Unseen ==
    ASSUME Tallied, NEW p \in Prompts, p > accepted
    PROVE  /\ Own(p) = {} /\ Waits(p) = {} /\ ~Sending(p) /\ ~RowGone(p) /\ ~Back(p)
           /\ starts[p] = 0
<1>0. accepted \in Nat /\ p \in Nat \ {0} /\ Inv
  BY NatIds DEF Tallied, Ordered, Inv, Typed, TypeOK
<1>1. /\ \A m \in messages : m.prompt # p
      /\ \A r \in queue : r.prompt # p
      /\ \A c \in calls : c.prompt # p
  BY <1>0 DEF Inv, Afresh
<1>2. /\ \A j \in DOMAIN waiting : waiting[j] # p
      /\ \A i \in DOMAIN events : events[i].prompt # p
      /\ starts[p] = 0
  BY <1>0 DEF Tallied, Known
<1>3. Waits(p) = {}
  BY <1>1, <1>2 DEF Waits, Says
<1>4. ~Back(p)
  BY <1>2, RepliesKnown DEF Back, Reply
<1> QED BY <1>1, <1>2, <1>3, <1>4 DEF Own, Sending, RowGone

\* What a step that stays away from the provider and consume may change.
Aside == /\ UNCHANGED <<events, waiting, cli, consume, starts, setbacks>>
         /\ Running' => Running
         /\ accepted' \in Nat /\ accepted' >= accepted /\ IsFiniteSet(queue')
         /\ Taking \/ \A x \in InSeq(consume.untaken), p \in Prompts : Says(x, p)' => Says(x, p)

\* It gives no prompt a place in stdin, and no prompt's failure to consume.
LEMMA AsideKeeps ==
    ASSUME Tallied, Inv', Aside
    PROVE  /\ Follows' /\ Known'
           /\ \A p \in Prompts : /\ Numbers(p) /\ Numbers(p)'
                                 /\ Cardinality(Waits(p)') <= Cardinality(Waits(p))
                                 /\ Back(p)' => Back(p)
                                 /\ starts'[p] = starts[p] /\ setbacks'[p] >= setbacks[p]
<1>0. Inv /\ accepted \in Nat /\ Typed /\ Typed' /\ IsFiniteSet(queue) /\ IsFiniteSet(queue)'
  BY DEF Tallied, Ordered, Inv, Typed, TypeOK, Known, Aside
<1>1. \A p \in Prompts : Numbers(p) /\ Numbers(p)'
  BY <1>0, AreNumbers, AreNumbersNext
<1>2. UNCHANGED <<events, waiting, cli, consume, starts, setbacks>>
  BY DEF Aside
<1>3. \A i, p : Reply(i, p)' <=> Reply(i, p)
  BY <1>2 DEF Reply, First
<1>4. Follows'
  BY <1>2, <1>3 DEF Tallied, Follows, Aside
<1>5. Known'
  <2>1. \A p \in Prompts : p \in Nat
    BY NatIds
  <2>2. \A j \in DOMAIN waiting : waiting[j] \in Nat /\ waiting[j] <= accepted
    <3>1. waiting \in Seq(Prompts)
      BY <1>0 DEF Typed, TypeOK
    <3> QED BY <2>1, <3>1 DEF Tallied, Known
  <2>3. \A i \in DOMAIN events : events[i].prompt \in Nat /\ events[i].prompt <= accepted
    <3>1. events \in Seq(Event)
      BY <1>0 DEF Typed, TypeOK
    <3>2. \A i \in DOMAIN events : events[i] \in Event
      BY <3>1
    <3>3. \A i \in DOMAIN events : events[i].prompt \in Nat
      BY <2>1, <3>2 DEF Event, OrNone
    <3> QED BY <3>3 DEF Tallied, Known
  <2> QED BY <1>0, <1>2, <2>1, <2>2, <2>3 DEF Tallied, Known, Aside
<1>6. \A p \in Prompts : Back(p)' => Back(p)
  BY <1>2, <1>3 DEF Back, Reading
<1>7. ASSUME NEW p \in Prompts PROVE Waits(p)' \subseteq Waits(p)
  <2>1. Taking' <=> Taking
    BY <1>2 DEF Taking
  <2>2. CASE Taking
    BY <1>2, <2>1, <2>2 DEF Waits
  <2>3. CASE ~Taking
    <3>1. \A i \in DOMAIN consume.untaken : Says(consume.untaken[i], p)' => Says(consume.untaken[i], p)
      <4> SUFFICES ASSUME NEW i \in DOMAIN consume.untaken, Says(consume.untaken[i], p)'
                   PROVE  Says(consume.untaken[i], p)
        OBVIOUS
      <4> DEFINE x == consume.untaken[i]
      <4>1. x \in InSeq(consume.untaken) /\ x' = x
        BY <1>2 DEF InSeq
      <4>2. \E m \in messages' : m.id = x /\ m.prompt = p
        BY <4>1 DEF Says
      <4>3. \A y \in InSeq(consume.untaken) :
              (\E m \in messages' : m.id = y /\ m.prompt = p) => \E m \in messages : m.id = y /\ m.prompt = p
        BY <2>3 DEF Aside, Says
      <4> QED BY <4>1, <4>2, <4>3 DEF Says
    <3> QED BY <1>2, <2>1, <2>3, <3>1 DEF Waits
  <2> QED BY <2>2, <2>3
<1>8. \A p \in Prompts : Cardinality(Waits(p)') <= Cardinality(Waits(p))
  BY <1>1, <1>7, NoMore DEF Numbers
<1>9. \A p \in Prompts : starts'[p] = starts[p] /\ setbacks'[p] >= setbacks[p]
  BY <1>1, <1>2 DEF Numbers
<1> QED BY <1>1, <1>4, <1>5, <1>6, <1>8, <1>9

\* A step beside them that hands over nothing new.
LEMMA QuietKeeps ==
    ASSUME Tallied, Inv', Aside, NEW p \in Prompts,
           Own(p)' \subseteq Own(p), Sending(p)' => Sending(p), RowGone(p)' => RowGone(p)
    PROVE  Within(p)'
<1>1. Numbers(p) /\ Within(p)
  BY AsideKeeps DEF Tallied
<1>2. Cardinality(Own(p)') <= Cardinality(Own(p))
  BY <1>1, NoMore DEF Numbers
<1> QED BY <1>1, <1>2, AsideKeeps, StaysWithin

-----------------------------------------------------------------------------
(* Requests and calls                                                       *)

\* Calls that begin, move on or end without handing over anything.
LEMMA CallsTally ==
    ASSUME Tallied, Inv', CallsOnly, Calm, \A c \in calls : c.at = "drop" => c \in calls'
    PROVE  Follows' /\ Known' /\ \A p \in Prompts : Within(p)'
<1>0. Inv /\ IsFiniteSet(queue) /\ accepted \in Nat
  BY DEF Tallied, Ordered, Known, Inv, Typed, TypeOK
<1>1. /\ UNCHANGED <<queue, messages, consume, cli, waiting, events, starts, setbacks>>
      /\ turn'.stage = turn.stage /\ accepted' \in Nat /\ accepted' >= accepted
      /\ Handing' = Handing
  BY DEF CallsOnly, Data, provider, Calm
<1>2. Aside
  BY <1>0, <1>1 DEF Aside, Running, Says
<1>3. \A p \in Prompts : Own(p)' \subseteq Own(p)
  <2>1. \A r \in queue : Marked(r) => \E c \in calls' : c.at \in {"written", "drop"} /\ c.row = r.id
    BY <1>1 DEF Marked, Handing
  <2> QED BY <1>1, <2>1 DEF Own, Marked
<1>4. \A p \in Prompts : RowGone(p)' => RowGone(p)
  BY <1>1 DEF RowGone, Handing, Rows
<1>5. ASSUME NEW p \in Prompts, Sending(p)', ~Sending(p) PROVE p > accepted
  <2>1. PICK d \in calls' : d.kind = "send" /\ d.at # "written" /\ d.prompt = p
    BY <1>5 DEF Sending
  <2>2. d \notin calls
    BY <1>5, <2>1 DEF Sending
  <2>3. NewCallOf(d)
    BY <2>2 DEF CallsOnly
  <2> QED BY <1>5, <2>1, <2>3 DEF NewCallOf, Sending, Handing
<1>6. ASSUME NEW p \in Prompts PROVE Within(p)'
  <2>1. CASE Sending(p)' => Sending(p)
    BY <1>2, <1>3, <1>4, <2>1, QuietKeeps
  <2>2. CASE ~(Sending(p)' => Sending(p))
    <3>1. p > accepted
      BY <1>5, <2>2
    <3>2. /\ Own(p) = {} /\ Waits(p) = {} /\ ~RowGone(p) /\ ~Back(p) /\ starts[p] = 0
      BY <3>1, Unseen
    <3>3. /\ Numbers(p)' /\ Cardinality(Waits(p)') <= Cardinality(Waits(p)) /\ (Back(p)' => Back(p))
          /\ starts'[p] = starts[p]
      BY <1>2, AsideKeeps
    <3>4. Own(p)' = {} /\ ~RowGone(p)' /\ ~Back(p)'
      BY <1>3, <1>4, <3>2, <3>3
    <3>5. Cardinality(Own(p)') = 0 /\ Cardinality(Waits(p)') <= 0
      BY <3>2, <3>3, <3>4, FS_EmptySet
    <3> QED BY <3>2, <3>3, <3>4, <3>5 DEF Within, ToStart, One, Numbers
  <2> QED BY <2>1, <2>2
<1> QED BY <1>2, <1>6, AsideKeeps

\* A new prompt has one row.
LEMMA EnqueueTally ==
    ASSUME Tallied, Inv', Enqueue
    PROVE  Follows' /\ Known' /\ \A p \in Prompts : Within(p)'
<1>0. Inv /\ IsFiniteSet(queue) /\ accepted \in Nat
  BY DEF Tallied, Ordered, Known, Inv, Typed, TypeOK
<1>1. PICK id \in NewRow : queue' = queue \cup {[id |-> id, prompt |-> accepted + 1]}
  BY DEF Enqueue
<1> DEFINE n == [id |-> id, prompt |-> accepted + 1]
<1>2. /\ UNCHANGED <<messages, consume, calls, cli, waiting, events, starts, setbacks, turn>>
      /\ accepted' = accepted + 1 /\ queue' = queue \cup {n}
  BY <1>1 DEF Enqueue, UnchangedTurn, provider
<1>3. n.prompt = accepted + 1
  OBVIOUS
<1> HIDE DEF n
<1>4. Aside
  <2>1. IsFiniteSet(queue')
    BY <1>0, <1>2, FS_AddElement
  <2> QED BY <1>0, <1>2, <2>1 DEF Aside, Running, Says
<1>5. \A p \in Prompts : /\ Own(p)' \subseteq Own(p) \cup {n}
                         /\ p # accepted + 1 => Own(p)' \subseteq Own(p)
  BY <1>2, <1>3 DEF Own, Marked
<1>6. \A p \in Prompts : (Sending(p)' => Sending(p)) /\ (RowGone(p)' => RowGone(p))
  BY <1>2 DEF Sending, RowGone, Rows
<1>7. ASSUME NEW p \in Prompts PROVE Within(p)'
  <2>1. CASE p # accepted + 1
    BY <1>4, <1>5, <1>6, <2>1, QuietKeeps
  <2>2. CASE p = accepted + 1
    <3>1. p > accepted
      BY <1>0, <2>2
    <3>2. /\ Own(p) = {} /\ Waits(p) = {} /\ ~Sending(p) /\ ~RowGone(p) /\ ~Back(p) /\ starts[p] = 0
      BY <3>1, Unseen
    <3>3. /\ Numbers(p) /\ Numbers(p)' /\ Cardinality(Waits(p)') <= Cardinality(Waits(p))
          /\ (Back(p)' => Back(p)) /\ starts'[p] = starts[p]
      BY <1>4, AsideKeeps
    <3>4. Cardinality(Own(p)') <= Cardinality(Own(p)) + 1
      BY <1>5, <3>3, OneMore DEF Numbers
    <3>5. Cardinality(Own(p)) = 0 /\ Cardinality(Waits(p)) = 0
      BY <3>2, FS_EmptySet
    <3>6. ~Sending(p)' /\ ~RowGone(p)' /\ ~Back(p)'
      BY <1>6, <3>2, <3>3
    <3> QED BY <3>2, <3>3, <3>4, <3>5, <3>6 DEF Within, ToStart, One, Numbers
  <2> QED BY <2>1, <2>2
<1> QED BY <1>4, <1>7, AsideKeeps

\* A row that goes while it is handed over is counted with its call.
LEMMA RowsGoTally ==
    ASSUME Tallied, Inv', Aside, queue' \subseteq queue,
           calls' \subseteq calls, \A c \in calls \ calls' : c.at = "parked"
    PROVE  Follows' /\ Known' /\ \A p \in Prompts : Within(p)'
<1>0. NoneSentAgain /\ Inv
  BY DEF Tallied, Ordered
<1>1. \A p \in Prompts : Own(p)' \subseteq Own(p) /\ (Sending(p)' => Sending(p))
  BY DEF Own, Marked, Sending
<1>2. ASSUME NEW p \in Prompts, RowGone(p)', ~RowGone(p)
      PROVE  \E r : r \in Own(p) \ Own(p)'
  <2>1. PICK c \in calls' : c.at = "stored" /\ c.row # 0 /\ c.prompt = p
                              /\ \A r \in queue' : r.id = c.row => r.prompt # p
    BY <1>2 DEF RowGone, Rows
  <2>2. PICK r : r \in Rows(c.row) /\ r.prompt = p
    BY <1>2, <2>1 DEF RowGone
  <2>3. r \in Own(p)
    BY <1>0, <2>1, <2>2, HandedRow
  <2>4. r \notin queue'
    BY <2>1, <2>2 DEF Rows
  <2> QED BY <2>3, <2>4 DEF Own
<1>3. ASSUME NEW p \in Prompts PROVE Within(p)'
  <2>1. CASE RowGone(p)' => RowGone(p)
    BY <1>1, <2>1, QuietKeeps
  <2>2. CASE ~(RowGone(p)' => RowGone(p))
    <3>1. /\ Numbers(p) /\ Numbers(p)' /\ Cardinality(Waits(p)') <= Cardinality(Waits(p)) /\ (Back(p)' => Back(p))
          /\ starts'[p] = starts[p] /\ setbacks'[p] >= setbacks[p]
      BY AsideKeeps
    <3>2. Cardinality(Own(p)') + 1 <= Cardinality(Own(p))
      BY <1>1, <1>2, <2>2, <3>1, NoMore DEF Numbers
    <3>3. Within(p)
      BY DEF Tallied
    <3> QED BY <1>1, <2>2, <3>1, <3>2, <3>3 DEF Within, ToStart, One, Numbers
  <2> QED BY <2>1, <2>2
<1> QED BY <1>3, AsideKeeps

\* A row is deleted.
LEMMA DeleteTally ==
    ASSUME Tallied, Inv', NEW r, Delete(r)
    PROVE  Follows' /\ Known' /\ \A p \in Prompts : Within(p)'
<1>1. /\ UNCHANGED <<messages, consume, cli, waiting, events, accepted, starts, setbacks, turn>>
      /\ queue' \subseteq queue
      /\ calls' \subseteq calls /\ \A c \in calls \ calls' : c.at = "parked"
  BY DEF Delete, UnchangedTurn, provider
<1>2. IsFiniteSet(queue')
  BY <1>1, FS_Subset DEF Tallied, Known
<1>3. accepted \in Nat
  BY DEF Tallied, Ordered, Inv, Typed, TypeOK
<1>4. Aside
  BY <1>1, <1>2, <1>3 DEF Aside, Running, Says
<1> QED BY <1>1, <1>4, RowsGoTally

\* All rows are stopped.
LEMMA StopTally ==
    ASSUME Tallied, Inv', Stop
    PROVE  Follows' /\ Known' /\ \A p \in Prompts : Within(p)'
<1>0. Inv /\ accepted \in Nat
  BY DEF Tallied, Ordered, Inv, Typed, TypeOK
<1>1. /\ UNCHANGED <<consume, calls, cli, waiting, events, accepted, starts, setbacks>>
      /\ queue' = {} /\ turn' = [turn EXCEPT !.cancelled = @ \/ turn.stage # "none"]
  BY DEF Stop, ghost, provider
<1>2. turn'.stage = turn.stage
  BY <1>0, <1>1 DEF Inv, Typed, TypeOK, Turn
<1>3. PICK stopped : /\ messages' = messages \cup stopped
                     /\ \A m \in stopped : m.id \notin {o.id : o \in messages}
  BY DEF Stop
<1>4. ASSUME NEW x \in InSeq(consume.untaken), NEW p \in Prompts, Says(x, p)' PROVE Says(x, p)
  <2>1. PICK o \in messages : o.id = x
    BY <1>0 DEF Tallied, Ordered, Inv, Holds, Live
  <2>2. PICK m \in messages' : m.id = x /\ m.prompt = p
    BY <1>4 DEF Says
  <2>3. m \in messages
    BY <1>3, <2>1, <2>2
  <2> QED BY <2>2, <2>3 DEF Says
<1>5. Aside
  BY <1>0, <1>1, <1>2, <1>4, FS_EmptySet DEF Aside, Running
<1> QED BY <1>1, <1>5, RowsGoTally

\* A prompt is handed over: its row is still there.
LEMMA HandOverTally ==
    ASSUME Tallied, Inv', NEW c, HandOver(c)
    PROVE  Follows' /\ Known' /\ \A p \in Prompts : Within(p)'
<1>0. Inv /\ accepted \in Nat /\ IsFiniteSet(queue)
  BY DEF Tallied, Ordered, Known, Inv, Typed, TypeOK
<1>1. /\ Handing = {} /\ c \in calls /\ c \in Call /\ Fits(c) /\ c.at = "looked"
      /\ consume.pc \in {"loop", "join", "leave"}
      /\ c.kind \in {"send", "force"} /\ c.msg = 0
  <2>1. /\ Handing = {} /\ c \in calls /\ c \in Call /\ Fits(c) /\ c.at = "looked"
        /\ consume.pc \in {"loop", "join", "leave"}
        /\ c.kind \in {"send", "force", "resend"} /\ (c.msg # 0 <=> c.kind = "resend")
    BY <1>0, WhileTaking
  <2>2. c.kind \in {"send", "force", "run"}
    BY <2>1, NoResend DEF Tallied, Ordered
  <2> QED BY <2>1, <2>2
<1>2. UNCHANGED <<queue, turn, consume, cli, waiting, events, accepted, starts, setbacks>>
  BY DEF HandOver, UnchangedTurn, provider
<1>3. Aside
  BY <1>0, <1>1, <1>2 DEF Aside, Running, Taking
<1>4. PICK d : /\ calls' = (calls \ {c}) \cup {d} /\ d.at = "stored" /\ d.kind = c.kind /\ d.row = c.row
               /\ c.row = 0 => d.prompt = c.prompt
               /\ c.row # 0 => \E r \in Rows(c.row) : r.prompt = d.prompt
  <2>1. CASE c.row # 0
    <3>1. PICK r \in Rows(c.row) : calls' = (calls \ {c}) \cup {[c EXCEPT !.at = "stored", !.prompt = r.prompt]}
      BY <2>1 DEF HandOver
    <3>2. r.prompt \in Prompts
      BY <1>0 DEF Rows, Inv, Typed, TypeOK, QueueRow
    <3> DEFINE d == [c EXCEPT !.at = "stored", !.prompt = r.prompt]
    <3>3. Reads(c, d, "stored", r.prompt)
      BY <1>1, <3>2, ReadsRow DEF Ats
    <3>4. calls' = (calls \ {c}) \cup {d} /\ r \in Rows(c.row)
      BY <3>1
    <3> HIDE DEF d
    <3> QED BY <2>1, <3>3, <3>4 DEF Reads
  <2>2. CASE c.row = 0
    <3>1. c.msg = 0
      BY <1>1
    <3>2. PICK id \in MsgIds : calls' = (calls \ {c}) \cup {[c EXCEPT !.at = "stored", !.msg = id]}
      BY <2>2, <3>1 DEF HandOver
    <3> DEFINE d == [c EXCEPT !.at = "stored", !.msg = id]
    <3>3. Stores(c, d, "stored", id)
      BY <1>1, StoresMsg DEF Ats, Ids
    <3>4. calls' = (calls \ {c}) \cup {d}
      BY <3>2
    <3> HIDE DEF d
    <3> QED BY <2>2, <3>3, <3>4 DEF Stores
  <2> QED BY <2>1, <2>2
<1>5. \A p \in Prompts : Own(p)' \subseteq Own(p)
  BY <1>1, <1>2, <1>4 DEF Own, Marked
<1>6. \A p \in Prompts : Sending(p)' => Sending(p)
  BY <1>1, <1>4 DEF Sending, Fits
<1>7. \A p \in Prompts : ~RowGone(p)'
  BY <1>1, <1>2, <1>4 DEF RowGone, Handing, Rows
<1> QED BY <1>3, <1>5, <1>6, <1>7, QuietKeeps, AsideKeeps

\* The CLI has the prompt: its row, its call or what was left of them goes.
LEMMA WriteTally ==
    ASSUME Tallied, Inv', NEW c, Write(c)
    PROVE  Follows' /\ Known' /\ \A p \in Prompts : Within(p)'
<1>0. Inv /\ accepted \in Nat /\ IsFiniteSet(queue) /\ Typed /\ Typed'
  BY DEF Tallied, Ordered, Known, Inv, Typed, TypeOK
<1>1. c \in Handing /\ c.at = "stored"
  BY DEF Write, Handing
<1>2. /\ Handing = {c} /\ c \in calls /\ c \in Call /\ Fits(c) /\ c.kind \in {"send", "force"}
      /\ consume.pc \in {"loop", "join", "leave"}
  <2>1. /\ Handing = {c} /\ c \in calls /\ c \in Call /\ Fits(c) /\ c.kind \in {"send", "force", "resend"}
        /\ consume.pc \in {"loop", "join", "leave"}
    BY <1>0, <1>1, WhileHanding
  <2>2. c.kind \in {"send", "force", "run"}
    BY <2>1, NoResend DEF Tallied, Ordered
  <2> QED BY <2>1, <2>2
<1> DEFINE d == [c EXCEPT !.at = "written"]
<1>3. Moves(c, d, "written") /\ calls' = (calls \ {c}) \cup {d}
  BY <1>2, MovesTo DEF Ats, Write, To
<1> HIDE DEF d
<1>4. UNCHANGED <<queue, turn, consume, cli, events, accepted, starts, setbacks>>
  BY DEF Write, ghost, db
<1>5. c.prompt \in Prompts /\ c.prompt <= accepted
  BY <1>0, <1>2 DEF Call, Inv, Afresh
<1>6. /\ waiting \in Seq(Prompts) /\ Len(waiting) \in Nat /\ DOMAIN waiting = 1..Len(waiting)
      /\ DOMAIN waiting' = 1..(Len(waiting) + 1)
      /\ \A j \in DOMAIN waiting : waiting'[j] = waiting[j]
      /\ waiting'[Len(waiting) + 1] = c.prompt
  <2>1. waiting \in Seq(Prompts) /\ waiting' = Append(waiting, c.prompt)
    BY <1>0 DEF Typed, TypeOK, Write
  <2> QED BY <1>5, <2>1, AppendProperties
<1>7. \A i, p : Reply(i, p)' <=> Reply(i, p)
  BY <1>4 DEF Reply, First
<1>8. Follows'
  BY <1>4, <1>7 DEF Tallied, Follows, Running
<1>9. Known'
  <2>1. \A j \in DOMAIN waiting' : waiting'[j] <= accepted
    BY <1>5, <1>6 DEF Tallied, Known
  <2> QED BY <1>4, <2>1 DEF Tallied, Known
<1>10. \A p \in Prompts : Numbers(p) /\ Numbers(p)'
  BY <1>0, <1>4, AreNumbers, AreNumbersNext
<1>11. \A p \in Prompts : Back(p)' => Back(p)
  BY <1>4, <1>7 DEF Back, Reading
<1>12. \A p \in Prompts : /\ p # c.prompt => Waits(p)' \subseteq Waits(p)
                          /\ Waits(p)' \subseteq Waits(p) \cup {Len(waiting) + 1}
  BY <1>2, <1>4, <1>6 DEF Waits, Taking
<1>13. \A p \in Prompts : Own(p)' \subseteq Own(p) /\ (Sending(p)' => Sending(p))
  BY <1>1, <1>3, <1>4 DEF Own, Marked, Sending, Moves
<1>14. \A p \in Prompts : ~RowGone(p)'
  BY <1>2, <1>3 DEF RowGone, Handing, Moves
<1>15. ASSUME NEW p \in Prompts, p # c.prompt PROVE Within(p)'
  <2>1. Cardinality(Own(p)') <= Cardinality(Own(p)) /\ Cardinality(Waits(p)') <= Cardinality(Waits(p))
    BY <1>10, <1>12, <1>13, <1>15, NoMore DEF Numbers
  <2>2. Within(p) /\ starts'[p] = starts[p] /\ setbacks'[p] >= setbacks[p]
    BY <1>4, <1>10 DEF Tallied, Numbers
  <2> QED BY <1>10, <1>11, <1>13, <1>14, <2>1, <2>2, StaysWithin
<1>16. ASSUME NEW p \in Prompts, p = c.prompt PROVE Within(p)'
  <2>1. Cardinality(Waits(p)') <= Cardinality(Waits(p)) + 1
    BY <1>10, <1>12, OneMore DEF Numbers
  <2>2. \/ Sending(p) /\ ~Sending(p)' /\ Cardinality(Own(p)') <= Cardinality(Own(p))
        \/ RowGone(p) /\ ~RowGone(p)' /\ Cardinality(Own(p)') <= Cardinality(Own(p))
        \/ Cardinality(Own(p)') + 1 <= Cardinality(Own(p))
    <3>0. Cardinality(Own(p)') <= Cardinality(Own(p))
      BY <1>10, <1>13, NoMore DEF Numbers
    <3>1. CASE c.kind = "send"
      <4>1. Sending(p)
        BY <1>1, <1>2, <1>16, <3>1 DEF Sending
      <4>2. \A e \in calls : e.prompt = c.prompt => e = c
        <5>1. ~Crossed(c.prompt)
          BY NoResend DEF Tallied, Ordered
        <5> QED BY <1>0, <1>2, <3>1, <5>1 DEF Inv, SentAlone
      <4>3. ~Sending(p)'
        BY <1>3, <1>16, <4>2 DEF Sending, Moves
      <4> QED BY <3>0, <4>1, <4>3
    <3>2. CASE c.kind # "send" /\ \A r \in Rows(c.row) : r.prompt # p
      <4>1. RowGone(p)
        BY <1>1, <1>2, <1>16, <3>2 DEF RowGone, Fits
      <4> QED BY <1>14, <3>0, <4>1
    <3>3. ASSUME NEW r \in Rows(c.row), r.prompt = p PROVE Cardinality(Own(p)') + 1 <= Cardinality(Own(p))
      <4>1. r \in Own(p) /\ r.id = c.row
        BY <1>0, <1>1, <1>2, <1>16, <3>3, HandedRow DEF Rows
      <4>2. r \notin Own(p)'
        BY <1>3, <4>1 DEF Own, Marked, Moves
      <4> QED BY <1>10, <1>13, <4>1, <4>2, NoMore DEF Numbers
    <3> QED BY <3>1, <3>2, <3>3
  <2>3. Within(p) /\ starts'[p] = starts[p] /\ setbacks'[p] = setbacks[p]
    BY <1>4 DEF Tallied
  <2> QED BY <1>10, <1>11, <1>13, <1>14, <2>1, <2>2, <2>3 DEF Within, ToStart, One, Numbers
<1> QED BY <1>8, <1>9, <1>15, <1>16

\* The write fails: the call goes on without the turn.
LEMMA WriteFailsTally ==
    ASSUME Tallied, Inv', NEW c, WriteFails(c)
    PROVE  Follows' /\ Known' /\ \A p \in Prompts : Within(p)'
<1>0. Inv /\ accepted \in Nat /\ IsFiniteSet(queue)
  BY DEF Tallied, Ordered, Known, Inv, Typed, TypeOK
<1>1. c \in Handing /\ c.at = "stored"
  BY DEF WriteFails, Handing
<1>2. /\ Handing = {c} /\ c \in calls /\ c \in Call /\ consume.pc \in {"loop", "join", "leave"}
  BY <1>0, <1>1, WhileHanding
<1>3. UNCHANGED <<queue, turn, consume, cli, waiting, events, accepted, starts, setbacks>>
  BY DEF WriteFails, ghost, provider
<1>4. Aside
  BY <1>0, <1>2, <1>3 DEF Aside, Running, Taking
<1> DEFINE id == IF c.kind = "send" THEN 0 ELSE c.msg
           d == [c EXCEPT !.at = "ending", !.msg = id]
<1>5. Stores(c, d, "ending", id)
  <2>1. id \in Ids
    BY <1>2 DEF Call, Ids
  <2> QED BY <1>2, <2>1, StoresMsg DEF Ats
<1>6. calls' = (calls \ {c}) \cup {d}
  BY DEF WriteFails
<1> HIDE DEF d
<1>7. d.at = "ending" /\ d.kind = c.kind /\ d.prompt = c.prompt
  BY <1>5 DEF Stores
<1>8. \A p \in Prompts : Own(p)' \subseteq Own(p)
  BY <1>1, <1>3, <1>6 DEF Own, Marked
<1>9. \A p \in Prompts : Sending(p)' => Sending(p)
  BY <1>1, <1>2, <1>6, <1>7 DEF Sending
<1>10. \A p \in Prompts : ~RowGone(p)'
  BY <1>2, <1>6, <1>7 DEF RowGone, Handing
<1> QED BY <1>4, <1>8, <1>9, <1>10, QuietKeeps, AsideKeeps

\* The prompt is the turn's: its row goes with its call.
LEMMA SettleTally ==
    ASSUME Tallied, Inv', NEW c, Settle(c)
    PROVE  Follows' /\ Known' /\ \A p \in Prompts : Within(p)'
<1>0. Inv /\ accepted \in Nat /\ IsFiniteSet(queue)
  BY DEF Tallied, Ordered, Known, Inv, Typed, TypeOK
<1>1. /\ Handing = {c} /\ c \in calls /\ Fits(c) /\ c.at = "written" /\ calls' = calls \ {c} /\ Handing' = {}
      /\ consume.pc \in {"loop", "join", "leave"}
      /\ UNCHANGED <<turn, consume, cli, waiting, events, accepted, starts, setbacks>>
  BY <1>0, SettleEndsSo DEF SettleEnds
<1>2. (queue' = queue /\ c.row = 0) \/ queue' = Unqueued(c.row)
  <2>1. CASE c.kind = "send"
    BY <1>1, <2>1 DEF Settle, Fits, db
  <2>2. CASE c.kind # "send"
    <3>1. c.kind = "force"
      <4>1. c.kind \in {"send", "force", "run"} /\ c.kind # "run"
        BY <1>0, <1>1, SettleEndsSo, NoResend DEF SettleEnds, Tallied, Ordered
      <4> QED BY <2>2, <4>1
    <3> QED BY <1>1, <3>1 DEF Settle, Fits
  <2> QED BY <2>1, <2>2
<1>3. queue' \subseteq queue /\ \A r \in queue' : r.id # c.row
  <2>1. \A r \in queue : r.id # 0
    BY <1>0, NatIds DEF Inv, Typed, TypeOK, QueueRow
  <2> QED BY <1>2, <2>1 DEF Unqueued
<1>4. Aside
  <2>1. IsFiniteSet(queue')
    BY <1>0, <1>3, FS_Subset
  <2> QED BY <1>0, <1>1, <2>1 DEF Aside, Running, Taking
<1>5. \A p \in Prompts : Own(p)' \subseteq Own(p)
  BY <1>1, <1>3 DEF Own, Marked
<1>6. \A p \in Prompts : (Sending(p)' => Sending(p)) /\ ~RowGone(p)'
  BY <1>1 DEF Sending, RowGone, Handing
<1> QED BY <1>4, <1>5, <1>6, QuietKeeps, AsideKeeps

\* The task is claimed, or is busy.
LEMMA ClaimTally ==
    ASSUME Tallied, Inv', NEW c, Claim(c)
    PROVE  Follows' /\ Known' /\ \A p \in Prompts : Within(p)'
<1>0. Inv /\ accepted \in Nat /\ IsFiniteSet(queue)
  BY DEF Tallied, Ordered, Known, Inv, Typed, TypeOK
<1>1. /\ c \in calls /\ c \in Call /\ c.at = "start"
      /\ UNCHANGED <<queue, messages, consume, cli, waiting, events, accepted, starts, setbacks>>
  BY <1>0 DEF Claim, db, provider, ghost, Inv, Typed, TypeOK
<1>2. Running' => Running
  BY DEF Claim, Running, NoTurn
<1>3. Aside
  BY <1>0, <1>1, <1>2 DEF Aside, Says
<1> DEFINE d == [c EXCEPT !.at = "claimed"]
<1>4. Moves(c, d, "claimed") /\ calls' \subseteq (calls \ {c}) \cup {d} /\ calls \ {c} \subseteq calls'
  BY <1>1, MovesTo DEF Ats, Claim, To, Done
<1> HIDE DEF d
<1>5. \A p \in Prompts : Own(p)' \subseteq Own(p)
  BY <1>1, <1>4 DEF Own, Marked
<1>6. \A p \in Prompts : (Sending(p)' => Sending(p)) /\ (RowGone(p)' => RowGone(p))
  BY <1>1, <1>4 DEF Sending, RowGone, Moves, Rows
<1> QED BY <1>3, <1>5, <1>6, QuietKeeps, AsideKeeps

\* The row goes, and what marked it.
LEMMA DropRowTally ==
    ASSUME Tallied, Inv', NEW c, DropRow(c)
    PROVE  Follows' /\ Known' /\ \A p \in Prompts : Within(p)'
<1>0. Inv /\ accepted \in Nat /\ IsFiniteSet(queue)
  BY DEF Tallied, Ordered, Known, Inv, Typed, TypeOK
<1>1. /\ c \in calls /\ c.at = "drop" /\ calls' = calls \ {c} /\ queue' = Unqueued(c.row)
      /\ UNCHANGED <<turn, messages, consume, cli, waiting, events, accepted, starts, setbacks>>
  BY DEF DropRow, Done, UnchangedTurn, provider, ghost
<1>2. queue' \subseteq queue /\ \A r \in queue' : r.id # c.row
  BY <1>1 DEF Unqueued
<1>3. Handing = {}
  BY <1>0, <1>1, DropsRun
<1>4. Aside
  <2>1. IsFiniteSet(queue')
    BY <1>0, <1>2, FS_Subset
  <2> QED BY <1>0, <1>1, <2>1 DEF Aside, Running, Says
<1>5. \A p \in Prompts : Own(p)' \subseteq Own(p)
  BY <1>1, <1>2 DEF Own, Marked
<1>6. \A p \in Prompts : (Sending(p)' => Sending(p)) /\ ~RowGone(p)'
  BY <1>1, <1>3 DEF Sending, RowGone, Handing
<1> QED BY <1>4, <1>5, <1>6, QuietKeeps, AsideKeeps

\* A turn starts on a prompt: its row, or its call, was counted for it.
LEMMA RecordTally ==
    ASSUME Tallied, Inv', NEW c, Record(c)
    PROVE  Follows' /\ Known' /\ \A p \in Prompts : Within(p)'
<1>0. Inv /\ accepted \in Nat /\ IsFiniteSet(queue) /\ Typed /\ Typed' /\ starts \in [Prompts -> Nat]
  BY DEF Tallied, Ordered, Known, Inv, Typed, TypeOK
<1>1. /\ c \in calls /\ c.at = "claimed" /\ c \in Call /\ Fits(c) /\ c.kind \in {"send", "run"}
  <2>1. c \in calls /\ c.at = "claimed" /\ c \in Call /\ Fits(c)
    BY <1>0 DEF Record, Inv, Typed, TypeOK
  <2>2. c.kind \in {"send", "force", "run"}
    BY <2>1, NoResend DEF Tallied, Ordered
  <2> QED BY <2>1, <2>2 DEF Fits
<1>2. consume.pc = "off" /\ Handing = {}
  <2>1. turn.stage = "claimed"
    BY <1>0, <1>1 DEF Inv, Alone
  <2> QED BY <1>0, <2>1, WithoutTurn DEF Inv, Stages
<1>3. c.prompt \in Prompts /\ c.prompt <= accepted /\ c.prompt # 0
  BY <1>0, <1>1, NatIds DEF Call, Inv, Afresh
<1>4. /\ UNCHANGED <<queue, accepted, setbacks>>
      /\ waiting' = <<>> /\ events' = <<>>
      /\ starts' = [starts EXCEPT ![c.prompt] = @ + 1]
      /\ cli'.answering = c.prompt
      /\ consume'.pc = "loop" /\ consume'.inFlight = c.prompt /\ consume'.interrupted = 0
      /\ consume'.untaken = <<>>
  BY DEF Record, Launch, Idle, NoCli
<1>5. /\ \A p \in Prompts : p # c.prompt => starts'[p] = starts[p]
      /\ starts'[c.prompt] = starts[c.prompt] + 1
  BY <1>0, <1>3, <1>4
<1> DEFINE d == [c EXCEPT !.at = "drop"]
<1>6. /\ Moves(c, d, "drop")
      /\ c.kind = "send" => calls' = calls \ {c}
      /\ c.kind = "run" => calls' = (calls \ {c}) \cup {d}
  BY <1>1, MovesTo DEF Ats, Record, To, Done
<1> HIDE DEF d
<1>7. d.at = "drop" /\ d.kind = c.kind /\ d.row = c.row /\ d.prompt = c.prompt
  BY <1>6 DEF Moves
<1>8. \A p : Reply(1, p)' => p = c.prompt
  BY <1>4 DEF Reply, First
<1>9. Follows'
  <2>1. Len(events') + 1 = 1
    BY <1>4
  <2> QED BY <1>4, <1>8, <2>1 DEF Follows
<1>10. Known'
  <2>1. \A p \in Prompts : p \in Nat
    BY NatIds
  <2> QED BY <1>0, <1>3, <1>4, <1>5, <2>1 DEF Tallied, Known
<1>11. \A p \in Prompts : Numbers(p) /\ Numbers(p)'
  BY <1>0, <1>4, AreNumbers, AreNumbersNext
<1>12. \A p \in Prompts : Waits(p)' = {} /\ ~RowGone(p)' /\ ~Back(p)'
  <2>1. \A p \in Prompts : p # 0
    BY NatIds
  <2>2. \A p \in Prompts : ~Back(p)'
    BY <1>4, <2>1 DEF Back
  <2>3. \A p \in Prompts : Waits(p)' = {}
    BY <1>4 DEF Waits
  <2>4. \A p \in Prompts : ~RowGone(p)'
    BY <1>1, <1>2, <1>6, <1>7 DEF RowGone, Handing
  <2> QED BY <2>2, <2>3, <2>4
<1>13. \A p \in Prompts : Own(p)' \subseteq Own(p) /\ (Sending(p)' => Sending(p))
  <2>1. \A p \in Prompts : Own(p)' \subseteq Own(p)
    BY <1>1, <1>4, <1>6, <1>7 DEF Own, Marked
  <2>2. \A p \in Prompts : Sending(p)' => Sending(p)
    BY <1>1, <1>6, <1>7 DEF Sending
  <2> QED BY <2>1, <2>2
<1>14. \A p \in Prompts : /\ Cardinality(Waits(p)') = 0 /\ Cardinality(Own(p)') <= Cardinality(Own(p))
                          /\ Within(p) /\ setbacks'[p] = setbacks[p]
  BY <1>4, <1>11, <1>12, <1>13, NoMore, FS_EmptySet DEF Numbers, Tallied
<1>15. ASSUME NEW p \in Prompts, p # c.prompt PROVE Within(p)'
  <2>1. Numbers(p) /\ Numbers(p)' /\ ~RowGone(p)' /\ ~Back(p)' /\ (Sending(p)' => Sending(p)) /\ starts'[p] = starts[p]
    BY <1>5, <1>11, <1>12, <1>13, <1>15
  <2> QED BY <1>14, <2>1 DEF Within, ToStart, One, Numbers
<1>16. ASSUME NEW p \in Prompts, p = c.prompt PROVE Within(p)'
  <2>0. /\ Numbers(p) /\ Numbers(p)' /\ ~RowGone(p)' /\ ~Back(p)' /\ (Sending(p)' => Sending(p))
        /\ starts'[p] = starts[p] + 1
    BY <1>5, <1>11, <1>12, <1>13, <1>16
  <2>1. CASE c.kind = "send"
    <3>1. Sending(p) /\ ~Sending(p)'
      <4>1. \A e \in calls : e.prompt = c.prompt => e = c
        <5>1. ~Crossed(c.prompt)
          BY NoResend DEF Tallied, Ordered
        <5> QED BY <1>0, <1>1, <2>1, <5>1 DEF Inv, SentAlone
      <4> QED BY <1>1, <1>6, <1>16, <2>1, <4>1 DEF Sending
    <3> QED BY <1>14, <2>0, <3>1 DEF Within, ToStart, One, Numbers
  <2>2. CASE c.kind = "run"
    <3>1. PICK r \in queue : r.id = c.row /\ r.prompt = c.prompt
      BY <1>0, <1>1, <2>2 DEF Inv, RunRow
    <3>2. r \in Own(p)
      <4>1. \A e \in calls : e.at = "drop" => e.kind = "run"
        BY <1>0, DropsRun
      <4>2. \A e \in calls : e.at \notin {"written", "drop"}
        BY <1>0, <1>1, <1>2, <2>2, <4>1 DEF Inv, Alone, Handing
      <4> QED BY <1>16, <3>1, <4>2 DEF Own, Marked
    <3>3. r \notin Own(p)'
      BY <1>6, <1>7, <2>2, <3>1 DEF Own, Marked
    <3>4. Cardinality(Own(p)') + 1 <= Cardinality(Own(p))
      BY <1>11, <1>13, <3>2, <3>3, NoMore DEF Numbers
    <3> QED BY <1>14, <2>0, <3>4 DEF Within, ToStart, One, Numbers
  <2> QED BY <1>1, <2>1, <2>2
<1> QED BY <1>9, <1>10, <1>15, <1>16

\* A crash counts against every prompt, and one row at most is no longer marked.
LEMMA CrashTally ==
    ASSUME Tallied, Inv', Crash
    PROVE  Follows' /\ Known' /\ \A p \in Prompts : Within(p)'
<1>0. Inv /\ accepted \in Nat /\ IsFiniteSet(queue) /\ Typed /\ Typed' /\ setbacks \in [Prompts -> Nat]
  BY DEF Tallied, Ordered, Known, Inv, Typed, TypeOK
<1>1. /\ turn' = NoTurn /\ consume' = Idle /\ calls' = {} /\ waiting' = <<>> /\ events' = <<>>
      /\ setbacks' = [p \in Prompts |-> setbacks[p] + 1]
      /\ UNCHANGED <<queue, accepted, starts>>
  BY DEF Crash, db
<1>2. Follows' /\ Known'
  BY <1>1, IdleTypes DEF Follows, Running, Tallied, Known
<1>3. \A p \in Prompts : Numbers(p) /\ Numbers(p)'
  BY <1>0, <1>1, AreNumbers, AreNumbersNext
<1>4. \A p \in Prompts : Waits(p)' = {} /\ ~Sending(p)' /\ ~RowGone(p)' /\ ~Back(p)'
  BY <1>1, IdleTypes DEF Waits, Taking, Sending, RowGone, Back, Reading
<1>5. \A r, s \in queue : Marked(r) /\ Marked(s) => r = s
  <2> SUFFICES ASSUME NEW r \in queue, NEW s \in queue,
                      NEW c \in calls, c.at \in {"written", "drop"}, c.row = r.id,
                      NEW d \in calls, d.at \in {"written", "drop"}, d.row = s.id
               PROVE  r = s
    BY DEF Marked
  <2>1. \A e \in calls : e.at = "drop" => e.kind = "run" /\ Handing = {}
    BY <1>0, DropsRun
  <2>2. c = d
    BY <1>0, <2>1 DEF Inv, Alone, Handing
  <2> QED BY <1>0, <2>2 DEF Inv, Apart
<1>6. ASSUME NEW p \in Prompts PROVE Cardinality(Own(p)') <= Cardinality(Own(p)) + 1
  <2>1. PICK r : \A s \in queue : Marked(s) => s = r
    BY <1>5
  <2>2. Own(p)' \subseteq Own(p) \cup {r}
    BY <1>1, <2>1 DEF Own
  <2> QED BY <1>3, <2>2, OneMore DEF Numbers
<1>7. ASSUME NEW p \in Prompts PROVE Within(p)'
  <2>1. /\ Numbers(p) /\ Numbers(p)' /\ Within(p) /\ Cardinality(Own(p)') <= Cardinality(Own(p)) + 1
        /\ ~Sending(p)' /\ ~RowGone(p)' /\ ~Back(p)'
        /\ starts'[p] = starts[p] /\ setbacks'[p] = setbacks[p] + 1
    BY <1>1, <1>3, <1>4, <1>6 DEF Tallied
  <2>2. Cardinality(Waits(p)') = 0
    BY <1>4, FS_EmptySet
  <2> QED BY <2>1, <2>2 DEF Within, ToStart, One, Numbers
<1> QED BY <1>2, <1>7
-----------------------------------------------------------------------------
(* The CLI                                                                  *)

\* What is emitted comes behind what is replied to.
LEMMA EmitsReply ==
    ASSUME Typed, NEW evs \in Seq(Event), Emit(evs), UNCHANGED consume
    PROVE  \A i \in 1..(Len(events) + 1), p \in OrNone : Reply(i, p)' <=> Reply(i, p)
<1>1. /\ Len(events) \in Nat /\ Len(evs) \in Nat /\ DOMAIN events = 1..Len(events)
      /\ DOMAIN events' = 1..(Len(events) + Len(evs))
      /\ \A i \in DOMAIN events : events'[i] = events[i]
  BY Grows
<1> SUFFICES ASSUME NEW i \in 1..(Len(events) + 1), NEW p \in OrNone PROVE Reply(i, p)' <=> Reply(i, p)
  OBVIOUS
<1>2. \A j \in Nat : j < i => (j \in DOMAIN events' <=> j \in DOMAIN events)
  BY <1>1
<1>3. \A j \in DOMAIN events' : j \in Nat
  BY <1>1
<1>4. \A j \in DOMAIN events : j \in Nat
  BY <1>1
<1>5. First' = First
  BY DEF First
<1>6. (\A l \in DOMAIN events' : l < i => ~Turns(events'[l])) <=> (\A l \in DOMAIN events : l < i => ~Turns(events[l]))
  BY <1>1, <1>2, <1>3, <1>4
<1>7. ASSUME NEW j \in Nat
      PROVE  (\A l \in DOMAIN events' : j < l /\ l < i => ~Turns(events'[l]))
                <=> (\A l \in DOMAIN events : j < l /\ l < i => ~Turns(events[l]))
  BY <1>1, <1>2, <1>3, <1>4
<1>8. (\E j \in DOMAIN events' : /\ j < i /\ Turns(events'[j]) /\ events'[j].prompt = p
                                 /\ \A l \in DOMAIN events' : j < l /\ l < i => ~Turns(events'[l]))
      <=> (\E j \in DOMAIN events : /\ j < i /\ Turns(events[j]) /\ events[j].prompt = p
                                    /\ \A l \in DOMAIN events : j < l /\ l < i => ~Turns(events[l]))
  BY <1>1, <1>2, <1>3, <1>4, <1>7
<1> QED BY <1>5, <1>6, <1>8 DEF Reply

\* What the CLI does leaves the queue and the calls alone; a reply that fails
\* may bring back what is answered, and nothing else.
CliQuiet(evs) ==
    /\ InTurn /\ Emit(evs)
    /\ \A i \in DOMAIN evs : /\ evs[i].prompt <= accepted
                             /\ evs[i].type = "done" => evs[i].prompt = 0
                             /\ Fails(evs[i]) => i = 1
    /\ \A j \in DOMAIN waiting' : waiting'[j] <= accepted
    /\ \A p \in Prompts : p > accepted => starts'[p] = 0

\* It leaves the rows and the calls as they are counted.
LEMMA CliQuietKeeps ==
    ASSUME Tallied, Inv', NEW evs \in Seq(Event), CliQuiet(evs)
    PROVE  /\ Known' /\ Taking /\ consume' = consume
           /\ \A p \in Prompts :
                 /\ Numbers(p) /\ Numbers(p)' /\ Own(p)' = Own(p)
                 /\ (Sending(p)' => Sending(p)) /\ (RowGone(p)' => RowGone(p))
                 /\ Back(p)' /\ ~Back(p) => p = cli.answering /\ \E i \in DOMAIN evs : Fails(evs[i])
<1>0. Inv /\ Typed /\ Typed' /\ IsFiniteSet(queue) /\ Running /\ cli.on
  BY DEF Tallied, Ordered, Known, Inv, CliQuiet, InTurn
<1>1. UNCHANGED <<queue, messages, turn, consume, calls, accepted>>
  BY DEF CliQuiet, InTurn, db
<1>2. /\ Len(events) \in Nat /\ Len(evs) \in Nat /\ DOMAIN events = 1..Len(events) /\ DOMAIN evs = 1..Len(evs)
      /\ DOMAIN events' = 1..(Len(events) + Len(evs))
      /\ \A i \in DOMAIN events : events'[i] = events[i]
      /\ \A i \in DOMAIN evs : events'[Len(events) + i] = evs[i]
  BY <1>0, Grows DEF CliQuiet
<1>3. \A i \in DOMAIN events' : i \in DOMAIN events \/ (i - Len(events) \in DOMAIN evs /\ i = Len(events) + (i - Len(events)))
  BY <1>2
<1>4. Known'
  <2>1. ASSUME NEW i \in DOMAIN events' PROVE events'[i].prompt <= accepted /\ (events'[i].type = "done" => events'[i].prompt = 0)
    <3>1. CASE i \in DOMAIN events
      BY <1>2, <3>1 DEF Tallied, Known
    <3>2. ASSUME NEW k \in DOMAIN evs, i = Len(events) + k PROVE events'[i] = evs[k]
      BY <1>2, <3>2
    <3> QED BY <1>3, <3>1, <3>2 DEF CliQuiet
  <2> QED BY <1>1, <2>1 DEF Tallied, Known, CliQuiet
<1>5. Taking
  BY <1>0 DEF Inv, Stages, Reading, Taking
<1>6. \A p \in Prompts : Numbers(p) /\ Numbers(p)'
  BY <1>0, <1>1, AreNumbers, AreNumbersNext
<1>7. \A p \in Prompts : Own(p)' = Own(p) /\ (Sending(p)' => Sending(p)) /\ (RowGone(p)' => RowGone(p))
  BY <1>1 DEF Own, Marked, Sending, RowGone, Rows
<1>8. ASSUME NEW p \in Prompts, Back(p)', ~Back(p)
      PROVE  p = cli.answering /\ \E i \in DOMAIN evs : Fails(evs[i])
  <2>0. p \in OrNone /\ \A i \in 1..(Len(events) + 1), q \in OrNone : Reply(i, q)' <=> Reply(i, q)
    BY <1>0, <1>1, EmitsReply DEF OrNone, CliQuiet
  <2>1. PICK i \in DOMAIN events' : Fails(events'[i]) /\ Reply(i, p)'
    BY <1>1, <1>8 DEF Back, Reading
  <2>2. i \notin DOMAIN events
    <3> SUFFICES ASSUME i \in DOMAIN events PROVE FALSE
      OBVIOUS
    <3>1. i \in 1..(Len(events) + 1) /\ events'[i] = events[i]
      BY <1>2
    <3> QED BY <1>1, <1>8, <2>0, <2>1, <3>1 DEF Back, Reading
  <2>3. PICK k \in DOMAIN evs : i = Len(events) + k
    BY <1>3, <2>2
  <2>4. Fails(evs[k]) /\ k = 1
    BY <1>2, <2>1, <2>3 DEF CliQuiet
  <2>5. Reply(Len(events) + 1, p)
    <3>1. i = Len(events) + 1 /\ i \in 1..(Len(events) + 1)
      BY <1>2, <2>3, <2>4
    <3> QED BY <2>0, <2>1, <3>1
  <2> QED BY <1>0, <2>0, <2>4, <2>5 DEF Tallied, Follows
<1> QED BY <1>1, <1>4, <1>5, <1>6, <1>7, <1>8

\* What consume comes to after a step of the CLI.
LEMMA CliFollows ==
    ASSUME Tallied, Inv', NEW evs \in Seq(Event), CliQuiet(evs),
           \/ ~cli'.on
           \/ (\A i \in DOMAIN evs : ~Turns(evs[i])) /\ cli'.answering = cli.answering
           \/ Len(evs) \in DOMAIN evs /\ Turns(evs[Len(evs)]) /\ evs[Len(evs)].prompt = cli'.answering
    PROVE  Follows'
<1>0. Inv /\ Typed /\ Running /\ cli.on /\ UNCHANGED <<turn, consume>>
  BY DEF Tallied, Ordered, Inv, CliQuiet, InTurn
<1>1. /\ Len(events) \in Nat /\ Len(evs) \in Nat /\ DOMAIN events = 1..Len(events) /\ DOMAIN evs = 1..Len(evs)
      /\ DOMAIN events' = 1..(Len(events) + Len(evs)) /\ Len(events') = Len(events) + Len(evs)
      /\ \A i \in DOMAIN events : events'[i] = events[i]
      /\ \A i \in DOMAIN evs : events'[Len(events) + i] = evs[i]
  BY <1>0, Grows DEF CliQuiet
<1>2. CASE ~cli'.on
  BY <1>2 DEF Follows
<1>3. PICK n : n = Len(events')
  OBVIOUS
<1>4. \A p : Reply(Len(events) + 1, p)' => Reply(n + 1, p)'
  BY <1>3 DEF Reply
<1>5. \A j \in DOMAIN events' : j < n + 1 /\ j \in Nat
  BY <1>1, <1>3
<1>6. ASSUME \A i \in DOMAIN evs : ~Turns(evs[i]), cli'.answering = cli.answering PROVE Follows'
  <2>1. \A j \in DOMAIN events' : Turns(events'[j]) => j \in DOMAIN events /\ events'[j] = events[j]
    <3> SUFFICES ASSUME NEW j \in DOMAIN events', j \notin DOMAIN events PROVE ~Turns(events'[j])
      BY <1>1
    <3>1. j - Len(events) \in DOMAIN evs /\ j = Len(events) + (j - Len(events))
      BY <1>1
    <3> QED BY <1>1, <1>6, <3>1
  <2>2. \A j \in DOMAIN events : j \in DOMAIN events' /\ events'[j] = events[j] /\ j < Len(events) + 1
    BY <1>1
  <2>3. First' = First
    BY <1>0 DEF First
  <2>4. ASSUME NEW p, Reply(n + 1, p)' PROVE Reply(Len(events) + 1, p)
    BY <1>5, <2>1, <2>2, <2>3, <2>4 DEF Reply
  <2> QED BY <1>0, <1>4, <1>6, <2>4 DEF Follows, Tallied
<1>7. ASSUME Len(evs) \in DOMAIN evs, Turns(evs[Len(evs)]), evs[Len(evs)].prompt = cli'.answering PROVE Follows'
  <2>1. n \in DOMAIN events' /\ events'[n] = evs[Len(evs)]
    BY <1>1, <1>3, <1>7
  <2>2. \A j \in DOMAIN events' : j < n \/ j = n
    BY <1>1, <1>3
  <2>3. Turns(events'[n]) /\ events'[n].prompt = cli'.answering /\ n < n + 1
    BY <1>5, <1>7, <2>1
  <2>4. ASSUME NEW p, Reply(n + 1, p)' PROVE p = cli'.answering
    BY <2>1, <2>2, <2>3, <2>4 DEF Reply
  <2> QED BY <1>4, <2>4 DEF Follows
<1> QED BY <1>2, <1>6, <1>7

\* One that may come back does so for a failure.
LEMMA ComesBackWithin ==
    ASSUME NEW p, Within(p), Numbers(p), Numbers(p)', starts'[p] = starts[p], setbacks'[p] = setbacks[p] + 1,
           Cardinality(Own(p)') <= Cardinality(Own(p)), Cardinality(Waits(p)') <= Cardinality(Waits(p)),
           Sending(p)' => Sending(p), RowGone(p)' => RowGone(p)
    PROVE  Within(p)'
BY DEF Within, ToStart, One, Numbers

\* The CLI takes no prompt.
LEMMA CliPlain ==
    ASSUME Tallied, Inv', NEW evs \in Seq(Event), CliQuiet(evs), UNCHANGED <<waiting, starts>>,
           \A p \in Prompts :
              /\ setbacks'[p] >= setbacks[p]
              /\ p = cli.answering /\ (\E i \in DOMAIN evs : Fails(evs[i])) => setbacks'[p] = setbacks[p] + 1
    PROVE  \A p \in Prompts : Within(p)'
<1> SUFFICES ASSUME NEW p \in Prompts PROVE Within(p)'
  OBVIOUS
<1>1. /\ Numbers(p) /\ Numbers(p)' /\ Own(p)' = Own(p)
      /\ (Sending(p)' => Sending(p)) /\ (RowGone(p)' => RowGone(p))
      /\ Back(p)' /\ ~Back(p) => p = cli.answering /\ \E i \in DOMAIN evs : Fails(evs[i])
  BY CliQuietKeeps
<1>2. Waits(p)' = Waits(p)
  BY CliQuietKeeps DEF Waits, Taking
<1>3. Within(p) /\ starts'[p] = starts[p]
  BY DEF Tallied
<1>4. Cardinality(Own(p)') = Cardinality(Own(p)) /\ Cardinality(Waits(p)') = Cardinality(Waits(p))
  BY <1>1, <1>2
<1>5. setbacks'[p] >= setbacks[p] /\ (Back(p)' /\ ~Back(p) => setbacks'[p] = setbacks[p] + 1)
  BY <1>1
<1>6. Numbers(p) /\ Numbers(p)' /\ (Sending(p)' => Sending(p)) /\ (RowGone(p)' => RowGone(p))
  BY <1>1
<1>7. CASE Back(p)' => Back(p)
  <2>1. Cardinality(Own(p)') <= Cardinality(Own(p)) /\ Cardinality(Waits(p)') <= Cardinality(Waits(p))
    BY <1>4, <1>6 DEF Numbers
  <2> QED BY <1>3, <1>5, <1>6, <1>7, <2>1, StaysWithin
<1>8. CASE Back(p)' /\ ~Back(p)
  <2>1. setbacks'[p] = setbacks[p] + 1
    BY <1>5, <1>8
  <2>2. Cardinality(Own(p)') <= Cardinality(Own(p)) /\ Cardinality(Waits(p)') <= Cardinality(Waits(p))
    BY <1>4, <1>6 DEF Numbers
  <2> QED BY <1>3, <1>6, <2>1, <2>2, ComesBackWithin
<1> QED BY <1>7, <1>8

\* One that starts on the oldest prompt in its stdin has one less to start on.
LEMMA CliTakesTally ==
    ASSUME Tallied, Inv', CliTakes
    PROVE  Follows' /\ Known' /\ \A p \in Prompts : Within(p)'
<1>0. Inv /\ Typed /\ accepted \in Nat /\ starts \in [Prompts -> Nat] /\ cli \in Cli
  BY DEF Tallied, Ordered, Inv, Typed, TypeOK
<1>1. /\ InTurn /\ waiting # <<>> /\ waiting' = Tail(waiting) /\ UNCHANGED <<setbacks, accepted>>
      /\ starts' = [starts EXCEPT ![Head(waiting)] = @ + 1]
      /\ cli' = [cli EXCEPT !.busy = TRUE, !.answering = Head(waiting)]
  BY DEF CliTakes, InTurn
<1>2. /\ waiting \in Seq(Prompts) /\ Len(waiting) \in Nat \ {0}
      /\ DOMAIN waiting = 1..Len(waiting) /\ DOMAIN waiting' = 1..(Len(waiting) - 1)
      /\ \A j \in 1..(Len(waiting) - 1) : waiting'[j] = waiting[j + 1]
      /\ Head(waiting) = waiting[1] /\ Head(waiting) \in Prompts
  <2>1. waiting \in Seq(Prompts)
    BY <1>0 DEF Typed, TypeOK
  <2> QED BY <1>1, <2>1, Tails
<1> DEFINE h == Head(waiting)
           e == Ev("taken", h, FALSE)
<1>3. h \in Prompts /\ h <= accepted /\ waiting[1] = h /\ 1 \in DOMAIN waiting
  BY <1>2 DEF Tallied, Known
<1>4. cli'.answering = h /\ cli'.on = cli.on
  BY <1>0, <1>1 DEF Cli
<1>5. e \in Event /\ e.type = "taken" /\ e.prompt = h
  BY <1>3 DEF Ev, Event, OrNone
<1>6. Emit(<<e>>)
  BY DEF CliTakes, Echo
<1>7. \A p \in Prompts : starts'[p] = IF p = h THEN starts[p] + 1 ELSE starts[p]
  BY <1>0, <1>1
<1> HIDE DEF h, e
<1>8. <<e>> \in Seq(Event) /\ DOMAIN <<e>> = {1} /\ <<e>>[1] = e /\ Len(<<e>>) = 1
  BY <1>5, OneEvent
<1>9. CliQuiet(<<e>>)
  <2>1. \A j \in DOMAIN waiting' : waiting'[j] <= accepted
    BY <1>2 DEF Tallied, Known
  <2>2. \A p \in Prompts : p > accepted => starts'[p] = 0
    <3>1. \A p \in Prompts : p \in Nat
      BY NatIds
    <3> QED BY <1>0, <1>3, <1>7, <3>1 DEF Tallied, Known
  <2> QED BY <1>1, <1>3, <1>5, <1>6, <1>8, <2>1, <2>2 DEF CliQuiet, Fails
<1>10. Follows'
  BY <1>4, <1>5, <1>8, <1>9, CliFollows DEF Turns
<1>11. ASSUME NEW p \in Prompts PROVE Within(p)'
  <2>1. /\ Numbers(p) /\ Numbers(p)' /\ Own(p)' = Own(p)
        /\ (Sending(p)' => Sending(p)) /\ (RowGone(p)' => RowGone(p)) /\ (Back(p)' => Back(p))
    BY <1>5, <1>8, <1>9, CliQuietKeeps DEF Fails
  <2>2. /\ Waits(p) = {j \in DOMAIN waiting : waiting[j] = p}
        /\ Waits(p)' = {j \in DOMAIN waiting' : waiting'[j] = p}
    BY <1>8, <1>9, CliQuietKeeps DEF Waits, Taking
  <2>3. Waits(p)' \subseteq Nat \ {0} /\ \A j \in Waits(p)' : j + 1 \in Waits(p)
    BY <1>2, <2>2
  <2>4. /\ Cardinality(Waits(p)') <= Cardinality(Waits(p))
        /\ 1 \in Waits(p) => Cardinality(Waits(p)') + 1 <= Cardinality(Waits(p))
    BY <2>1, <2>3, OnePlaceDown DEF Numbers
  <2>5. p = h => 1 \in Waits(p)
    BY <1>3, <2>2
  <2>6. Within(p) /\ starts'[p] = (IF p = h THEN starts[p] + 1 ELSE starts[p]) /\ setbacks'[p] = setbacks[p]
    BY <1>1, <1>7 DEF Tallied
  <2>7. Cardinality(Own(p)') = Cardinality(Own(p))
    BY <2>1
  <2> QED BY <2>1, <2>4, <2>5, <2>6, <2>7 DEF Within, ToStart, One, Numbers
<1> QED BY <1>8, <1>9, <1>10, <1>11, CliQuietKeeps

\* The events of a reply that ends: its failure, if it failed, and its end.
LEMMA ResultEvents ==
    ASSUME Inv, CliResult
    PROVE  \E evs \in Seq(Event) :
              /\ Emit(evs) /\ Len(evs) \in DOMAIN evs
              /\ evs[Len(evs)].type = "done" /\ evs[Len(evs)].prompt = 0
              /\ \A i \in DOMAIN evs : /\ evs[i].prompt = 0
                                       /\ Fails(evs[i]) => i = 1
              /\ \/ UNCHANGED setbacks /\ \A i \in DOMAIN evs : ~Fails(evs[i])
                 \/ setbacks' = [p \in Prompts |-> IF p = cli.answering THEN setbacks[p] + 1 ELSE setbacks[p]]
<1>1. PICK outcome \in {"fine", "error", "away"} :
        /\ IF outcome = "fine" THEN UNCHANGED <<setbacks, left>>
           ELSE /\ Spend("fail")
                /\ setbacks' = [p \in Prompts |-> IF p = cli.answering THEN setbacks[p] + 1 ELSE setbacks[p]]
        /\ Emit((IF outcome = "fine" THEN <<>> ELSE <<Ev(outcome, 0, FALSE)>>) \o <<Ev("done", 0, StaysOpen)>>)
  BY DEF CliResult
<1> DEFINE e == Ev(outcome, 0, FALSE)
           d == Ev("done", 0, StaysOpen)
<1>2. outcome # "fine" => e \in Event /\ e.type = outcome /\ e.prompt = 0
  BY DEF Ev, Event, OrNone
<1>3. d \in Event /\ d.type = "done" /\ d.prompt = 0
  <2>1. StaysOpen \in BOOLEAN
    BY DEF StaysOpen, Inv, Typed, TypeOK, Cli
  <2> QED BY <2>1 DEF Ev, Event, OrNone
<1>4. outcome = "fine" => UNCHANGED setbacks /\ Emit(<<>> \o <<d>>)
  BY <1>1
<1>5. outcome # "fine" =>
         /\ setbacks' = [p \in Prompts |-> IF p = cli.answering THEN setbacks[p] + 1 ELSE setbacks[p]]
         /\ Emit(<<e>> \o <<d>>)
  BY <1>1
<1> HIDE DEF e, d
<1>6. CASE outcome = "fine"
  <2>1. <<>> \o <<d>> = <<d>> /\ <<d>> \in Seq(Event) /\ DOMAIN <<d>> = {1} /\ <<d>>[1] = d /\ Len(<<d>>) = 1
    BY <1>3
  <2>2. Emit(<<d>>) /\ UNCHANGED setbacks
    BY <1>4, <1>6, <2>1
  <2> QED BY <1>3, <2>1, <2>2 DEF Fails
<1>7. CASE outcome # "fine"
  <2>1. <<e>> \in Seq(Event) /\ <<d>> \in Seq(Event) /\ <<e>>[1] = e /\ <<d>>[1] = d /\ Len(<<e>>) = 1 /\ Len(<<d>>) = 1
    BY <1>2, <1>3, <1>7
  <2>2. PICK evs : evs = <<e>> \o <<d>>
    OBVIOUS
  <2>3. /\ evs \in Seq(Event) /\ Len(evs) = 2
        /\ \A i \in 1..2 : evs[i] = IF i <= 1 THEN <<e>>[i] ELSE <<d>>[i - 1]
    BY <2>1, <2>2, ConcatProperties
  <2>4. DOMAIN evs = 1..2 /\ evs[1] = e /\ evs[2] = d
    BY <2>1, <2>3
  <2>5. Emit(evs)
    BY <1>5, <1>7, <2>2
  <2>6. /\ Len(evs) \in DOMAIN evs /\ evs[Len(evs)].type = "done" /\ evs[Len(evs)].prompt = 0
        /\ \A i \in DOMAIN evs : evs[i].prompt = 0 /\ (Fails(evs[i]) => i = 1)
    BY <1>2, <1>3, <1>7, <2>3, <2>4 DEF Fails
  <2> QED BY <1>5, <1>7, <2>3, <2>5, <2>6
<1> QED BY <1>6, <1>7

\* Every step of the CLI keeps the tally.
LEMMA CliTally ==
    ASSUME Tallied, Inv', CliAction
    PROVE  Follows' /\ Known' /\ \A p \in Prompts : Within(p)'
<1>0. /\ Inv /\ Typed /\ accepted \in Nat /\ cli \in Cli /\ events \in Seq(Event)
      /\ setbacks \in [Prompts -> Nat]
      /\ \A p \in Prompts : setbacks[p] \in Nat
      /\ \A j \in DOMAIN waiting : waiting[j] <= accepted
      /\ \A p \in Prompts : p > accepted => starts[p] = 0
  BY DEF Tallied, Ordered, Known, Inv, Typed, TypeOK
<1>1. ASSUME NEW evs \in Seq(Event), Emit(evs), InTurn, UNCHANGED <<waiting, starts>>,
             \A i \in DOMAIN evs : evs[i].prompt = 0 /\ (Fails(evs[i]) => i = 1),
             \/ UNCHANGED setbacks /\ \A i \in DOMAIN evs : ~Fails(evs[i])
             \/ setbacks' = [p \in Prompts |-> IF p = cli.answering THEN setbacks[p] + 1 ELSE setbacks[p]],
             \/ ~cli'.on
             \/ (\A i \in DOMAIN evs : ~Turns(evs[i])) /\ cli'.answering = cli.answering
             \/ Len(evs) \in DOMAIN evs /\ Turns(evs[Len(evs)]) /\ evs[Len(evs)].prompt = cli'.answering
      PROVE  Follows' /\ Known' /\ \A p \in Prompts : Within(p)'
  <2>1. CliQuiet(evs)
    BY <1>0, <1>1 DEF CliQuiet
  <2>2. Follows'
    BY <1>1, <2>1, CliFollows
  <2>3. \A p \in Prompts :
              /\ setbacks'[p] >= setbacks[p]
              /\ p = cli.answering /\ (\E i \in DOMAIN evs : Fails(evs[i])) => setbacks'[p] = setbacks[p] + 1
    BY <1>0, <1>1
  <2>4. \A p \in Prompts : Within(p)'
    BY <1>1, <2>1, <2>3, CliPlain
  <2> QED BY <2>1, <2>2, <2>4, CliQuietKeeps
<1>2. ASSUME NEW e \in Event, Emit(<<e>>), InTurn, UNCHANGED <<waiting, starts, setbacks>>,
             cli'.answering = cli.answering, ~Fails(e), ~Turns(e), e.prompt = 0
      PROVE  Follows' /\ Known' /\ \A p \in Prompts : Within(p)'
  <2>1. PICK evs : evs = <<e>>
    OBVIOUS
  <2>2. evs \in Seq(Event) /\ \A i \in DOMAIN evs : evs[i] = e
    BY <2>1, OneEvent
  <2>3. Emit(evs) /\ InTurn /\ UNCHANGED <<waiting, starts>>
    BY <1>2, <2>1
  <2>4. \A i \in DOMAIN evs : evs[i].prompt = 0 /\ ~Fails(evs[i]) /\ ~Turns(evs[i])
    BY <1>2, <2>2
  <2> QED BY <1>1, <1>2, <2>2, <2>3, <2>4
<1>3. CASE CliSays
  <2> DEFINE e == Ev("text", 0, FALSE)
  <2>1. e \in Event /\ ~Fails(e) /\ ~Turns(e) /\ e.prompt = 0
    BY DEF Ev, Event, OrNone, Fails, Turns
  <2>2. Emit(<<e>>) /\ InTurn /\ UNCHANGED <<cli, waiting, starts, setbacks>>
    BY <1>3 DEF CliSays
  <2> HIDE DEF e
  <2> QED BY <1>2, <2>1, <2>2
<1>4. CASE CliStartsTask
  <2> DEFINE e == Ev("task", 0, FALSE)
  <2>1. e \in Event /\ ~Fails(e) /\ ~Turns(e) /\ e.prompt = 0
    BY DEF Ev, Event, OrNone, Fails, Turns
  <2>2. Emit(<<e>>) /\ InTurn /\ UNCHANGED <<waiting, starts, setbacks>> /\ cli'.answering = cli.answering
    BY <1>0, <1>4 DEF CliStartsTask, Cli
  <2> HIDE DEF e
  <2> QED BY <1>2, <2>1, <2>2
<1>5. CASE CliTaskEnds
  <2>1. Emit(<<>>) /\ InTurn /\ UNCHANGED <<waiting, starts, setbacks>> /\ cli'.answering = cli.answering
    BY <1>0, <1>5 DEF CliTaskEnds, Cli, Emit
  <2> QED BY <1>1, <2>1, NoEvent
<1>6. CASE CliResult
  <2>1. PICK evs \in Seq(Event) :
              /\ Emit(evs) /\ Len(evs) \in DOMAIN evs
              /\ evs[Len(evs)].type = "done" /\ evs[Len(evs)].prompt = 0
              /\ \A i \in DOMAIN evs : /\ evs[i].prompt = 0
                                       /\ Fails(evs[i]) => i = 1
              /\ \/ UNCHANGED setbacks /\ \A i \in DOMAIN evs : ~Fails(evs[i])
                 \/ setbacks' = [p \in Prompts |-> IF p = cli.answering THEN setbacks[p] + 1 ELSE setbacks[p]]
    BY <1>0, <1>6, ResultEvents
  <2>2. InTurn /\ UNCHANGED <<waiting, starts>> /\ cli'.answering = 0
    BY <1>0, <1>6 DEF CliResult, Cli
  <2>3. Turns(evs[Len(evs)])
    BY <2>1 DEF Turns
  <2> QED BY <1>1, <2>1, <2>2, <2>3
<1>7. CASE CliTakes
  BY <1>7, CliTakesTally
<1>8. CASE CliExits
  <2>1. Emit(<<>>) /\ InTurn /\ UNCHANGED <<waiting, starts, setbacks>> /\ cli'.on = FALSE
    BY <1>0, <1>8 DEF CliExits, Cli, Emit
  <2> QED BY <1>1, <2>1, NoEvent
<1>9. CASE CliDies
  <2>1. /\ InTurn /\ UNCHANGED <<waiting, starts>> /\ cli'.on = FALSE
        /\ setbacks' = [p \in Prompts |-> IF p = cli.answering THEN setbacks[p] + 1 ELSE setbacks[p]]
    BY <1>0, <1>9 DEF CliDies, Cli
  <2>2. CASE UNCHANGED events
    <3>1. Emit(<<>>)
      BY <1>0, <2>2 DEF Emit
    <3> QED BY <1>1, <2>1, <3>1, NoEvent
  <2>3. ASSUME NEW outcome \in {"error", "away"}, Emit(<<Ev(outcome, 0, FALSE)>>)
        PROVE  Follows' /\ Known' /\ \A p \in Prompts : Within(p)'
    <3> DEFINE e == Ev(outcome, 0, FALSE)
    <3>1. e \in Event /\ e.prompt = 0
      BY DEF Ev, Event, OrNone
    <3>2. Emit(<<e>>)
      BY <2>3
    <3> HIDE DEF e
    <3> QED BY <1>1, <2>1, <3>1, <3>2, OneEvent
  <2> QED BY <1>9, <2>2, <2>3 DEF CliDies
<1> QED BY <1>3, <1>4, <1>5, <1>6, <1>7, <1>8, <1>9 DEF CliAction

-----------------------------------------------------------------------------
(* consume                                                                  *)

\* An event that is read leaves what the others are replied to.
LEMMA PassReply ==
    ASSUME Typed, events # <<>>, events' = Tail(events),
           IF Turns(events[1]) THEN First' = events[1].prompt ELSE First' = First
    PROVE  /\ \A i \in Nat \ {0} : \A p : Reply(i, p)' => Reply(i + 1, p)
           /\ DOMAIN events' \subseteq Nat \ {0} /\ Len(events') \in Nat /\ Len(events) = Len(events') + 1
           /\ \A j \in DOMAIN events' : j + 1 \in DOMAIN events /\ events'[j] = events[j + 1]
<1>1. /\ Len(events) \in Nat \ {0} /\ Len(events') = Len(events) - 1
      /\ DOMAIN events = 1..Len(events) /\ DOMAIN events' = 1..(Len(events) - 1)
      /\ \A i \in 1..(Len(events) - 1) : events'[i] = events[i + 1]
  <2>1. events \in Seq(Event)
    BY DEF Typed, TypeOK
  <2> QED BY <2>1, Tails
<1>2. /\ \A j \in DOMAIN events' : j + 1 \in DOMAIN events /\ events'[j] = events[j + 1] /\ j \in Nat \ {0}
      /\ \A l \in DOMAIN events : l = 1 \/ (l - 1 \in DOMAIN events' /\ events[l] = events'[l - 1] /\ l \in Nat)
      /\ 1 \in DOMAIN events
  BY <1>1
<1>3. ASSUME NEW i \in Nat \ {0}, NEW p, Reply(i, p)' PROVE Reply(i + 1, p)
  <2>1. ASSUME NEW j \in DOMAIN events', j < i, Turns(events'[j]), events'[j].prompt = p,
               \A l \in DOMAIN events' : j < l /\ l < i => ~Turns(events'[l])
        PROVE  Reply(i + 1, p)
    <3>1. /\ j + 1 \in DOMAIN events /\ j + 1 < i + 1 /\ Turns(events[j + 1]) /\ events[j + 1].prompt = p
      BY <1>2, <2>1
    <3>2. ASSUME NEW l \in DOMAIN events, j + 1 < l, l < i + 1 PROVE ~Turns(events[l])
      <4>1. l - 1 \in DOMAIN events' /\ events[l] = events'[l - 1] /\ j < l - 1 /\ l - 1 < i
        BY <1>2, <3>2
      <4> QED BY <2>1, <4>1
    <3> QED BY <3>1, <3>2 DEF Reply
  <2>2. ASSUME p = First', \A l \in DOMAIN events' : l < i => ~Turns(events'[l])
        PROVE  Reply(i + 1, p)
    <3>1. ASSUME NEW l \in DOMAIN events, l # 1, l < i + 1 PROVE ~Turns(events[l])
      <4>1. l - 1 \in DOMAIN events' /\ events[l] = events'[l - 1] /\ l - 1 < i
        BY <1>2, <3>1
      <4> QED BY <2>2, <4>1
    <3>2. CASE Turns(events[1])
      <4>1. 1 < i + 1 /\ events[1].prompt = p /\ \A l \in DOMAIN events : 1 < l => l # 1
        BY <2>2, <3>2
      <4> QED BY <1>2, <3>1, <3>2, <4>1 DEF Reply
    <3>3. CASE ~Turns(events[1])
      BY <2>2, <3>1, <3>3 DEF Reply
    <3> QED BY <3>2, <3>3
  <2> QED BY <1>3, <2>1, <2>2 DEF Reply
<1> QED BY <1>1, <1>2, <1>3

\* While the turn is read, only its events and what consume knows change.
ReadsOn == /\ Reading /\ Reading'
          /\ UNCHANGED <<queue, turn, calls, cli, waiting, accepted, starts, setbacks>>

\* If no prompt is more to come back, none is counted more.
LEMMA ReadsWithin ==
    ASSUME Tallied, Inv', ReadsOn, \A p \in Prompts : Back(p)' => Back(p)
    PROVE  \A p \in Prompts : Within(p)'
<1>0. Typed /\ Typed' /\ IsFiniteSet(queue) /\ IsFiniteSet(queue)'
  BY DEF Tallied, Ordered, Inv, Known, ReadsOn
<1>1. ASSUME NEW p \in Prompts PROVE Within(p)'
  <2>1. Numbers(p) /\ Numbers(p)'
    BY <1>0, AreNumbers, AreNumbersNext
  <2>2. Own(p)' = Own(p) /\ Waits(p)' = Waits(p)
    BY DEF ReadsOn, Own, Marked, Waits, Taking, Reading
  <2>3. (Sending(p)' => Sending(p)) /\ (RowGone(p)' => RowGone(p)) /\ (Back(p)' => Back(p))
    BY DEF ReadsOn, Sending, RowGone, Rows
  <2>4. Cardinality(Own(p)') <= Cardinality(Own(p)) /\ Cardinality(Waits(p)') <= Cardinality(Waits(p))
    BY <2>1, <2>2 DEF Numbers
  <2>5. Within(p) /\ starts'[p] = starts[p] /\ setbacks'[p] >= setbacks[p]
    BY <2>1 DEF Tallied, ReadsOn, Numbers
  <2> QED BY <2>1, <2>3, <2>4, <2>5, StaysWithin
<1> QED BY <1>1

\* An event that is read tells consume what the CLI did.
LEMMA PassTally ==
    ASSUME Tallied, Inv', ReadsOn, events # <<>>, events' = Tail(events),
           IF Turns(events[1]) THEN First' = events[1].prompt ELSE First' = First,
           \/ consume'.interrupted \in {0, consume.interrupted}
           \/ Fails(events[1]) /\ consume'.interrupted = First
    PROVE  Follows' /\ Known' /\ \A p \in Prompts : Within(p)'
<1>0. Typed
  BY DEF Tallied, Ordered, Inv
<1>1. /\ \A i \in Nat \ {0} : \A p : Reply(i, p)' => Reply(i + 1, p)
      /\ DOMAIN events' \subseteq Nat \ {0} /\ Len(events') \in Nat /\ Len(events) = Len(events') + 1
      /\ \A j \in DOMAIN events' : j + 1 \in DOMAIN events /\ events'[j] = events[j + 1]
  BY <1>0, PassReply
<1>2. Known'
  BY <1>1 DEF Tallied, Known, ReadsOn
<1>3. Follows'
  <2>1. PICK n : n = Len(events') + 1
    OBVIOUS
  <2>2. n \in Nat \ {0} /\ n + 1 = Len(events) + 1
    BY <1>1, <2>1
  <2>3. \A p : Reply(Len(events) + 1, p)' => Reply(n, p)'
    BY <2>1 DEF Reply
  <2>4. \A p : Reply(n, p)' => Reply(Len(events) + 1, p)
    BY <1>1, <2>2
  <2> QED BY <2>3, <2>4 DEF Tallied, Follows, Running, ReadsOn
<1>4. ASSUME NEW p \in Prompts, Back(p)' PROVE Back(p)
  <2>1. CASE consume'.interrupted = p
    <3>1. p # 0
      BY NatIds
    <3>2. CASE consume.interrupted = p
      BY <3>2 DEF Back, ReadsOn
    <3>3. CASE Fails(events[1]) /\ First = p
      <4>1. 1 \in DOMAIN events /\ DOMAIN events = 1..Len(events)
        <5>1. events \in Seq(Event) /\ Len(events) \in Nat /\ Len(events) >= 1
          BY <1>0, <1>1 DEF Typed, TypeOK
        <5> QED BY <5>1
      <4>2. \A l \in DOMAIN events : ~(l < 1)
        BY <4>1
      <4>3. Reply(1, p)
        BY <3>3, <4>2 DEF Reply
      <4> QED BY <3>3, <4>1, <4>3 DEF Back, ReadsOn
    <3> QED BY <2>1, <3>1, <3>2, <3>3
  <2>2. ASSUME NEW i \in DOMAIN events', Fails(events'[i]), Reply(i, p)' PROVE Back(p)
    <3>1. Reply(i + 1, p) /\ i + 1 \in DOMAIN events /\ Fails(events[i + 1])
      BY <1>1, <2>2
    <3> QED BY <3>1 DEF Back, ReadsOn
  <2> QED BY <1>4, <2>1, <2>2 DEF Back
<1> QED BY <1>2, <1>3, <1>4, ReadsWithin

\* What reading an event leaves alone.
LEMMA EventRead ==
    ASSUME Inv, NEW type, Consuming(type), consume'.pc \in {"loop", "join"}
    PROVE  /\ ReadsOn /\ events # <<>> /\ events' = Tail(events) /\ consume.pc = "loop" /\ consume \in Consume
           /\ events[1] = Coming /\ events[1].type = type /\ 1 \in DOMAIN events /\ events[1] \in Event
<1>1. /\ UNCHANGED <<queue, turn, calls, cli, waiting, accepted, starts, setbacks>>
      /\ consume.pc = "loop" /\ events # <<>> /\ events' = Tail(events)
  BY DEF Consuming, ghost
<1>2. consume \in Consume
  BY DEF Inv, Typed, TypeOK
<1>3. ReadsOn
  BY <1>1 DEF ReadsOn, Reading
<1> QED BY <1>1, <1>2, <1>3, NextEvent

\* An event that does not turn to another prompt.
LEMMA PlainTally ==
    ASSUME Tallied, Inv', OnText \/ OnTask \/ OnError
    PROVE  Follows' /\ Known' /\ \A p \in Prompts : Within(p)'
<1>0. NoneSentAgain /\ Inv
  BY DEF Tallied, Ordered
<1>1. ASSUME NEW type \in {"text", "task"}, Consuming(type),
             consume'.pc = "loop", consume'.inFlight = consume.inFlight,
             consume'.interrupted = consume.interrupted
      PROVE  Follows' /\ Known' /\ \A p \in Prompts : Within(p)'
  <2>1. ReadsOn /\ events # <<>> /\ events' = Tail(events) /\ consume.pc = "loop" /\ events[1].type = type
    BY <1>0, <1>1, EventRead
  <2>2. ~Turns(events[1]) /\ First' = First
    BY <1>1, <2>1 DEF Turns, First
  <2> QED BY <1>1, <2>1, <2>2, PassTally
<1>2. CASE OnText
  <2>1. Consuming("text") /\ consume' = [consume EXCEPT !.said = TRUE] /\ consume \in Consume /\ consume.pc = "loop"
    BY <1>0, <1>2 DEF OnText, Inv, Typed, TypeOK, Consuming
  <2>2. consume'.pc = "loop" /\ consume'.inFlight = consume.inFlight /\ consume'.interrupted = consume.interrupted
    BY <2>1 DEF Consume
  <2> QED BY <1>1, <2>1, <2>2
<1>3. CASE OnTask
  <2>1. /\ Consuming("task") /\ consume' = [consume EXCEPT !.said = FALSE, !.produced = TRUE]
        /\ consume \in Consume /\ consume.pc = "loop"
    BY <1>0, <1>3 DEF OnTask, Inv, Typed, TypeOK, Consuming
  <2>2. consume'.pc = "loop" /\ consume'.inFlight = consume.inFlight /\ consume'.interrupted = consume.interrupted
    BY <2>1 DEF Consume
  <2> QED BY <1>1, <2>1, <2>2
<1>4. CASE OnError
  <2>1. PICK type \in {"error", "away"} :
          /\ Consuming(type)
          /\ consume' = [consume EXCEPT
               !.failure = IF type = "away" THEN "away" ELSE "fault",
               !.interrupted = consume.inFlight,
               !.interruptedMsg = consume.inFlightMsg]
    BY <1>4 DEF OnError
  <2>2. consume \in Consume /\ consume.pc = "loop"
    BY <1>0, <2>1 DEF Inv, Typed, TypeOK, Consuming
  <2>3. consume'.pc = "loop" /\ consume'.inFlight = consume.inFlight /\ consume'.interrupted = consume.inFlight
    BY <2>1, <2>2 DEF Consume
  <2>4. ReadsOn /\ events # <<>> /\ events' = Tail(events) /\ events[1].type = type
    BY <1>0, <2>1, <2>3, EventRead
  <2>5. ~Turns(events[1]) /\ First' = First /\ Fails(events[1]) /\ consume'.interrupted = First
    BY <2>1, <2>2, <2>3, <2>4 DEF Turns, First, Fails
  <2> QED BY <2>4, <2>5, PassTally
<1> QED BY <1>2, <1>3, <1>4

\* A reply ends: no prompt is replied to.
LEMMA OnDoneTally ==
    ASSUME Tallied, Inv', OnDone
    PROVE  Follows' /\ Known' /\ \A p \in Prompts : Within(p)'
<1>0. NoneSentAgain /\ Inv
  BY DEF Tallied, Ordered
<1> DEFINE settled == consume.failure # "none" /\ Coming.open
<1>1. PICK used \in BOOLEAN :
        consume' = [consume EXCEPT
           !.said = FALSE, !.produced = @ \/ consume.said \/ used,
           !.inFlight = 0, !.inFlightMsg = 0,
           !.failure = IF settled THEN "none" ELSE @,
           !.interrupted = IF settled THEN 0 ELSE @,
           !.interruptedMsg = IF settled THEN 0 ELSE @]
  BY DEF OnDone
<1>2. Consuming("done") /\ consume \in Consume /\ consume.pc = "loop"
  BY <1>0 DEF OnDone, Inv, Typed, TypeOK, Consuming
<1> HIDE DEF settled
<1>3. consume'.pc = "loop" /\ consume'.inFlight = 0 /\ consume'.interrupted \in {0, consume.interrupted}
  BY <1>1, <1>2 DEF Consume
<1>4. ReadsOn /\ events # <<>> /\ events' = Tail(events) /\ events[1].type = "done" /\ 1 \in DOMAIN events
  <2> DEFINE type == "done"
  <2>1. Consuming(type)
    BY <1>2
  <2> HIDE DEF type
  <2>2. ReadsOn /\ events # <<>> /\ events' = Tail(events) /\ events[1].type = type /\ 1 \in DOMAIN events
    BY <1>0, <1>3, <2>1, EventRead
  <2> QED BY <2>2 DEF type
<1>5. events[1].prompt = 0
  BY <1>4 DEF Tallied, Known
<1>6. Turns(events[1]) /\ First' = events[1].prompt
  BY <1>3, <1>4, <1>5 DEF Turns, First
<1> QED BY <1>3, <1>4, <1>6, PassTally

\* One that is read in a line has a prompt that is held.
LEMMA TakenHeld ==
    ASSUME Inv, Line, OnTaken
    PROVE  open.pending # <<>>
<1>1. Consuming("taken") /\ Handing = {} /\ Taking
  BY DEF OnTaken, Unlocked, Consuming, Taking
<1>2. events[1] = Coming /\ Coming.type = "taken" /\ 1 \in DOMAIN events /\ Len(events) \in Nat
  BY <1>1, NextEvent
<1>3. PICK r \in [0..Len(events) -> Nat] : Counts(r) /\ InLine(r)
  BY <1>1, LineOf
<1>4. events \in Seq(Event) /\ waiting \in Seq(Prompts) /\ open \in Open
  BY DEF Inv, Typed, TypeOK
<1>5. Len(events) >= 1 /\ Len(waiting) \in Nat
  BY <1>2, <1>4
<1>6. r[0] = 0 /\ r[1] = 1
  BY <1>2, <1>3 DEF Counts
<1>7. r[1] <= r[Len(events)] /\ r[Len(events)] \in Nat
  <2>1. 1 \in 0..Len(events) /\ Len(events) \in 0..Len(events) /\ 1 <= Len(events)
    BY <1>2, <1>5
  <2> QED BY <1>3, <2>1 DEF Counts
<1>8. Len(open.pending) = r[Len(events)] + Len(waiting)
  <2>1. Written = {}
    BY <1>1 DEF Written, Handing
  <2> QED BY <1>3, <2>1 DEF InLine
<1>9. Len(open.pending) # 0
  BY <1>5, <1>6, <1>7, <1>8
<1> QED BY <1>9

\* The prompt that is taken is what is replied to from now on.
LEMMA OnTakenTally ==
    ASSUME Tallied, Inv', OnTaken
    PROVE  Follows' /\ Known' /\ \A p \in Prompts : Within(p)'
<1>0. Inv /\ Line
  BY DEF Tallied, Ordered
<1>1. open.pending # <<>>
  BY <1>0, TakenHeld
<1>2. /\ Consuming("taken") /\ consume \in Consume /\ consume.pc = "loop"
      /\ consume' = [consume EXCEPT !.pc = "join", !.id = Head(open.pending), !.prompt = Coming.prompt]
  BY <1>0, <1>1 DEF OnTaken, Inv, Typed, TypeOK, Consuming
<1>3. consume'.pc = "join" /\ consume'.prompt = Coming.prompt /\ consume'.interrupted = consume.interrupted
  BY <1>2 DEF Consume
<1>4. ReadsOn /\ events # <<>> /\ events' = Tail(events) /\ events[1].type = "taken" /\ events[1] = Coming
  <2> DEFINE type == "taken"
  <2>1. Consuming(type)
    BY <1>2
  <2> HIDE DEF type
  <2>2. ReadsOn /\ events # <<>> /\ events' = Tail(events) /\ events[1].type = type /\ events[1] = Coming
    BY <1>0, <1>3, <2>1, EventRead
  <2> QED BY <2>2 DEF type
<1>5. Turns(events[1]) /\ First' = events[1].prompt
  BY <1>3, <1>4 DEF Turns, First
<1> QED BY <1>3, <1>4, <1>5, PassTally

\* It joins the turn as what was taken.
LEMMA JoinTally ==
    ASSUME Tallied, Inv', Join
    PROVE  Follows' /\ Known' /\ \A p \in Prompts : Within(p)'
<1>0. Inv /\ Joins
  BY DEF Tallied, Ordered
<1>1. consume.pc = "join" /\ Reading /\ consume \in Consume
  BY <1>0 DEF Join, Reading, Inv, Typed, TypeOK
<1>2. messages \subseteq Message /\ ApartIn(messages)
  BY <1>0, <1>1, WhileReading
<1>3. UNCHANGED <<queue, turn, calls, cli, waiting, events, accepted, starts, setbacks>>
  BY DEF Join, provider, ghost
<1>4. PICK ms \in Flushed(messages, consume.said) :
        LET found == UnclaimedIn(ms, consume.id)
            after == [consume EXCEPT !.pc = "loop", !.id = 0, !.prompt = 0,
                        !.said = FALSE, !.produced = @ \/ consume.said]
        IN IF found = {} THEN messages' = ms /\ consume' = after
           ELSE \E m \in found : \E id \in EndIds(ms, m) :
                  /\ messages' = Moved(ms, m, turns, id)
                  /\ consume' = [after EXCEPT !.inFlight = m.prompt, !.inFlightMsg = id]
  BY DEF Join
<1>5. messages \subseteq ms /\ ApartIn(ms)
  BY <1>0, <1>4, FlushedProse DEF Prose
<1>6. PICK o \in messages : o.id = consume.id /\ o.turn = 0 /\ o.prompt # 0
  BY <1>0, <1>1 DEF Tallied, Ordered, Inv, Stages, Holds, Live
<1>7. PICK s \in messages : s.id = consume.id /\ s.prompt = consume.prompt
  BY <1>0, <1>1 DEF Joins, Says
<1> DEFINE after == [consume EXCEPT !.pc = "loop", !.id = 0, !.prompt = 0,
                       !.said = FALSE, !.produced = @ \/ consume.said]
<1>8. after.pc = "loop" /\ after.interrupted = consume.interrupted /\ DOMAIN after = DOMAIN consume
  BY <1>1 DEF Consume
<1>9. \E m \in ms : \E id : m.id = consume.id /\ consume' = [after EXCEPT !.inFlight = m.prompt, !.inFlightMsg = id]
  <2>1. o \in UnclaimedIn(ms, consume.id)
    BY <1>5, <1>6 DEF UnclaimedIn
  <2> HIDE DEF after
  <2>2. \E m \in UnclaimedIn(ms, consume.id) : \E id \in EndIds(ms, m) :
           consume' = [after EXCEPT !.inFlight = m.prompt, !.inFlightMsg = id]
    BY <1>4, <2>1 DEF after
  <2> QED BY <2>2 DEF UnclaimedIn
<1>10. PICK m \in ms : m.id = consume.id /\ \E id : consume' = [after EXCEPT !.inFlight = m.prompt, !.inFlightMsg = id]
  BY <1>9
<1>11. m.prompt = consume.prompt
  BY <1>5, <1>7, <1>10 DEF ApartIn
<1>12. "inFlight" \in DOMAIN after
  BY <1>1, <1>8 DEF Consume
<1> HIDE DEF after
<1>13. consume'.pc = "loop" /\ consume'.interrupted = consume.interrupted /\ consume'.inFlight = m.prompt
  BY <1>8, <1>10, <1>12
<1>14. First' = First
  BY <1>1, <1>11, <1>13 DEF First
<1>15. \A i, p : Reply(i, p)' <=> Reply(i, p)
  BY <1>3, <1>14 DEF Reply
<1>16. Follows' /\ Known'
  BY <1>3, <1>15 DEF Tallied, Follows, Known, Running
<1>17. \A p \in Prompts : Back(p)' => Back(p)
  BY <1>1, <1>3, <1>13, <1>15 DEF Back
<1>18. ReadsOn
  BY <1>1, <1>3, <1>13 DEF ReadsOn, Reading
<1> QED BY <1>16, <1>17, <1>18, ReadsWithin

\* What an outage interrupted has a row again.
LEMMA EventsOverTally ==
    ASSUME Tallied, Inv', EventsOver
    PROVE  Follows' /\ Known' /\ \A p \in Prompts : Within(p)'
<1> DEFINE held == consume.failure = "away" /\ consume.interrupted # 0
<1>0. Inv /\ Typed /\ Typed' /\ IsFiniteSet(queue)
  BY DEF Tallied, Ordered, Known, Inv
<1>1. consume.pc = "loop" /\ Reading /\ ~cli.on /\ consume \in Consume
  BY <1>0 DEF EventsOver, Reading, Inv, Typed, TypeOK
<1>2. UNCHANGED <<turn, calls, cli, waiting, events, accepted, starts, setbacks>>
  BY DEF EventsOver, provider, ghost
<1>3. consume'.pc = "leave"
  <2>1. consume' = [consume EXCEPT !.pc = "leave", !.said = FALSE, !.held = held]
    BY DEF EventsOver
  <2> QED BY <1>1, <2>1 DEF Consume
<1>4. \/ UNCHANGED queue
      \/ \E row : queue' = queue \cup {[id |-> row, prompt |-> consume.interrupted]}
  BY DEF EventsOver
<1>5. \E n : /\ n.prompt = consume.interrupted /\ queue \subseteq queue' /\ queue' \subseteq queue \cup {n}
  <2>1. CASE UNCHANGED queue
    <3> DEFINE n == [id |-> 0, prompt |-> consume.interrupted]
    <3>1. n.prompt = consume.interrupted
      OBVIOUS
    <3> HIDE DEF n
    <3> QED BY <2>1, <3>1
  <2>2. ASSUME NEW row, queue' = queue \cup {[id |-> row, prompt |-> consume.interrupted]}
        PROVE  \E n : /\ n.prompt = consume.interrupted /\ queue \subseteq queue' /\ queue' \subseteq queue \cup {n}
    <3> DEFINE n == [id |-> row, prompt |-> consume.interrupted]
    <3>1. n.prompt = consume.interrupted /\ queue' = queue \cup {n}
      BY <2>2
    <3> HIDE DEF n
    <3> QED BY <3>1
  <2> QED BY <1>4, <2>1, <2>2
<1>6. PICK n : /\ n.prompt = consume.interrupted /\ queue \subseteq queue' /\ queue' \subseteq queue \cup {n}
  BY <1>5
<1>7. IsFiniteSet(queue')
  BY <1>0, <1>6, FS_AddElement, FS_Subset
<1>8. Follows' /\ Known'
  <2>1. Follows'
    BY <1>1, <1>2 DEF Follows
  <2> QED BY <1>2, <1>7, <2>1 DEF Tallied, Known
<1>9. ASSUME NEW p \in Prompts PROVE Within(p)'
  <2>1. Numbers(p) /\ Numbers(p)'
    BY <1>0, <1>7, AreNumbers, AreNumbersNext
  <2>2. Waits(p)' = Waits(p)
    BY <1>1, <1>2, <1>3 DEF Waits, Taking
  <2>3. /\ Own(p)' \subseteq Own(p) \cup {n}
        /\ p # consume.interrupted => Own(p)' \subseteq Own(p)
    BY <1>2, <1>6 DEF Own, Marked
  <2>4. (Sending(p)' => Sending(p)) /\ (RowGone(p)' => RowGone(p)) /\ ~Back(p)'
    BY <1>2, <1>3, <1>6 DEF Sending, RowGone, Rows, Back, Reading
  <2>5. Within(p) /\ starts'[p] = starts[p] /\ setbacks'[p] = setbacks[p]
    BY <1>2 DEF Tallied
  <2>6. Cardinality(Waits(p)') = Cardinality(Waits(p))
    BY <2>2
  <2>7. CASE p # consume.interrupted
    <3>1. Cardinality(Own(p)') <= Cardinality(Own(p)) /\ Cardinality(Waits(p)') <= Cardinality(Waits(p))
      BY <2>1, <2>3, <2>6, <2>7, NoMore DEF Numbers
    <3>2. starts'[p] = starts[p] /\ setbacks'[p] >= setbacks[p] /\ (Back(p)' => Back(p))
      BY <2>1, <2>4, <2>5 DEF Numbers
    <3> QED BY <2>1, <2>4, <2>5, <3>1, <3>2, StaysWithin
  <2>8. CASE p = consume.interrupted
    <3>1. Back(p)
      BY <1>1, <2>8 DEF Back
    <3>2. Cardinality(Own(p)') <= Cardinality(Own(p)) + 1
      BY <2>1, <2>3, OneMore DEF Numbers
    <3> QED BY <2>1, <2>4, <2>5, <2>6, <3>1, <3>2 DEF Within, ToStart, One, Numbers
  <2> QED BY <2>7, <2>8
<1> QED BY <1>8, <1>9

\* What is left in stdin is what the turn holds.
LEMMA LeaveTally ==
    ASSUME Tallied, Inv', Leave
    PROVE  Follows' /\ Known' /\ \A p \in Prompts : Within(p)'
<1>0. Inv /\ Line /\ Typed /\ Typed' /\ IsFiniteSet(queue)
  BY DEF Tallied, Ordered, Known, Inv
<1>1. consume.pc = "leave" /\ Handing = {} /\ consume \in Consume /\ open \in Open /\ open.pending \in Seq(MsgIds)
  BY <1>0 DEF Leave, Unlocked, Inv, Typed, TypeOK, Open
<1>2. UNCHANGED <<queue, messages, turn, calls, cli, waiting, events, accepted, starts, setbacks>>
  BY DEF Leave, db, provider, ghost
<1>3. ~cli.on /\ events = <<>>
  BY <1>0, <1>1 DEF Inv, Stages, Reading
<1>4. consume'.pc = "untaken" /\ consume'.untaken = open.pending
  <2>1. consume' = [consume EXCEPT !.pc = "untaken", !.untaken = open.pending]
    BY DEF Leave
  <2> QED BY <1>1, <2>1 DEF Consume
<1>5. Follows' /\ Known'
  <2>1. Follows'
    BY <1>2, <1>3 DEF Follows
  <2> QED BY <1>2, <2>1 DEF Tallied, Known
<1>6. Taking /\ Written = {} /\ Len(events) = 0
  BY <1>1, <1>3 DEF Taking, Written, Handing
<1>7. PICK r \in [0..Len(events) -> Nat] : Counts(r) /\ InLine(r)
  BY <1>0, <1>6, LineOf
<1>8. waiting \in Seq(Prompts) /\ Len(waiting) \in Nat /\ DOMAIN waiting = 1..Len(waiting)
  <2>1. waiting \in Seq(Prompts)
    BY <1>0 DEF Typed, TypeOK
  <2> QED BY <2>1
<1>9. r[Len(events)] = 0
  BY <1>6, <1>7 DEF Counts
<1>10. Len(open.pending) = Len(waiting) /\ DOMAIN open.pending = DOMAIN waiting
  <2>1. Len(open.pending) = r[Len(events)] + Len(waiting)
    BY <1>6, <1>7 DEF InLine
  <2>2. Len(open.pending) = Len(waiting)
    BY <1>8, <1>9, <2>1
  <2> QED BY <1>1, <1>8, <2>2
<1>11. \A j \in DOMAIN waiting : Says(open.pending[j], waiting[j])
  <2> SUFFICES ASSUME NEW j \in DOMAIN waiting PROVE Says(open.pending[j], waiting[j])
    OBVIOUS
  <2>1. waiting[j] \in OrNone /\ j \in Nat /\ j = r[Len(events)] + j
    BY <1>8, <1>9 DEF OrNone
  <2>2. Due(j, waiting[j])
    BY <1>7, <2>1 DEF InLine
  <2> QED BY <1>10, <2>2 DEF Due
<1>12. \A id, p, q : Says(id, p) /\ Says(id, q) => p = q
  BY <1>0 DEF Says, Inv, Apart
<1>13. ASSUME NEW p \in Prompts PROVE Waits(p)' \subseteq Waits(p)
  <2>1. Waits(p) = {j \in DOMAIN waiting : waiting[j] = p}
    BY <1>6 DEF Waits
  <2>2. Waits(p)' = {i \in DOMAIN open.pending : Says(open.pending[i], p)}
    BY <1>2, <1>4 DEF Waits, Taking, Says
  <2> QED BY <1>10, <1>11, <1>12, <2>1, <2>2
<1>14. ASSUME NEW p \in Prompts PROVE Within(p)'
  <2>1. Numbers(p) /\ Numbers(p)'
    BY <1>0, <1>2, AreNumbers, AreNumbersNext
  <2>2. Own(p)' \subseteq Own(p)
    BY <1>2 DEF Own, Marked
  <2>3. (Sending(p)' => Sending(p)) /\ (RowGone(p)' => RowGone(p)) /\ ~Back(p)'
    BY <1>2, <1>4 DEF Sending, RowGone, Rows, Back, Reading
  <2>4. Within(p) /\ starts'[p] = starts[p] /\ setbacks'[p] >= setbacks[p]
    BY <1>2, <2>1 DEF Tallied, Numbers
  <2>5. Cardinality(Own(p)') <= Cardinality(Own(p)) /\ Cardinality(Waits(p)') <= Cardinality(Waits(p))
    BY <1>13, <2>1, <2>2, NoMore DEF Numbers
  <2> QED BY <2>1, <2>3, <2>4, <2>5, StaysWithin
<1> QED BY <1>5, <1>14

\* What the turn never took waits no more; if it is held back it has a row.
LEMMA SettleUntakenTally ==
    ASSUME Tallied, Inv', SettleUntaken
    PROVE  Follows' /\ Known' /\ \A p \in Prompts : Within(p)'
<1> DEFINE s == consume.untaken
           x == Head(s)
<1>0. Inv /\ Typed /\ Typed' /\ IsFiniteSet(queue)
  BY DEF Tallied, Ordered, Known, Inv
<1>1. consume.pc = "untaken" /\ s # <<>> /\ consume \in Consume /\ s \in Seq(MsgIds)
  BY <1>0 DEF SettleUntaken, Inv, Typed, TypeOK, Consume
<1>2. ~cli.on /\ UNCHANGED <<turn, calls, cli, waiting, events, accepted, starts, setbacks>>
  BY <1>0, <1>1 DEF SettleUntaken, provider, ghost, Inv, Stages, Reading
<1>3. /\ messages \subseteq Message /\ ApartIn(messages)
  BY <1>0 DEF Inv, Typed, TypeOK, Apart, ApartIn
<1>4. /\ InSeq(s) = {x} \cup InSeq(Tail(s)) /\ x \in InSeq(s) /\ Len(s) \in Nat \ {0}
      /\ DOMAIN s = 1..Len(s) /\ DOMAIN Tail(s) = 1..(Len(s) - 1)
      /\ \A i \in 1..(Len(s) - 1) : Tail(s)[i] = s[i + 1]
      /\ x = s[1]
  BY <1>1, Tails, InSeqTail
<1>5. x \notin InSeq(Tail(s))
  <2>1. Once(s)
    BY <1>0 DEF Tallied, Ordered, Inv, Holds
  <2> QED BY <1>1, <2>1, OnceTail
<1>6. PICK o \in messages : o.id = x /\ o.turn = 0 /\ o.prompt # 0
  BY <1>0, <1>4 DEF Tallied, Ordered, Inv, Holds, Live
<1>7. Unclaimed(x) = {o}
  BY <1>3, <1>6 DEF Unclaimed, UnclaimedIn, ApartIn
<1>8. \/ \E row \in NewRow : ToQueue(o, row)
      \/ /\ \E id \in EndIds(messages, o) : messages' = Moved(messages, o, 0, id)
         /\ UNCHANGED queue
  <2> HIDE DEF s
  <2>1. IF Unclaimed(x) = {} THEN UNCHANGED db
        ELSE \E m \in Unclaimed(x) :
            IF consume.held THEN \E row \in NewRow : ToQueue(m, row)
            ELSE /\ \E id \in EndIds(messages, m) : messages' = Moved(messages, m, 0, id)
                 /\ UNCHANGED queue
    BY DEF SettleUntaken, s
  <2> QED BY <1>7, <2>1
<1>9. consume'.pc = "untaken" /\ consume'.untaken = Tail(s)
  <2>1. consume' = [consume EXCEPT !.untaken = Tail(s)]
    BY DEF SettleUntaken
  <2> HIDE DEF s
  <2> QED BY <1>1, <2>1 DEF Consume
<1> HIDE DEF s, x
\* What is still to be settled says what it said.
<1>10. ASSUME NEW y \in InSeq(Tail(s)), NEW p, Says(y, p)' PROVE Says(y, p)
  <2>1. PICK m \in messages' : m.id = y /\ m.prompt = p
    BY <1>10 DEF Says
  <2>2. CASE messages' \subseteq messages
    BY <2>1, <2>2 DEF Says
  <2>3. ASSUME NEW id \in EndIds(messages, o), messages' = Moved(messages, o, 0, id) PROVE Says(y, p)
    <3>1. PICK l \in messages : l.id = y
      <4>1. y \in InSeq(consume.untaken)
        BY <1>4, <1>10 DEF s
      <4> QED BY <1>0, <4>1 DEF Tallied, Ordered, Inv, Holds, Live
    <3>2. id # y
      BY <1>3, <1>5, <1>6, <1>10, <2>3, <3>1, EndId
    <3>3. messages' = (messages \ {o}) \cup {[id |-> id, prompt |-> o.prompt, turn |-> 0]}
      BY <1>3, <1>6, <2>3, MovedTo
    <3>4. m \in messages
      BY <2>1, <3>2, <3>3
    <3> QED BY <2>1, <3>4 DEF Says
  <2> QED BY <1>8, <2>2, <2>3 DEF ToQueue
<1>11. \E n : n.prompt = o.prompt /\ queue \subseteq queue' /\ queue' \subseteq queue \cup {n}
  <2>1. CASE UNCHANGED queue
    BY <2>1
  <2>2. ASSUME NEW row, ToQueue(o, row)
        PROVE  \E n : n.prompt = o.prompt /\ queue \subseteq queue' /\ queue' \subseteq queue \cup {n}
    <3> DEFINE n == [id |-> row, prompt |-> o.prompt]
    <3>1. n.prompt = o.prompt /\ queue' = queue \cup {n}
      BY <2>2 DEF ToQueue
    <3> HIDE DEF n
    <3> QED BY <3>1
  <2> QED BY <1>8, <2>1, <2>2
<1>12. PICK n : n.prompt = o.prompt /\ queue \subseteq queue' /\ queue' \subseteq queue \cup {n}
  BY <1>11
<1>13. IsFiniteSet(queue')
  BY <1>0, <1>12, FS_AddElement, FS_Subset
<1>14. Follows' /\ Known'
  <2>1. Follows'
    BY <1>2 DEF Follows
  <2> QED BY <1>2, <1>13, <2>1 DEF Tallied, Known
<1>15. ASSUME NEW p \in Prompts PROVE Within(p)'
  <2>1. Numbers(p) /\ Numbers(p)'
    BY <1>0, <1>13, AreNumbers, AreNumbersNext
  <2>2. Waits(p) = {i \in DOMAIN s : Says(s[i], p)}
    BY <1>1 DEF Waits, Taking, s
  <2>3. Waits(p)' \subseteq Nat \ {0} /\ \A i \in Waits(p)' : i + 1 \in Waits(p)
    <3>1. ASSUME NEW i \in Waits(p)' PROVE i \in Nat \ {0} /\ i + 1 \in Waits(p)
      <4>1. PICK y : y = Tail(s)[i]
        OBVIOUS
      <4>2. i \in DOMAIN Tail(s) /\ Says(y, p)'
        BY <1>9, <3>1, <4>1 DEF Waits, Taking, Says
      <4>3. i \in 1..(Len(s) - 1) /\ y \in InSeq(Tail(s)) /\ y = s[i + 1]
        BY <1>4, <4>1, <4>2 DEF InSeq
      <4>4. Says(y, p)
        BY <1>10, <4>2, <4>3
      <4> QED BY <1>4, <2>2, <4>3, <4>4
    <3> QED BY <3>1
  <2>4. /\ Cardinality(Waits(p)') <= Cardinality(Waits(p))
        /\ 1 \in Waits(p) => Cardinality(Waits(p)') + 1 <= Cardinality(Waits(p))
    BY <2>1, <2>3, OnePlaceDown DEF Numbers
  <2>5. /\ Own(p)' \subseteq Own(p) \cup {n}
        /\ p # o.prompt => Own(p)' \subseteq Own(p)
    BY <1>2, <1>12 DEF Own, Marked
  <2>6. (Sending(p)' => Sending(p)) /\ (RowGone(p)' => RowGone(p)) /\ ~Back(p)'
    BY <1>2, <1>9, <1>12 DEF Sending, RowGone, Rows, Back, Reading
  <2>7. Within(p) /\ starts'[p] = starts[p] /\ setbacks'[p] = setbacks[p]
    BY <1>2 DEF Tallied
  <2>8. CASE p # o.prompt
    <3>1. Cardinality(Own(p)') <= Cardinality(Own(p))
      BY <2>1, <2>5, <2>8, NoMore DEF Numbers
    <3>2. starts'[p] = starts[p] /\ setbacks'[p] >= setbacks[p] /\ (Back(p)' => Back(p))
      BY <2>1, <2>6, <2>7 DEF Numbers
    <3> QED BY <2>1, <2>4, <2>6, <2>7, <3>1, <3>2, StaysWithin
  <2>9. CASE p = o.prompt
    <3>1. 1 \in Waits(p)
      BY <1>4, <1>6, <2>2, <2>9 DEF Says
    <3>2. Cardinality(Own(p)') <= Cardinality(Own(p)) + 1
      BY <2>1, <2>5, OneMore DEF Numbers
    <3> QED BY <2>1, <2>4, <2>6, <2>7, <3>1, <3>2 DEF Within, ToStart, One, Numbers
  <2> QED BY <2>8, <2>9
<1> QED BY <1>14, <1>15

\* The turn is over, and nothing of it waits.
LEMMA ReleaseTally ==
    ASSUME Tallied, Inv', Release
    PROVE  Follows' /\ Known' /\ \A p \in Prompts : Within(p)'
<1>0. Inv /\ Typed /\ Typed' /\ IsFiniteSet(queue)
  BY DEF Tallied, Ordered, Known, Inv
<1>1. /\ consume.pc = "untaken" /\ consume' = Idle /\ turn' = NoTurn /\ calls' = Released(calls)
      /\ UNCHANGED <<queue, messages, cli, waiting, events, accepted, starts, setbacks>>
  BY DEF Release, db, provider, ghost
<1>2. consume'.pc = "off" /\ consume'.untaken = <<>> /\ turn'.stage = "none"
  BY <1>1 DEF Idle, NoTurn
<1>3. /\ \A e \in calls' : e \in calls \/ (e.at = "lock" /\ e.kind = "run")
      /\ \A c \in calls : c.at # "parked" => c \in calls'
  <2>1. /\ \A e \in calls' : e \in calls \/ \E c \in calls : Runs(c, e)
        /\ \A c \in calls : c.at # "parked" => c \in calls'
    BY <1>0, <1>1, ReleasedCalls
  <2> QED BY <2>1 DEF Runs
<1>4. Follows' /\ Known'
  <2>1. Follows'
    BY <1>2 DEF Follows, Running
  <2> QED BY <1>1, <2>1 DEF Tallied, Known
<1>5. ASSUME NEW p \in Prompts PROVE Within(p)'
  <2>1. Numbers(p) /\ Numbers(p)'
    BY <1>0, <1>1, AreNumbers, AreNumbersNext
  <2>2. Waits(p)' = {}
    BY <1>2 DEF Waits, Taking
  <2>3. Own(p)' \subseteq Own(p)
    BY <1>1, <1>3 DEF Own, Marked
  <2>4. (Sending(p)' => Sending(p)) /\ (RowGone(p)' => RowGone(p)) /\ ~Back(p)'
    BY <1>1, <1>2, <1>3 DEF Sending, RowGone, Rows, Back, Reading
  <2>5. Within(p) /\ starts'[p] = starts[p] /\ setbacks'[p] >= setbacks[p]
    BY <1>1, <2>1 DEF Tallied, Numbers
  <2>6. Waits(p)' \subseteq Waits(p)
    BY <2>2
  <2>7. Cardinality(Own(p)') <= Cardinality(Own(p)) /\ Cardinality(Waits(p)') <= Cardinality(Waits(p))
    BY <2>1, <2>3, <2>6, NoMore DEF Numbers
  <2> QED BY <2>1, <2>4, <2>5, <2>7, StaysWithin
<1> QED BY <1>4, <1>5

-----------------------------------------------------------------------------
(* Every step keeps the tally                                               *)

\* The requests ...
LEMMA RequestTally ==
    ASSUME Tallied, Inv', Request
    PROVE  Follows' /\ Known' /\ \A p \in Prompts : Within(p)'
<1>0. NoneSentAgain /\ Inv
  BY DEF Tallied, Ordered
<1>1. CASE Enqueue
  BY <1>1, EnqueueTally
<1>2. CASE SendCalled
  <2>1. calls \subseteq calls'
    BY <1>2 DEF SendCalled
  <2> QED BY <1>0, <1>2, <2>1, SendInv, CallsTally
<1>3. ~\E kind \in {"resend", "requeue"}, m \in messages : ResendCalled(kind, m)
  BY <1>0, NoResend
<1>4. ASSUME NEW r \in queue, ForceCalled(r) PROVE Follows' /\ Known' /\ \A p \in Prompts : Within(p)'
  <2>1. calls \subseteq calls'
    BY <1>4 DEF ForceCalled
  <2> QED BY <1>0, <1>4, <2>1, ForceInv, CallsTally
<1>5. ASSUME NEW r \in queue, Delete(r) PROVE Follows' /\ Known' /\ \A p \in Prompts : Within(p)'
  BY <1>5, DeleteTally
<1>6. CASE Stop
  BY <1>6, StopTally
<1> QED BY <1>1, <1>2, <1>3, <1>4, <1>5, <1>6 DEF Request

\* ... the calls under way ...
LEMMA CallStepTally ==
    ASSUME Tallied, Inv', NEW c \in calls, CallStep(c)
    PROVE  Follows' /\ Known' /\ \A p \in Prompts : Within(p)'
<1>0. NoneSentAgain /\ Inv
  BY DEF Tallied, Ordered
<1>1. ASSUME CallsOnly, Calm, c.at # "drop", \A d \in calls : d # c => d \in calls'
      PROVE  Follows' /\ Known' /\ \A p \in Prompts : Within(p)'
  BY <1>1, CallsTally
<1>2. CASE Look(c)
  <2>1. c.at # "drop" /\ \A d \in calls : d # c => d \in calls'
    BY <1>2 DEF Look
  <2> QED BY <1>0, <1>1, <1>2, <2>1, LookInv
<1>3. CASE NotTaking(c)
  <2>1. c.at # "drop" /\ \A d \in calls : d # c => d \in calls'
    BY <1>3 DEF NotTaking, To
  <2> QED BY <1>0, <1>1, <1>3, <2>1, NotTakingInv
<1>4. CASE RefuseHandOver(c)
  <2>1. c.at # "drop" /\ \A d \in calls : d # c => d \in calls'
    BY <1>4 DEF RefuseHandOver, Takes, Done, To
  <2> QED BY <1>0, <1>1, <1>4, <2>1, RefusedInv
<1>5. CASE HandOver(c)
  BY <1>5, HandOverTally
<1>6. CASE Write(c)
  BY <1>6, WriteTally
<1>7. CASE WriteFails(c)
  BY <1>7, WriteFailsTally
<1>8. CASE Settle(c)
  BY <1>8, SettleTally
<1>9. CASE Ended(c)
  <2>1. c.at # "drop" /\ \A d \in calls : d # c => d \in calls'
    BY <1>9 DEF Ended, To
  <2> QED BY <1>0, <1>1, <1>9, <2>1, EndedInv
<1>10. ~QueueStored(c) /\ ~Discard(c)
  BY <1>0, NoResend
<1>11. CASE Claim(c)
  BY <1>11, ClaimTally
<1>12. CASE Record(c)
  BY <1>12, RecordTally
<1>13. CASE DropRow(c)
  BY <1>13, DropRowTally
<1>14. CASE Park(c)
  <2>1. c.at # "drop" /\ \A d \in calls : d # c => d \in calls'
    BY <1>14 DEF Park, To, Done
  <2> QED BY <1>0, <1>1, <1>14, <2>1, ParkInv
<1>15. CASE RunForced(c)
  <2>1. c.at # "drop" /\ \A d \in calls : d # c => d \in calls'
    BY <1>15 DEF RunForced, Done
  <2> QED BY <1>0, <1>1, <1>15, <2>1, RunForcedInv
<1> QED BY <1>2, <1>3, <1>4, <1>5, <1>6, <1>7, <1>8, <1>9, <1>10, <1>11, <1>12, <1>13, <1>14, <1>15
        DEF CallStep

\* ... consume ...
LEMMA ConsumeTally ==
    ASSUME Tallied, Inv', ConsumeStep
    PROVE  Follows' /\ Known' /\ \A p \in Prompts : Within(p)'
<1>1. CASE OnText \/ OnTask \/ OnError
  BY <1>1, PlainTally
<1>2. CASE OnDone
  BY <1>2, OnDoneTally
<1>3. CASE OnTaken
  BY <1>3, OnTakenTally
<1>4. CASE Join
  BY <1>4, JoinTally
<1>5. CASE EventsOver
  BY <1>5, EventsOverTally
<1>6. CASE Leave
  BY <1>6, LeaveTally
<1>7. CASE SettleUntaken
  BY <1>7, SettleUntakenTally
<1>8. CASE Release
  BY <1>8, ReleaseTally
<1> QED BY <1>1, <1>2, <1>3, <1>4, <1>5, <1>6, <1>7, <1>8 DEF ConsumeStep

\* ... and all the others.
LEMMA StepTally ==
    ASSUME Tallied, [Next]_vars
    PROVE  Tallied'
<1>0. Ordered /\ NoneSentAgain /\ Inv
  BY DEF Tallied, Ordered
<1>1. Ordered' /\ Inv'
  BY <1>0, StepLine DEF Ordered
<1>2. CASE Request
  BY <1>1, <1>2, RequestTally DEF Tallied
<1>3. ASSUME NEW r \in queue, Dispatch(r) PROVE Follows' /\ Known' /\ \A p \in Prompts : Within(p)'
  <2>1. calls \subseteq calls'
    BY <1>3 DEF Dispatch
  <2> QED BY <1>0, <1>1, <1>3, <2>1, DispatchInv, CallsTally
<1>4. ASSUME NEW c \in calls, CallStep(c) PROVE Follows' /\ Known' /\ \A p \in Prompts : Within(p)'
  BY <1>1, <1>4, CallStepTally
<1>5. CASE CliAction
  BY <1>1, <1>5, CliTally DEF Tallied
<1>6. CASE ConsumeStep
  BY <1>1, <1>6, ConsumeTally DEF Tallied
<1>7. CASE Crash
  BY <1>1, <1>7, CrashTally DEF Tallied
<1>8. CASE UNCHANGED vars
  <2>1. /\ UNCHANGED <<queue, messages, turn, consume, calls, cli, waiting, events, accepted, starts, setbacks>>
    BY <1>8 DEF vars, db, provider, ghost
  <2>2. Aside
    BY <1>0, <2>1 DEF Aside, Running, Says, Tallied, Known, Inv, Typed, TypeOK
  <2>3. Follows' /\ Known' /\ \A p \in Prompts : Within(p)'
    BY <1>1, <2>1, <2>2, RowsGoTally
  <2> QED BY <1>1, <2>3 DEF Tallied
<1> QED BY <1>1, <1>2, <1>3, <1>4, <1>5, <1>6, <1>7, <1>8 DEF Next, Tallied

\* Nothing is counted at the start.
LEMMA InitTally == InTime /\ NoneSentAgain /\ Init => Tallied
<1> SUFFICES ASSUME InTime, NoneSentAgain, Init PROVE Tallied
  OBVIOUS
<1>1. /\ queue = {} /\ turn = NoTurn /\ consume = Idle /\ calls = {} /\ waiting = <<>> /\ events = <<>>
      /\ starts = [p \in Prompts |-> 0] /\ setbacks = [p \in Prompts |-> 0]
  BY DEF Init
<1>2. Ordered
  BY InitInv, InitLine DEF Ordered
<1>3. Follows /\ Known
  <2>1. Follows
    BY <1>1 DEF Follows, Running, NoTurn
  <2> QED BY <1>1, <2>1, FS_EmptySet DEF Known
<1>4. ASSUME NEW p \in Prompts PROVE Within(p)
  <2>1. Own(p) = {} /\ Waits(p) = {} /\ ~Sending(p) /\ ~RowGone(p) /\ ~Back(p)
    BY <1>1, IdleTypes DEF Own, Waits, Taking, Sending, RowGone, Back, Reading, Idle
  <2>2. Cardinality(Own(p)) = 0 /\ Cardinality(Waits(p)) = 0 /\ starts[p] = 0 /\ setbacks[p] = 0
    BY <1>1, <2>1, FS_EmptySet
  <2> QED BY <2>1, <2>2 DEF Within, ToStart, One
<1> QED BY <1>2, <1>3, <1>4 DEF Tallied

\* Within its starts a prompt has had no more than it may.
LEMMA TalliedStarts == Tallied => StartedOnce
<1> SUFFICES ASSUME Tallied, NEW p \in Prompts PROVE starts[p] <= 1 + setbacks[p]
  BY DEF StartedOnce
<1>1. Numbers(p)
  BY AreNumbers DEF Tallied, Ordered, Inv, Known
<1>2. Within(p)
  BY DEF Tallied
<1> QED BY <1>1, <1>2 DEF Within, ToStart, One, Numbers
-----------------------------------------------------------------------------
(* The theorems                                                             *)

\* The variables keep their types: ids stay in use once, a turn is what its
\* stage says, and at most one call hands a prompt over.
THEOREM TypeCorrect == InTime /\ Spec => []TypeOK
<1>1. InTime /\ Init => Inv
  BY InitInv
<1>2. Inv /\ [Next]_vars => Inv'
  BY StepInv
<1>3. Inv => TypeOK
  BY DEF Inv, Typed
<1> QED BY <1>1, <1>2, <1>3, PTL DEF Spec

\* No prompt vanishes but by a delete or under a row id that was given out again
\* (followUp, consume, leaveUntaken, holdForOutage, dropRow): every step moves
\* every prompt as FollowUpPlaces says.
THEOREM PromiseIsKept == InTime /\ Spec => KeepsPromise
<1>1. InTime /\ Init => Inv /\ Promise!Init
  BY InitInv, InitPlaces
<1>2. Inv /\ [Next]_vars => Inv'
  BY StepInv
<1>3. Inv /\ Inv' /\ [Next]_vars => Promise!Next
  BY StepInv, StepPlaces
<1> QED BY <1>1, <1>2, <1>3, PTL DEF Spec, KeepsPromise, Promise!Spec

\* Both invariants hold in every state.
LEMMA AlwaysOrdered == InTime /\ NoneSentAgain /\ Spec => []Ordered
<1>1. InTime /\ NoneSentAgain /\ Init => Ordered
  BY InitInv, InitLine DEF Ordered
<1>2. Ordered /\ [Next]_vars => Ordered'
  BY StepLine
<1> QED BY <1>1, <1>2, PTL DEF Spec

\* consume joins to the turn the oldest prompt that openTurn.pending holds: it
\* is the one whose echo it has just read.
THEOREM JoinsWhatIsTaken == InTime /\ NoneSentAgain /\ Spec => []RightPromptJoins
<1>1. Ordered => RightPromptJoins
  BY JoinsRight
<1> QED BY <1>1, AlwaysOrdered, PTL

\* closeIfTaken never closes stdin on a prompt that the turn has accepted.
THEOREM NoneLeftBehind == InTime /\ NoneSentAgain /\ Spec => []OrderlyEndTakesAll
<1>1. Ordered => OrderlyEndTakesAll
  BY EndsTaken
<1> QED BY <1>1, AlwaysOrdered, PTL

\* An agent starts on a prompt (host.sendUser, or the first of a turn) once, and
\* once more for each reply to it that failed or was cut short: what a turn
\* never took, and what an outage holds, has no other start under way.
THEOREM StartsAreCounted == InTime /\ NoneSentAgain /\ Spec => []StartedOnce
<1>1. InTime /\ NoneSentAgain /\ Init => Tallied
  BY InitTally
<1>2. Tallied /\ [Next]_vars => Tallied'
  BY StepTally
<1>3. Tallied => StartedOnce
  BY TalliedStarts
<1> QED BY <1>1, <1>2, <1>3, PTL DEF Spec
=============================================================================
