--------------------------- MODULE TerminalsProofs ---------------------------
(***************************************************************************)
(* Every view of a terminal shows what was written there, and answers a    *)
(* query of its program once: for any number of terminals, streams,        *)
(* windows, pieces of output and breaks.                                   *)
(*                                                                         *)
(* The argument follows the output.  What a view shows, what is on the     *)
(* wire of its stream and what waits in the channel are pieces of the same *)
(* output, and each begins where the one before it ends (Leads, Coming),   *)
(* whatever is replayed, joined, cut or dropped between them.  That        *)
(* joining frames keeps this holds by induction over the number of frames, *)
(* which the theorem on minimal elements of a well-founded relation stands *)
(* for (Induction).                                                        *)
(***************************************************************************)
EXTENDS Terminals, TLAPS, SequenceTheorems, WellFoundedInduction

Frames == [id : Ids, data : Seq(Nat), at : Nat, exit : BOOLEAN, reset : BOOLEAN,
           replay : BOOLEAN]
Watches == [id : Ids, from : Nat]
Channels == [pc : {"free", "attaching", "serving", "leaving"}, todo : SUBSET Watches,
             watches : SUBSET Ids, ch : Seq(Frames), dead : BOOLEAN, wire : Seq(Frames),
             over : BOOLEAN]
Pictures == [on : BOOLEAN, at : Nat, screen : Seq(Nat), live : Seq(Nat), told : BOOLEAN]

\* What the variables hold.
TypedShells ==
    /\ opening \subseteq Ids /\ open \subseteq Ids /\ going \subseteq Ids
    /\ closing \in BOOLEAN /\ started \subseteq Ids /\ closed \subseteq Ids
    /\ written \in [Ids -> Nat] /\ kept \in [Ids -> 0..2 * Scrollback]
    /\ readers \in [Ids -> SUBSET Streams]
    /\ watched \in [Ids -> BOOLEAN] /\ exited \in [Ids -> BOOLEAN]
    /\ left \in [Kinds -> Nat]
TypedStreams == stream \in [Streams -> Channels]
TypedWindows ==
    /\ view \in [Windows -> [Ids -> Pictures]]
    /\ current \in [Windows -> Streams \cup {0}]
Room == \A s \in Streams : Len(stream[s].ch) <= StreamBuffer

\* The scrollback is the end of what was written, and enough of it.
Scrolled == \A t \in Ids : Least(written[t], Scrollback) <= kept[t] /\ kept[t] <= written[t]

\* A stream before, while and after it is attached to a terminal.
Attaches(s) ==
    /\ stream[s].pc = "free" => stream[s].watches = {}
    /\ stream[s].pc # "attaching" => stream[s].todo = {}
    /\ stream[s].pc = "attaching" =>
          /\ stream[s].wire = <<>>
          /\ \A i \in 1..Len(stream[s].ch) : stream[s].ch[i].id \in stream[s].watches
          /\ \A a \in stream[s].todo : a.id \notin stream[s].watches
          /\ \A a, b \in stream[s].todo : a.id = b.id => a = b
    /\ \A t \in Ids : s \in readers[t] => t \in stream[s].watches
    /\ \A t \in stream[s].watches : watched[t]
    /\ \A i \in 1..Len(stream[s].ch) : watched[stream[s].ch[i].id]
    /\ \A i \in 1..Len(stream[s].wire) : watched[stream[s].wire[i].id]
Attachment == \A s \in Streams : Attaches(s)

\* What follows the output up to b: more of it, or a new screen, or the exit.
Right(f, b, top, over, live) ==
    /\ f.at <= top
    /\ \/ /\ f.data # <<>> /\ ~f.exit /\ b < f.at
          /\ Len(f.data) <= f.at /\ f.data = Bytes(f.at - Len(f.data), f.at)
          /\ IF f.reset THEN Least(f.at, Scrollback) <= Len(f.data)
                        ELSE Len(f.data) = f.at - b
          /\ b # 0 /\ ~f.replay => ~f.reset
          /\ b = 0 => \A i \in 1..Len(live) : live[i] <= f.at
          /\ b = 0 /\ ~f.replay => live = <<>>
       \/ f.data = <<>> /\ f.exit /\ ~f.reset /\ f.at = b /\ b = top /\ over
Moves(t, f, b, z, top, over, live) ==
    IF f.id = t THEN z = f.at /\ Right(f, b, top, over, live) ELSE z = b

\* Frames that take a view of t from b to z.
Leads(t, F, b, z, top, over, live) ==
    \E e \in [0..Len(F) -> Nat] :
        /\ e[0] = b /\ e[Len(F)] = z
        /\ \A i, j \in 0..Len(F) : i <= j => e[i] <= e[j]
        /\ \A i \in 1..Len(F) : Moves(t, F[i], e[i - 1], e[i], top, over, live)

Asked(s) == {a.id : a \in stream[s].todo}
Coming(w, t, s) ==
    \E m, z \in Nat :
        /\ Leads(t, stream[s].wire, view[w][t].at, m, written[t], exited[t], view[w][t].live)
        /\ Leads(t, stream[s].ch, m, z, written[t], exited[t], view[w][t].live)
        /\ s \in readers[t] /\ ~stream[s].dead => z = written[t]
        /\ t \in Asked(s) => z = view[w][t].at

\* What a window listens to fits what it shows, and no other window listens to it.
Hears(w, s) ==
    /\ stream[s].pc # "free"
    /\ \A a \in stream[s].todo : view[w][a.id].on /\ a.from = view[w][a.id].at
    /\ \A t \in stream[s].watches : view[w][t].on
    /\ \A i \in 1..Len(stream[s].ch) : view[w][stream[s].ch[i].id].on
    /\ \A i \in 1..Len(stream[s].wire) : view[w][stream[s].wire[i].id].on
    /\ \A t \in Ids : Coming(w, t, s)
Listening == \A w \in Windows : current[w] # 0 => Hears(w, current[w])
Alone == \A w, x \in Windows : current[w] # 0 /\ current[x] = current[w] => x = w

\* What a view shows, and what it has answered.
Screen(v, t) ==
    /\ ~v.on => v.at = 0 /\ ~v.told
    /\ Len(v.screen) <= v.at /\ v.screen = Bytes(v.at - Len(v.screen), v.at)
    /\ Least(v.at, Scrollback) <= Len(v.screen)
    /\ v.at <= written[t]
    /\ v.told => exited[t] /\ v.at = written[t]
Answers(v, t) ==
    /\ IsInjective(v.live)
    /\ \A i \in 1..Len(v.live) : 0 < v.live[i] /\ v.live[i] <= written[t]
    /\ v.at > 0 => watched[t] /\ \A i \in 1..Len(v.live) : v.live[i] <= v.at
    /\ v.live # <<>> => watched[t]
Views == \A w \in Windows, t \in Ids : Screen(view[w][t], t) /\ Answers(view[w][t], t)

Typed == TypedShells /\ TypedStreams /\ TypedWindows /\ Room
Inv == Typed /\ Scrolled /\ Attachment /\ Listening /\ Alone /\ Views
-----------------------------------------------------------------------------
(* Pieces of output                                                         *)

\* A piece of output holds one number for each byte, and no other.
LEMMA BytesAre ==
    ASSUME NEW a \in Nat, NEW b \in Nat, a <= b
    PROVE  /\ Bytes(a, b) \in Seq(Nat) /\ Len(Bytes(a, b)) = b - a
           /\ \A i \in 1..(b - a) : Bytes(a, b)[i] = a + i
           /\ Bytes(a, b) = <<>> <=> a = b
<1> DEFINE n == b - a
<1>1. n \in Nat
  OBVIOUS
<1>2. \A i \in 1..n : a + i \in Nat
  OBVIOUS
<1>3. Bytes(a, b) = [i \in 1..n |-> a + i]
  BY DEF Bytes
<1>4. Bytes(a, b) \in Seq(Nat) /\ Len(Bytes(a, b)) = n
  <2> HIDE DEF n
  <2>1. [i \in 1..n |-> a + i] \in [1..n -> Nat]
    BY <1>2
  <2>2. QED
    BY <1>1, <1>3, <2>1
<1>5. \A i \in 1..n : Bytes(a, b)[i] = a + i
  BY <1>3
<1>6. Bytes(a, b) = <<>> <=> n = 0
  BY <1>1, <1>4, EmptySeq
<1>7. QED
  BY <1>4, <1>5, <1>6

\* Two pieces that meet are one piece.
LEMMA BytesJoin ==
    ASSUME NEW a \in Nat, NEW b \in Nat, NEW c \in Nat, a <= b, b <= c
    PROVE  Bytes(a, b) \o Bytes(b, c) = Bytes(a, c)
<1> DEFINE x == Bytes(a, b)
           y == Bytes(b, c)
           z == Bytes(a, c)
<1>1. /\ x \in Seq(Nat) /\ Len(x) = b - a /\ \A i \in 1..(b - a) : x[i] = a + i
      /\ y \in Seq(Nat) /\ Len(y) = c - b /\ \A i \in 1..(c - b) : y[i] = b + i
      /\ z \in Seq(Nat) /\ Len(z) = c - a /\ \A i \in 1..(c - a) : z[i] = a + i
  <2>1. x \in Seq(Nat) /\ Len(x) = b - a /\ \A i \in 1..(b - a) : x[i] = a + i
    BY BytesAre
  <2>2. y \in Seq(Nat) /\ Len(y) = c - b /\ \A i \in 1..(c - b) : y[i] = b + i
    BY BytesAre
  <2>3. a <= c
    OBVIOUS
  <2>4. z \in Seq(Nat) /\ Len(z) = c - a /\ \A i \in 1..(c - a) : z[i] = a + i
    BY <2>3, BytesAre
  <2>5. QED
    BY <2>1, <2>2, <2>4
<1> HIDE DEF x, y, z
<1>2. /\ x \o y \in Seq(Nat) /\ Len(x \o y) = c - a
      /\ \A i \in 1..(c - a) : (x \o y)[i] = IF i <= b - a THEN x[i] ELSE y[i - (b - a)]
  <2>1. (b - a) + (c - b) = c - a
    OBVIOUS
  <2>2. /\ x \o y \in Seq(Nat) /\ Len(x \o y) = Len(x) + Len(y)
        /\ \A i \in 1..Len(x) + Len(y) : (x \o y)[i] = IF i <= Len(x) THEN x[i] ELSE y[i - Len(x)]
    BY <1>1, ConcatProperties
  <2>3. Len(x) + Len(y) = c - a
    BY <1>1, <2>1
  <2>4. QED
    BY <1>1, <2>2, <2>3
<1>3. \A i \in 1..(c - a) : (x \o y)[i] = z[i]
  <2> TAKE i \in 1..(c - a)
  <2>1. CASE i <= b - a
    BY <1>1, <1>2, <2>1
  <2>2. CASE ~(i <= b - a)
    <3>1. i - (b - a) \in 1..(c - b)
      BY <2>2
    <3>2. y[i - (b - a)] = b + (i - (b - a))
      BY <1>1, <3>1
    <3>3. QED
      BY SMTT(30), <1>1, <1>2, <2>2, <3>2
  <2>3. QED
    BY <2>1, <2>2
<1>4. x \o y = z
  BY <1>1, <1>2, <1>3, SeqEqual
<1>5. QED
  BY <1>4 DEF x, y, z
-----------------------------------------------------------------------------
(* Frames in a row                                                          *)

\* No frames lead where the view already is.
LEMMA LeadsNowhere ==
    ASSUME NEW t, NEW b \in Nat, NEW top, NEW over, NEW live
    PROVE  Leads(t, <<>>, b, b, top, over, live)
<1> DEFINE e == [i \in 0..0 |-> b]
<1>1. Len(<<>>) = 0
  OBVIOUS
<1>2. e \in [0..0 -> Nat] /\ e[0] = b /\ \A i, j \in 0..0 : i <= j => e[i] <= e[j]
  OBVIOUS
<1>3. \A i \in 1..0 : FALSE
  OBVIOUS
<1> HIDE DEF e
<1>4. QED
  BY <1>1, <1>2, <1>3 DEF Leads

\* They lead nowhere else.
LEMMA LeadsEmpty ==
    ASSUME NEW t, NEW b, NEW z, NEW top, NEW over, NEW live, Leads(t, <<>>, b, z, top, over, live)
    PROVE  z = b
<1>1. Len(<<>>) = 0
  OBVIOUS
<1>2. QED
  BY <1>1 DEF Leads

\* Frames only lead forward.
LEMMA LeadsUp ==
    ASSUME NEW t, NEW F \in Seq(Frames), NEW b, NEW z, NEW top, NEW over, NEW live,
           Leads(t, F, b, z, top, over, live)
    PROVE  b \in Nat /\ z \in Nat /\ b <= z
<1>1. Len(F) \in Nat
  BY LenProperties
<1>2. QED
  BY <1>1 DEF Leads

\* A frame more leads as far as that frame does.
LEMMA LeadsAppend ==
    ASSUME NEW t, NEW F \in Seq(Frames), NEW f \in Frames, NEW b, NEW m, NEW z \in Nat,
           NEW top, NEW over, NEW live,
           Leads(t, F, b, m, top, over, live), Moves(t, f, m, z, top, over, live), m <= z
    PROVE  Leads(t, Append(F, f), b, z, top, over, live)
<1> DEFINE n == Len(F)
           G == Append(F, f)
<1>1. n \in Nat
  BY LenProperties
<1>2. G \in Seq(Frames) /\ Len(G) = n + 1 /\ G[n + 1] = f /\ \A i \in 1..n : G[i] = F[i]
  BY AppendProperties
<1>3. PICK e \in [0..n -> Nat] :
        /\ e[0] = b /\ e[n] = m
        /\ \A i, j \in 0..n : i <= j => e[i] <= e[j]
        /\ \A i \in 1..n : Moves(t, F[i], e[i - 1], e[i], top, over, live)
  BY DEF Leads
<1> HIDE DEF n, G
<1> DEFINE h == [i \in 0..n + 1 |-> IF i = n + 1 THEN z ELSE e[i]]
<1>4. h \in [0..n + 1 -> Nat] /\ h[n + 1] = z /\ h[0] = b /\ h[n] = m
      /\ \A i \in 0..n : h[i] = e[i]
  BY <1>1, <1>3
<1> HIDE DEF h
<1>5. \A i, j \in 0..n + 1 : i <= j => h[i] <= h[j]
  <2> SUFFICES ASSUME NEW i \in 0..n + 1, NEW j \in 0..n + 1, i <= j PROVE h[i] <= h[j]
    OBVIOUS
  <2>1. CASE j = n + 1
    <3>1. CASE i = n + 1
      BY <1>4, <2>1, <3>1
    <3>2. CASE i # n + 1
      <4>1. i \in 0..n /\ n \in 0..n /\ i <= n
        BY <1>1, <3>2
      <4>2. e[i] <= e[n] /\ e[i] \in Nat /\ e[n] \in Nat
        BY <1>3, <4>1
      <4>3. QED
        BY <1>3, <1>4, <2>1, <4>1, <4>2
    <3>3. QED
      BY <3>1, <3>2
  <2>2. CASE j # n + 1
    <3>1. i \in 0..n /\ j \in 0..n
      BY <1>1, <2>2
    <3>2. QED
      BY <1>3, <1>4, <3>1
  <2>3. QED
    BY <2>1, <2>2
<1>6. \A i \in 1..n + 1 : Moves(t, G[i], h[i - 1], h[i], top, over, live)
  <2> TAKE i \in 1..n + 1
  <2>1. CASE i = n + 1
    <3>1. i - 1 = n
      BY <1>1, <2>1
    <3>2. QED
      BY <1>2, <1>4, <2>1, <3>1
  <2>2. CASE i # n + 1
    <3>1. i \in 1..n /\ i \in 0..n /\ i - 1 \in 0..n
      BY <1>1, <2>2
    <3>2. QED
      BY <1>2, <1>3, <1>4, <3>1
  <2>3. QED
    BY <2>1, <2>2
<1>7. Leads(t, G, b, z, top, over, live)
  BY <1>2, <1>4, <1>5, <1>6 DEF Leads
<1>8. QED
  BY <1>7 DEF G

\* The first frame, and the others, which may come to a view that has answered more.
LEMMA LeadsOn ==
    ASSUME NEW t, NEW F \in Seq(Frames), F # <<>>, NEW b, NEW z, NEW top, NEW over,
           NEW live, Leads(t, F, b, z, top, over, live)
    PROVE  \E m \in Nat : /\ b <= m /\ Moves(t, Head(F), b, m, top, over, live)
                          /\ Leads(t, Tail(F), m, z, top, over, live)
<1> DEFINE n == Len(F)
           G == Tail(F)
<1>1. n \in Nat \ {0}
  BY LenProperties, EmptySeq
<1>2. Head(F) = F[1] /\ G \in Seq(Frames) /\ Len(G) = n - 1 /\ \A i \in 1..n - 1 : G[i] = F[i + 1]
  BY <1>1, HeadTailProperties
<1>3. PICK e \in [0..n -> Nat] :
        /\ e[0] = b /\ e[n] = z
        /\ \A i, j \in 0..n : i <= j => e[i] <= e[j]
        /\ \A i \in 1..n : Moves(t, F[i], e[i - 1], e[i], top, over, live)
  BY DEF Leads
<1> HIDE DEF n, G
<1> DEFINE h == [i \in 0..n - 1 |-> e[i + 1]]
<1>4. /\ h \in [0..n - 1 -> Nat] /\ h[0] = e[1] /\ h[n - 1] = z
      /\ \A i \in 0..n - 1 : h[i] = e[i + 1]
  BY <1>1, <1>3
<1> HIDE DEF h
<1>5. \A i, j \in 0..n - 1 : i <= j => h[i] <= h[j]
  <2> SUFFICES ASSUME NEW i \in 0..n - 1, NEW j \in 0..n - 1, i <= j PROVE h[i] <= h[j]
    OBVIOUS
  <2>1. i + 1 \in 0..n /\ j + 1 \in 0..n /\ i + 1 <= j + 1
    BY <1>1
  <2>2. QED
    BY <1>3, <1>4, <2>1
<1>6. \A i \in 1..n - 1 : Moves(t, G[i], h[i - 1], h[i], top, over, live)
  <2> TAKE i \in 1..n - 1
  <2>1. i + 1 \in 1..n /\ i \in 0..n - 1 /\ i - 1 \in 0..n - 1 /\ i - 1 + 1 = i /\ i + 1 - 1 = i
    BY <1>1
  <2>2. Moves(t, F[i + 1], e[i], e[i + 1], top, over, live)
    BY <1>3, <2>1
  <2>3. QED
    BY <1>2, <1>4, <2>1, <2>2
<1>7. Leads(t, G, e[1], z, top, over, live)
  BY <1>2, <1>4, <1>5, <1>6 DEF Leads
<1>8. 0 \in 0..n /\ 1 \in 0..n /\ 1 \in 1..n /\ 1 - 1 = 0
  BY <1>1
<1>9. e[1] \in Nat /\ b <= e[1] /\ Moves(t, F[1], b, e[1], top, over, live)
  BY <1>3, <1>8
<1>10. QED
  BY <1>2, <1>7, <1>9 DEF G

\* What is delivered and then what waits lead through the place where they meet.
LEMMA LeadsJoin ==
    ASSUME NEW t, NEW F \in Seq(Frames), NEW G \in Seq(Frames), NEW b, NEW m, NEW z,
           NEW top, NEW over, NEW live,
           Leads(t, F, b, m, top, over, live), Leads(t, G, m, z, top, over, live)
    PROVE  Leads(t, F \o G, b, z, top, over, live)
<1> DEFINE n == Len(F)
           k == Len(G)
           H == F \o G
<1>1. n \in Nat /\ k \in Nat
  BY LenProperties
<1>2. H \in Seq(Frames) /\ Len(H) = n + k
      /\ \A i \in 1..n + k : H[i] = IF i <= n THEN F[i] ELSE G[i - n]
  BY ConcatProperties
<1>3. PICK e \in [0..n -> Nat] :
        /\ e[0] = b /\ e[n] = m
        /\ \A i, j \in 0..n : i <= j => e[i] <= e[j]
        /\ \A i \in 1..n : Moves(t, F[i], e[i - 1], e[i], top, over, live)
  BY DEF Leads
<1>4. PICK d \in [0..k -> Nat] :
        /\ d[0] = m /\ d[k] = z
        /\ \A i, j \in 0..k : i <= j => d[i] <= d[j]
        /\ \A i \in 1..k : Moves(t, G[i], d[i - 1], d[i], top, over, live)
  BY DEF Leads
<1> HIDE DEF n, k, H
<1> DEFINE h == [i \in 0..n + k |-> IF i <= n THEN e[i] ELSE d[i - n]]
<1>5. \A i \in 0..n + k : h[i] = IF i <= n THEN e[i] ELSE d[i - n]
  OBVIOUS
<1>6. \A i \in 0..n : i \in 0..n + k /\ h[i] = e[i] /\ e[i] \in Nat /\ e[i] <= m
  <2> TAKE i \in 0..n
  <2>1. i \in 0..n + k /\ i <= n /\ n \in 0..n
    BY <1>1
  <2>2. h[i] = e[i]
    BY <2>1
  <2>3. e[i] <= e[n]
    BY <1>3, <2>1
  <2>4. QED
    BY <1>3, <2>1, <2>2, <2>3
<1>7. \A i \in n..n + k : /\ i \in 0..n + k /\ i - n \in 0..k
                          /\ h[i] = d[i - n] /\ d[i - n] \in Nat /\ m <= d[i - n]
  <2> TAKE i \in n..n + k
  <2>1. i \in 0..n + k /\ i - n \in 0..k /\ 0 \in 0..k /\ 0 <= i - n
    BY <1>1
  <2>2. h[i] = d[i - n]
    <3>1. CASE i = n
      <4>1. i - n = 0 /\ i \in 0..n
        BY <1>1, <3>1
      <4>2. QED
        BY <1>3, <1>4, <1>6, <3>1, <4>1
    <3>2. CASE i # n
      <4>1. ~(i <= n)
        BY <1>1, <3>2
      <4>2. QED
        BY <2>1, <4>1
    <3>3. QED
      BY <3>1, <3>2
  <2>3. d[0] <= d[i - n]
    BY <1>4, <2>1
  <2>4. QED
    BY <1>4, <2>1, <2>2, <2>3
<1>8. h \in [0..n + k -> Nat]
  <2>1. \A i \in 0..n + k : i \in 0..n \/ i \in n..n + k
    BY <1>1
  <2>2. \A i \in 0..n + k : h[i] \in Nat
    BY <1>6, <1>7, <2>1
  <2>3. QED
    BY <2>2
<1>9. h[0] = b /\ h[n + k] = z
  <2>1. 0 \in 0..n /\ n + k \in n..n + k /\ n + k - n = k
    BY <1>1
  <2> HIDE DEF h
  <2>2. h[0] = e[0]
    BY <1>6, <2>1
  <2>3. h[n + k] = d[n + k - n]
    BY <1>1, <1>7, <2>1
  <2>4. QED
    BY <1>3, <1>4, <2>1, <2>2, <2>3
<1> HIDE DEF h
<1>10. \A i, j \in 0..n + k : i <= j => h[i] <= h[j]
  <2> SUFFICES ASSUME NEW i \in 0..n + k, NEW j \in 0..n + k, i <= j PROVE h[i] <= h[j]
    OBVIOUS
  <2>1. CASE j <= n
    <3>1. i \in 0..n /\ j \in 0..n
      BY <1>1, <2>1
    <3>2. QED
      BY <1>3, <1>6, <3>1
  <2>2. CASE n <= i
    <3>1. i \in n..n + k /\ j \in n..n + k
      BY <1>1, <2>2
    <3>2. i - n \in 0..k /\ j - n \in 0..k /\ i - n <= j - n
      BY <1>1, <3>1
    <3>3. d[i - n] <= d[j - n]
      BY <1>4, <3>2
    <3>4. QED
      BY <1>7, <3>1, <3>3
  <2>3. CASE i < n /\ n < j
    <3>1. i \in 0..n /\ j \in n..n + k
      BY <1>1, <2>3
    <3>2. h[i] \in Nat /\ h[i] <= m /\ h[j] \in Nat /\ m <= h[j] /\ m \in Nat
      <4>1. n \in 0..n
        BY <1>1
      <4>2. QED
        BY <1>3, <1>6, <1>7, <3>1, <4>1
    <3>3. QED
      BY <3>2
  <2>4. QED
    BY <1>1, <2>1, <2>2, <2>3
<1>11. \A i \in 1..n + k : Moves(t, H[i], h[i - 1], h[i], top, over, live)
  <2> TAKE i \in 1..n + k
  <2>1. CASE i <= n
    <3>1. i \in 1..n /\ i \in 0..n /\ i - 1 \in 0..n
      BY <1>1, <2>1
    <3>2. H[i] = F[i] /\ h[i] = e[i] /\ h[i - 1] = e[i - 1]
      BY <1>2, <1>6, <2>1, <3>1
    <3>3. QED
      BY <1>3, <3>1, <3>2
  <2>2. CASE ~(i <= n)
    <3>1. i - n \in 1..k /\ i \in n..n + k /\ i - 1 \in n..n + k /\ i - 1 - n = i - n - 1
      BY <1>1, <2>2
    <3>2. H[i] = G[i - n] /\ h[i] = d[i - n] /\ h[i - 1] = d[i - n - 1]
      BY <1>2, <1>7, <2>2, <3>1
    <3>3. QED
      BY <1>4, <3>1, <3>2
  <2>3. QED
    BY <2>1, <2>2
<1>12. Leads(t, H, b, z, top, over, live)
  BY <1>2, <1>8, <1>9, <1>10, <1>11 DEF Leads
<1>13. QED
  BY <1>12 DEF H

\* What is on its way stays right while the shell writes on or exits, and once the
\* view has answered more than it had shown.
LEMMA LeadsStill ==
    ASSUME NEW t, NEW F \in Seq(Frames), NEW b, NEW z, NEW top \in Nat, NEW over, NEW live,
           NEW top2 \in Nat, NEW over2, NEW live2, Leads(t, F, b, z, top, over, live),
           top <= top2, over => over2 /\ top2 = top, b > 0 \/ live2 = live
    PROVE  Leads(t, F, b, z, top2, over2, live2)
<1> DEFINE n == Len(F)
<1>1. n \in Nat /\ \A i \in 1..n : F[i] \in Frames
  BY LenProperties, ElementOfSeq
<1>2. PICK e \in [0..n -> Nat] :
        /\ e[0] = b /\ e[n] = z
        /\ \A i, j \in 0..n : i <= j => e[i] <= e[j]
        /\ \A i \in 1..n : Moves(t, F[i], e[i - 1], e[i], top, over, live)
  BY DEF Leads
<1> HIDE DEF n
<1>3. \A i \in 1..n : Moves(t, F[i], e[i - 1], e[i], top2, over2, live2)
  <2> TAKE i \in 1..n
  <2>1. i - 1 \in 0..n /\ 0 \in 0..n /\ 0 <= i - 1
    BY <1>1
  <2>2. e[i - 1] \in Nat /\ b <= e[i - 1] /\ b \in Nat
    BY <1>2, <2>1
  <2>3. F[i].at \in Nat
    BY <1>1 DEF Frames
  <2>4. Moves(t, F[i], e[i - 1], e[i], top, over, live)
    BY <1>2
  <2>5. CASE b > 0
    <3>1. e[i - 1] # 0
      BY <2>2, <2>5
    <3>2. QED
      BY <2>3, <2>4, <3>1 DEF Moves, Right
  <2>6. CASE live2 = live
    BY <2>3, <2>4, <2>6 DEF Moves, Right
  <2>7. QED
    BY <2>5, <2>6
<1>4. QED
  BY <1>2, <1>3 DEF Leads, n
-----------------------------------------------------------------------------
(* Coalesce                                                                 *)

\* A set of numbers with 0 and the successor of each of its members is all of them.
LEMMA Induction ==
    ASSUME NEW S \in SUBSET Nat, 0 \in S, \A n \in S : n + 1 \in S
    PROVE  S = Nat
<1> DEFINE T == Nat \ S
<1>1. SUFFICES ASSUME T # {} PROVE FALSE
  OBVIOUS
<1>2. PICK x \in T : \A y \in T : ~(<<y, x>> \in OpToRel(<, Nat))
  <2>1. T \subseteq Nat
    OBVIOUS
  <2> HIDE DEF T
  <2>2. QED
    BY <1>1, <2>1, NatLessThanWellFounded, WFMin
<1>3. \A y \in T : ~(y < x)
  BY <1>2 DEF OpToRel
<1>4. x # 0 /\ x \in Nat
  OBVIOUS
<1>5. x - 1 \in Nat /\ x - 1 < x /\ x - 1 + 1 = x
  BY <1>4
<1>6. x - 1 \in S
  BY <1>3, <1>5
<1>7. QED
  BY <1>5, <1>6

\* Coalesce joins one frame after the other, from the first to the last.
LEMMA Coalescing ==
    ASSUME NEW ch, Len(ch) \in Nat
    PROVE  \E g : /\ g[0] = <<>> /\ Coalesce(ch) = g[Len(ch)]
                  /\ \A n \in Nat : n + 1 <= Len(ch) => g[n + 1] = Joined(g[n], ch[n + 1])
<1> DEFINE Steps(n, g) == g = [i \in 0..n |-> IF i = 0 THEN <<>> ELSE Joined(g[i - 1], ch[i])]
           S == {n \in Nat : \E g : Steps(n, g)}
<1>1. 0 \in S
  <2>1. Steps(0, [i \in 0..0 |-> <<>>])
    OBVIOUS
  <2>2. QED
    BY <2>1
<1>2. ASSUME NEW n \in S PROVE n + 1 \in S
  <2>1. PICK g : Steps(n, g)
    OBVIOUS
  <2> DEFINE h == [i \in 0..n + 1 |-> IF i = n + 1 THEN Joined(g[n], ch[n + 1]) ELSE g[i]]
  <2>2. n \in Nat
    OBVIOUS
  <2>3. ASSUME NEW i \in 0..n + 1 PROVE h[i] = IF i = 0 THEN <<>> ELSE Joined(h[i - 1], ch[i])
    <3>1. CASE i = n + 1
      BY <2>2, <3>1
    <3>2. CASE i # n + 1
      <4>1. i \in 0..n
        BY <2>2, <3>2
      <4>2. h[i] = g[i] /\ (i # 0 => h[i - 1] = g[i - 1])
        BY <2>2, <4>1
      <4>3. g[i] = IF i = 0 THEN <<>> ELSE Joined(g[i - 1], ch[i])
        BY <2>1, <4>1
      <4>4. QED
        BY <4>2, <4>3
    <3>3. QED
      BY <3>1, <3>2
  <2>4. Steps(n + 1, h)
    BY <2>3
  <2> HIDE DEF h
  <2>5. \E k : Steps(n + 1, k)
    BY <2>4
  <2>6. QED
    BY <2>2, <2>5
<1>3. S = Nat
  BY <1>1, <1>2, Induction
<1>4. \E g : Steps(Len(ch), g)
  BY <1>3
<1> DEFINE c == CHOOSE g : Steps(Len(ch), g)
<1>5. Steps(Len(ch), c)
  BY <1>4
<1>6. Coalesce(ch) = c[Len(ch)]
  BY DEF Coalesce
<1> HIDE DEF c
<1>7. c[0] = <<>>
  BY <1>5
<1>8. ASSUME NEW n \in Nat, n + 1 <= Len(ch) PROVE c[n + 1] = Joined(c[n], ch[n + 1])
  <2>1. n + 1 \in 0..Len(ch) /\ n + 1 # 0 /\ n + 1 - 1 = n
    BY <1>8
  <2>2. QED
    BY <1>5, <2>1
<1>9. QED
  BY <1>6, <1>7, <1>8

\* A frame that is not joined stays, one that is goes on where its neighbour ends.
LEMMA LeadsJoined ==
    ASSUME NEW t, NEW G \in Seq(Frames), NEW f \in Frames, NEW b, NEW m, NEW z \in Nat,
           NEW top \in Nat, NEW over, NEW live \in Seq(Nat),
           Leads(t, G, b, m, top, over, live), Moves(t, f, m, z, top, over, live), m <= z
    PROVE  Joined(G, f) \in Seq(Frames) /\ Leads(t, Joined(G, f), b, z, top, over, live)
<1> DEFINE n == Len(G)
           l == G[n]
<1>1. CASE ~(G # <<>> /\ Joinable(f, Last(G)))
  <2>1. Joined(G, f) = Append(G, f)
    BY <1>1 DEF Joined
  <2>2. QED
    BY <2>1, LeadsAppend, AppendProperties
<1>2. CASE G # <<>> /\ Joinable(f, Last(G))
  <2> DEFINE j == [l EXCEPT !.data = @ \o f.data, !.at = f.at]
             H == [G EXCEPT ![n] = j]
  <2>1. Joined(G, f) = H
    BY <1>2 DEF Joined, Last
  <2>2. n \in Nat /\ n \in 1..n /\ \A i \in 1..n : G[i] \in Frames
    BY <1>2, LenProperties, EmptySeq, ElementOfSeq
  <2>3. l \in Frames
    BY <2>2
  <2>4. /\ f.id = l.id /\ f.data # <<>> /\ ~f.reset /\ ~f.exit
        /\ ~l.exit /\ l.data # <<>> /\ f.replay = l.replay
    BY <1>2 DEF Joinable, Last
  <2>5. /\ j \in Frames /\ j.id = l.id /\ j.data = l.data \o f.data /\ j.at = f.at
        /\ ~j.exit /\ j.reset = l.reset /\ j.replay = l.replay
    <3>1. l.data \o f.data \in Seq(Nat)
      BY <2>3, ConcatProperties DEF Frames
    <3>2. [l EXCEPT !.data = l.data \o f.data] \in Frames
      BY <2>3, <3>1 DEF Frames
    <3>3. j \in Frames
      BY <3>2 DEF Frames
    <3>4. QED
      BY <2>3, <2>4, <3>3 DEF Frames
  <2>6. H \in Seq(Frames) /\ Len(H) = n /\ \A i \in 1..n : H[i] = IF i = n THEN j ELSE G[i]
    BY <2>2, <2>5, ExceptSeq
  <2>7. PICK e \in [0..n -> Nat] :
          /\ e[0] = b /\ e[n] = m
          /\ \A i, k \in 0..n : i <= k => e[i] <= e[k]
          /\ \A i \in 1..n : Moves(t, G[i], e[i - 1], e[i], top, over, live)
    BY DEF Leads
  <2> HIDE DEF j, H
  <2>8. Moves(t, l, e[n - 1], m, top, over, live) /\ n - 1 \in 0..n /\ n \in 0..n
    BY <2>2, <2>7
  <2> HIDE DEF n, l
  <2>9. e[n - 1] \in Nat /\ m \in Nat /\ e[n - 1] <= m
    <3>1. n - 1 <= n
      BY <2>2
    <3>2. QED
      BY <2>7, <2>8, <3>1
  <2>10. Moves(t, j, e[n - 1], z, top, over, live)
    <3>1. CASE f.id # t
      BY <2>4, <2>5, <2>8, <3>1 DEF Moves
    <3>2. CASE f.id = t
      <4>1. m = l.at /\ z = f.at /\ Right(l, e[n - 1], top, over, live) /\ Right(f, m, top, over, live)
        BY <2>4, <2>8, <3>2 DEF Moves
      <4>2. f.at \in Nat /\ l.at \in Nat /\ f.data \in Seq(Nat) /\ l.data \in Seq(Nat)
        BY <2>3 DEF Frames
      <4>3. /\ e[n - 1] < l.at /\ l.at < f.at /\ f.at <= top
            /\ Len(l.data) \in Nat /\ Len(l.data) <= l.at
            /\ l.data = Bytes(l.at - Len(l.data), l.at)
            /\ Len(f.data) = f.at - l.at /\ f.data = Bytes(l.at, f.at)
        <5>1. f.at - (f.at - l.at) = l.at /\ Len(l.data) \in Nat
          BY <4>2, LenProperties
        <5>2. QED
          BY <4>1, <2>4, <5>1 DEF Right
      <4>4. j.data = Bytes(l.at - Len(l.data), f.at) /\ Len(j.data) = Len(l.data) + (f.at - l.at)
        <5>1. l.at - Len(l.data) \in Nat /\ l.at - Len(l.data) <= l.at
          BY <4>2, <4>3
        <5>2. l.data \o f.data = Bytes(l.at - Len(l.data), f.at)
          <6>1. l.at <= f.at
            BY <4>2, <4>3
          <6>2. Bytes(l.at - Len(l.data), l.at) \o Bytes(l.at, f.at) = Bytes(l.at - Len(l.data), f.at)
            BY <4>2, <5>1, <6>1, BytesJoin
          <6>3. QED
            BY <4>3, <6>2
        <5>3. Len(l.data \o f.data) = Len(l.data) + Len(f.data)
          BY <4>2, ConcatProperties
        <5>4. QED
          BY <2>5, <4>3, <5>2, <5>3
      <4>5. j.data # <<>> /\ Len(j.data) <= f.at /\ f.at - Len(j.data) = l.at - Len(l.data)
        BY SMTT(30), <4>2, <4>3, <4>4
      <4>6. e[n - 1] < f.at
        BY <2>9, <4>2, <4>3
      <4>7. l.reset => Least(f.at, Scrollback) <= Len(j.data)
        <5>1. l.reset => Least(l.at, Scrollback) <= Len(l.data)
          BY <4>1, <2>4 DEF Right
        <5>2. Scrollback \in Nat
          BY BoundsAssumption
        <5>3. QED
          BY <4>2, <4>3, <4>4, <5>1, <5>2 DEF Least
      <4>8. ~l.reset => Len(j.data) = f.at - e[n - 1]
        <5>1. ~l.reset => Len(l.data) = l.at - e[n - 1]
          BY <4>1, <2>4 DEF Right
        <5>2. SUFFICES ASSUME ~l.reset PROVE Len(j.data) = f.at - e[n - 1]
          OBVIOUS
        <5>3. Len(l.data) = l.at - e[n - 1] /\ Len(j.data) = Len(l.data) + (f.at - l.at)
          BY <4>4, <5>1, <5>2
        <5>4. QED
          BY <2>9, <4>2, <5>3
      <4>9. e[n - 1] = 0 => \A i \in 1..Len(live) : live[i] <= f.at
        <5> SUFFICES ASSUME e[n - 1] = 0, NEW i \in 1..Len(live) PROVE live[i] <= f.at
          OBVIOUS
        <5>1. live[i] <= l.at /\ live[i] \in Nat
          BY <4>1, <2>4, ElementOfSeq DEF Right
        <5>2. QED
          BY <5>1, <4>2, <4>3
      <4>10. Right(j, e[n - 1], top, over, live)
        BY <2>4, <2>5, <4>1, <4>3, <4>4, <4>5, <4>6, <4>7, <4>8, <4>9 DEF Right
      <4>11. QED
        BY <2>4, <2>5, <3>2, <4>1, <4>10 DEF Moves
    <3>3. QED
      BY <3>1, <3>2
  <2> DEFINE h == [e EXCEPT ![n] = z]
  <2>11. /\ h \in [0..n -> Nat] /\ h[n] = z /\ \A i \in 0..n : i # n => h[i] = e[i]
    BY <2>7, <2>8
  <2> HIDE DEF h
  <2>12. h[0] = b
    BY <2>2, <2>7, <2>11
  <2>13. \A i, k \in 0..n : i <= k => h[i] <= h[k]
    <3> SUFFICES ASSUME NEW i \in 0..n, NEW k \in 0..n, i <= k PROVE h[i] <= h[k]
      OBVIOUS
    <3>1. e[i] <= e[k] /\ e[i] <= m /\ e[i] \in Nat /\ e[k] \in Nat
      <4>1. i <= n
        BY <2>2
      <4>2. QED
        BY <2>7, <2>8, <4>1
    <3>2. CASE k = n
      BY <2>9, <2>11, <3>1, <3>2
    <3>3. CASE k # n
      <4>1. i # n
        BY <2>2, <3>3
      <4>2. QED
        BY <2>11, <3>1, <3>3, <4>1
    <3>4. QED
      BY <3>2, <3>3
  <2>14. \A i \in 1..n : Moves(t, H[i], h[i - 1], h[i], top, over, live)
    <3> TAKE i \in 1..n
    <3>1. i - 1 \in 0..n /\ i \in 0..n /\ i - 1 # n
      BY <2>2
    <3>2. CASE i = n
      BY <2>6, <2>10, <2>11, <3>1, <3>2
    <3>3. CASE i # n
      BY <2>6, <2>7, <2>11, <3>1, <3>3
    <3>4. QED
      BY <3>2, <3>3
  <2>15. Leads(t, H, b, z, top, over, live)
    BY <2>6, <2>11, <2>12, <2>13, <2>14 DEF Leads
  <2>16. QED
    BY <2>1, <2>6, <2>15
<1>3. QED
  BY <1>1, <1>2

\* Joined frames lead a view where the frames themselves would have led it.
LEMMA LeadsCoalesced ==
    ASSUME NEW t, NEW F \in Seq(Frames), NEW b \in Nat, NEW z, NEW top \in Nat, NEW over,
           NEW live \in Seq(Nat), Leads(t, F, b, z, top, over, live)
    PROVE  Leads(t, Coalesce(F), b, z, top, over, live)
<1> DEFINE n == Len(F)
<1>1. n \in Nat /\ \A i \in 1..n : F[i] \in Frames
  BY LenProperties, ElementOfSeq
<1>2. PICK g : /\ g[0] = <<>> /\ Coalesce(F) = g[n]
               /\ \A i \in Nat : i + 1 <= n => g[i + 1] = Joined(g[i], F[i + 1])
  BY <1>1, Coalescing
<1>3. PICK e \in [0..n -> Nat] :
        /\ e[0] = b /\ e[n] = z
        /\ \A i, j \in 0..n : i <= j => e[i] <= e[j]
        /\ \A i \in 1..n : Moves(t, F[i], e[i - 1], e[i], top, over, live)
  BY DEF Leads
<1> HIDE DEF n
<1> DEFINE Good(i) == g[i] \in Seq(Frames) /\ Leads(t, g[i], b, e[i], top, over, live)
           S == {i \in Nat : i <= n => Good(i)}
<1>4. 0 \in S
  <2>1. g[0] = <<>>
    BY <1>2
  <2>2. Leads(t, <<>>, b, b, top, over, live)
    BY LeadsNowhere
  <2>3. e[0] = b
    BY <1>3
  <2>4. Good(0)
    BY <2>1, <2>2, <2>3
  <2>5. QED
    BY <2>4
<1>5. ASSUME NEW i \in S PROVE i + 1 \in S
  <2>1. i \in Nat /\ (i <= n => Good(i))
    OBVIOUS
  <2>2. ASSUME i + 1 <= n PROVE Good(i + 1)
    <3>1. Good(i) /\ i + 1 \in 1..n /\ i \in 0..n /\ i + 1 \in 0..n /\ i + 1 - 1 = i /\ i + 1 # 0
      BY <1>1, <2>1, <2>2
    <3>2. g[i + 1] = Joined(g[i], F[i + 1])
      BY <1>2, <2>1, <2>2
    <3>3. Moves(t, F[i + 1], e[i], e[i + 1], top, over, live) /\ e[i] <= e[i + 1]
      <4>1. i <= i + 1
        BY <2>1
      <4>2. e[i] <= e[i + 1]
        BY <1>3, <3>1, <4>1
      <4>3. Moves(t, F[i + 1], e[i + 1 - 1], e[i + 1], top, over, live)
        BY <1>3, <3>1
      <4>4. QED
        BY <3>1, <4>2, <4>3
    <3>4. e[i + 1] \in Nat /\ F[i + 1] \in Frames
      BY <1>1, <1>3, <3>1
    <3>5. QED
      BY <3>1, <3>2, <3>3, <3>4, LeadsJoined
  <2>3. QED
    BY <2>1, <2>2
<1>6. S = Nat
  <2>1. S \in SUBSET Nat
    OBVIOUS
  <2> HIDE DEF S
  <2>2. QED
    BY <1>4, <1>5, <2>1, Induction
<1>7. Good(n)
  BY SMTT(30), <1>1, <1>6
<1>8. QED
  BY <1>2, <1>3, <1>7

\* Joining makes frames of the same terminals.
LEMMA JoinedTyped ==
    ASSUME NEW G \in Seq(Frames), NEW f \in Frames, NEW P, f.id \in P,
           \A i \in 1..Len(G) : G[i].id \in P
    PROVE  /\ Joined(G, f) \in Seq(Frames)
           /\ \A i \in 1..Len(Joined(G, f)) : Joined(G, f)[i].id \in P
<1> DEFINE n == Len(G)
           l == G[n]
<1>1. CASE ~(G # <<>> /\ Joinable(f, Last(G)))
  <2>1. Joined(G, f) = Append(G, f)
    BY <1>1 DEF Joined
  <2>2. /\ Append(G, f) \in Seq(Frames) /\ Len(Append(G, f)) = n + 1 /\ n \in Nat
        /\ Append(G, f)[n + 1] = f /\ \A i \in 1..n : Append(G, f)[i] = G[i]
    BY AppendProperties, LenProperties
  <2>3. \A i \in 1..n + 1 : i = n + 1 \/ i \in 1..n
    BY <2>2
  <2>4. QED
    BY <2>1, <2>2, <2>3
<1>2. CASE G # <<>> /\ Joinable(f, Last(G))
  <2> DEFINE j == [l EXCEPT !.data = @ \o f.data, !.at = f.at]
             H == [G EXCEPT ![n] = j]
  <2>1. Joined(G, f) = H
    BY <1>2 DEF Joined, Last
  <2>2. n \in Nat /\ n \in 1..n /\ \A i \in 1..n : G[i] \in Frames
    BY <1>2, LenProperties, EmptySeq, ElementOfSeq
  <2>3. l \in Frames
    BY <2>2
  <2>4. j \in Frames /\ j.id = l.id
    <3>1. l.data \o f.data \in Seq(Nat)
      BY <2>3, ConcatProperties DEF Frames
    <3>2. QED
      BY <2>3, <3>1 DEF Frames
  <2>5. H \in Seq(Frames) /\ Len(H) = n /\ \A i \in 1..n : H[i] = IF i = n THEN j ELSE G[i]
    BY <2>2, <2>4, ExceptSeq
  <2> HIDE DEF j, H
  <2>6. QED
    BY <2>1, <2>2, <2>4, <2>5
<1>3. QED
  BY <1>1, <1>2

\* So does joining all of them.
LEMMA CoalescedTyped ==
    ASSUME NEW F \in Seq(Frames), NEW P, \A i \in 1..Len(F) : F[i].id \in P
    PROVE  /\ Coalesce(F) \in Seq(Frames)
           /\ \A i \in 1..Len(Coalesce(F)) : Coalesce(F)[i].id \in P
<1> DEFINE n == Len(F)
<1>1. n \in Nat /\ \A i \in 1..n : F[i] \in Frames /\ F[i].id \in P
  BY LenProperties, ElementOfSeq
<1>2. PICK g : /\ g[0] = <<>> /\ Coalesce(F) = g[n]
               /\ \A i \in Nat : i + 1 <= n => g[i + 1] = Joined(g[i], F[i + 1])
  BY <1>1, Coalescing
<1> HIDE DEF n
<1> DEFINE Good(i) == g[i] \in Seq(Frames) /\ \A k \in 1..Len(g[i]) : g[i][k].id \in P
           S == {i \in Nat : i <= n => Good(i)}
<1>3. 0 \in S
  <2>1. g[0] = <<>>
    BY <1>2
  <2>2. <<>> \in Seq(Frames) /\ Len(<<>>) = 0
    OBVIOUS
  <2>3. Good(0)
    BY <2>1, <2>2
  <2>4. QED
    BY <2>3
<1>4. ASSUME NEW i \in S PROVE i + 1 \in S
  <2>1. i \in Nat /\ (i <= n => Good(i))
    OBVIOUS
  <2>2. ASSUME i + 1 <= n PROVE Good(i + 1)
    <3>1. i + 1 \in 1..n /\ i + 1 \in 0..n /\ i + 1 - 1 = i /\ i + 1 # 0
      BY <1>1, <2>1, <2>2
    <3>2. g[i + 1] = Joined(g[i], F[i + 1])
      BY <1>2, <2>1, <2>2
    <3>3. F[i + 1] \in Frames /\ F[i + 1].id \in P
      BY <1>1, <3>1
    <3>4. Good(i)
      BY <1>1, <2>1, <2>2
    <3>5. QED
      BY <3>2, <3>3, <3>4, JoinedTyped
  <2>3. QED
    BY <2>1, <2>2
<1>5. S = Nat
  <2>1. S \in SUBSET Nat
    OBVIOUS
  <2> HIDE DEF S
  <2>2. QED
    BY <1>3, <1>4, <2>1, Induction
<1>6. Good(n)
  BY <1>1, <1>5
<1>7. QED
  BY <1>2, <1>6
-----------------------------------------------------------------------------
(* A frame sent                                                             *)

\* A frame waits in the channel when there is room, or the stream is dropped.
LEMMA SentTyped ==
    ASSUME NEW c \in Channels, NEW f \in Frames, Len(c.ch) <= StreamBuffer
    PROVE  /\ Sent(c, f) \in Channels /\ Len(Sent(c, f).ch) <= StreamBuffer
           /\ Sent(c, f).pc = c.pc /\ Sent(c, f).todo = c.todo
           /\ Sent(c, f).watches = c.watches /\ Sent(c, f).wire = c.wire
           /\ Sent(c, f).over = c.over /\ (c.dead => Sent(c, f).dead)
           /\ \/ Sent(c, f).ch = c.ch /\ Sent(c, f).dead
              \/ Sent(c, f).ch = Append(c.ch, f) /\ ~Sent(c, f).dead /\ ~c.dead
           /\ ~Sent(c, f).dead <=> Takes(c)
<1> DEFINE r == Sent(c, f)
<1>1. c.ch \in Seq(Frames) /\ Append(c.ch, f) \in Seq(Frames) /\ Len(c.ch) \in Nat
      /\ Len(Append(c.ch, f)) = Len(c.ch) + 1 /\ c.dead \in BOOLEAN /\ StreamBuffer \in Nat
  BY AppendProperties, LenProperties, BoundsAssumption DEF Channels
<1>2. CASE c.dead
  BY <1>1, <1>2 DEF Sent, Takes
<1>3. CASE ~c.dead /\ Len(c.ch) < StreamBuffer
  <2>1. r = [c EXCEPT !.ch = Append(@, f)]
    BY <1>3 DEF Sent
  <2>2. r \in Channels /\ r.ch = Append(c.ch, f)
    BY <1>1, <2>1 DEF Channels
  <2>3. /\ r.pc = c.pc /\ r.todo = c.todo /\ r.watches = c.watches /\ r.wire = c.wire
        /\ r.over = c.over /\ r.dead = c.dead
    BY <2>1 DEF Channels
  <2> HIDE DEF r
  <2>4. Len(r.ch) <= StreamBuffer /\ Takes(c)
    BY <1>1, <1>3, <2>2 DEF Takes
  <2>5. QED
    BY <1>3, <2>2, <2>3, <2>4 DEF r
<1>4. CASE ~c.dead /\ ~(Len(c.ch) < StreamBuffer)
  <2>1. r = [c EXCEPT !.dead = TRUE]
    BY <1>4 DEF Sent
  <2>2. QED
    BY <1>1, <1>4, <2>1 DEF Channels, Takes
<1>5. QED
  BY <1>2, <1>3, <1>4

\* What waits leads on to the new frame, or the stream is dropped.
LEMMA SentLeads ==
    ASSUME NEW c \in Channels, NEW f \in Frames, Len(c.ch) <= StreamBuffer,
           NEW t, NEW b, NEW z, NEW y \in Nat, NEW top, NEW over, NEW live,
           Leads(t, c.ch, b, z, top, over, live),
           c.dead \/ (z <= y /\ Moves(t, f, z, y, top, over, live))
    PROVE  \/ Leads(t, Sent(c, f).ch, b, y, top, over, live)
           \/ Leads(t, Sent(c, f).ch, b, z, top, over, live) /\ Sent(c, f).dead
<1>1. c.ch \in Seq(Frames)
  BY DEF Channels
<1>2. CASE Sent(c, f).ch = c.ch /\ Sent(c, f).dead
  BY <1>2
<1>3. CASE Sent(c, f).ch = Append(c.ch, f) /\ ~c.dead
  <2>1. Leads(t, Append(c.ch, f), b, y, top, over, live)
    BY <1>1, <1>3, LeadsAppend
  <2>2. QED
    BY <1>3, <2>1
<1>4. QED
  BY <1>2, <1>3, SentTyped
-----------------------------------------------------------------------------
(* The initial states                                                       *)

\* What the proofs need of the bounds.
LEMMA Constants ==
    /\ ReadChunk \in Nat \ {0} /\ Scrollback \in Nat \ {0} /\ StreamBuffer \in Nat \ {0}
    /\ Streams \subseteq Nat \ {0} /\ 0 \notin Streams
BY BoundsAssumption, IdsAssumption

\* A stream that is not in use has nothing waiting.
LEMMA IdleTyped == Idle \in Channels /\ Len(Idle.ch) = 0 /\ Len(Idle.wire) = 0
BY DEF Idle, Channels

\* Before the first terminal there is nothing to show.
LEMMA InitInv == Init => Inv
<1> SUFFICES ASSUME Init PROVE Inv
  OBVIOUS
<1>1. TypedShells
  <2>1. 0 \in 0..2 * Scrollback
    BY Constants
  <2>2. QED
    BY <2>1, BudgetAssumption DEF Init, TypedShells
<1>2. Unseen \in Pictures /\ Len(Unseen.screen) = 0 /\ Len(Unseen.live) = 0
  BY DEF Unseen, Pictures
<1>3. TypedStreams /\ TypedWindows /\ Room
  BY <1>2, IdleTyped, Constants DEF Init, TypedStreams, TypedWindows, Room
<1>4. Scrolled
  BY Constants DEF Init, Scrolled, Least
<1>5. Attachment
  BY IdleTyped DEF Init, Attachment, Attaches, Idle
<1>6. Listening /\ Alone
  BY DEF Init, Listening, Alone
<1>7. Views
  <2>1. Bytes(0, 0) = <<>>
    BY BytesAre
  <2> SUFFICES ASSUME NEW w \in Windows, NEW t \in Ids
               PROVE  Screen(view[w][t], t) /\ Answers(view[w][t], t)
    BY DEF Views
  <2>2. view[w][t] = Unseen /\ written[t] = 0
    BY DEF Init
  <2>3. QED
    BY <2>1, <2>2, <1>2, Constants DEF Unseen, Screen, Answers, Least, IsInjective
<1>8. QED
  BY <1>1, <1>3, <1>4, <1>5, <1>6, <1>7 DEF Inv, Typed
-----------------------------------------------------------------------------
(* The manager                                                              *)

ManagerStep == \/ \E t \in Ids : Start(t) \/ Opened(t) \/ Close(t) \/ Stop(t)
               \/ \E p \in Projects : CloseProject(p)
               \/ Shutdown

\* What is left of the budget stays a number.
LEMMA SpendTyped == ASSUME TypedShells, NEW k \in Kinds, Spend(k) PROVE left' \in [Kinds -> Nat]
<1>1. left[k] \in Nat /\ left[k] > 0
  BY DEF TypedShells, Spend
<1>2. left[k] - 1 \in Nat
  BY <1>1
<1>3. QED
  BY <1>2 DEF TypedShells, Spend

\* Output and what was drawn of it are no business of the manager.
LEMMA ManagerInv == ASSUME Inv, ManagerStep PROVE Inv'
<1>1. /\ UNCHANGED <<written, kept, readers, watched, exited, stream, view, current>>
      /\ TypedShells'
  <2>1. TypedShells /\ {"open", "close"} \subseteq Kinds
    BY DEF Inv, Typed, Kinds
  <2>2. CASE \E t \in Ids : Start(t)
    BY <2>1, <2>2, SpendTyped DEF Start, TypedShells, windows
  <2>3. CASE \E t \in Ids : Opened(t)
    BY <2>1, <2>3 DEF Opened, TypedShells, windows, terminals
  <2>4. CASE \E t \in Ids : Close(t)
    BY <2>1, <2>4, SpendTyped DEF Close, Drop, TypedShells, windows, terminals
  <2>5. CASE \E t \in Ids : Stop(t)
    BY <2>1, <2>5 DEF Stop, TypedShells, windows
  <2>6. CASE \E p \in Projects : CloseProject(p)
    BY <2>1, <2>6, SpendTyped DEF CloseProject, Drop, TypedShells, windows, terminals
  <2>7. CASE Shutdown
    BY <2>1, <2>7, SpendTyped DEF Shutdown, Drop, TypedShells, windows, terminals
  <2>8. QED
    BY <2>2, <2>3, <2>4, <2>5, <2>6, <2>7 DEF ManagerStep
<1>2. QED
  BY <1>1 DEF Inv, Typed, TypedStreams, TypedWindows, Room, Scrolled, Attachment, Attaches,
              Listening, Hears, Coming, Asked, Alone, Views, Screen, Answers

-----------------------------------------------------------------------------
(* A shell writes or exits                                                  *)

\* A frame that fits the end of what was written reaches every reader, or ends its
\* stream.
Published(t, f) ==
    /\ f.id = t /\ ~exited[t]
    /\ stream' = [s \in Streams |-> IF s \in readers[t] THEN Sent(stream[s], f) ELSE stream[s]]
    /\ readers'[t] \subseteq {s \in readers[t] : Takes(stream[s])}
    /\ readers' \in [Ids -> SUBSET Streams]
    /\ written' \in [Ids -> Nat] /\ exited' \in [Ids -> BOOLEAN] /\ written[t] <= written'[t]
    /\ \A u \in Ids \ {t} : /\ readers'[u] = readers[u] /\ written'[u] = written[u]
                            /\ exited'[u] = exited[u]
    /\ \A w \in Windows : Moves(t, f, written[t], written'[t], written'[t], exited'[t],
                                view[w][t].live)
    /\ UNCHANGED <<watched, view, current>>

\* Output changes the streams that read the terminal, and leaves them attached.
LEMMA PublishedStreams ==
    ASSUME Inv, NEW t \in Ids, NEW f \in Frames, Published(t, f)
    PROVE  TypedStreams' /\ TypedWindows' /\ Room' /\ Attachment'
<1>a. \A s \in Streams : stream'[s] = IF s \in readers[t] THEN Sent(stream[s], f) ELSE stream[s]
  BY DEF Published
<1>b. /\ f.id = t /\ ~exited[t] /\ DOMAIN stream' = Streams /\ stream' = [s \in Streams |-> stream'[s]]
      /\ readers'[t] \subseteq {s \in readers[t] : Takes(stream[s])}
      /\ readers' \in [Ids -> SUBSET Streams]
      /\ written' \in [Ids -> Nat] /\ written[t] <= written'[t]
      /\ \A u \in Ids \ {t} : /\ readers'[u] = readers[u] /\ written'[u] = written[u]
                              /\ exited'[u] = exited[u]
  BY DEF Published
<1>c. watched' = watched /\ view' = view /\ current' = current
  BY DEF Published
<1>d. \A w \in Windows : Moves(t, f, written[t], written'[t], written'[t], exited'[t], view[w][t].live)
  BY DEF Published
<1>1. ASSUME NEW s \in Streams
      PROVE  /\ stream[s] \in Channels /\ Len(stream[s].ch) <= StreamBuffer
             /\ stream[s].ch \in Seq(Frames) /\ Len(stream[s].ch) \in Nat
             /\ Attaches(s)
  BY LenProperties DEF Inv, Typed, TypedStreams, Room, Channels, Attachment
<1>2. ASSUME NEW s \in Streams
      PROVE  /\ stream'[s] \in Channels /\ Len(stream'[s].ch) <= StreamBuffer
             /\ stream'[s].pc = stream[s].pc /\ stream'[s].todo = stream[s].todo
             /\ stream'[s].watches = stream[s].watches /\ stream'[s].wire = stream[s].wire
             /\ \/ stream'[s].ch = stream[s].ch
                \/ stream'[s].ch = Append(stream[s].ch, f) /\ s \in readers[t]
  <2>1. CASE s \in readers[t]
    <3>1. stream'[s] = Sent(stream[s], f)
      BY <1>a, <2>1
    <3>2. stream[s] \in Channels /\ Len(stream[s].ch) <= StreamBuffer
      BY <1>1
    <3>3. QED
      BY <2>1, <3>1, <3>2, SentTyped
  <2>2. CASE s \notin readers[t]
    BY <1>1, <1>a, <2>2
  <2>3. QED
    BY <2>1, <2>2
<1>3. TypedStreams' /\ TypedWindows' /\ Room'
  <2>1. TypedStreams' /\ Room'
    BY <1>2, <1>b DEF TypedStreams, Room
  <2>2. QED
    BY <2>1, <1>c DEF Inv, Typed, TypedStreams, TypedWindows, Room
<1>4. ASSUME NEW s \in Streams PROVE Attaches(s)'
  <2>1. \A u \in Ids : readers'[u] \subseteq readers[u]
    BY <1>b
  <2>2. s \in readers[t] => t \in stream[s].watches /\ watched[t]
    BY <1>1 DEF Attaches
  <2>3. \A i \in 1..Len(stream'[s].ch) : \/ i \in 1..Len(stream[s].ch) /\ stream'[s].ch[i] = stream[s].ch[i]
                                         \/ stream'[s].ch[i] = f /\ s \in readers[t]
    <3>1. CASE stream'[s].ch = stream[s].ch
      BY <3>1
    <3>2. CASE stream'[s].ch = Append(stream[s].ch, f) /\ s \in readers[t]
      <4>1. /\ Len(Append(stream[s].ch, f)) = Len(stream[s].ch) + 1
            /\ \A i \in 1..Len(stream[s].ch) : Append(stream[s].ch, f)[i] = stream[s].ch[i]
            /\ Append(stream[s].ch, f)[Len(stream[s].ch) + 1] = f
        BY <1>1, AppendProperties
      <4>2. \A i \in 1..Len(stream[s].ch) + 1 : i \in 1..Len(stream[s].ch) \/ i = Len(stream[s].ch) + 1
        BY <1>1
      <4>3. QED
        BY <3>2, <4>1, <4>2
    <3>3. QED
      BY <1>2, <3>1, <3>2
  <2>4. QED
    <3>1. Attaches(s) /\ watched' = watched
      BY <1>1, <1>c
    <3>2. /\ stream'[s].pc = stream[s].pc /\ stream'[s].todo = stream[s].todo
          /\ stream'[s].watches = stream[s].watches /\ stream'[s].wire = stream[s].wire
      BY <1>2
    <3>3. \A i \in 1..Len(stream'[s].ch) : /\ watched[stream'[s].ch[i].id]
                                           /\ stream[s].pc = "attaching" => stream'[s].ch[i].id \in stream[s].watches
      BY <1>b, <2>2, <2>3, <3>1 DEF Attaches
    <3>4. QED
      BY <2>1, <3>1, <3>2, <3>3 DEF Attaches
<1>5. QED
  BY <1>3, <1>4 DEF Attachment

\* Each of these streams still leads its window to the end of the output.
LEMMA PublishedHeard ==
    ASSUME Inv, NEW t \in Ids, NEW f \in Frames, Published(t, f)
    PROVE  Listening' /\ Alone'
<1>a. \A s \in Streams : stream'[s] = IF s \in readers[t] THEN Sent(stream[s], f) ELSE stream[s]
  BY DEF Published
<1>b. /\ f.id = t /\ ~exited[t] /\ DOMAIN stream' = Streams /\ stream' = [s \in Streams |-> stream'[s]]
      /\ readers'[t] \subseteq {s \in readers[t] : Takes(stream[s])}
      /\ readers' \in [Ids -> SUBSET Streams]
      /\ written' \in [Ids -> Nat] /\ written[t] <= written'[t]
      /\ \A u \in Ids \ {t} : /\ readers'[u] = readers[u] /\ written'[u] = written[u]
                              /\ exited'[u] = exited[u]
  BY DEF Published
<1>c. watched' = watched /\ view' = view /\ current' = current
  BY DEF Published
<1>d. \A w \in Windows : Moves(t, f, written[t], written'[t], written'[t], exited'[t], view[w][t].live)
  BY DEF Published
<1>1. ASSUME NEW w \in Windows, current[w] # 0 PROVE Hears(w, current[w])'
  <2>0. PICK s \in Streams : s = current[w]
    BY <1>1 DEF Inv, Typed, TypedWindows
  <2>1. /\ s \in Streams /\ Hears(w, s) /\ Attaches(s)
        /\ stream[s] \in Channels /\ Len(stream[s].ch) <= StreamBuffer
        /\ stream[s].ch \in Seq(Frames) /\ Len(stream[s].ch) \in Nat /\ stream[s].wire \in Seq(Frames)
    BY <1>1, <2>0, LenProperties DEF Inv, Typed, TypedStreams, TypedWindows, Room, Channels, Attachment, Listening
  <2>2. current'[w] = s /\ view' = view
    BY <1>c, <2>0
  <2>3. stream'[s] = IF s \in readers[t] THEN Sent(stream[s], f) ELSE stream[s]
    BY <1>a, <2>1
  <2>4. /\ stream'[s].pc = stream[s].pc /\ stream'[s].todo = stream[s].todo
        /\ stream'[s].watches = stream[s].watches /\ stream'[s].wire = stream[s].wire
        /\ \/ stream'[s].ch = stream[s].ch
           \/ stream'[s].ch = Append(stream[s].ch, f) /\ s \in readers[t]
    <3>1. stream[s] \in Channels /\ Len(stream[s].ch) <= StreamBuffer
      BY <2>1
    <3>2. CASE s \in readers[t]
      <4>1. stream'[s] = Sent(stream[s], f)
        BY <2>3, <3>2
      <4>2. QED
        BY <3>1, <3>2, <4>1, SentTyped
    <3>3. CASE s \notin readers[t]
      BY <2>3, <3>3
    <3>4. QED
      BY <3>2, <3>3
  <2>5. s \in readers[t] => t \in stream[s].watches /\ t \notin Asked(s) /\ view[w][t].on
    <3>1. s \in readers[t] => t \in stream[s].watches
      BY <2>1 DEF Attaches
    <3>2. t \in stream[s].watches => view[w][t].on
      BY <2>1 DEF Hears
    <3>3. t \in stream[s].watches => t \notin Asked(s)
      BY <2>1 DEF Attaches, Asked
    <3>4. QED
      BY <3>1, <3>2, <3>3
  <2>6. \A i \in 1..Len(stream'[s].ch) : view[w][stream'[s].ch[i].id].on
    <3>1. CASE stream'[s].ch = stream[s].ch
      BY <2>1, <3>1 DEF Hears
    <3>2. CASE stream'[s].ch = Append(stream[s].ch, f) /\ s \in readers[t]
      <4>1. /\ Len(Append(stream[s].ch, f)) = Len(stream[s].ch) + 1
            /\ \A i \in 1..Len(stream[s].ch) : Append(stream[s].ch, f)[i] = stream[s].ch[i]
            /\ Append(stream[s].ch, f)[Len(stream[s].ch) + 1] = f
        BY <2>1, AppendProperties
      <4>2. \A i \in 1..Len(stream[s].ch) + 1 : i \in 1..Len(stream[s].ch) \/ i = Len(stream[s].ch) + 1
        BY <2>1
      <4>3. QED
        BY <1>b, <2>1, <2>5, <3>2, <4>1, <4>2 DEF Hears
    <3>3. QED
      BY <2>4, <3>1, <3>2
  <2>7. ASSUME NEW u \in Ids PROVE Coming(w, u, s)'
    <3>0. PICK b, live : b = view[w][u].at /\ live = view[w][u].live
      OBVIOUS
    <3>1. PICK m \in Nat, z \in Nat :
            /\ Leads(u, stream[s].wire, b, m, written[u], exited[u], live)
            /\ Leads(u, stream[s].ch, m, z, written[u], exited[u], live)
            /\ s \in readers[u] /\ ~stream[s].dead => z = written[u]
            /\ u \in Asked(s) => z = b
      BY <2>1, <3>0 DEF Hears, Coming
    <3>2. /\ written[u] \in Nat /\ written'[u] \in Nat /\ written[u] <= written'[u]
          /\ exited[u] => exited'[u] /\ written'[u] = written[u]
      BY <1>b DEF Inv, Typed, TypedShells
    <3>3. /\ Leads(u, stream[s].wire, b, m, written'[u], exited'[u], live)
          /\ Leads(u, stream[s].ch, m, z, written'[u], exited'[u], live)
      BY <2>1, <3>1, <3>2, LeadsStill
    <3>4. Asked(s)' = Asked(s)
      <4>1. stream'[s].todo = stream[s].todo
        BY <2>4
      <4>2. QED
        BY <4>1 DEF Asked
    <3>5. \E x \in Nat : /\ Leads(u, stream'[s].ch, m, x, written'[u], exited'[u], live)
                         /\ s \in readers'[u] /\ ~stream'[s].dead => x = written'[u]
                         /\ u \in Asked(s) => x = b
      <4>1. CASE s \notin readers[t]
        <5>1. stream'[s] = stream[s]
          BY <2>3, <4>1
        <5>2. s \in readers'[u] => u # t /\ s \in readers[u]
          BY <1>b, <4>1
        <5>3. QED
          <6>1. stream'[s].ch = stream[s].ch /\ stream'[s].dead = stream[s].dead
            BY <5>1
          <6>2. s \in readers'[u] /\ ~stream'[s].dead => z = written'[u]
            BY <1>b, <3>1, <5>2, <6>1
          <6>3. QED
            BY <3>1, <3>3, <6>1, <6>2
      <4>2. CASE s \in readers[t] /\ u = t
        <5>1. ~stream[s].dead => z = written[t]
          BY <3>1, <4>2
        <5>2. ~stream[s].dead => z <= written'[t] /\ Moves(t, f, z, written'[t], written'[t], exited'[t], live)
          BY <1>b, <1>d, <3>0, <3>2, <4>2, <5>1
        <5>3. \/ Leads(t, Sent(stream[s], f).ch, m, written'[t], written'[t], exited'[t], live)
              \/ /\ Leads(t, Sent(stream[s], f).ch, m, z, written'[t], exited'[t], live)
                 /\ Sent(stream[s], f).dead
          <6>1. stream[s] \in Channels /\ Len(stream[s].ch) <= StreamBuffer /\ written'[t] \in Nat
            BY <2>1, <3>2, <4>2
          <6>2. Leads(t, stream[s].ch, m, z, written'[t], exited'[t], live)
            BY <3>3, <4>2
          <6>3. QED
            BY <5>2, <6>1, <6>2, SentLeads
        <5>4. QED
          BY <2>3, <2>5, <3>2, <4>2, <5>3
      <4>3. CASE s \in readers[t] /\ u # t
        <5>1. z <= z /\ Moves(u, f, z, z, written'[u], exited'[u], live)
          BY <1>b, <4>3 DEF Moves
        <5>2. Leads(u, Sent(stream[s], f).ch, m, z, written'[u], exited'[u], live)
          <6>1. stream[s] \in Channels /\ Len(stream[s].ch) <= StreamBuffer
            BY <2>1
          <6>2. Leads(u, stream[s].ch, m, z, written'[u], exited'[u], live)
            BY <3>3
          <6>3. QED
            BY <5>1, <6>1, <6>2, SentLeads
        <5>3. stream[s].dead => stream'[s].dead
          BY <2>1, <2>3, <4>3, SentTyped
        <5>4. QED
          BY <1>b, <2>3, <3>1, <4>3, <5>2, <5>3
      <4>4. QED
        BY <4>1, <4>2, <4>3
    <3>6. QED
      <4>1. PICK x \in Nat : /\ Leads(u, stream'[s].ch, m, x, written'[u], exited'[u], live)
                             /\ s \in readers'[u] /\ ~stream'[s].dead => x = written'[u]
                             /\ u \in Asked(s) => x = b
        BY <3>5
      <4>2. stream'[s].wire = stream[s].wire /\ view'[w][u].at = b /\ view'[w][u].live = live
        BY <2>2, <2>4, <3>0
      <4>3. QED
        BY <3>3, <3>4, <4>1, <4>2 DEF Coming
  <2>8. Hears(w, s)'
    <3>1. Hears(w, s) /\ view' = view
      BY <2>1, <2>2
    <3>2. /\ stream'[s].pc = stream[s].pc /\ stream'[s].todo = stream[s].todo
          /\ stream'[s].watches = stream[s].watches /\ stream'[s].wire = stream[s].wire
      BY <2>4
    <3>3. QED
      BY <2>6, <2>7, <3>1, <3>2 DEF Hears
  <2>9. QED
    BY <1>c, <2>0, <2>8 DEF Hears
<1>2. QED
  BY <1>1, <1>c DEF Inv, Listening, Alone

\* What the windows show stays a part of the longer output.
LEMMA PublishedViews ==
    ASSUME Inv, NEW t \in Ids, NEW f \in Frames, Published(t, f)
    PROVE  Views'
<1> SUFFICES ASSUME NEW w \in Windows, NEW u \in Ids
             PROVE  Screen(view[w][u], u)' /\ Answers(view[w][u], u)'
  BY DEF Views
<1>1. Screen(view[w][u], u) /\ Answers(view[w][u], u) /\ view[w][u] \in Pictures
  BY DEF Inv, Views, Typed, TypedWindows
<1>2. /\ view' = view /\ watched' = watched
      /\ written[u] \in Nat /\ written'[u] \in Nat /\ written[u] <= written'[u]
      /\ exited[u] => exited'[u] /\ written'[u] = written[u]
  <2>1. /\ view' = view /\ watched' = watched /\ ~exited[t] /\ written[t] <= written'[t]
        /\ \A x \in Ids \ {t} : written'[x] = written[x] /\ exited'[x] = exited[x]
        /\ written' \in [Ids -> Nat]
    BY DEF Published
  <2>2. written \in [Ids -> Nat]
    BY DEF Inv, Typed, TypedShells
  <2>3. QED
    BY <2>1, <2>2
<1>3. view[w][u].at \in Nat /\ view[w][u].live \in Seq(Nat)
  BY <1>1 DEF Pictures
<1>4. Screen(view[w][u], u)'
  BY <1>1, <1>2, <1>3 DEF Screen
<1>5. \A i \in 1..Len(view[w][u].live) : view[w][u].live[i] \in Nat
  BY <1>3, ElementOfSeq
<1>6. Answers(view[w][u], u)'
  BY <1>1, <1>2, <1>3, <1>5 DEF Answers
<1>7. QED
  BY <1>4, <1>6

\* pump sends what it has read.
LEMMA OutputInv == ASSUME Inv, NEW t \in Ids, Output(t) PROVE Inv'
<1>1. /\ TypedShells /\ Scrolled /\ TypedWindows /\ Views
      /\ written[t] \in Nat /\ kept[t] \in Nat /\ kept[t] <= 2 * Scrollback
      /\ Scrollback \in Nat \ {0} /\ ReadChunk \in Nat
  BY Constants DEF Inv, Typed, TypedShells
<1>2. PICK n \in 1..ReadChunk :
        /\ n <= left["output"]
        /\ left' = [left EXCEPT !["output"] = @ - n]
        /\ written' = [written EXCEPT ![t] = @ + n]
        /\ kept' = [kept EXCEPT ![t] = Trimmed(@ + n)]
        /\ SendTo(readers[t], Frame(t, Bytes(written[t], written[t] + n),
                                    written[t] + n, FALSE, FALSE, FALSE))
  BY DEF Output
<1>3. /\ ~exited[t] /\ readers' = [readers EXCEPT ![t] = {s \in @ : Takes(stream[s])}]
      /\ UNCHANGED <<opening, open, going, closing, started, closed, watched, exited, view, current>>
  BY DEF Output, manager, windows
<1>4. n \in Nat \ {0} /\ written[t] + n \in Nat /\ written[t] <= written[t] + n
  BY <1>1, <1>2
<1>5. PICK top \in Nat : top = written[t] + n
  BY <1>4
<1>6. PICK data \in Seq(Nat) : /\ data = Bytes(written[t], written[t] + n)
                               /\ Len(data) = n /\ data # <<>> /\ data = Bytes(top - n, top)
  <2>1. written[t] + n - written[t] = n /\ top - n = written[t]
    BY <1>1, <1>4, <1>5
  <2>2. QED
    <3>0. PICK wr \in Nat : wr = written[t]
      BY <1>1
    <3>a. wr <= top /\ top - wr = n
      BY <1>1, <1>4, <1>5, <3>0
    <3>b. Bytes(wr, top) \in Seq(Nat) /\ Len(Bytes(wr, top)) = top - wr
      BY <3>a, BytesAre
    <3>1. /\ Bytes(written[t], written[t] + n) \in Seq(Nat)
          /\ Len(Bytes(written[t], written[t] + n)) = n
      BY <1>5, <3>0, <3>a, <3>b
    <3>2. n # 0 /\ written[t] + n - written[t] # 0
      BY <1>1, <1>4
    <3>3. Bytes(written[t], written[t] + n) # <<>>
      BY <3>1, <3>2, EmptySeq
    <3>4. QED
      BY <1>5, <2>1, <3>1, <3>2, <3>3
<1>7. PICK f : f = Frame(t, data, top, FALSE, FALSE, FALSE)
  OBVIOUS
<1>8. /\ f \in Frames /\ f.id = t /\ f.data = data /\ f.at = top /\ ~f.exit /\ ~f.reset
      /\ ~f.replay
  BY <1>7 DEF Frame, Frames
<1>9. TypedShells' /\ Scrolled'
  <2>1. Trimmed(kept[t] + n) \in 0..2 * Scrollback
    BY <1>1, <1>4 DEF Trimmed
  <2>2. Least(written[t] + n, Scrollback) <= Trimmed(kept[t] + n) /\ Trimmed(kept[t] + n) <= written[t] + n
    <3>1. Least(written[t], Scrollback) <= kept[t] /\ kept[t] <= written[t]
      BY <1>1 DEF Scrolled
    <3>2. QED
      BY <1>1, <1>4, <3>1 DEF Trimmed, Least
  <2>3. readers' \in [Ids -> SUBSET Streams]
    BY <1>1, <1>3 DEF TypedShells
  <2>4. left' \in [Kinds -> Nat]
    <3>1. left["output"] \in Nat /\ left["output"] - n \in Nat
      BY <1>1, <1>2 DEF TypedShells, Kinds
    <3>2. QED
      BY <1>1, <1>2, <3>1 DEF TypedShells
  <2>5. written' \in [Ids -> Nat] /\ kept' \in [Ids -> 0..2 * Scrollback]
    BY <1>1, <1>2, <1>4, <2>1 DEF TypedShells
  <2>6. TypedShells'
    BY <1>1, <1>3, <2>3, <2>4, <2>5 DEF TypedShells
  <2>7. Scrolled'
    <3> SUFFICES ASSUME NEW u \in Ids
                 PROVE  Least(written'[u], Scrollback) <= kept'[u] /\ kept'[u] <= written'[u]
      BY DEF Scrolled
    <3>1. CASE u = t
      BY <1>1, <1>2, <2>2, <3>1 DEF TypedShells
    <3>2. CASE u # t
      BY <1>1, <1>2, <3>2 DEF TypedShells, Scrolled
    <3>3. QED
      BY <3>1, <3>2
  <2>8. QED
    BY <2>6, <2>7
<1>10. Published(t, f)
  <2>1. stream' = [s \in Streams |-> IF s \in readers[t] THEN Sent(stream[s], f) ELSE stream[s]]
    BY <1>2, <1>5, <1>6, <1>7 DEF SendTo
  <2>2. readers'[t] \subseteq {s \in readers[t] : Takes(stream[s])} /\ readers' \in [Ids -> SUBSET Streams]
    BY <1>1, <1>3, <1>9 DEF TypedShells
  <2>3. /\ written' \in [Ids -> Nat] /\ exited' \in [Ids -> BOOLEAN] /\ written[t] <= written'[t]
        /\ written'[t] = top
    BY <1>1, <1>2, <1>4, <1>5, <1>9 DEF TypedShells
  <2>4. \A u \in Ids \ {t} : /\ readers'[u] = readers[u] /\ written'[u] = written[u]
                             /\ exited'[u] = exited[u]
    BY <1>1, <1>2, <1>3 DEF TypedShells
  <2>5. ASSUME NEW w \in Windows
        PROVE  Moves(t, f, written[t], written'[t], written'[t], exited'[t], view[w][t].live)
    <3>1. written[t] = 0 => view[w][t].live = <<>>
      <4>1. view[w][t].live \in Seq(Nat) /\ \A i \in 1..Len(view[w][t].live) : 0 < view[w][t].live[i] /\ view[w][t].live[i] <= written[t]
        BY <1>1 DEF Views, Answers, TypedWindows, Pictures
      <4>2. \A i \in 1..Len(view[w][t].live) : view[w][t].live[i] \in Nat
        BY <4>1, ElementOfSeq
      <4>3. CASE written[t] = 0 /\ view[w][t].live # <<>>
        <5>1. 1 \in 1..Len(view[w][t].live)
          BY <4>1, <4>3, LenProperties, EmptySeq
        <5>2. QED
          BY SMTT(30), <4>1, <4>2, <4>3, <5>1
      <4>4. QED
        BY <4>3
    <3>2. PICK live : live = view[w][t].live
      OBVIOUS
    <3>3. n <= top /\ n = top - written[t] /\ written[t] < top
      BY <1>1, <1>4, <1>5
    <3>4. Right(f, written[t], top, exited'[t], live)
      <4>1. written[t] = 0 => live = <<>>
        BY <3>1, <3>2
      <4>2. live = <<>> => \A i \in 1..Len(live) : live[i] <= top
        OBVIOUS
      <4>3. QED
        BY <1>6, <1>8, <3>3, <4>1, <4>2 DEF Right
    <3>5. QED
      BY <1>8, <2>3, <3>2, <3>4 DEF Moves
  <2>6. QED
    BY <1>3, <1>8, <2>1, <2>2, <2>3, <2>4, <2>5 DEF Published
<1>11. QED
  BY <1>8, <1>9, <1>10, PublishedStreams, PublishedHeard, PublishedViews DEF Inv, Typed

\* The end of a shell's output, and that it exited.
LEMMA FinishInv == ASSUME Inv, NEW t \in Ids, Finish(t) PROVE Inv'
<1>1. TypedShells /\ Scrolled /\ written[t] \in Nat
  BY DEF Inv, Typed, TypedShells
<1>2. /\ ~exited[t] /\ exited' = [exited EXCEPT ![t] = TRUE]
      /\ stream' = [s \in Streams |-> IF s \in readers[t] THEN Sent(stream[s], Frame(t, <<>>, written[t], TRUE, FALSE, FALSE)) ELSE stream[s]]
      /\ readers' = [readers EXCEPT ![t] = {}]
      /\ UNCHANGED <<opening, open, going, closing, started, closed, written, kept, watched, view, current>>
  BY DEF Finish, SendTo, manager, windows
<1>3. PICK f : f = Frame(t, <<>>, written[t], TRUE, FALSE, FALSE)
  OBVIOUS
<1>4. /\ f \in Frames /\ f.id = t /\ f.data = <<>> /\ f.at = written[t] /\ f.exit /\ ~f.reset
  <2>1. <<>> \in Seq(Nat)
    OBVIOUS
  <2>2. QED
    BY <1>1, <1>3, <2>1 DEF Frame, Frames
<1>5. TypedShells' /\ Scrolled'
  <2>1. left' \in [Kinds -> Nat]
    <3>1. left' = left \/ Spend("exit")
      BY DEF Finish
    <3>2. "exit" \in Kinds
      BY DEF Kinds
    <3>3. CASE left' = left
      BY <1>1, <3>3 DEF TypedShells
    <3>4. CASE Spend("exit")
      BY <1>1, <3>2, <3>4, SpendTyped
    <3>5. QED
      BY <3>1, <3>3, <3>4
  <2>2. readers' \in [Ids -> SUBSET Streams] /\ exited' \in [Ids -> BOOLEAN]
    BY <1>1, <1>2 DEF TypedShells
  <2>3. QED
    BY <1>1, <1>2, <2>1, <2>2 DEF TypedShells, Scrolled
<1>6. Published(t, f)
  <2>1. stream' = [s \in Streams |-> IF s \in readers[t] THEN Sent(stream[s], f) ELSE stream[s]]
    BY <1>2, <1>3
  <2>2. /\ readers'[t] = {} /\ readers' \in [Ids -> SUBSET Streams] /\ exited'[t] = TRUE
        /\ exited' \in [Ids -> BOOLEAN] /\ written' \in [Ids -> Nat] /\ written[t] <= written'[t]
    BY <1>1, <1>2, <1>5 DEF TypedShells
  <2>3. \A u \in Ids \ {t} : /\ readers'[u] = readers[u] /\ written'[u] = written[u]
                             /\ exited'[u] = exited[u]
    BY <1>1, <1>2 DEF TypedShells
  <2>4. ASSUME NEW w \in Windows
        PROVE  Moves(t, f, written[t], written'[t], written'[t], exited'[t], view[w][t].live)
    BY <1>1, <1>2, <1>4, <2>2 DEF Moves, Right
  <2>5. QED
    BY <1>2, <1>4, <2>1, <2>2, <2>3, <2>4 DEF Published
<1>7. QED
  BY <1>4, <1>5, <1>6, PublishedStreams, PublishedHeard, PublishedViews DEF Inv, Typed

-----------------------------------------------------------------------------
(* A stream is attached                                                     *)

\* A watcher that has all of the output misses nothing.
LEMMA Missed ==
    ASSUME NEW t, NEW from \in Nat, NEW wr \in Nat, NEW k \in Nat, wr = written[t], k = kept[t],
           from <= wr, Least(wr, Scrollback) <= k, k <= wr,
           NEW m, m = Since(t, from)
    PROVE  /\ m.data \in Seq(Nat) /\ m.reset \in BOOLEAN
           /\ m.data = Bytes(wr - Len(m.data), wr) /\ Len(m.data) <= wr
           /\ IF m.reset THEN Least(wr, Scrollback) <= Len(m.data) ELSE Len(m.data) = wr - from
           /\ m.data = <<>> <=> from = wr
<1>1. Scrollback \in Nat \ {0} /\ wr - k \in Nat /\ wr - k <= wr
  BY Constants
<1>2. CASE from = wr
  <2>1. m.data = <<>> /\ m.reset = FALSE
    BY <1>2 DEF Since
  <2>2. m.data \in Seq(Nat) /\ Len(m.data) = 0
    BY <2>1
  <2>3. Bytes(wr, wr) = <<>>
    <3>1. from \in Nat /\ wr \in Nat /\ from <= wr
      BY <1>2
    <3>2. Bytes(from, wr) \in Seq(Nat) /\ Len(Bytes(from, wr)) = wr - from
      BY <3>1, BytesAre
    <3>3. wr - from = 0
      BY <1>2
    <3>4. QED
      BY <1>2, <3>2, <3>3, EmptySeq
  <2>4. wr - Len(m.data) = wr /\ wr - from = 0 /\ Len(m.data) <= wr
    BY <1>2, <2>2
  <2>5. QED
    BY <1>2, <2>1, <2>2, <2>3, <2>4
<1>3. CASE wr - k <= from /\ from < wr
  <2>1. m.data = Bytes(from, wr) /\ m.reset = FALSE
    BY <1>3 DEF Since
  <2>2. Bytes(from, wr) \in Seq(Nat) /\ Len(Bytes(from, wr)) = wr - from
    BY BytesAre
  <2>3. wr - from # 0 /\ wr - (wr - from) = from /\ wr - from <= wr /\ from # wr
    BY <1>3
  <2>4. m.data # <<>>
    BY <2>1, <2>2, <2>3, EmptySeq
  <2>5. QED
    BY <2>1, <2>2, <2>3, <2>4
<1>4. CASE from < wr - k
  <2>1. m.data = Bytes(wr - k, wr) /\ m.reset = TRUE
    BY <1>1, <1>4 DEF Since
  <2>2. PICK old \in Nat : old = wr - k /\ old <= wr
    BY <1>1
  <2>3. Bytes(old, wr) \in Seq(Nat) /\ Len(Bytes(old, wr)) = wr - old
    BY <2>2, BytesAre
  <2>4. wr - old = k /\ wr - k = old /\ k # 0 /\ from # wr
    <3>1. wr > 0
      BY <1>1, <1>4
    <3>2. QED
      BY <1>1, <1>4, <2>2, <3>1 DEF Least
  <2>5. m.data # <<>>
    BY <2>1, <2>2, <2>3, <2>4, EmptySeq
  <2>6. QED
    BY <2>1, <2>2, <2>3, <2>4, <2>5
<1>5. QED
  BY <1>1, <1>2, <1>3, <1>4

\* The piece that was missed fits what the watcher has, and is drawn again only where
\* nothing of it is answered.
LEMMA MissedMoves ==
    ASSUME NEW t, NEW from \in Nat, NEW wr \in Nat, NEW k \in Nat, wr = written[t], k = kept[t],
           from <= wr, Least(wr, Scrollback) <= k, k <= wr,
           NEW m, m = Since(t, from), m.data # <<>>,
           NEW f, f = Frame(t, m.data, wr, FALSE, m.reset, Replay(t, from, m.reset)),
           NEW over, NEW live, \A i \in 1..Len(live) : live[i] <= wr,
           (from > 0 \/ live # <<>>) => watched[t]
    PROVE  Moves(t, f, from, wr, wr, over, live) /\ from <= wr
<1>1. /\ m.data = Bytes(wr - Len(m.data), wr) /\ Len(m.data) <= wr
      /\ IF m.reset THEN Least(wr, Scrollback) <= Len(m.data) ELSE Len(m.data) = wr - from
      /\ from # wr
  BY Missed
<1>2. /\ f.id = t /\ f.data = m.data /\ f.at = wr /\ ~f.exit /\ f.reset = m.reset
      /\ f.replay = Replay(t, from, m.reset)
  BY DEF Frame
<1>3. f.replay <=> watched[t] /\ (from = 0 \/ f.reset)
  BY DEF Frame, Replay
<1>4. /\ from # 0 /\ ~f.replay => ~f.reset
      /\ from = 0 /\ ~f.replay => live = <<>>
  <2>1. from # 0 => watched[t]
    OBVIOUS
  <2>2. live # <<>> => watched[t]
    OBVIOUS
  <2>3. ASSUME from # 0, ~f.replay PROVE ~f.reset
    BY <1>3, <2>1, <2>3
  <2>4. ASSUME from = 0, ~f.replay PROVE live = <<>>
    BY <1>3, <2>2, <2>4
  <2>5. QED
    BY <2>3, <2>4
<1>5. from < wr
  BY <1>1
<1>6. Right(f, from, wr, over, live)
  <2>1. /\ f.at <= wr /\ f.data # <<>> /\ ~f.exit /\ from < f.at
        /\ Len(f.data) <= f.at /\ f.data = Bytes(f.at - Len(f.data), f.at)
    <3>0. wr <= wr
      OBVIOUS
    <3>1. f.at = wr /\ f.data = m.data /\ ~f.exit
      BY <1>2
    <3>2. f.data = Bytes(f.at - Len(f.data), f.at) /\ Len(f.data) <= f.at
      BY <1>1, <3>1
    <3>3. f.data # <<>>
      BY <3>1
    <3>4. from < f.at /\ f.at <= wr
      BY <1>5, <3>0, <3>1
    <3>5. QED
      BY <3>1, <3>2, <3>3, <3>4
  <2>2. IF f.reset THEN Least(f.at, Scrollback) <= Len(f.data) ELSE Len(f.data) = f.at - from
    BY <1>1, <1>2
  <2>3. \A i \in 1..Len(live) : live[i] <= f.at
    BY <1>2
  <2>4. QED
    BY <1>4, <2>1, <2>2, <2>3 DEF Right
<1>7. QED
  BY <1>2, <1>6 DEF Moves

\* What is replayed to a view is output.
LEMMA SinceTyped ==
    ASSUME NEW t, NEW from \in Nat, written[t] \in Nat, kept[t] \in Nat, kept[t] <= written[t]
    PROVE  Since(t, from).data \in Seq(Nat) /\ Since(t, from).reset \in BOOLEAN
<1>1. PICK wr \in Nat, old \in Nat : wr = written[t] /\ old = written[t] - kept[t] /\ old <= wr
  OBVIOUS
<1>2. CASE from = wr
  BY <1>1, <1>2 DEF Since
<1>3. CASE old <= from /\ from < wr
  <2>1. Bytes(from, wr) \in Seq(Nat)
    BY <1>3, BytesAre
  <2>2. QED
    BY <1>1, <1>3, <2>1 DEF Since
<1>4. CASE from # wr /\ ~(old <= from /\ from < wr)
  <2>1. Bytes(old, wr) \in Seq(Nat)
    BY <1>1, BytesAre
  <2>2. QED
    BY <1>1, <1>4, <2>1 DEF Since
<1>5. QED
  BY <1>2, <1>3, <1>4

\* A channel d that c became by frames of t.
Grown(c, d, t) ==
    /\ d \in Channels /\ Len(d.ch) <= StreamBuffer
    /\ d.pc = c.pc /\ d.todo = c.todo /\ d.watches = c.watches /\ d.wire = c.wire
    /\ d.over = c.over /\ (c.dead => d.dead)
    /\ \A i \in 1..Len(d.ch) : \/ i \in 1..Len(c.ch) /\ d.ch[i] = c.ch[i]
                               \/ d.ch[i].id = t

\* A channel that takes a frame of a terminal grows.
LEMMA SentGrows ==
    ASSUME NEW c \in Channels, NEW f \in Frames, Len(c.ch) <= StreamBuffer
    PROVE  Grown(c, Sent(c, f), f.id)
<1>1. c.ch \in Seq(Frames) /\ Len(c.ch) \in Nat
  BY LenProperties DEF Channels
<1>2. \A i \in 1..Len(Sent(c, f).ch) : \/ i \in 1..Len(c.ch) /\ Sent(c, f).ch[i] = c.ch[i]
                                       \/ Sent(c, f).ch[i].id = f.id
  <2>1. CASE Sent(c, f).ch = c.ch
    BY <2>1
  <2>2. CASE Sent(c, f).ch = Append(c.ch, f)
    <3>1. /\ Len(Append(c.ch, f)) = Len(c.ch) + 1
          /\ \A i \in 1..Len(c.ch) : Append(c.ch, f)[i] = c.ch[i]
          /\ Append(c.ch, f)[Len(c.ch) + 1] = f
      BY <1>1, AppendProperties
    <3>2. \A i \in 1..Len(c.ch) + 1 : i \in 1..Len(c.ch) \/ i = Len(c.ch) + 1
      BY <1>1
    <3>3. QED
      BY <2>2, <3>1, <3>2
  <2>3. QED
    BY <2>1, <2>2, SentTyped
<1>3. QED
  BY <1>2, SentTyped DEF Grown

\* It may grow twice.
LEMMA GrownOn ==
    ASSUME NEW t, NEW c, NEW d, NEW e, Grown(c, d, t), Grown(d, e, t)
    PROVE  Grown(c, e, t)
BY DEF Grown

\* A stream that catches up with a terminal grows by its frames only.
LEMMA CatchGrows ==
    ASSUME Inv, NEW s \in Streams, NEW a \in stream[s].todo
    PROVE  a \in Watches /\ Grown(stream[s], Catch(s, a), a.id)
<1>1. a \in Watches /\ stream[s] \in Channels /\ Len(stream[s].ch) <= StreamBuffer
  BY DEF Inv, Typed, TypedStreams, Room, Channels
<1>2. PICK t \in Ids : t = a.id
  BY <1>1 DEF Watches
<1>3. /\ a.from \in Nat /\ written[t] \in Nat /\ kept[t] \in Nat /\ kept[t] <= written[t]
      /\ watched[t] \in BOOLEAN
  BY <1>1, Constants DEF Inv, Typed, TypedShells, Watches, Scrolled
<1>4. PICK m : m = Since(t, a.from)
  OBVIOUS
<1>5. m.data \in Seq(Nat) /\ m.reset \in BOOLEAN
  BY <1>3, <1>4, SinceTyped
<1>6. PICK f : f = Frame(t, m.data, written[t], FALSE, m.reset, Replay(t, a.from, m.reset))
  OBVIOUS
<1>7. PICK l : l = Frame(t, <<>>, written[t], TRUE, FALSE, FALSE)
  OBVIOUS
<1>8. f \in Frames /\ l \in Frames /\ f.id = t /\ l.id = t
  <2>1. Replay(t, a.from, m.reset) \in BOOLEAN
    BY DEF Replay
  <2>2. <<>> \in Seq(Nat)
    OBVIOUS
  <2>3. f \in Frames /\ f.id = t
    BY <1>3, <1>5, <1>6, <2>1 DEF Frame, Frames
  <2>4. l \in Frames /\ l.id = t
    BY <1>3, <1>7, <2>2 DEF Frame, Frames
  <2>5. QED
    BY <2>3, <2>4
<1>9. PICK d : d = IF m.data = <<>> THEN stream[s] ELSE Sent(stream[s], f)
  OBVIOUS
<1>10. Catch(s, a) = IF exited[t] THEN Sent(d, l) ELSE d
  BY <1>2, <1>4, <1>6, <1>7, <1>9 DEF Catch
<1>11. Grown(stream[s], stream[s], t)
  BY <1>1 DEF Grown
<1>12. Grown(stream[s], Sent(stream[s], f), t)
  BY <1>1, <1>8, SentGrows
<1>13. Grown(stream[s], d, t)
  BY <1>9, <1>11, <1>12
<1>14. d \in Channels /\ Len(d.ch) <= StreamBuffer
  BY <1>13 DEF Grown
<1>15. Grown(d, Sent(d, l), t)
  BY <1>8, <1>14, SentGrows
<1>16. Grown(stream[s], Sent(d, l), t)
  BY <1>13, <1>15, GrownOn
<1>17. QED
  BY <1>1, <1>2, <1>10, <1>13, <1>16

\* Catch leads a window's view on to the end of what was written.
LEMMA CatchLeads ==
    ASSUME Inv, NEW w \in Windows, NEW s \in Streams, s = current[w], NEW a \in stream[s].todo,
           NEW u \in Ids,
           NEW b, NEW live, b = view[w][u].at, live = view[w][u].live
    PROVE  \E z \in Nat :
              /\ Leads(u, Catch(s, a).ch, b, z, written[u], exited[u], live)
              /\ u = a.id /\ ~Catch(s, a).dead => z = written[u]
              /\ u # a.id /\ s \in readers[u] /\ ~Catch(s, a).dead => z = written[u]
              /\ u # a.id /\ u \in Asked(s) => z = b
<1>1. /\ s # 0 /\ Hears(w, s) /\ Attaches(s) /\ stream[s] \in Channels
      /\ Len(stream[s].ch) <= StreamBuffer
  BY Constants DEF Inv, Listening, Attachment, Typed, TypedStreams, Room
<1>2. stream[s].pc = "attaching" /\ stream[s].wire = <<>>
  BY <1>1 DEF Attaches
<1>3. PICK y \in Nat : /\ Leads(u, stream[s].ch, b, y, written[u], exited[u], live)
                       /\ s \in readers[u] /\ ~stream[s].dead => y = written[u]
                       /\ u \in Asked(s) => y = b
  <2>1. Coming(w, u, s)
    BY <1>1 DEF Hears
  <2>2. PICK m \in Nat, y \in Nat :
          /\ Leads(u, <<>>, b, m, written[u], exited[u], live)
          /\ Leads(u, stream[s].ch, m, y, written[u], exited[u], live)
          /\ s \in readers[u] /\ ~stream[s].dead => y = written[u]
          /\ u \in Asked(s) => y = b
    BY <1>2, <2>1 DEF Coming
  <2>3. m = b
    BY <2>2, LeadsEmpty
  <2>4. QED
    BY <2>2, <2>3
<1>4. a \in Watches /\ Grown(stream[s], Catch(s, a), a.id)
  BY CatchGrows
<1>5. PICK t \in Ids : t = a.id
  BY <1>4 DEF Watches
<1>6. PICK m : m = Since(t, a.from)
  OBVIOUS
<1>7. PICK f : f = Frame(t, m.data, written[t], FALSE, m.reset, Replay(t, a.from, m.reset))
  OBVIOUS
<1>8. PICK l : l = Frame(t, <<>>, written[t], TRUE, FALSE, FALSE)
  OBVIOUS
<1>9. PICK d : d = IF m.data = <<>> THEN stream[s] ELSE Sent(stream[s], f)
  OBVIOUS
<1>10. Catch(s, a) = IF exited[t] THEN Sent(d, l) ELSE d
  BY <1>5, <1>6, <1>7, <1>8, <1>9 DEF Catch
<1>11. /\ a.from \in Nat /\ written[t] \in Nat /\ kept[t] \in Nat /\ kept[t] <= written[t]
       /\ Least(written[t], Scrollback) <= kept[t] /\ watched[t] \in BOOLEAN
       /\ view[w][t] \in Pictures /\ Screen(view[w][t], t) /\ Answers(view[w][t], t)
  BY <1>4, Constants DEF Inv, Typed, TypedShells, TypedWindows, Watches, Scrolled, Views
<1>12. a.from = view[w][t].at /\ a.from <= written[t] /\ t \in Asked(s)
  BY <1>1, <1>5, <1>11 DEF Hears, Screen, Asked
<1>13. m.data \in Seq(Nat) /\ m.reset \in BOOLEAN
  BY <1>6, <1>11, SinceTyped
<1>14. f \in Frames /\ l \in Frames /\ f.id = t /\ l.id = t
  <2>1. Replay(t, a.from, m.reset) \in BOOLEAN
    BY DEF Replay
  <2>2. <<>> \in Seq(Nat)
    OBVIOUS
  <2>3. f \in Frames /\ f.id = t
    BY <1>7, <1>11, <1>13, <2>1 DEF Frame, Frames
  <2>4. l \in Frames /\ l.id = t
    BY <1>8, <1>11, <2>2 DEF Frame, Frames
  <2>5. QED
    BY <2>3, <2>4
<1>15. d \in Channels /\ Len(d.ch) <= StreamBuffer /\ (stream[s].dead => d.dead)
  <2>1. CASE m.data = <<>>
    BY <1>1, <1>9, <2>1
  <2>2. CASE m.data # <<>>
    <3>1. d = Sent(stream[s], f)
      BY <1>9, <2>2
    <3>2. QED
      BY <1>1, <1>14, <3>1, SentTyped
  <2>3. QED
    BY <2>1, <2>2
<1>16. CASE u # t
  <2>1. y <= y /\ Moves(u, f, y, y, written[u], exited[u], live) /\ Moves(u, l, y, y, written[u], exited[u], live)
    BY <1>14, <1>16 DEF Moves
  <2>2. Leads(u, d.ch, b, y, written[u], exited[u], live)
    <3>1. CASE m.data = <<>>
      BY <1>3, <1>9, <3>1
    <3>2. CASE m.data # <<>>
      <4>1. Leads(u, Sent(stream[s], f).ch, b, y, written[u], exited[u], live)
        BY <1>1, <1>3, <1>14, <2>1, SentLeads
      <4>2. QED
        BY <1>9, <3>2, <4>1
    <3>3. QED
      BY <3>1, <3>2
  <2>3. Leads(u, Sent(d, l).ch, b, y, written[u], exited[u], live)
    BY <1>14, <1>15, <2>1, <2>2, SentLeads
  <2>4. Leads(u, Catch(s, a).ch, b, y, written[u], exited[u], live)
    BY <1>10, <2>2, <2>3
  <2>5. stream[s].dead => Catch(s, a).dead
    BY <1>4 DEF Grown
  <2>6. QED
    BY <1>3, <1>5, <1>16, <2>4, <2>5
<1>17. CASE u = t
  <2>1. y = b /\ b = a.from /\ b \in Nat /\ b <= written[t]
    BY <1>3, <1>11, <1>12, <1>17
  <2>2. \/ Leads(t, d.ch, b, written[t], written[t], exited[t], live)
        \/ Leads(t, d.ch, b, b, written[t], exited[t], live) /\ d.dead
    <3>1. CASE m.data = <<>>
      <4>1. b = written[t]
        BY <1>6, <1>11, <2>1, <3>1, Missed
      <4>2. QED
        BY <1>3, <1>9, <1>17, <2>1, <3>1, <4>1
    <3>2. CASE m.data # <<>>
      <4>1. /\ \A i \in 1..Len(live) : live[i] <= written[t]
            /\ (b > 0 \/ live # <<>>) => watched[t]
        BY <1>11, <1>17 DEF Answers
      <4>2. Moves(t, f, b, written[t], written[t], exited[t], live)
        BY <1>6, <1>7, <1>11, <2>1, <3>2, <4>1, MissedMoves
      <4>3. Leads(t, stream[s].ch, b, b, written[t], exited[t], live)
        BY <1>3, <1>17, <2>1
      <4>4. \/ Leads(t, Sent(stream[s], f).ch, b, written[t], written[t], exited[t], live)
            \/ Leads(t, Sent(stream[s], f).ch, b, b, written[t], exited[t], live) /\ Sent(stream[s], f).dead
        BY <1>1, <1>11, <1>14, <2>1, <4>2, <4>3, SentLeads
      <4>5. QED
        BY <1>9, <3>2, <4>4
    <3>3. QED
      BY <3>1, <3>2
  <2>3. CASE ~exited[t]
    BY <1>5, <1>10, <1>11, <1>17, <2>1, <2>2, <2>3
  <2>4. CASE exited[t]
    <3>1. l.data = <<>> /\ l.exit /\ ~l.reset /\ l.at = written[t] /\ l.id = t
      BY <1>8 DEF Frame
    <3>2. Moves(t, l, written[t], written[t], written[t], exited[t], live) /\ written[t] <= written[t]
      BY <1>11, <2>4, <3>1 DEF Moves, Right
    <3>3. \/ Leads(t, Sent(d, l).ch, b, written[t], written[t], exited[t], live)
          \/ Leads(t, Sent(d, l).ch, b, b, written[t], exited[t], live) /\ Sent(d, l).dead
      <4>1. CASE Leads(t, d.ch, b, written[t], written[t], exited[t], live)
        <5>1. Leads(t, Sent(d, l).ch, b, written[t], written[t], exited[t], live)
          BY <1>11, <1>14, <1>15, <3>2, <4>1, SentLeads
        <5>2. QED
          BY <5>1
      <4>2. CASE Leads(t, d.ch, b, b, written[t], exited[t], live) /\ d.dead
        <5>1. Sent(d, l) = d
          BY <4>2 DEF Sent
        <5>2. QED
          BY <4>2, <5>1
      <4>3. QED
        BY <2>2, <4>1, <4>2
    <3>4. Catch(s, a) = Sent(d, l)
      BY <1>10, <2>4
    <3>5. QED
      BY <1>5, <1>11, <1>17, <2>1, <3>3, <3>4
  <2>5. QED
    BY <2>3, <2>4
<1>18. QED
  BY <1>16, <1>17

\* A stream that is attached to one more terminal leads there, from where the view was.
LEMMA AttachInv == ASSUME Inv, NEW s \in Streams, Attach(s) PROVE Inv'
<1>1. /\ stream[s].pc = "attaching"
      /\ UNCHANGED <<opening, open, going, closing, started, closed, written, kept, exited, view, current, left>>
  BY DEF Attach, manager, windows
<1>2. PICK a \in stream[s].todo :
        LET t == a.id
            found == t \in open
            c == IF found THEN Catch(s, a) ELSE stream[s]
        IN /\ stream' = [stream EXCEPT ![s] =
                 [c EXCEPT !.todo = @ \ {a},
                           !.watches = IF found THEN @ \cup {t} ELSE @]]
           /\ watched' = IF found THEN [watched EXCEPT ![t] = TRUE] ELSE watched
           /\ readers' = IF found /\ ~exited[t]
                         THEN [readers EXCEPT ![t] = @ \cup {s}] ELSE readers
  BY DEF Attach
<1>3. a \in Watches /\ Grown(stream[s], Catch(s, a), a.id)
  BY CatchGrows
<1>4. PICK t \in Ids : t = a.id
  BY <1>3 DEF Watches
<1>5. PICK c : c = IF t \in open THEN Catch(s, a) ELSE stream[s]
  OBVIOUS
<1>6. PICK d : d = [c EXCEPT !.todo = @ \ {a}, !.watches = IF t \in open THEN @ \cup {t} ELSE @]
  OBVIOUS
<1>7. /\ stream' = [stream EXCEPT ![s] = d]
      /\ watched' = IF t \in open THEN [watched EXCEPT ![t] = TRUE] ELSE watched
      /\ readers' = IF t \in open /\ ~exited[t] THEN [readers EXCEPT ![t] = @ \cup {s}] ELSE readers
  BY <1>2, <1>4, <1>5, <1>6
<1>8. /\ stream \in [Streams -> Channels] /\ watched \in [Ids -> BOOLEAN]
      /\ readers \in [Ids -> SUBSET Streams]
      /\ stream[s] \in Channels /\ Len(stream[s].ch) <= StreamBuffer
      /\ Attaches(s)
  BY DEF Inv, Typed, TypedStreams, TypedShells, Room, Attachment
<1>9. Grown(stream[s], c, t) /\ c \in Channels
  <2>1. Grown(stream[s], stream[s], t)
    BY <1>8 DEF Grown
  <2>2. Grown(stream[s], c, t)
    BY <1>3, <1>4, <1>5, <2>1
  <2>3. QED
    BY <2>2 DEF Grown
<1>10. /\ d \in Channels /\ d.pc = "attaching" /\ d.todo = stream[s].todo \ {a} /\ d.wire = <<>>
       /\ d.watches = IF t \in open THEN stream[s].watches \cup {t} ELSE stream[s].watches
       /\ d.ch = c.ch /\ d.dead = c.dead /\ Len(d.ch) <= StreamBuffer
       /\ t \in open \/ d.ch = stream[s].ch
  <2>1. /\ c.todo = stream[s].todo /\ c.watches = stream[s].watches /\ c.pc = stream[s].pc
        /\ c.wire = stream[s].wire /\ Len(c.ch) <= StreamBuffer
    BY <1>9 DEF Grown
  <2>2. /\ c.todo \ {a} \in SUBSET Watches
        /\ (IF t \in open THEN c.watches \cup {t} ELSE c.watches) \in SUBSET Ids
    BY <1>9 DEF Channels
  <2>3. /\ d \in Channels /\ d.pc = c.pc /\ d.todo = c.todo \ {a} /\ d.wire = c.wire
        /\ d.watches = IF t \in open THEN c.watches \cup {t} ELSE c.watches
        /\ d.ch = c.ch /\ d.dead = c.dead
    BY <1>6, <1>9, <2>2 DEF Channels
  <2>4. stream[s].wire = <<>>
    BY <1>1, <1>8 DEF Attaches
  <2>5. QED
    BY <1>1, <1>5, <2>1, <2>3, <2>4
<1>11. /\ stream'[s] = d /\ \A r \in Streams : r # s => stream'[r] = stream[r]
       /\ \A u \in Ids : watched[u] => watched'[u]
       /\ t \in open => watched'[t]
       /\ \A u \in Ids, r \in Streams : r \in readers'[u] => \/ r \in readers[u]
                                                             \/ r = s /\ u = t /\ t \in open
  BY <1>7, <1>8
<1>12. TypedStreams' /\ Room' /\ TypedShells' /\ TypedWindows' /\ Scrolled' /\ Alone'
  <2>1. TypedStreams' /\ Room'
    BY <1>7, <1>8, <1>10, <1>11 DEF Inv, Typed, TypedStreams, Room
  <2>2. watched' \in [Ids -> BOOLEAN] /\ readers' \in [Ids -> SUBSET Streams]
    BY <1>7, <1>8
  <2>3. QED
    BY <1>1, <2>1, <2>2 DEF Inv, Typed, TypedShells, TypedWindows, Scrolled, Alone
<1>13. \A i \in 1..Len(d.ch) : \/ i \in 1..Len(stream[s].ch) /\ d.ch[i] = stream[s].ch[i]
                               \/ d.ch[i].id = t /\ t \in open
  BY <1>9, <1>10 DEF Grown
<1>14. Attachment'
  <2> SUFFICES ASSUME NEW r \in Streams PROVE Attaches(r)'
    BY DEF Attachment
  <2>1. Attaches(r)
    BY DEF Inv, Attachment
  <2>2. /\ r \in Streams /\ stream[r] \in Channels
        /\ stream[r].watches \subseteq Ids
        /\ \A i \in 1..Len(stream[r].ch) : stream[r].ch[i].id \in Ids
        /\ \A i \in 1..Len(stream[r].wire) : stream[r].wire[i].id \in Ids
    <3>1. stream[r] \in Channels
      BY <1>8
    <3>2. stream[r].ch \in Seq(Frames) /\ stream[r].wire \in Seq(Frames) /\ stream[r].watches \subseteq Ids
      BY <3>1 DEF Channels
    <3>3. /\ \A i \in 1..Len(stream[r].ch) : stream[r].ch[i] \in Frames
          /\ \A i \in 1..Len(stream[r].wire) : stream[r].wire[i] \in Frames
      BY <3>2, ElementOfSeq
    <3>4. QED
      BY <3>1, <3>2, <3>3 DEF Frames
  <2>3. CASE r # s
    <3>1. stream'[r] = stream[r] /\ \A u \in Ids : r \in readers'[u] => r \in readers[u]
      BY <1>11, <2>3
    <3>2. \A u \in Ids : watched[u] => watched'[u]
      BY <1>11
    <3>3. QED
      BY <2>1, <2>2, <3>1, <3>2 DEF Attaches
  <2>4. CASE r = s
    <3>1. stream'[r] = d /\ \A u \in Ids : r \in readers'[u] => r \in readers[u] \/ (u = t /\ t \in open)
      <4>1. stream'[r] = d
        BY <1>11, <2>4
      <4>2. \A u \in Ids : r \in readers'[u] => r \in readers[u] \/ (u = t /\ t \in open)
        BY <1>11
      <4>3. QED
        BY <4>1, <4>2
    <3>2. \A b \in d.todo : b.id \notin d.watches
      <4>1. \A b \in stream[s].todo : b.id \notin stream[s].watches /\ (b.id = t => b = a)
        BY <1>1, <1>4, <1>8 DEF Attaches
      <4>2. QED
        BY <1>10, <4>1
    <3>3. \A b, e \in d.todo : b.id = e.id => b = e
      BY <1>1, <1>8, <1>10 DEF Attaches
    <3>4. \A u \in d.watches : watched'[u]
      BY <1>8, <1>10, <1>11, <2>2, <2>4 DEF Attaches
    <3>5. \A i \in 1..Len(d.ch) : d.ch[i].id \in d.watches
      BY <1>1, <1>8, <1>10, <1>13 DEF Attaches
    <3>6. \A u \in Ids : r \in readers'[u] => u \in d.watches
      BY <1>8, <1>10, <2>4, <3>1 DEF Attaches
    <3>7. \A i \in 1..Len(d.ch) : watched'[d.ch[i].id]
      BY <3>4, <3>5
    <3>8. Len(d.wire) = 0
      BY <1>10
    <3>9. QED
      BY <1>10, <3>1, <3>2, <3>3, <3>4, <3>5, <3>6, <3>7, <3>8 DEF Attaches
  <2>5. QED
    BY <2>3, <2>4
<1>15. Views'
  <2>1. /\ view' = view /\ written' = written /\ exited' = exited
        /\ \A u \in Ids : watched[u] => watched'[u]
    BY <1>1, <1>11
  <2>2. QED
    BY <2>1 DEF Inv, Views, Screen, Answers
<1>16. Listening'
  <2> SUFFICES ASSUME NEW w \in Windows, current[w] # 0 PROVE Hears(w, current[w])'
    BY <1>1 DEF Listening
  <2>1. PICK r \in Streams : r = current[w]
    BY DEF Inv, Typed, TypedWindows
  <2>2. Hears(w, r) /\ current'[w] = r /\ view' = view
    BY <1>1, <2>1 DEF Inv, Listening
  <2>3. SUFFICES Hears(w, r)'
    BY <2>2 DEF Hears
  <2>4. CASE r # s
    <3>1. stream'[r] = stream[r] /\ \A u \in Ids : r \in readers'[u] => r \in readers[u]
      BY <1>11, <2>4
    <3>2. ASSUME NEW u \in Ids PROVE Coming(w, u, r)'
      <4>1. Coming(w, u, r) /\ written' = written /\ exited' = exited
        BY <1>1, <2>2 DEF Hears
      <4>2. Asked(r)' = Asked(r)
        BY <3>1 DEF Asked
      <4>3. QED
        BY <2>2, <3>1, <4>1, <4>2 DEF Coming
    <3>3. QED
      BY <2>2, <3>1, <3>2 DEF Hears
  <2>5. CASE r = s
    <3>1. stream'[r] = d /\ s = current[w] /\ Hears(w, s)
      BY <1>11, <2>1, <2>2, <2>5
    <3>2. view[w][t].on
      BY <1>4, <3>1 DEF Hears
    <3>3. ASSUME NEW u \in Ids PROVE Coming(w, u, r)'
      <4>0. PICK b, live : b = view[w][u].at /\ live = view[w][u].live
        OBVIOUS
      <4>1. b \in Nat
        BY <4>0 DEF Inv, Typed, TypedWindows, Pictures
      <4>2. PICK z \in Nat :
              /\ Leads(u, d.ch, b, z, written[u], exited[u], live)
              /\ s \in readers'[u] /\ ~d.dead => z = written[u]
              /\ u \in {e.id : e \in d.todo} => z = b
        <5>1. CASE t \in open
          <6>1. PICK z \in Nat :
                  /\ Leads(u, Catch(s, a).ch, b, z, written[u], exited[u], live)
                  /\ u = a.id /\ ~Catch(s, a).dead => z = written[u]
                  /\ u # a.id /\ s \in readers[u] /\ ~Catch(s, a).dead => z = written[u]
                  /\ u # a.id /\ u \in Asked(s) => z = b
            BY <3>1, <4>0, CatchLeads
          <6>2. d.ch = Catch(s, a).ch /\ d.dead = Catch(s, a).dead
            BY <1>5, <1>10, <5>1
          <6>3. s \in readers'[u] => u = t \/ s \in readers[u]
            BY <1>11
          <6>4. u \in {e.id : e \in d.todo} => u # a.id /\ u \in Asked(s)
            <7>1. \A e \in stream[s].todo : e.id = a.id => e = a
              BY <1>1, <1>8 DEF Attaches
            <7>2. QED
              BY <1>10, <7>1 DEF Asked
          <6>5. QED
            BY <1>4, <6>1, <6>2, <6>3, <6>4
        <5>2. CASE t \notin open
          <6>1. PICK m \in Nat, z \in Nat :
                  /\ Leads(u, <<>>, b, m, written[u], exited[u], live)
                  /\ Leads(u, stream[s].ch, m, z, written[u], exited[u], live)
                  /\ s \in readers[u] /\ ~stream[s].dead => z = written[u]
                  /\ u \in Asked(s) => z = b
            <7>1. Coming(w, u, s) /\ stream[s].wire = <<>>
              BY <1>1, <1>8, <3>1 DEF Hears, Attaches
            <7>2. QED
              BY <4>0, <7>1 DEF Coming
          <6>2. m = b
            BY <6>1, LeadsEmpty
          <6>3. d.ch = stream[s].ch /\ d.dead = stream[s].dead
            BY <1>5, <1>10, <5>2
          <6>4. s \in readers'[u] => s \in readers[u]
            BY <1>11, <5>2
          <6>5. u \in {e.id : e \in d.todo} => u \in Asked(s)
            BY <1>10 DEF Asked
          <6>6. QED
            BY <6>1, <6>2, <6>3, <6>4, <6>5
        <5>3. QED
          BY <5>1, <5>2
      <4>3. Leads(u, <<>>, b, b, written[u], exited[u], live)
        BY <4>1, LeadsNowhere
      <4>4. Asked(r)' = {e.id : e \in d.todo}
        BY <3>1 DEF Asked
      <4>5. /\ written'[u] = written[u] /\ exited'[u] = exited[u]
            /\ view'[w][u].at = b /\ view'[w][u].live = live
        BY <1>1, <4>0
      <4>6. stream'[r].wire = <<>> /\ stream'[r].ch = d.ch /\ stream'[r].dead = d.dead
        BY <1>10, <3>1
      <4>7. QED
        BY <2>5, <4>1, <4>2, <4>3, <4>4, <4>5, <4>6 DEF Coming
    <3>4. \A i \in 1..Len(d.ch) : view[w][d.ch[i].id].on
      BY <1>13, <3>1, <3>2 DEF Hears
    <3>5. \A e \in d.todo : view[w][e.id].on /\ e.from = view[w][e.id].at
      BY <1>10, <3>1 DEF Hears
    <3>6. \A e \in d.watches : view[w][e].on
      BY <1>10, <3>1, <3>2 DEF Hears
    <3>7. d.pc # "free" /\ Len(d.wire) = 0
      BY <1>10
    <3>8. QED
      BY <2>2, <3>1, <3>3, <3>4, <3>5, <3>6, <3>7 DEF Hears
  <2>6. QED
    BY <2>4, <2>5
<1>17. QED
  BY <1>12, <1>14, <1>15, <1>16 DEF Inv, Typed

-----------------------------------------------------------------------------
(* A stream is served, and ends                                             *)

\* A step of one stream that takes nothing new on.
LEMMA OneStream ==
    ASSUME Inv, NEW s \in Streams, NEW d \in Channels, Len(d.ch) <= StreamBuffer,
           stream' = [stream EXCEPT ![s] = d],
           UNCHANGED <<opening, open, going, closing, started, closed, written, kept, watched,
                       exited, view, current, left>>,
           readers' \in [Ids -> SUBSET Streams], \A u \in Ids : readers'[u] \subseteq readers[u],
           Attaches(s)', \A w \in Windows : current[w] = s => Hears(w, s)'
    PROVE  Inv'
<1>1. /\ stream'[s] = d /\ \A r \in Streams : r # s => stream'[r] = stream[r]
      /\ stream \in [Streams -> Channels]
  BY DEF Inv, Typed, TypedStreams
<1>2. Typed' /\ Scrolled' /\ Alone' /\ Views'
  <2>1. TypedStreams' /\ Room'
    BY <1>1 DEF Inv, Typed, TypedStreams, Room
  <2>2. QED
    BY <2>1 DEF Inv, Typed, TypedShells, TypedWindows, Scrolled, Alone, Views, Screen, Answers
<1>3. Attachment'
  <2> SUFFICES ASSUME NEW r \in Streams, r # s PROVE Attaches(r)'
    BY DEF Attachment
  <2>1. Attaches(r) /\ stream'[r] = stream[r]
    BY <1>1 DEF Inv, Attachment
  <2>2. QED
    BY <2>1 DEF Attaches
<1>4. Listening'
  <2> SUFFICES ASSUME NEW w \in Windows, current[w] # 0 PROVE Hears(w, current[w])'
    BY DEF Listening
  <2>1. PICK r \in Streams : r = current[w]
    BY DEF Inv, Typed, TypedWindows
  <2>2. Hears(w, r)
    BY <2>1 DEF Inv, Listening
  <2>3. Hears(w, r)'
    <3>1. CASE r = s
      BY <2>1, <3>1
    <3>2. CASE r # s
      <4>1. stream'[r] = stream[r] /\ \A u \in Ids : r \in readers'[u] => r \in readers[u]
        BY <1>1, <3>2
      <4>2. ASSUME NEW u \in Ids PROVE Coming(w, u, r)'
        <5>1. Coming(w, u, r)
          BY <2>2 DEF Hears
        <5>2. Asked(r)' = Asked(r)
          BY <4>1 DEF Asked
        <5>3. QED
          BY <4>1, <5>1, <5>2 DEF Coming
      <4>3. QED
        BY <2>2, <4>1, <4>2 DEF Hears
    <3>3. QED
      BY <3>1, <3>2
  <2>4. QED
    BY <2>1, <2>3 DEF Hears
<1>5. QED
  BY <1>2, <1>3, <1>4 DEF Inv

\* What a stream holds.
LEMMA StreamTyped ==
    ASSUME Inv, NEW s \in Streams
    PROVE  /\ stream[s] \in Channels /\ Len(stream[s].ch) <= StreamBuffer /\ Attaches(s)
           /\ stream[s].ch \in Seq(Frames) /\ Len(stream[s].ch) \in Nat
           /\ stream[s].wire \in Seq(Frames) /\ Len(stream[s].wire) \in Nat
           /\ stream[s].watches \subseteq Ids
           /\ \A i \in 1..Len(stream[s].ch) : stream[s].ch[i].id \in Ids
           /\ \A i \in 1..Len(stream[s].wire) : stream[s].wire[i].id \in Ids
<1>1. /\ stream[s] \in Channels /\ Len(stream[s].ch) <= StreamBuffer /\ Attaches(s)
  BY DEF Inv, Typed, TypedStreams, Room, Attachment
<1>2. /\ stream[s].ch \in Seq(Frames) /\ stream[s].wire \in Seq(Frames)
      /\ stream[s].watches \subseteq Ids
  BY <1>1 DEF Channels
<1>3. /\ Len(stream[s].ch) \in Nat /\ Len(stream[s].wire) \in Nat
      /\ \A i \in 1..Len(stream[s].ch) : stream[s].ch[i] \in Frames
      /\ \A i \in 1..Len(stream[s].wire) : stream[s].wire[i] \in Frames
  BY <1>2, LenProperties, ElementOfSeq
<1>4. QED
  BY <1>1, <1>2, <1>3 DEF Frames

\* Only the state of the stream changes: it serves, or is on its way out.
LEMMA StateInv ==
    ASSUME Inv, NEW s \in Streams, NEW d \in Channels, stream' = [stream EXCEPT ![s] = d],
           stream[s].pc # "free", d.pc \in {"serving", "leaving"}, stream[s].todo = {},
           d.todo = {}, d.watches = stream[s].watches, d.ch = stream[s].ch,
           d.wire = stream[s].wire, d.dead = stream[s].dead,
           UNCHANGED <<manager, terminals, windows, left>>
    PROVE  Inv'
<1>1. /\ stream'[s] = d /\ UNCHANGED <<opening, open, going, closing, started, closed, written, kept, watched,
                       exited, view, current, left, readers>>
  BY DEF Inv, Typed, TypedStreams, manager, terminals, windows
<1>2. Attaches(s) /\ Len(d.ch) <= StreamBuffer /\ readers \in [Ids -> SUBSET Streams]
  BY StreamTyped DEF Inv, Typed, TypedShells
<1>3. Attaches(s)'
  BY <1>1, <1>2 DEF Attaches
<1>4. ASSUME NEW w \in Windows, current[w] = s PROVE Hears(w, s)'
  <2>1. Hears(w, s)
    BY <1>4, Constants DEF Inv, Listening
  <2>2. ASSUME NEW u \in Ids PROVE Coming(w, u, s)'
    <3>1. Coming(w, u, s)
      BY <2>1 DEF Hears
    <3>2. Asked(s)' = Asked(s)
      BY <1>1 DEF Asked
    <3>3. QED
      BY <1>1, <3>1, <3>2 DEF Coming
  <2>3. QED
    BY <1>1, <2>1, <2>2 DEF Hears
<1>5. QED
  BY <1>1, <1>2, <1>3, <1>4, OneStream

\* A stream that has caught up with all terminals serves.
LEMMA AttachedInv == ASSUME Inv, NEW s \in Streams, Attached(s) PROVE Inv'
<1>1. stream[s] \in Channels
  BY StreamTyped
<1>2. PICK d : d = [stream[s] EXCEPT !.pc = "serving"]
  OBVIOUS
<1>3. stream' = [stream EXCEPT ![s] = d]
  BY <1>2 DEF Attached
<1>4. /\ d \in Channels /\ d.pc = "serving" /\ d.todo = stream[s].todo
      /\ d.watches = stream[s].watches /\ d.ch = stream[s].ch /\ d.wire = stream[s].wire
      /\ d.dead = stream[s].dead
  BY <1>1, <1>2 DEF Channels
<1>5. QED
  BY <1>3, <1>4, StateInv DEF Attached

\* A stream that is over delivers what it has already written.
LEMMA LeftInv ==
    ASSUME Inv, NEW s \in Streams, stream[s].pc = "serving",
           stream' = [stream EXCEPT ![s].pc = "leaving", ![s].over = TRUE],
           UNCHANGED <<manager, terminals, windows, left>>
    PROVE  Inv'
<1>1. stream[s] \in Channels /\ stream[s].todo = {}
  BY StreamTyped DEF Attaches
<1>2. PICK d : d = [stream[s] EXCEPT !.pc = "leaving", !.over = TRUE]
  OBVIOUS
<1>3. stream' = [stream EXCEPT ![s] = d]
  BY <1>2 DEF Inv, Typed, TypedStreams
<1>4. /\ d \in Channels /\ d.pc = "leaving" /\ d.todo = stream[s].todo
      /\ d.watches = stream[s].watches /\ d.ch = stream[s].ch /\ d.wire = stream[s].wire
      /\ d.dead = stream[s].dead
  BY <1>1, <1>2 DEF Channels
<1>5. QED
  BY <1>1, <1>3, <1>4, StateInv

\* Nothing is lost or told twice between the queue and the wire.
LEMMA FlushedInv ==
    ASSUME Inv, NEW s \in Streams, stream[s].pc = "serving",
           stream' = [stream EXCEPT ![s].ch = <<>>,
                            ![s].wire = @ \o Coalesce(stream[s].ch),
                            ![s].pc = IF stream[s].dead THEN "leaving" ELSE @,
                            ![s].over = stream[s].dead],
           UNCHANGED <<manager, terminals, windows, left>>
    PROVE  Inv'
<1>1. /\ stream[s] \in Channels /\ Attaches(s) /\ stream[s].ch \in Seq(Frames)
      /\ stream[s].wire \in Seq(Frames) /\ stream[s].todo = {} /\ stream[s].dead \in BOOLEAN
      /\ Len(stream[s].wire) \in Nat
  BY StreamTyped DEF Attaches, Channels
<1>2. PICK d : d = [stream[s] EXCEPT !.ch = <<>>, !.wire = @ \o Coalesce(stream[s].ch),
                                     !.pc = IF stream[s].dead THEN "leaving" ELSE @,
                                     !.over = stream[s].dead]
  OBVIOUS
<1>3. stream' = [stream EXCEPT ![s] = d]
  BY <1>2 DEF Inv, Typed, TypedStreams
<1>4. PICK P : P = {stream[s].ch[i].id : i \in 1..Len(stream[s].ch)}
                     \cup {stream[s].wire[i].id : i \in 1..Len(stream[s].wire)}
  OBVIOUS
<1>5. PICK G \in Seq(Frames) : G = Coalesce(stream[s].ch) /\ \A i \in 1..Len(G) : G[i].id \in P
  <2>1. \A i \in 1..Len(stream[s].ch) : stream[s].ch[i].id \in P
    BY <1>4
  <2>2. QED
    BY <1>1, <2>1, CoalescedTyped
<1>6. PICK H \in Seq(Frames) : H = stream[s].wire \o G /\ \A i \in 1..Len(H) : H[i].id \in P
  <2>1. /\ stream[s].wire \o G \in Seq(Frames) /\ Len(G) \in Nat
        /\ Len(stream[s].wire \o G) = Len(stream[s].wire) + Len(G)
        /\ \A i \in 1..Len(stream[s].wire) + Len(G) :
              (stream[s].wire \o G)[i] = IF i <= Len(stream[s].wire) THEN stream[s].wire[i]
                                         ELSE G[i - Len(stream[s].wire)]
    BY <1>1, ConcatProperties, LenProperties
  <2>2. \A i \in 1..Len(stream[s].wire) + Len(G) :
           \/ i \in 1..Len(stream[s].wire) /\ i <= Len(stream[s].wire)
           \/ i - Len(stream[s].wire) \in 1..Len(G) /\ ~(i <= Len(stream[s].wire))
    BY <1>1, <2>1
  <2>3. \A i \in 1..Len(stream[s].wire \o G) :
           \/ \E k \in 1..Len(stream[s].wire) : (stream[s].wire \o G)[i] = stream[s].wire[k]
           \/ \E k \in 1..Len(G) : (stream[s].wire \o G)[i] = G[k]
    BY <2>1, <2>2
  <2>4. \A i \in 1..Len(stream[s].wire) : stream[s].wire[i].id \in P
    BY <1>4
  <2>5. QED
    BY <1>5, <2>1, <2>3, <2>4
<1>7. /\ d \in Channels /\ d.pc \in {"serving", "leaving"} /\ d.todo = {}
      /\ d.watches = stream[s].watches /\ d.ch = <<>> /\ d.wire = H /\ d.dead = stream[s].dead
  <2>1. <<>> \in Seq(Frames)
    OBVIOUS
  <2>2. d = [stream[s] EXCEPT !.ch = <<>>, !.wire = H,
                              !.pc = IF stream[s].dead THEN "leaving" ELSE "serving",
                              !.over = stream[s].dead]
    BY <1>1, <1>2, <1>5, <1>6
  <2>3. QED
    BY <1>1, <2>1, <2>2 DEF Channels
<1>8. /\ stream'[s] = d /\ stream'[s].wire = H /\ stream'[s].ch = <<>>
      /\ stream'[s].dead = stream[s].dead
  BY <1>3, <1>7 DEF Inv, Typed, TypedStreams
<1>9. Len(d.ch) = 0 /\ Len(stream'[s].ch) = 0 /\ 0 <= StreamBuffer
  <2>1. Len(<<>>) = 0
    OBVIOUS
  <2>2. QED
    BY <1>7, <1>8, <2>1, Constants
<1>10. /\ UNCHANGED <<opening, open, going, closing, started, closed, written, kept, watched,
                      exited, view, current, left, readers>>
       /\ readers \in [Ids -> SUBSET Streams]
  BY DEF Inv, Typed, TypedShells, manager, terminals, windows
<1>11. Attaches(s)'
  <2>1. \A x \in P : watched[x]
    BY <1>1, <1>4 DEF Attaches
  <2>2. \A i \in 1..Len(H) : watched[H[i].id]
    BY <1>6, <2>1
  <2>3. /\ stream'[s].pc # "free" /\ stream'[s].pc # "attaching" /\ stream'[s].todo = {}
        /\ stream'[s].watches = stream[s].watches
    BY <1>7, <1>8
  <2>4. \A i \in 1..Len(stream'[s].ch) : FALSE
    BY <1>9
  <2>5. QED
    BY <1>1, <1>8, <1>10, <2>2, <2>3, <2>4 DEF Attaches
<1>12. ASSUME NEW w \in Windows, current[w] = s PROVE Hears(w, s)'
  <2>1. Hears(w, s)
    BY <1>12, Constants DEF Inv, Listening
  <2>2. \A i \in 1..Len(H) : view[w][H[i].id].on
    <3>1. \A x \in P : view[w][x].on
      BY <1>4, <2>1 DEF Hears
    <3>2. QED
      BY <1>6, <3>1
  <2>3. ASSUME NEW u \in Ids PROVE Coming(w, u, s)'
    <3>1. PICK b, live : b = view[w][u].at /\ live = view[w][u].live
      OBVIOUS
    <3>2. PICK m \in Nat, z \in Nat :
            /\ Leads(u, stream[s].wire, b, m, written[u], exited[u], live)
            /\ Leads(u, stream[s].ch, m, z, written[u], exited[u], live)
            /\ s \in readers[u] /\ ~stream[s].dead => z = written[u]
      BY <2>1, <3>1 DEF Hears, Coming
    <3>3. live \in Seq(Nat) /\ written[u] \in Nat
      BY <3>1 DEF Inv, Typed, TypedShells, TypedWindows, Pictures
    <3>4. Leads(u, G, m, z, written[u], exited[u], live)
      BY <1>1, <1>5, <3>2, <3>3, LeadsCoalesced
    <3>5. Leads(u, H, b, z, written[u], exited[u], live)
      BY <1>1, <1>6, <3>2, <3>4, LeadsJoin
    <3>6. Leads(u, <<>>, z, z, written[u], exited[u], live)
      BY LeadsNowhere
    <3>7. Asked(s)' = {}
      BY <1>7, <1>8 DEF Asked
    <3>8. QED
      BY <1>8, <1>10, <3>1, <3>2, <3>5, <3>6, <3>7 DEF Coming
  <2>4. /\ stream'[s].pc # "free" /\ stream'[s].todo = {}
        /\ stream'[s].watches = stream[s].watches
    BY <1>7, <1>8
  <2>5. \A i \in 1..Len(stream'[s].ch) : FALSE
    BY <1>9
  <2>6. QED
    BY <1>8, <1>10, <2>1, <2>2, <2>3, <2>4, <2>5 DEF Hears
<1>13. QED
  <2>1. Len(d.ch) <= StreamBuffer /\ readers' \in [Ids -> SUBSET Streams] /\ \A u \in Ids : readers'[u] \subseteq readers[u]
    BY <1>9, <1>10
  <2>2. QED
    BY <1>3, <1>7, <1>10, <1>11, <1>12, <2>1, OneStream

\* detach from one terminal, and the end of the stream.
LEMMA DetachInv == ASSUME Inv, NEW s \in Streams, Detach(s) PROVE Inv'
<1>1. /\ stream[s] \in Channels /\ Attaches(s) /\ Len(stream[s].ch) <= StreamBuffer
      /\ stream[s].pc = "leaving" /\ stream[s].todo = {} /\ readers \in [Ids -> SUBSET Streams]
      /\ UNCHANGED <<opening, open, going, closing, started, closed, written, kept, watched,
                     exited, view, current, left>>
  BY StreamTyped DEF Detach, Attaches, manager, windows, Inv, Typed, TypedShells
<1>2. ASSUME NEW t \in stream[s].watches, readers' = [readers EXCEPT ![t] = @ \ {s}],
             stream' = [stream EXCEPT ![s].watches = @ \ {t}]
      PROVE  Inv'
  <2>1. PICK d : d = [stream[s] EXCEPT !.watches = @ \ {t}]
    OBVIOUS
  <2>2. /\ d \in Channels /\ d.pc = "leaving" /\ d.todo = {} /\ d.watches = stream[s].watches \ {t}
        /\ d.ch = stream[s].ch /\ d.wire = stream[s].wire /\ d.dead = stream[s].dead
    BY <1>1, <2>1 DEF Channels
  <2>3. stream' = [stream EXCEPT ![s] = d] /\ stream'[s] = d
    BY <1>2, <2>1 DEF Inv, Typed, TypedStreams
  <2>4. t \in Ids
    BY <1>1, StreamTyped
  <2>5. /\ readers' \in [Ids -> SUBSET Streams] /\ \A u \in Ids : readers'[u] \subseteq readers[u]
        /\ s \notin readers'[t]
    BY <1>1, <1>2, <2>4
  <2>6. Attaches(s)'
    BY <1>1, <2>2, <2>3, <2>5 DEF Attaches
  <2>7. ASSUME NEW w \in Windows, current[w] = s PROVE Hears(w, s)'
    <3>1. Hears(w, s)
      BY <2>7, Constants DEF Inv, Listening
    <3>2. ASSUME NEW u \in Ids PROVE Coming(w, u, s)'
      <4>1. Coming(w, u, s) /\ (s \in readers'[u] => s \in readers[u])
        BY <2>5, <3>1 DEF Hears
      <4>2. Asked(s)' = Asked(s)
        BY <1>1, <2>2, <2>3 DEF Asked
      <4>3. QED
        BY <1>1, <2>2, <2>3, <4>1, <4>2 DEF Coming
    <3>3. QED
      BY <1>1, <2>2, <2>3, <3>1, <3>2 DEF Hears
  <2>8. Len(d.ch) <= StreamBuffer
    BY <1>1, <2>2
  <2>9. QED
    BY <1>1, <2>2, <2>3, <2>5, <2>6, <2>7, <2>8, OneStream
<1>3. ASSUME stream[s].watches = {}, ~Listened(s), stream' = [stream EXCEPT ![s] = Idle],
             readers' = readers
      PROVE  Inv'
  <2>1. stream'[s] = Idle /\ Idle \in Channels /\ Len(Idle.ch) <= StreamBuffer
    BY <1>3, IdleTyped, Constants DEF Inv, Typed, TypedStreams
  <2>2. \A u \in Ids : s \notin readers[u]
    BY <1>1, <1>3 DEF Attaches
  <2>3. Attaches(s)'
    BY <1>3, <2>1, <2>2 DEF Attaches, Idle
  <2>4. \A w \in Windows : current[w] # s
    BY <1>3 DEF Listened
  <2>5. QED
    BY <1>1, <1>3, <2>1, <2>3, <2>4, OneStream
<1>4. QED
  BY <1>2, <1>3 DEF Detach

\* What waited is on the wire, joined.
LEMMA FlushInv == ASSUME Inv, NEW s \in Streams, Flush(s) PROVE Inv'
BY FlushedInv, LeftInv DEF Flush

\* A stream that nobody listens to writes nothing more.
LEMMA AbandonInv == ASSUME Inv, NEW s \in Streams, Abandon(s) PROVE Inv'
BY LeftInv DEF Abandon
-----------------------------------------------------------------------------
(* A window connects                                                        *)

\* A new stream is nobody's, and is asked for what each view has not drawn.
LEMMA ConnectInv ==
    ASSUME Inv, NEW w \in Windows, NEW v \in [Ids -> Pictures],
           \A t \in Ids : Screen(v[t], t) /\ Answers(v[t], t),
           view' = [view EXCEPT ![w] = v], Connect(w, v), left' \in [Kinds -> Nat],
           UNCHANGED <<manager, terminals>>
    PROVE  Inv'
<1>1. /\ UNCHANGED <<opening, open, going, closing, started, closed, written, kept, readers,
                     watched, exited>>
      /\ view \in [Windows -> [Ids -> Pictures]] /\ current \in [Windows -> Streams \cup {0}]
      /\ stream \in [Streams -> Channels] /\ TypedShells
  BY DEF manager, terminals, Inv, Typed, TypedWindows, TypedStreams
<1>2. /\ view' \in [Windows -> [Ids -> Pictures]] /\ view'[w] = v
      /\ \A x \in Windows : x # w => view'[x] = view[x]
  BY <1>1
<1>3. Views'
  <2> SUFFICES ASSUME NEW x \in Windows, NEW t \in Ids
               PROVE  Screen(view[x][t], t)' /\ Answers(view[x][t], t)'
    BY DEF Views
  <2>1. Screen(view'[x][t], t) /\ Answers(view'[x][t], t)
    <3>1. CASE x = w
      BY <1>2, <3>1
    <3>2. CASE x # w
      BY <1>2, <3>2 DEF Inv, Views
    <3>3. QED
      BY <3>1, <3>2
  <2>2. QED
    BY <1>1, <2>1 DEF Screen, Answers
<1>4. TypedShells' /\ Scrolled'
  BY <1>1 DEF Inv, TypedShells, Scrolled
<1>5. PICK asked : asked = {[id |-> t, from |-> Reached(v[t])] : t \in {u \in Ids : v[u].on}}
  OBVIOUS
<1>6. \/ current' = [current EXCEPT ![w] = 0] /\ stream' = stream
      \/ \E s \in Streams :
            /\ stream[s] = Idle
            /\ stream' = [stream EXCEPT ![s] = [Idle EXCEPT !.pc = "attaching", !.todo = asked]]
            /\ current' = [current EXCEPT ![w] = s]
  BY <1>5 DEF Connect
\* The other windows.
<1>7. ASSUME NEW x \in Windows, NEW r \in Streams, current[x] = r, current'[x] = r, x # w,
             stream'[r] = stream[r]
      PROVE  Hears(x, r)'
  <2>1. Hears(x, r) /\ view'[x] = view[x]
    BY <1>2, <1>7, Constants DEF Inv, Listening
  <2>2. ASSUME NEW u \in Ids PROVE Coming(x, u, r)'
    <3>1. Coming(x, u, r)
      BY <2>1 DEF Hears
    <3>2. Asked(r)' = Asked(r)
      BY <1>7 DEF Asked
    <3>3. QED
      BY <1>1, <1>7, <2>1, <3>1, <3>2 DEF Coming
  <2>3. QED
    BY <1>7, <2>1, <2>2 DEF Hears
<1>8. CASE current' = [current EXCEPT ![w] = 0] /\ stream' = stream
  <2>1. /\ current'[w] = 0 /\ \A x \in Windows : x # w => current'[x] = current[x]
        /\ current' \in [Windows -> Streams \cup {0}]
    BY <1>1, <1>8
  <2>2. TypedStreams' /\ Room' /\ Attachment'
    BY <1>1, <1>8 DEF Inv, Typed, TypedStreams, Room, Attachment, Attaches
  <2>3. Alone'
    BY <1>1, <2>1 DEF Inv, Alone
  <2>4. Listening'
    <3> SUFFICES ASSUME NEW x \in Windows, current'[x] # 0 PROVE Hears(x, current[x])'
      BY DEF Listening
    <3>1. PICK r \in Streams : r = current'[x]
      BY <2>1
    <3>2. current[x] = r /\ x # w /\ stream'[r] = stream[r]
      BY <1>8, <2>1, <3>1
    <3>3. Hears(x, r)'
      BY <1>7, <3>1, <3>2
    <3>4. QED
      BY <3>1, <3>3 DEF Hears
  <2>5. QED
    BY <1>2, <1>3, <1>4, <2>1, <2>2, <2>3, <2>4 DEF Inv, Typed, TypedWindows
<1>9. ASSUME NEW s \in Streams, stream[s] = Idle,
             stream' = [stream EXCEPT ![s] = [Idle EXCEPT !.pc = "attaching", !.todo = asked]],
             current' = [current EXCEPT ![w] = s]
      PROVE  Inv'
  <2>1. /\ current'[w] = s /\ \A x \in Windows : x # w => current'[x] = current[x]
        /\ current' \in [Windows -> Streams \cup {0}]
    BY <1>1, <1>9
  <2>2. PICK d : d = [Idle EXCEPT !.pc = "attaching", !.todo = asked]
    OBVIOUS
  <2>3. \A a \in asked : a \in Watches /\ v[a.id].on /\ a.from = v[a.id].at
    <3> SUFFICES ASSUME NEW t \in Ids, v[t].on
                 PROVE  LET a == [id |-> t, from |-> Reached(v[t])] IN
                        a \in Watches /\ v[a.id].on /\ a.from = v[a.id].at
      BY <1>5
    <3>1. v[t].at \in Nat
      BY DEF Pictures
    <3>2. QED
      BY <3>1 DEF Reached, Watches
  <2>4. \A a, b \in asked : a.id = b.id => a = b
    BY <1>5
  <2>5. /\ d \in Channels /\ d.pc = "attaching" /\ d.todo = asked /\ d.watches = {}
        /\ d.ch = <<>> /\ d.wire = <<>> /\ ~d.dead
    <3>1. asked \in SUBSET Watches
      BY <2>3
    <3>2. Idle \in Channels /\ Idle.watches = {} /\ Idle.ch = <<>> /\ Idle.wire = <<>> /\ ~Idle.dead
      BY IdleTyped DEF Idle
    <3>3. QED
      BY <2>2, <3>1, <3>2 DEF Channels
  <2>6. /\ stream'[s] = d /\ \A r \in Streams : r # s => stream'[r] = stream[r]
        /\ Len(d.ch) = 0 /\ Len(d.wire) = 0
    <3>1. Len(<<>>) = 0
      OBVIOUS
    <3>2. QED
      BY <1>1, <1>9, <2>2, <2>5, <3>1
  <2>7. stream[s].pc = "free" /\ \A u \in Ids : s \notin readers[u]
    <3>1. Idle.pc = "free" /\ Idle.watches = {}
      BY DEF Idle
    <3>2. QED
      BY <1>9, <3>1, StreamTyped DEF Attaches
  <2>8. \A x \in Windows : current[x] # s
    <3> SUFFICES ASSUME NEW x \in Windows, current[x] = s PROVE FALSE
      OBVIOUS
    <3>1. Hears(x, s)
      BY Constants DEF Inv, Listening
    <3>2. QED
      BY <2>7, <3>1 DEF Hears
  <2>9. TypedStreams' /\ Room'
    <3>1. stream' \in [Streams -> Channels]
      BY <1>1, <1>9, <2>2, <2>5
    <3>2. \A r \in Streams : Len(stream'[r].ch) <= StreamBuffer
      <4> TAKE r \in Streams
      <4>1. CASE r = s
        <5>1. Len(stream'[r].ch) = 0
          BY <2>6, <4>1
        <5>2. QED
          BY <5>1, Constants
      <4>2. CASE r # s
        BY <2>6, <4>2, StreamTyped
      <4>3. QED
        BY <4>1, <4>2
    <3>3. QED
      BY <3>1, <3>2 DEF TypedStreams, Room
  <2>10. Attachment'
    <3> SUFFICES ASSUME NEW r \in Streams PROVE Attaches(r)'
      BY DEF Attachment
    <3>1. CASE r = s
      BY <1>1, <2>3, <2>4, <2>5, <2>6, <2>7, <3>1 DEF Attaches
    <3>2. CASE r # s
      <4>1. Attaches(r) /\ stream'[r] = stream[r]
        BY <2>6, <3>2 DEF Inv, Attachment
      <4>2. QED
        BY <1>1, <4>1 DEF Attaches
    <3>3. QED
      BY <3>1, <3>2
  <2>11. Alone'
    BY <1>1, <2>1, <2>8 DEF Inv, Alone
  <2>12. Hears(w, s)'
    <3>1. ASSUME NEW u \in Ids PROVE Coming(w, u, s)'
      <4>1. v[u].at \in Nat
        BY DEF Pictures
      <4>2. Leads(u, <<>>, v[u].at, v[u].at, written[u], exited[u], v[u].live)
        BY <4>1, LeadsNowhere
      <4>3. s \notin readers'[u]
        BY <1>1, <2>7
      <4>4. QED
        BY <1>1, <1>2, <2>5, <2>6, <4>1, <4>2, <4>3 DEF Coming
    <3>2. QED
      BY <1>2, <2>3, <2>5, <2>6, <3>1 DEF Hears
  <2>13. Listening'
    <3> SUFFICES ASSUME NEW x \in Windows, current'[x] # 0 PROVE Hears(x, current[x])'
      BY DEF Listening
    <3>1. PICK r \in Streams : r = current'[x]
      BY <2>1
    <3>2. Hears(x, r)'
      <4>1. CASE x = w
        BY <2>1, <2>12, <3>1, <4>1
      <4>2. CASE x # w
        <5>1. current[x] = r /\ r # s
          BY <2>1, <2>8, <3>1, <4>2
        <5>2. QED
          BY <1>7, <2>6, <3>1, <4>2, <5>1
      <4>3. QED
        BY <4>1, <4>2
    <3>3. QED
      BY <3>1, <3>2 DEF Hears
  <2>14. QED
    BY <1>2, <1>3, <1>4, <2>1, <2>9, <2>10, <2>11, <2>13 DEF Inv, Typed, TypedWindows
<1>10. QED
  BY <1>6, <1>8, <1>9

\* What the invariant says of the views of one window.
LEMMA WindowTyped ==
    ASSUME Inv, NEW w \in Windows
    PROVE  /\ view[w] \in [Ids -> Pictures] /\ view = [view EXCEPT ![w] = view[w]]
           /\ \A t \in Ids : Screen(view[w][t], t) /\ Answers(view[w][t], t)
           /\ left \in [Kinds -> Nat]
BY DEF Inv, Typed, TypedShells, TypedWindows, Views

\* A view that opens has its window listen anew.
LEMMA WatchInv == ASSUME Inv, NEW w \in Windows, NEW t \in Ids, Watch(w, t) PROVE Inv'
<1>1. PICK v : /\ v = [view[w] EXCEPT ![t].on = TRUE]
               /\ view' = [view EXCEPT ![w] = v] /\ Connect(w, v)
  BY DEF Watch
<1>2. Spend("watch") /\ UNCHANGED <<manager, terminals>>
  BY DEF Watch
<1>3. /\ v \in [Ids -> Pictures] /\ \A u \in Ids : u # t => v[u] = view[w][u]
      /\ v[t] = [view[w][t] EXCEPT !.on = TRUE]
  <2>1. PICK o : o = [view[w][t] EXCEPT !.on = TRUE]
    OBVIOUS
  <2>2. view[w] \in [Ids -> Pictures]
    BY WindowTyped
  <2>3. o \in Pictures
    BY <2>1, <2>2 DEF Pictures
  <2>4. v = [view[w] EXCEPT ![t] = o]
    BY <1>1, <2>1
  <2>5. QED
    BY <2>1, <2>2, <2>3, <2>4
<1>4. \A u \in Ids : Screen(v[u], u) /\ Answers(v[u], u)
  <2> SUFFICES ASSUME NEW u \in Ids PROVE Screen(v[u], u) /\ Answers(v[u], u)
    OBVIOUS
  <2>1. Screen(view[w][u], u) /\ Answers(view[w][u], u) /\ view[w][u] \in Pictures
    BY WindowTyped
  <2>2. v[u].at = view[w][u].at /\ v[u].screen = view[w][u].screen /\ v[u].live = view[w][u].live
        /\ v[u].told = view[w][u].told /\ (~v[u].on => ~view[w][u].on)
    BY <1>3, <2>1 DEF Pictures
  <2>3. QED
    BY <2>1, <2>2 DEF Screen, Answers
<1>5. left' \in [Kinds -> Nat]
  BY <1>2, SpendTyped DEF Kinds, Inv, Typed
<1>6. QED
  BY <1>1, <1>2, <1>3, <1>4, <1>5, ConnectInv

\* A view that closes forgets what it showed.
LEMMA UnwatchInv == ASSUME Inv, NEW w \in Windows, NEW t \in Ids, Unwatch(w, t) PROVE Inv'
<1>1. PICK v : /\ v = [view[w] EXCEPT ![t] = [Unseen EXCEPT !.live = view[w][t].live]]
               /\ view' = [view EXCEPT ![w] = v] /\ Connect(w, v)
  BY DEF Unwatch
<1>2. UNCHANGED <<manager, terminals, left>>
  BY DEF Unwatch
<1>3. PICK n : n = [Unseen EXCEPT !.live = view[w][t].live]
  OBVIOUS
<1>4. view[w][t] \in Pictures /\ view[w] \in [Ids -> Pictures]
  BY WindowTyped
<1>5. /\ n \in Pictures /\ ~n.on /\ n.at = 0 /\ n.screen = <<>> /\ n.live = view[w][t].live /\ ~n.told
  <2>1. <<>> \in Seq(Nat) /\ view[w][t].live \in Seq(Nat)
    BY <1>4 DEF Pictures
  <2>2. n = [on |-> FALSE, at |-> 0, screen |-> <<>>, live |-> view[w][t].live, told |-> FALSE]
    BY <1>3 DEF Unseen
  <2>3. QED
    BY <2>1, <2>2 DEF Pictures
<1>6. /\ v \in [Ids -> Pictures] /\ \A u \in Ids : u # t => v[u] = view[w][u]
      /\ v[t] = n
  BY <1>1, <1>3, <1>4, <1>5
<1>7. \A u \in Ids : Screen(v[u], u) /\ Answers(v[u], u)
  <2> SUFFICES ASSUME NEW u \in Ids PROVE Screen(v[u], u) /\ Answers(v[u], u)
    OBVIOUS
  <2>1. Screen(view[w][u], u) /\ Answers(view[w][u], u)
    BY WindowTyped
  <2>2. CASE u = t
    <3>1. Bytes(0, 0) = <<>> /\ Len(<<>>) = 0 /\ 0 - 0 = 0
      BY BytesAre
    <3>2. Least(0, Scrollback) = 0
      BY Constants DEF Least
    <3>3. written[t] \in Nat
      BY DEF Inv, Typed, TypedShells
    <3>4. Screen(n, t)
      BY <1>5, <3>1, <3>2, <3>3 DEF Screen
    <3>5. Answers(n, t)
      BY <1>5, <2>1, <2>2 DEF Answers
    <3>6. QED
      BY <1>6, <2>2, <3>4, <3>5
  <2>3. CASE u # t
    BY <1>6, <2>1, <2>3
  <2>4. QED
    BY <2>2, <2>3
<1>8. left' \in [Kinds -> Nat]
  BY <1>2, WindowTyped
<1>9. QED
  BY <1>1, <1>2, <1>6, <1>7, <1>8, ConnectInv

\* A window that connects again asks for what follows what it shows.
LEMMA ReconnectInv == ASSUME Inv, NEW w \in Windows, Reconnect(w) \/ Break(w) PROVE Inv'
<1>1. Connect(w, view[w]) /\ UNCHANGED <<manager, terminals, view>>
  BY DEF Reconnect, Break
<1>2. left' \in [Kinds -> Nat]
  BY WindowTyped, SpendTyped DEF Reconnect, Break, Kinds, Inv, Typed
<1>3. view' = [view EXCEPT ![w] = view[w]]
  BY <1>1, WindowTyped
<1>4. QED
  BY <1>1, <1>2, <1>3, WindowTyped, ConnectInv

-----------------------------------------------------------------------------
(* A window draws                                                           *)

\* A frame that follows what is shown is drawn: the picture stays a run of the output,
\* and a byte is answered at most once.
LEMMA DrawnIsTrue ==
    ASSUME Inv, NEW t \in Ids, NEW v \in Pictures, Screen(v, t), Answers(v, t), v.on, watched[t],
           NEW f \in Frames, Right(f, v.at, written[t], exited[t], v.live)
    PROVE  LET d == Drawn(v, f) IN
           /\ d \in Pictures /\ d.on /\ d.at = f.at /\ (v.at > 0 => f.at > 0)
           /\ d.live = v.live \/ f.at > 0
           /\ Screen(d, t) /\ Answers(d, t)
<1>1. /\ written[t] \in Nat /\ v.at \in Nat /\ v.screen \in Seq(Nat) /\ v.live \in Seq(Nat)
      /\ f.at \in Nat /\ f.data \in Seq(Nat) /\ Len(v.screen) \in Nat /\ Len(v.live) \in Nat
      /\ Len(f.data) \in Nat /\ Scrollback \in Nat
  BY Constants, LenProperties DEF Inv, Typed, TypedShells, Pictures, Frames
<1>2. /\ Len(v.screen) <= v.at /\ v.screen = Bytes(v.at - Len(v.screen), v.at)
      /\ Least(v.at, Scrollback) <= Len(v.screen) /\ v.at <= written[t]
      /\ v.told => exited[t] /\ v.at = written[t]
  BY DEF Screen
<1>3. /\ IsInjective(v.live)
      /\ \A i \in 1..Len(v.live) : 0 < v.live[i] /\ v.live[i] <= written[t]
      /\ v.at > 0 => \A i \in 1..Len(v.live) : v.live[i] <= v.at
  BY DEF Answers
<1>4. f.at <= written[t]
  BY DEF Right
<1>5. CASE f.data = <<>>
  <2>1. f.exit /\ f.at = v.at /\ v.at = written[t] /\ exited[t]
    BY <1>5 DEF Right
  <2>2. PICK d : d = [v EXCEPT !.at = f.at, !.told = TRUE]
    OBVIOUS
  <2>3. Drawn(v, f) = d
    BY <1>5, <2>1, <2>2 DEF Drawn
  <2>4. /\ d \in Pictures /\ d.on /\ d.at = v.at /\ d.screen = v.screen /\ d.live = v.live
    BY <1>1, <2>1, <2>2 DEF Pictures
  <2>5. Screen(d, t)
    BY <1>2, <2>1, <2>4 DEF Screen
  <2>6. Answers(d, t)
    BY <2>4 DEF Answers
  <2>7. QED
    BY <2>1, <2>3, <2>4, <2>5, <2>6
<1>6. CASE f.data # <<>>
  <2>1. /\ ~f.exit /\ v.at < f.at /\ Len(f.data) <= f.at
        /\ f.data = Bytes(f.at - Len(f.data), f.at)
        /\ IF f.reset THEN Least(f.at, Scrollback) <= Len(f.data) ELSE Len(f.data) = f.at - v.at
        /\ v.at # 0 /\ ~f.replay => ~f.reset
        /\ v.at = 0 => \A i \in 1..Len(v.live) : v.live[i] <= f.at
        /\ v.at = 0 /\ ~f.replay => v.live = <<>>
    BY <1>6 DEF Right
  <2>2. PICK scr \in Seq(Nat) : scr = IF f.reset THEN f.data ELSE v.screen \o f.data
    BY <1>1, ConcatProperties
  <2>3. PICK live \in Seq(Nat) : live = IF f.replay THEN v.live ELSE v.live \o f.data
    BY <1>1, ConcatProperties
  <2>4. PICK d : d = [v EXCEPT !.at = f.at, !.screen = scr, !.live = live]
    OBVIOUS
  <2>5. Drawn(v, f) = d
    BY <1>6, <2>2, <2>3, <2>4 DEF Drawn
  <2>6. d \in Pictures /\ d.on /\ d.at = f.at /\ d.screen = scr /\ d.live = live /\ d.told = v.told
    BY <1>1, <2>4 DEF Pictures
  <2>7. Len(scr) <= f.at /\ scr = Bytes(f.at - Len(scr), f.at) /\ Least(f.at, Scrollback) <= Len(scr)
    <3>1. CASE f.reset
      BY <2>1, <2>2, <3>1
    <3>2. CASE ~f.reset
      <4>1. PICK old \in Nat : old = v.at - Len(v.screen) /\ old <= v.at
        BY <1>1, <1>2
      <4>2. Len(f.data) = f.at - v.at /\ f.at - Len(f.data) = v.at
        BY <1>1, <2>1, <3>2
      <4>3. f.data = Bytes(v.at, f.at) /\ v.screen = Bytes(old, v.at)
        BY <1>2, <2>1, <4>1, <4>2
      <4>4. v.at <= f.at
        BY <1>1, <2>1
      <4>5. scr = Bytes(old, f.at)
        <5>1. Bytes(old, v.at) \o Bytes(v.at, f.at) = Bytes(old, f.at)
          BY <1>1, <4>1, <4>4, BytesJoin
        <5>2. scr = v.screen \o f.data
          BY <2>2, <3>2
        <5>3. QED
          BY <4>3, <5>1, <5>2
      <4>6. Len(scr) = Len(v.screen) + (f.at - v.at)
        <5>1. Len(v.screen \o f.data) = Len(v.screen) + Len(f.data)
          BY <1>1, ConcatProperties
        <5>2. QED
          BY <2>2, <3>2, <4>2, <5>1
      <4>7. f.at - Len(scr) = old /\ Len(scr) <= f.at
        BY <1>1, <4>1, <4>6
      <4>8. Least(f.at, Scrollback) <= Len(scr)
        <5>1. PICK n \in Nat, x \in Nat, y \in Nat :
                n = Len(v.screen) /\ x = v.at /\ y = f.at
          BY <1>1
        <5>2. Least(x, Scrollback) <= n /\ x <= y
          BY <1>2, <4>4, <5>1
        <5>3. Least(y, Scrollback) <= n + (y - x)
          BY <1>1, <5>1, <5>2 DEF Least
        <5>4. QED
          BY <4>6, <5>1, <5>3
      <4>9. QED
        BY <4>5, <4>7, <4>8
    <3>3. QED
      BY <3>1, <3>2
  <2>8. ~v.told
    BY <1>1, <1>2, <1>4, <2>1
  <2>9. Screen(d, t)
    BY <1>4, <2>6, <2>7, <2>8 DEF Screen
  <2>10. /\ IsInjective(live)
         /\ \A i \in 1..Len(live) : 0 < live[i] /\ live[i] <= f.at
    <3>1. \A i \in 1..Len(v.live) : v.live[i] \in Nat
      BY <1>1, ElementOfSeq
    <3>2. \A i \in 1..Len(v.live) : 0 < v.live[i] /\ v.live[i] <= f.at
      <4>1. CASE v.at = 0
        BY <1>3, <2>1, <4>1
      <4>2. CASE v.at > 0
        <5> TAKE i \in 1..Len(v.live)
        <5>1. v.live[i] <= v.at /\ 0 < v.live[i] /\ v.live[i] \in Nat
          BY <1>3, <3>1, <4>2
        <5>2. QED
          BY <1>1, <2>1, <5>1
      <4>3. QED
        BY <1>1, <4>1, <4>2
    <3>3. CASE f.replay
      <4>1. live = v.live
        BY <2>3, <3>3
      <4>2. QED
        BY <1>3, <3>2, <4>1
    <3>4. CASE ~f.replay
      <4>1. PICK n \in Nat, k \in Nat, a \in Nat :
              n = Len(v.live) /\ k = Len(f.data) /\ a = f.at - Len(f.data) /\ f.at = a + k
        BY <1>1, <2>1
      <4>2. \A i \in 1..n : v.live[i] \in Nat /\ 0 < v.live[i] /\ v.live[i] <= a
        <5>1. CASE v.at = 0
          <6>1. Len(v.live) = 0
            BY <2>1, <3>4, <5>1
          <6>2. QED
            BY <4>1, <6>1
        <5>2. CASE v.at # 0
          <6>1. a = v.at /\ v.at > 0
            <7>1. ~f.reset
              BY <2>1, <3>4, <5>2
            <7>2. Len(f.data) = f.at - v.at
              BY <2>1, <7>1
            <7>3. f.at - Len(f.data) = v.at
              BY <1>1, <7>2
            <7>4. QED
              BY <1>1, <4>1, <5>2, <7>3
          <6>2. QED
            BY <1>3, <3>1, <4>1, <6>1
        <5>3. QED
          BY <5>1, <5>2
      <4>3. \A i \in 1..k : f.data[i] = a + i
        <5>1. a <= f.at /\ f.at - a = k
          BY <1>1, <4>1
        <5>2. f.data = Bytes(a, f.at)
          BY <2>1, <4>1
        <5>3. \A i \in 1..(f.at - a) : Bytes(a, f.at)[i] = a + i
          BY <1>1, <5>1, BytesAre
        <5>4. QED
          BY <5>1, <5>2, <5>3
      <4>4. /\ Len(live) = n + k
            /\ \A i \in 1..n + k : live[i] = IF i <= n THEN v.live[i] ELSE f.data[i - n]
        <5>1. /\ Len(v.live \o f.data) = Len(v.live) + Len(f.data)
              /\ \A i \in 1..Len(v.live) + Len(f.data) :
                    (v.live \o f.data)[i] = IF i <= Len(v.live) THEN v.live[i] ELSE f.data[i - Len(v.live)]
          BY <1>1, ConcatProperties
        <5>2. live = v.live \o f.data
          BY <2>3, <3>4
        <5>3. QED
          BY <4>1, <5>1, <5>2
      <4>5. \A i \in 1..n : i \in 1..n + k /\ i <= n /\ live[i] = v.live[i]
        BY <4>4
      <4>6. \A i \in n + 1..n + k : i \in 1..n + k /\ i - n \in 1..k /\ live[i] = a + (i - n)
        <5> TAKE i \in n + 1..n + k
        <5>1. i \in 1..n + k /\ i - n \in 1..k /\ ~(i <= n)
          OBVIOUS
        <5>2. QED
          BY <4>3, <4>4, <5>1
      <4>7. \A i \in 1..n + k : i \in 1..n \/ i \in n + 1..n + k
        OBVIOUS
      <4>8. \A i \in 1..n + k : 0 < live[i] /\ live[i] <= f.at
        <5> TAKE i \in 1..n + k
        <5>1. CASE i \in 1..n
          BY <3>2, <4>1, <4>5, <5>1
        <5>2. CASE i \in n + 1..n + k
          <6>1. PICK q \in 1..k : live[i] = a + q
            BY <4>6, <5>2
          <6>2. 0 < a + q /\ a + q <= a + k
            OBVIOUS
          <6>3. QED
            BY <4>1, <6>1, <6>2
        <5>3. QED
          BY <4>7, <5>1, <5>2
      <4>9. \A i, j \in 1..n + k : live[i] = live[j] => i = j
        <5> TAKE i, j \in 1..n + k
        <5>1. CASE i \in 1..n /\ j \in 1..n
          <6>1. \A p, q \in 1..n : v.live[p] = v.live[q] => p = q
            <7>1. DOMAIN v.live = 1..n
              BY <1>1, <4>1
            <7>2. QED
              BY <1>3, <7>1 DEF IsInjective
          <6>2. QED
            BY <4>5, <5>1, <6>1
        <5>2. CASE i \in 1..n /\ j \in n + 1..n + k
          <6>1. PICK p \in Nat : live[i] = p /\ p <= a
            BY <4>2, <4>5, <5>2
          <6>2. PICK q \in 1..k : live[j] = a + q
            BY <4>6, <5>2
          <6>3. p # a + q
            BY <6>1
          <6>4. QED
            BY <6>1, <6>2, <6>3
        <5>3. CASE i \in n + 1..n + k /\ j \in 1..n
          <6>1. PICK p \in Nat : live[j] = p /\ p <= a
            BY <4>2, <4>5, <5>3
          <6>2. PICK q \in 1..k : live[i] = a + q
            BY <4>6, <5>3
          <6>3. p # a + q
            BY <6>1
          <6>4. QED
            BY <6>1, <6>2, <6>3
        <5>4. CASE i \in n + 1..n + k /\ j \in n + 1..n + k
          <6>1. PICK p, q \in 1..k : live[i] = a + p /\ live[j] = a + q /\ i = n + p /\ j = n + q
            <7>1. /\ i - n \in 1..k /\ j - n \in 1..k /\ i = n + (i - n) /\ j = n + (j - n)
              BY <4>6, <5>4
            <7>2. live[i] = a + (i - n) /\ live[j] = a + (j - n)
              BY <4>6, <5>4
            <7>3. QED
              BY <7>1, <7>2
          <6>2. a + p = a + q => p = q
            OBVIOUS
          <6>3. QED
            BY <6>1, <6>2
        <5>5. QED
          BY <4>7, <5>1, <5>2, <5>3, <5>4
      <4>10. DOMAIN live = 1..n + k
        BY <4>4
      <4>11. QED
        BY <4>4, <4>8, <4>9, <4>10 DEF IsInjective
    <3>5. QED
      BY <3>3, <3>4
  <2>11. Answers(d, t)
    <3>1. \A i \in 1..Len(live) : live[i] \in Nat
      BY ElementOfSeq
    <3>2. \A i \in 1..Len(live) : live[i] <= written[t]
      BY <1>1, <1>4, <2>10, <3>1
    <3>3. QED
      BY <2>6, <2>10, <3>2 DEF Answers
  <2>12. f.at > 0
    BY <1>1, <2>1
  <2>13. QED
    BY <2>5, <2>6, <2>9, <2>11, <2>12
<1>7. QED
  BY <1>5, <1>6

\* onData and onExit, for the next frame of the stream.
LEMMA ReceiveInv == ASSUME Inv, NEW w \in Windows, Receive(w) PROVE Inv'
<1>1. PICK s \in Streams : s = current[w] /\ s # 0
  BY Constants DEF Receive, Inv, Typed, TypedWindows
<1>2. PICK F : F = stream[s].wire /\ F # <<>>
  BY <1>1 DEF Receive
<1>3. /\ Hears(w, s) /\ Attaches(s) /\ stream[s] \in Channels /\ F \in Seq(Frames)
      /\ stream \in [Streams -> Channels] /\ view \in [Windows -> [Ids -> Pictures]]
      /\ Len(stream[s].ch) <= StreamBuffer
  BY <1>1, <1>2, StreamTyped DEF Inv, Listening, Typed, TypedStreams, TypedWindows
<1>4. PICK f \in Frames : /\ f = F[1] /\ f = Head(F) /\ 1 \in 1..Len(F) /\ f.id \in Ids
                          /\ Tail(F) \in Seq(Frames) /\ Len(F) \in Nat
                          /\ Len(Tail(F)) = Len(F) - 1
                          /\ \A i \in 1..Len(F) - 1 : Tail(F)[i] = F[i + 1]
  <2>1. Len(F) \in Nat /\ 1 \in 1..Len(F)
    BY <1>2, <1>3, LenProperties, EmptySeq
  <2>2. F[1] \in Frames
    BY <1>3, <2>1, ElementOfSeq
  <2>3. QED
    BY <1>2, <1>3, <2>1, <2>2, HeadTailProperties DEF Frames
<1>5. PICK t \in Ids : t = f.id
  BY <1>4
<1>6. view[w][t].on /\ watched[t]
  BY <1>2, <1>3, <1>4, <1>5 DEF Hears, Attaches
<1>7. PICK d : d = Drawn(view[w][t], f)
  OBVIOUS
<1>8. /\ view' = [view EXCEPT ![w][t] = d]
      /\ UNCHANGED <<opening, open, going, closing, started, closed, written, kept, readers,
                     watched, exited, current, left>>
  BY <1>1, <1>2, <1>4, <1>5, <1>6, <1>7 DEF Receive, manager, terminals
<1>9. PICK c : c = [stream[s] EXCEPT !.wire = Tail(F)]
  OBVIOUS
<1>10. /\ c \in Channels /\ c.pc = stream[s].pc /\ c.todo = stream[s].todo
       /\ c.watches = stream[s].watches /\ c.ch = stream[s].ch /\ c.wire = Tail(F)
       /\ c.dead = stream[s].dead
  BY <1>3, <1>4, <1>9 DEF Channels
<1>11. /\ stream' = [stream EXCEPT ![s] = c] /\ stream'[s] = c
       /\ \A r \in Streams : r # s => stream'[r] = stream[r]
  <2>1. stream' = [stream EXCEPT ![s].wire = Tail(@)]
    BY <1>1 DEF Receive
  <2>2. stream' = [stream EXCEPT ![s] = c]
    BY <1>2, <1>3, <1>9, <2>1
  <2>3. QED
    BY <1>3, <2>2
<1>12. stream[s].pc # "attaching" /\ stream[s].todo = {}
  BY <1>2, <1>3 DEF Attaches
\* The view that is drawn on.
<1>13. \A u \in Ids : \E m, z \in Nat :
          /\ Leads(u, Tail(F), IF u = t THEN d.at ELSE view[w][u].at, m, written[u], exited[u],
                   IF u = t THEN d.live ELSE view[w][u].live)
          /\ Leads(u, stream[s].ch, m, z, written[u], exited[u],
                   IF u = t THEN d.live ELSE view[w][u].live)
          /\ s \in readers[u] /\ ~stream[s].dead => z = written[u]
  <2> SUFFICES ASSUME NEW u \in Ids
               PROVE  \E m, z \in Nat :
                 /\ Leads(u, Tail(F), IF u = t THEN d.at ELSE view[w][u].at, m, written[u], exited[u],
                          IF u = t THEN d.live ELSE view[w][u].live)
                 /\ Leads(u, stream[s].ch, m, z, written[u], exited[u],
                          IF u = t THEN d.live ELSE view[w][u].live)
                 /\ s \in readers[u] /\ ~stream[s].dead => z = written[u]
    OBVIOUS
  <2>1. PICK b, live : b = view[w][u].at /\ live = view[w][u].live
    OBVIOUS
  <2>2. PICK m \in Nat, z \in Nat :
          /\ Leads(u, F, b, m, written[u], exited[u], live)
          /\ Leads(u, stream[s].ch, m, z, written[u], exited[u], live)
          /\ s \in readers[u] /\ ~stream[s].dead => z = written[u]
    BY <1>2, <1>3, <2>1 DEF Hears, Coming
  <2>3. PICK y \in Nat : /\ b <= y /\ Moves(u, f, b, y, written[u], exited[u], live)
                         /\ Leads(u, Tail(F), y, m, written[u], exited[u], live)
    BY <1>2, <1>3, <1>4, <2>2, LeadsOn
  <2>4. CASE u # t
    <3>1. y = b
      BY <1>5, <2>3, <2>4 DEF Moves
    <3>2. QED
      BY <2>1, <2>2, <2>3, <2>4, <3>1
  <2>5. CASE u = t
    <3>1. y = f.at /\ Right(f, b, written[t], exited[t], live)
      BY <1>5, <2>3, <2>5 DEF Moves
    <3>2. /\ d.at = f.at /\ (d.live = live \/ f.at > 0)
      <4>1. /\ view[w][t] \in Pictures /\ Screen(view[w][t], t) /\ Answers(view[w][t], t)
        BY WindowTyped
      <4>2. QED
        BY <1>6, <1>7, <2>1, <2>5, <3>1, <4>1, DrawnIsTrue
    <3>3. written[u] \in Nat /\ written[u] <= written[u]
      BY DEF Inv, Typed, TypedShells
    <3>4. y <= m
      BY <1>4, <2>3, LeadsUp
    <3>5. y > 0 \/ d.live = live
      BY <3>1, <3>2
    <3>6. m > 0 \/ d.live = live
      BY <3>4, <3>5
    <3>7. Leads(u, Tail(F), y, m, written[u], exited[u], d.live)
      BY <1>4, <2>3, <3>3, <3>5, LeadsStill
    <3>8. Leads(u, stream[s].ch, m, z, written[u], exited[u], d.live)
      BY <2>2, <3>3, <3>6, LeadsStill, StreamTyped
    <3>9. QED
      BY <2>2, <2>5, <3>1, <3>2, <3>7, <3>8
  <2>6. QED
    BY <2>4, <2>5
<1>14. d \in Pictures /\ d.on /\ Screen(d, t) /\ Answers(d, t)
  <2>1. /\ view[w][t] \in Pictures /\ Screen(view[w][t], t) /\ Answers(view[w][t], t)
    BY WindowTyped
  <2>2. PICK m, y : Moves(t, f, view[w][t].at, y, written[t], exited[t], view[w][t].live)
    <3>1. PICK m \in Nat : Leads(t, F, view[w][t].at, m, written[t], exited[t], view[w][t].live)
      BY <1>2, <1>3 DEF Hears, Coming
    <3>2. QED
      BY <1>2, <1>3, <1>4, <3>1, LeadsOn
  <2>3. Right(f, view[w][t].at, written[t], exited[t], view[w][t].live)
    BY <1>5, <2>2 DEF Moves
  <2>4. QED
    BY <1>6, <1>7, <2>1, <2>3, DrawnIsTrue
<1>15. /\ view'[w][t] = d /\ view' \in [Windows -> [Ids -> Pictures]]
       /\ \A x \in Windows, u \in Ids : x # w \/ u # t => view'[x][u] = view[x][u]
  BY <1>3, <1>8, <1>14
<1>16. Typed' /\ Scrolled' /\ Alone'
  <2>1. TypedStreams' /\ Room'
    BY <1>3, <1>10, <1>11 DEF Inv, Typed, TypedStreams, Room
  <2>2. QED
    BY <1>8, <1>15, <2>1 DEF Inv, Typed, TypedShells, TypedWindows, Scrolled, Alone
<1>17. Views'
  <2> SUFFICES ASSUME NEW x \in Windows, NEW u \in Ids
               PROVE  Screen(view'[x][u], u) /\ Answers(view'[x][u], u)
    BY <1>8 DEF Views, Screen, Answers
  <2>1. CASE x = w /\ u = t
    BY <1>14, <1>15, <2>1
  <2>2. CASE x # w \/ u # t
    BY <1>15, <2>2 DEF Inv, Views
  <2>3. QED
    BY <2>1, <2>2
<1>18. \A i \in 1..Len(Tail(F)) : i + 1 \in 1..Len(F) /\ Tail(F)[i] = F[i + 1]
  BY <1>4
<1>19. Attachment'
  <2> SUFFICES ASSUME NEW r \in Streams PROVE Attaches(r)'
    BY DEF Attachment
  <2>1. CASE r = s
    <3>1. \A i \in 1..Len(Tail(F)) : watched[Tail(F)[i].id]
      BY <1>2, <1>3, <1>18 DEF Attaches
    <3>2. QED
      BY <1>3, <1>8, <1>10, <1>11, <1>12, <2>1, <3>1 DEF Attaches
  <2>2. CASE r # s
    <3>1. Attaches(r) /\ stream'[r] = stream[r]
      BY <1>11, <2>2, StreamTyped
    <3>2. QED
      BY <1>8, <3>1 DEF Attaches
  <2>3. QED
    BY <2>1, <2>2
<1>20. Listening'
  <2> SUFFICES ASSUME NEW x \in Windows, current[x] # 0 PROVE Hears(x, current[x])'
    BY <1>8 DEF Listening
  <2>1. PICK r \in Streams : r = current[x] /\ current'[x] = r
    BY <1>8 DEF Inv, Typed, TypedWindows
  <2>2. Hears(x, r)
    BY <2>1 DEF Inv, Listening
  <2>3. CASE x = w
    <3>1. r = s
      BY <1>1, <2>1, <2>3
    <3>2. ASSUME NEW u \in Ids PROVE Coming(w, u, s)'
      <4>1. PICK b, live : /\ b = IF u = t THEN d.at ELSE view[w][u].at
                           /\ live = IF u = t THEN d.live ELSE view[w][u].live
        OBVIOUS
      <4>2. view'[w][u].at = b /\ view'[w][u].live = live
        BY <1>15, <4>1
      <4>3. PICK m, z \in Nat :
              /\ Leads(u, Tail(F), b, m, written[u], exited[u], live)
              /\ Leads(u, stream[s].ch, m, z, written[u], exited[u], live)
              /\ s \in readers[u] /\ ~stream[s].dead => z = written[u]
        BY <1>13, <4>1
      <4>4. Asked(s)' = {}
        BY <1>10, <1>11, <1>12 DEF Asked
      <4>5. QED
        BY <1>8, <1>10, <1>11, <4>2, <4>3, <4>4 DEF Coming
    <3>3. \A u \in Ids : view[w][u].on => view'[w][u].on
      BY <1>14, <1>15
    <3>4. \A i \in 1..Len(Tail(F)) : view'[w][Tail(F)[i].id].on
      <4>1. \A i \in 1..Len(F) : F[i].id \in Ids /\ view[w][F[i].id].on
        BY <1>2, <1>3, StreamTyped DEF Hears
      <4>2. QED
        BY <1>18, <3>3, <4>1
    <3>5. \A i \in 1..Len(stream[s].ch) : view'[w][stream[s].ch[i].id].on
      BY <1>3, <3>3, StreamTyped DEF Hears
    <3>6. \A u \in stream[s].watches : view'[w][u].on
      BY <1>3, <3>3, StreamTyped DEF Hears
    <3>7. Hears(w, s)'
      BY <1>3, <1>10, <1>11, <1>12, <3>2, <3>4, <3>5, <3>6 DEF Hears
    <3>8. QED
      BY <2>1, <2>3, <3>1, <3>7 DEF Hears
  <2>4. CASE x # w
    <3>1. r # s
      BY <1>1, <2>1, <2>4 DEF Inv, Alone
    <3>2. stream'[r] = stream[r] /\ view'[x] = view[x]
      BY <1>3, <1>8, <1>11, <2>4, <3>1
    <3>3. ASSUME NEW u \in Ids PROVE Coming(x, u, r)'
      <4>1. Coming(x, u, r)
        BY <2>2 DEF Hears
      <4>2. Asked(r)' = Asked(r)
        BY <3>2 DEF Asked
      <4>3. QED
        BY <1>8, <3>2, <4>1, <4>2 DEF Coming
    <3>4. Hears(x, r)'
      BY <2>2, <3>2, <3>3 DEF Hears
    <3>5. QED
      BY <2>1, <3>4 DEF Hears
  <2>5. QED
    BY <2>3, <2>4
<1>21. QED
  BY <1>16, <1>17, <1>19, <1>20 DEF Inv
-----------------------------------------------------------------------------
\* No step of any terminal, stream or window breaks the invariant.
LEMMA NextInv == Inv /\ [Next]_vars => Inv'
<1> SUFFICES ASSUME Inv, [Next]_vars PROVE Inv'
  OBVIOUS
<1>1. CASE UNCHANGED vars
  <2>1. UNCHANGED <<manager, terminals, windows, left, stream>>
    BY <1>1 DEF vars, manager, terminals, windows
  <2>2. Typed'
    BY <2>1 DEF manager, terminals, windows, Inv, Typed, TypedShells, TypedStreams,
                TypedWindows, Room
  <2>3. Scrolled' /\ Alone'
    BY <2>1 DEF terminals, windows, Inv, Scrolled, Alone
  <2>4. Attachment'
    BY <2>1 DEF manager, terminals, Inv, Attachment, Attaches
  <2>5. Listening'
    BY <2>1 DEF terminals, windows, Inv, Listening, Hears, Coming, Asked
  <2>6. Views'
    BY <2>1 DEF terminals, windows, Inv, Views, Screen, Answers
  <2>7. QED
    BY <2>2, <2>3, <2>4, <2>5, <2>6 DEF Inv
<1>2. CASE ManagerStep
  BY <1>2, ManagerInv
<1>3. CASE \E t \in Ids : Output(t) \/ Finish(t)
  BY <1>3, OutputInv, FinishInv
<1>4. CASE \E s \in Streams : StreamStep(s)
  BY <1>4, AttachInv, AttachedInv, FlushInv, AbandonInv, DetachInv DEF StreamStep
<1>5. CASE \E w \in Windows : \/ \E t \in Ids : Watch(w, t) \/ Unwatch(w, t)
                              \/ WindowStep(w) \/ Break(w)
  BY <1>5, WatchInv, UnwatchInv, ReceiveInv, ReconnectInv DEF WindowStep
<1>6. QED
  BY <1>1, <1>2, <1>3, <1>4, <1>5 DEF Next, ManagerStep

\* However often a stream is dropped, broken and opened again, a window's screen is a run
\* of the shell's output without a gap and without a byte twice, holds what the server
\* would still keep, and is complete once the exit was told.
THEOREM ScreensAreTrue == Spec => []ScreenIsTrue
<1>1. Inv => ScreenIsTrue
  BY DEF Inv, Typed, TypedShells, TypedStreams, TypedWindows, Room, Views, Screen, ScreenIsTrue, TypeOK
<1>2. QED
  BY <1>1, InitInv, NextInv, PTL DEF Spec

\* A window answers a query in the output at most once, however often a view is opened
\* again.
THEOREM AnswersAreGivenOnce == Spec => []QueriesAnsweredOnce
<1>1. Inv => QueriesAnsweredOnce
  BY DEF Inv, Views, Answers, QueriesAnsweredOnce
<1>2. QED
  BY <1>1, InitInv, NextInv, PTL DEF Spec
=============================================================================
