-------------------------- MODULE MachinesProofs --------------------------
(***************************************************************************)
(* This machine among the others, and the program that is replaced on it:  *)
(* two components that share no state.  Each has an inductive invariant of *)
(* its own.                                                                *)
(*                                                                         *)
(* Remotes: which sessions this machine has with others, who is watched    *)
(* and who signs in, for any machines, addresses, requests and faults.  A  *)
(* request works with a copy of the entry it found, and of what refused    *)
(* it; the invariant says what such a copy is still worth.                 *)
(*                                                                         *)
(* Updates: an update leaves a program to start, installs nothing it gave  *)
(* up and never goes back to an older release, for any number of attempts, *)
(* releases, helpers and faults.                                           *)
(***************************************************************************)
EXTENDS Remotes, Updates, TLAPS

-----------------------------------------------------------------------------
(* Remotes                                                                  *)

Fields == {"pc", "kind", "id", "list", "cookie", "answer", "from", "tried", "seen"}

\* What a session answers: the password sent for a machine, or our key.
Forms == Machines \cup {Nobody}

\* A session given out so far, or none.
Given == (Machines \X (0..issued) \X Forms) \cup {NoSession}

\* A session that may be saved for m, with n given out.
Belongs(s, m, n) ==
    \/ s = NoSession
    \/ s \in {m} \X (0..n) \X Forms
    \/ s \in Machines \X (0..n) \X {m}

\* What is saved of a machine, and what it has itself.
Entries ==
    /\ issued \in Nat /\ answers \in [Addresses -> Machines \cup {Nobody}]
    /\ DOMAIN saved = Machines /\ DOMAIN gate = Machines /\ DOMAIN activity = Machines
    /\ \A m \in Machines :
          /\ DOMAIN saved[m] = {"here", "list", "cookie"}
          /\ saved[m].here \in BOOLEAN
          /\ DOMAIN activity[m] = {"on", "busy"}
          /\ DOMAIN gate[m] = {"trusts", "valid"}
          /\ gate[m].valid \subseteq {m} \X (0..issued) \X Forms

\* What a request has in hand.
Requests ==
    /\ DOMAIN call = Procs
    /\ \A p \in Procs : /\ DOMAIN call[p] = Fields
                        /\ call[p].pc # "idle" => call[p].id \in Machines
                        /\ call[p].cookie \in Given

\* A saved session is its machine's, or answers the password sent for it.
Theirs == \A m \in Machines : Belongs(saved[m].cookie, m, issued)

\* A machine with a worker is saved.
Watched == \A m \in Machines : activity[m].on => saved[m].here

\* A request whose machine refused its session waits for keyMu with a session that is over.
Expired(p)  == call[p].from = call[p].id => call[p].cookie \notin gate[call[p].id].valid
Refusals == \A p \in Procs : call[p].pc = "lock" => Expired(p)

\* keyMu is with the request that signs in.
KeyHeld == \A p \in Procs : call[p].pc = "key" <=> keyMu = p

Inv == Entries /\ Requests /\ Theirs /\ Watched /\ Refusals /\ KeyHeld
-----------------------------------------------------------------------------
(* What steps have in common                                                *)

\* A request starts to sign in only with a session that is over.
InNeed == \A p \in Procs : call'[p].pc = "key" /\ call[p].pc # "key" =>
    \/ saved[call[p].id].cookie \notin gate[call[p].id].valid
    \/ call[p].from # call[p].id
\* A removed machine comes back only by being added.
Stays  == \A m \in Machines : ~saved[m].here /\ saved'[m].here => left'["add"] < left["add"]
Keeps  == Inv' /\ InNeed /\ Stays

\* Sessions are new, and no more than one is given out.
Grows == /\ issued' \in {issued, issued + 1}
         /\ \A m \in Machines :
               gate'[m].valid \subseteq gate[m].valid \cup ({m} \X ((issued + 1)..issued') \X Forms)

\* What a request may have in hand.
Sound(c) == /\ DOMAIN c = Fields /\ (c.pc # "idle" => c.id \in Machines) /\ c.cookie \in Given'
            /\ c.pc # "key"
            /\ c.pc = "lock" /\ c.from = c.id => c.cookie \notin gate'[c.id].valid

\* What was given stays given.
LEMMA GivenGrows ==
    ASSUME Entries, issued' \in {issued, issued + 1}
    PROVE  Given \subseteq Given'
BY DEF Given, Entries

\* A request that does not sign in goes on, or gives keyMu up.
LEMMA RequestMoves ==
    ASSUME Inv, Grows, NEW p \in Procs, NEW c, Sound(c),
           call' = [call EXCEPT ![p] = c], keyMu' = Unlocked(p)
    PROVE  (Requests /\ Refusals /\ KeyHeld)' /\ InNeed
<1>0. Given \subseteq Given' /\ issued \in Nat
  BY GivenGrows DEF Inv, Grows, Entries
<1>1. DOMAIN call' = Procs /\ \A q \in Procs : call'[q] = IF q = p THEN c ELSE call[q]
  BY DEF Inv, Requests
<1>2. Requests'
  BY <1>0, <1>1 DEF Inv, Requests, Sound
<1>3. KeyHeld'
  BY <1>1, NobodyAssumption DEF Inv, KeyHeld, Sound, Unlocked, Procs
<1>4. ASSUME NEW q \in Procs, q # p, call[q].pc = "lock", call[q].from = call[q].id
      PROVE  call[q].cookie \notin gate'[call[q].id].valid
  <2>1. call[q].id \in Machines /\ call[q].cookie \in Given /\ call[q].cookie \notin gate[call[q].id].valid
    BY <1>4 DEF Inv, Requests, Refusals, Expired
  <2>2. call[q].cookie \notin {call[q].id} \X ((issued + 1)..issued') \X Forms
    BY <1>0, <2>1 DEF Given, NoSession, Grows
  <2> QED BY <2>1, <2>2 DEF Grows
<1>5. Refusals'
  BY <1>1, <1>4 DEF Refusals, Expired, Sound
<1>6. InNeed
  BY <1>1 DEF InNeed, Sound
<1> QED BY <1>2, <1>3, <1>5, <1>6

\* The entries stay as they are.
LEMMA EntriesStay ==
    ASSUME Inv, UNCHANGED <<answers, gate, saved, activity, issued>>
    PROVE  (Entries /\ Theirs /\ Watched)' /\ Stays /\ Grows
BY DEF Inv, Entries, Theirs, Watched, Stays, Grows

\* A request goes on by itself.
LEMMA RequestOnly ==
    ASSUME Inv, UNCHANGED <<answers, gate, saved, keyMu, activity, issued>>,
           NEW p \in Procs, call[p].pc # "key", NEW c, Sound(c), call' = [call EXCEPT ![p] = c]
    PROVE  Keeps
<1>1. keyMu' = Unlocked(p)
  BY DEF Inv, KeyHeld, Unlocked
<1> QED BY <1>1, EntriesStay, RequestMoves DEF Keeps, Inv

\* Requests stay as they are.
LEMMA RequestsStay ==
    ASSUME Inv, Grows, UNCHANGED <<call, keyMu>>
    PROVE  (Requests /\ Refusals /\ KeyHeld)' /\ InNeed
<1>0. Given \subseteq Given' /\ issued \in Nat
  BY GivenGrows DEF Inv, Grows, Entries
<1>1. (Requests /\ KeyHeld)' /\ InNeed
  BY <1>0 DEF Inv, Requests, KeyHeld, InNeed
<1>2. ASSUME NEW q \in Procs, call[q].pc = "lock", call[q].from = call[q].id
      PROVE  call[q].cookie \notin gate'[call[q].id].valid
  <2>1. call[q].id \in Machines /\ call[q].cookie \in Given /\ call[q].cookie \notin gate[call[q].id].valid
    BY <1>2 DEF Inv, Requests, Refusals, Expired
  <2>2. call[q].cookie \notin {call[q].id} \X ((issued + 1)..issued') \X Forms
    BY <1>0, <2>1 DEF Given, NoSession, Grows
  <2> QED BY <2>1, <2>2 DEF Grows
<1> QED BY <1>1, <1>2 DEF Refusals, Expired

\* A saved session is one that was given.
LEMMA SavedGiven == Inv => \A m \in Machines : saved[m].cookie \in Given
BY DEF Inv, Theirs, Belongs, Forms, Given, NoSession

\* The entry of one machine changes, and keeps its place.
LEMMA EntryMoves ==
    ASSUME Inv, NEW m \in Machines, NEW e, DOMAIN e = {"here", "list", "cookie"},
           saved' = Updated(m, e), saved[m].here => e.here = TRUE,
           Belongs(e.cookie, m, issued'),
           issued' \in {issued, issued + 1},
           UNCHANGED <<answers, activity>>,
           DOMAIN gate' = Machines,
           \A n \in Machines : /\ DOMAIN gate'[n] = {"trusts", "valid"}
                               /\ gate'[n].valid \subseteq {n} \X (0..issued') \X Forms
    PROVE  (Entries /\ Theirs /\ Watched)' /\ Stays
<1>0. issued \in Nat /\ issued' \in Nat /\ issued' >= issued
  BY DEF Inv, Entries
<1>1. DOMAIN saved' = Machines /\ \A n \in Machines :
          saved'[n] = IF n = m /\ saved[m].here THEN e ELSE saved[n]
  BY DEF Inv, Entries, Updated
<1>2. Entries'
  BY <1>0, <1>1 DEF Inv, Entries
<1>3. Theirs'
  <2>1. \A s, n : Belongs(s, n, issued) => Belongs(s, n, issued')
    BY <1>0 DEF Belongs
  <2> QED BY <1>1, <2>1 DEF Inv, Theirs
<1>4. Watched' /\ Stays
  BY <1>1 DEF Inv, Watched, Stays
<1> QED BY <1>2, <1>3, <1>4
-----------------------------------------------------------------------------
(* The steps of a request                                                   *)

\* Records of a request.
LEMMA IdleSound == NoSession \in Given' /\ Sound(Idle)
BY NobodyAssumption DEF Sound, Idle, Fields, Given, NoSession

LEMMA StepAsked ==
    ASSUME Inv, NEW p \in Procs, call[p].pc = "idle", NEW m \in Machines,
           Route(p, m) \/ Connect(p, m) \/ Login(p, m)
    PROVE  Keeps
<1> DEFINE c == call'[p]
<1>1. Given = Given' /\ saved[m].cookie \in Given
  BY SavedGiven DEF Route, Connect, Login, Given
<1>2. UNCHANGED <<answers, gate, saved, keyMu, activity, issued>>
  BY DEF Route, Connect, Login, others, locks
<1>3. call' = [call EXCEPT ![p] = c] /\ Sound(c)
  <2>1. CASE Route(p, m)
    BY <1>1, <2>1 DEF Route, Inv, Requests, Sound, Copied, Idle, Fields, NoSession, Given
  <2>2. CASE Connect(p, m)
    BY <1>1, <2>2 DEF Connect, Inv, Requests, Sound, Idle, Fields, NoSession, Given
  <2>3. CASE Login(p, m)
    BY <1>1, <2>3 DEF Login, Inv, Requests, Sound, Copied, Idle, Fields, NoSession, Given
  <2> QED BY <2>1, <2>2, <2>3
<1> HIDE DEF c
<1> QED BY <1>2, <1>3, RequestOnly

LEMMA StepGet ==
    ASSUME Inv, NEW p \in Procs, Get(p)
    PROVE  Keeps
<1> DEFINE c == call'[p]
<1>1. Given = Given' /\ call[p].id \in Machines /\ saved[call[p].id].cookie \in Given
  BY SavedGiven DEF Get, Given, Inv, Requests
<1>2. UNCHANGED <<answers, gate, saved, keyMu, activity, issued>>
  BY DEF Get, others, locks
<1>3. call' = [call EXCEPT ![p] = c] /\ Sound(c)
  <2>1. CASE saved[call[p].id].here
    BY <1>1, <2>1 DEF Get, Inv, Requests, Sound, Copied, Fields
  <2>2. CASE ~saved[call[p].id].here
    BY <2>2, IdleSound DEF Get, Inv, Requests
  <2> QED BY <2>1, <2>2
<1> HIDE DEF c
<1> QED BY <1>2, <1>3, RequestOnly DEF Get

\* What comes of a request.
LEMMA OutcomeSound ==
    ASSUME Inv, Grows, NEW p \in Procs, call[p].pc # "idle", NEW answer,
           call' = [call EXCEPT ![p].pc = "answer", ![p].answer = answer]
    PROVE  call' = [call EXCEPT ![p] = call'[p]] /\ Sound(call'[p])
<1>1. Given \subseteq Given'
  BY GivenGrows DEF Inv, Grows
<1> QED BY <1>1 DEF Inv, Requests, Sound, Fields

\* It goes on with its entry.
LEMMA MoveSound ==
    ASSUME Inv, Grows, NEW p \in Procs, call[p].pc # "idle", NEW pc,
           pc \notin {"idle", "key", "lock"}, call' = To(p, pc)
    PROVE  call' = [call EXCEPT ![p] = call'[p]] /\ Sound(call'[p])
<1>1. Given \subseteq Given'
  BY GivenGrows DEF Inv, Grows
<1> QED BY <1>1 DEF Inv, Requests, Sound, Fields, To

LEMMA StepReach ==
    ASSUME Inv, NEW p \in Procs, Reach(p)
    PROVE  Keeps
<1> DEFINE c == call[p]
           found == Locate(c.id, c.list)
<1>0. /\ c.pc = "reach" /\ c.id \in Machines /\ Given = Given'
      /\ UNCHANGED <<answers, gate, keyMu, activity, issued>>
  BY DEF Reach, Inv, Requests, Given, others, locks
<1>1. Grows
  BY <1>0 DEF Grows, Inv, Entries
<1>2. CASE UNCHANGED saved /\ \E answer : Outcome(p, answer)
  BY <1>0, <1>1, <1>2, OutcomeSound, RequestOnly DEF Outcome
<1>3. CASE UNCHANGED saved /\ call' = To(p, "send")
  BY <1>0, <1>1, <1>3, MoveSound, RequestOnly
<1>4. ASSUME NEW a \in found,
             saved' = Updated(c.id, [saved[c.id] EXCEPT !.list = Used(@, a)]),
             IF saved[c.id].here
             THEN call' = [call EXCEPT ![p].pc = "send",
                              ![p].list = Used(saved[c.id].list, a),
                              ![p].cookie = saved[c.id].cookie]
             ELSE call' = [call EXCEPT ![p].pc = "answer", ![p].answer = "gone"]
      PROVE  Keeps
  <2> DEFINE e == [saved[c.id] EXCEPT !.list = Used(@, a)]
  <2>1. /\ DOMAIN e = {"here", "list", "cookie"} /\ (saved[c.id].here => e.here = TRUE)
        /\ e.cookie = saved[c.id].cookie
    BY <1>0 DEF Inv, Entries
  <2>2. saved[c.id].cookie \in Given' /\ Belongs(e.cookie, c.id, issued')
    BY <1>0, <2>1, SavedGiven DEF Inv, Theirs
  <2>3. (Entries /\ Theirs /\ Watched)' /\ Stays
    <3> HIDE DEF e
    <3>1. saved' = Updated(c.id, e) /\ issued' \in {issued, issued + 1}
      BY <1>0, <1>4 DEF e
    <3> QED BY <1>0, <2>1, <2>2, <3>1, EntryMoves DEF Inv, Entries
  <2>4. call' = [call EXCEPT ![p] = call'[p]] /\ Sound(call'[p])
    <3>1. CASE saved[c.id].here
      BY <1>0, <1>4, <2>2, <3>1 DEF Inv, Requests, Sound, Fields
    <3>2. CASE ~saved[c.id].here
      BY <1>0, <1>1, <1>4, <3>2, OutcomeSound
    <3> QED BY <3>1, <3>2
  <2>5. keyMu' = Unlocked(p)
    BY <1>0 DEF Inv, KeyHeld, Unlocked
  <2> QED BY <1>1, <2>3, <2>4, <2>5, RequestMoves DEF Keeps, Inv
<1> QED
  <2>1. CASE found = {}
    BY <1>2, <2>1 DEF Reach
  <2>2. ASSUME NEW a \in found, a = Head(c.list), UNCHANGED saved,
               IF c.tried THEN Outcome(p, "gone") ELSE call' = To(p, "send") /\ down' = Reached(c.id)
        PROVE  Keeps
    BY <1>2, <1>3, <2>2
  <2> QED BY <1>4, <2>1, <2>2 DEF Reach

LEMMA StepSend ==
    ASSUME Inv, NEW p \in Procs, Send(p)
    PROVE  Keeps
<1> DEFINE c == call[p]
           m == Peer(c)
<1>0. /\ c.pc = "send" /\ c.id \in Machines /\ Given = Given'
      /\ UNCHANGED <<answers, gate, saved, keyMu, activity, issued>>
  BY DEF Send, Inv, Requests, Given, others, locks
<1>1. Grows
  BY <1>0 DEF Grows, Inv, Entries
<1>2. call' = [call EXCEPT ![p] = call'[p]] /\ Sound(call'[p])
  <2>1. CASE call' = [call EXCEPT ![p].pc = "reach", ![p].tried = TRUE]
    BY <1>0, <2>1 DEF Inv, Requests, Sound, Fields
  <2>2. CASE Outcome(p, "gone")
    BY <1>0, <1>1, <2>2, OutcomeSound DEF Outcome
  <2>3. CASE call' = [call EXCEPT ![p].pc = "answer", ![p].answer = "ok", ![p].seen = working[m]]
    BY <1>0, <2>3 DEF Inv, Requests, Sound, Fields
  <2>4. CASE call' = [call EXCEPT ![p].pc = "lock", ![p].from = m] /\ c.cookie \notin gate[m].valid
    BY <1>0, <2>4 DEF Inv, Requests, Sound, Fields
  <2> QED BY <2>1, <2>2, <2>3, <2>4 DEF Send
<1> QED BY <1>0, <1>2, RequestOnly

\* A machine gives out a session.
LEMMA IssueGrows ==
    ASSUME Inv, NEW m \in Machines, NEW form \in Forms, Issue(m, form)
    PROVE  /\ Grows /\ DOMAIN gate' = Machines /\ issued' = issued + 1
           /\ \A n \in Machines : /\ DOMAIN gate'[n] = {"trusts", "valid"}
                                  /\ gate'[n].valid \subseteq {n} \X (0..issued') \X Forms
<1>1. issued \in Nat /\ issued' = issued + 1
  BY DEF Inv, Entries, Issue
<1>2. DOMAIN gate' = Machines /\ \A n \in Machines :
          /\ DOMAIN gate'[n] = {"trusts", "valid"}
          /\ gate'[n].valid = gate[n].valid \cup (IF n = m THEN {<<m, issued + 1, form>>} ELSE {})
  BY DEF Inv, Entries, Issue, NewSession
<1> QED BY <1>1, <1>2 DEF Grows, Inv, Entries

\* A step that gives out no session.
LEMMA NothingIssued ==
    ASSUME Inv, UNCHANGED <<gate, issued>>
    PROVE  /\ Grows /\ DOMAIN gate' = Machines
           /\ \A n \in Machines : /\ DOMAIN gate'[n] = {"trusts", "valid"}
                                  /\ gate'[n].valid \subseteq {n} \X (0..issued') \X Forms
BY DEF Inv, Entries, Grows

LEMMA StepSendPassword ==
    ASSUME Inv, NEW p \in Procs, SendPassword(p)
    PROVE  Keeps
<1> DEFINE c == call[p]
           m == Peer(c)
<1>0. /\ c.pc = "send" /\ c.id \in Machines
      /\ UNCHANGED <<answers, keyMu, activity>>
  BY DEF SendPassword, Inv, Requests, locks
<1>1. CASE UNCHANGED <<gate, issued, saved>> /\ \E answer : Outcome(p, answer)
  BY <1>0, <1>1, NothingIssued, OutcomeSound, RequestOnly DEF Outcome
<1>2. CASE UNCHANGED <<gate, issued, saved>> /\ call' = [call EXCEPT ![p].pc = "reach", ![p].tried = TRUE]
  <2>1. Given' = Given
    BY <1>2 DEF Given
  <2>2. call' = [call EXCEPT ![p] = call'[p]] /\ Sound(call'[p])
    BY <1>0, <1>2, <2>1 DEF Inv, Requests, Sound, Fields
  <2> QED BY <1>0, <1>2, <2>2, RequestOnly
<1>3. CASE /\ m \in Machines /\ Issue(m, c.id) /\ call' = To(p, "trusted")
           /\ saved' = Updated(c.id, [saved[c.id] EXCEPT !.cookie = NewSession(m, c.id)])
  <2> DEFINE e == [saved[c.id] EXCEPT !.cookie = NewSession(m, c.id)]
  <2>1. /\ Grows /\ issued' = issued + 1 /\ DOMAIN gate' = Machines
        /\ \A n \in Machines : /\ DOMAIN gate'[n] = {"trusts", "valid"}
                               /\ gate'[n].valid \subseteq {n} \X (0..issued') \X Forms
    BY <1>0, <1>3, IssueGrows DEF Forms
  <2>2. /\ DOMAIN e = {"here", "list", "cookie"} /\ (saved[c.id].here => e.here = TRUE)
        /\ Belongs(e.cookie, c.id, issued')
    BY <1>0, <1>3, <2>1 DEF Inv, Entries, Belongs, NewSession
  <2>3. (Entries /\ Theirs /\ Watched)' /\ Stays
    <3> HIDE DEF e
    <3>1. saved' = Updated(c.id, e)
      BY <1>3 DEF e
    <3> QED BY <1>0, <2>1, <2>2, <3>1, EntryMoves
  <2>4. call' = [call EXCEPT ![p] = call'[p]] /\ Sound(call'[p])
    BY <1>0, <1>3, <2>1, MoveSound
  <2>5. keyMu' = Unlocked(p)
    BY <1>0 DEF Inv, KeyHeld, Unlocked
  <2> QED BY <2>1, <2>3, <2>4, <2>5, RequestMoves DEF Keeps, Inv
<1> QED BY <1>1, <1>2, <1>3 DEF SendPassword

\* A step that concerns the request alone.
LEMMA StepAlone ==
    ASSUME Inv, NEW p \in Procs,
           Trusted(p) \/ Resend(p) \/ Done(p) \/ (p \in Machines /\ Tick(p))
    PROVE  Keeps
<1>0. /\ UNCHANGED <<answers, gate, saved, keyMu, activity, issued>> /\ Given' = Given
      /\ call[p].pc # "key"
  BY DEF Trusted, Resend, Done, Tick, others, locks, Given
<1>1. Grows
  BY <1>0 DEF Grows, Inv, Entries
<1>2. call' = [call EXCEPT ![p] = call'[p]] /\ Sound(call'[p])
  <2>1. CASE Trusted(p)
    BY <1>0, <2>1 DEF Trusted, Inv, Requests, Sound, Idle, Fields, Given
  <2>2. CASE Resend(p)
    <3>1. CASE call' = [call EXCEPT ![p].pc = "answer", ![p].answer = "ok",
                                    ![p].seen = working[Peer(call[p])]]
      BY <1>0, <2>2, <3>1 DEF Resend, Inv, Requests, Sound, Fields
    <3>2. CASE \E answer : Outcome(p, answer)
      BY <1>0, <1>1, <2>2, <3>2, OutcomeSound DEF Outcome, Resend
    <3> QED BY <2>2, <3>1, <3>2 DEF Resend
  <2>3. CASE Done(p)
    BY <2>3, IdleSound DEF Done, Inv, Requests
  <2>4. CASE p \in Machines /\ Tick(p)
    BY <1>0, <2>4 DEF Tick, Inv, Requests, Sound, Idle, Fields, Given
  <2> QED BY <2>1, <2>2, <2>3, <2>4
<1> QED BY <1>0, <1>2, RequestOnly

\* The session that was saved when a request takes keyMu is the one that was refused.
LEMMA StepLock ==
    ASSUME Inv, NEW p \in Procs, Lock(p)
    PROVE  Keeps
<1> DEFINE c == call[p]
<1>0. /\ c.pc = "lock" /\ keyMu = Nobody /\ c.id \in Machines /\ Given' = Given
      /\ UNCHANGED <<answers, gate, saved, activity, issued>>
  BY DEF Lock, others, Inv, Requests, Given
<1>1. Grows
  BY <1>0 DEF Grows, Inv, Entries
<1>2. CASE keyMu' = keyMu /\ \E answer : Outcome(p, answer)
  BY <1>0, <1>1, <1>2, OutcomeSound, RequestOnly DEF Outcome
<1>3. CASE keyMu' = keyMu /\ call' = [call EXCEPT ![p] = Copied([c EXCEPT !.pc = "resend"], c.id)]
  <2>1. call' = [call EXCEPT ![p] = call'[p]] /\ Sound(call'[p])
    BY <1>0, <1>3, SavedGiven DEF Inv, Requests, Sound, Copied, Fields
  <2> QED BY <1>0, <1>3, <2>1, RequestOnly
<1>4. CASE saved[c.id].cookie = c.cookie /\ keyMu' = p /\ call' = To(p, "key")
  <2>1. DOMAIN call' = Procs /\ \A q \in Procs :
            call'[q] = IF q = p THEN [c EXCEPT !.pc = "key"] ELSE call[q]
    BY <1>4 DEF To, Inv, Requests
  <2>2. Requests'
    BY <1>0, <2>1 DEF Inv, Requests, Fields
  <2>3. KeyHeld'
    BY <1>0, <1>4, <2>1, NobodyAssumption DEF Inv, Requests, KeyHeld, Fields, Procs
  <2>4. Refusals'
    BY <1>0, <2>1 DEF Inv, Requests, Refusals, Expired, Fields
  <2>5. InNeed
    BY <1>0, <1>4, <2>1 DEF Inv, Refusals, Expired, InNeed
  <2> QED BY <1>0, <2>2, <2>3, <2>4, <2>5, EntriesStay DEF Keeps, Inv
<1> QED
  <2>1. saved[c.id].here /\ ~Renewed(c) => saved[c.id].cookie = c.cookie
    BY DEF Renewed
  <2> QED BY <1>2, <1>3, <1>4, <2>1 DEF Lock

LEMMA StepSignIn ==
    ASSUME Inv, NEW p \in Procs, SignIn(p)
    PROVE  Keeps
<1> DEFINE c == call[p]
           m == Peer(c)
<1>0. /\ c.pc = "key" /\ c.id \in Machines /\ keyMu = p /\ keyMu' = Nobody
      /\ UNCHANGED <<answers, activity>>
  BY DEF SignIn, Inv, Requests, KeyHeld
<1>1. keyMu' = Unlocked(p)
  BY <1>0 DEF Unlocked
<1>2. CASE UNCHANGED <<gate, issued, saved>> /\ \E answer : Outcome(p, answer)
  <2>1. Grows
    BY <1>2, NothingIssued
  <2>2. call' = [call EXCEPT ![p] = call'[p]] /\ Sound(call'[p])
    BY <1>0, <1>2, <2>1, OutcomeSound DEF Outcome
  <2> QED BY <1>0, <1>1, <1>2, <2>1, <2>2, EntriesStay, RequestMoves DEF Keeps, Inv
<1>3. CASE /\ m = c.id /\ Issue(m, Nobody)
           /\ saved' = Updated(c.id, [saved[c.id] EXCEPT !.cookie = NewSession(m, Nobody)])
           /\ IF saved[c.id].here
              THEN call' = [call EXCEPT ![p].pc = "resend", ![p].list = saved[c.id].list,
                                        ![p].cookie = NewSession(m, Nobody)]
              ELSE Outcome(p, "refused")
  <2> DEFINE e == [saved[m] EXCEPT !.cookie = NewSession(m, Nobody)]
  <2>1. /\ Grows /\ issued' = issued + 1 /\ DOMAIN gate' = Machines
        /\ \A n \in Machines : /\ DOMAIN gate'[n] = {"trusts", "valid"}
                               /\ gate'[n].valid \subseteq {n} \X (0..issued') \X Forms
    BY <1>0, <1>3, IssueGrows DEF Forms
  <2>2. /\ DOMAIN e = {"here", "list", "cookie"} /\ (saved[m].here => e.here = TRUE)
        /\ Belongs(e.cookie, m, issued')
    BY <1>0, <1>3, <2>1 DEF Inv, Entries, Belongs, Forms, NewSession
  <2>3. (Entries /\ Theirs /\ Watched)' /\ Stays
    <3> HIDE DEF e
    <3>1. saved' = Updated(m, e)
      BY <1>3 DEF e
    <3> QED BY <1>0, <1>3, <2>1, <2>2, <3>1, EntryMoves
  <2>4. call' = [call EXCEPT ![p] = call'[p]] /\ Sound(call'[p])
    <3>1. CASE saved[c.id].here
      <4>1. NewSession(m, Nobody) \in Given'
        BY <1>0, <1>3, <2>1 DEF Given, Forms, NewSession, Inv, Entries
      <4> QED BY <1>0, <1>3, <3>1, <4>1 DEF Inv, Requests, Sound, Fields
    <3>2. CASE Outcome(p, "refused")
      BY <1>0, <2>1, <3>2, OutcomeSound DEF Outcome
    <3> QED BY <1>3, <3>1, <3>2
  <2> QED BY <1>1, <2>1, <2>3, <2>4, RequestMoves DEF Keeps, Inv
<1> QED BY <1>2, <1>3 DEF SignIn, Accepts

\* connect ends a session, or learns addresses.
LEMMA StepConnected ==
    ASSUME Inv, NEW p \in Procs, SignedOut(p) \/ Learn(p)
    PROVE  Keeps
<1> DEFINE c == call[p]
<1>0. /\ c.pc = "answer" /\ c.id \in Machines /\ Given' = Given
      /\ UNCHANGED <<answers, gate, keyMu, activity, issued>>
  BY DEF SignedOut, Learn, others, locks, Inv, Requests, Given
<1>1. /\ Grows /\ DOMAIN gate' = Machines
      /\ \A n \in Machines : /\ DOMAIN gate'[n] = {"trusts", "valid"}
                             /\ gate'[n].valid \subseteq {n} \X (0..issued') \X Forms
  BY <1>0, NothingIssued
<1>2. (Entries /\ Theirs /\ Watched)' /\ Stays
  <2>1. ASSUME NEW e, saved' = Updated(c.id, e), DOMAIN e = {"here", "list", "cookie"},
               e.here = saved[c.id].here, e.cookie \in {saved[c.id].cookie, NoSession}
        PROVE  (Entries /\ Theirs /\ Watched)' /\ Stays
    <3>1. Belongs(e.cookie, c.id, issued')
      BY <1>0, <2>1 DEF Inv, Theirs, Belongs
    <3>2. saved[c.id].here => e.here = TRUE
      BY <1>0, <2>1 DEF Inv, Entries
    <3> QED BY <1>0, <1>1, <2>1, <3>1, <3>2, EntryMoves
  <2>2. CASE SignedOut(p)
    <3> DEFINE e == [saved[c.id] EXCEPT !.cookie = NoSession]
    <3>1. /\ saved' = Updated(c.id, e) /\ DOMAIN e = {"here", "list", "cookie"}
          /\ e.here = saved[c.id].here /\ e.cookie = NoSession
      BY <1>0, <2>2 DEF SignedOut, Inv, Entries
    <3> HIDE DEF e
    <3> QED BY <2>1, <3>1
  <2>3. CASE Learn(p)
    <3> DEFINE heard == IF Peer(c) = c.id THEN {a \in Addresses : answers[a] = c.id} ELSE {}
               e == [saved[c.id] EXCEPT !.list = Learned(@, heard)]
    <3>1. /\ saved' = Updated(c.id, e) /\ DOMAIN e = {"here", "list", "cookie"}
          /\ e.here = saved[c.id].here /\ e.cookie = saved[c.id].cookie
      BY <1>0, <2>3 DEF Learn, Inv, Entries
    <3> HIDE DEF e
    <3> QED BY <2>1, <3>1
  <2> QED BY <2>2, <2>3
<1>3. call' = [call EXCEPT ![p] = call'[p]] /\ Sound(call'[p])
  <2>1. CASE call' = [call EXCEPT ![p] = Idle]
    BY <2>1, IdleSound DEF Inv, Requests
  <2>2. CASE call' = To(p, "watch")
    BY <1>0, <1>1, <2>2, MoveSound
  <2> QED BY <2>1, <2>2 DEF SignedOut, Learn
<1>4. keyMu' = Unlocked(p)
  BY <1>0 DEF Inv, KeyHeld, Unlocked
<1> QED BY <1>1, <1>2, <1>3, <1>4, RequestMoves DEF Keeps, Inv
-----------------------------------------------------------------------------
(* Workers, the user and the other machines                                 *)

\* The worker of a machine is cancelled, and lets go of keyMu.
LEMMA CancelMoves ==
    ASSUME Inv, NEW m \in Machines, UNCHANGED <<gate, issued>>,
           call' = Cancelled(m, call), keyMu' = Unlocked(m)
    PROVE  (Requests /\ Refusals /\ KeyHeld)' /\ InNeed
<1>1. Grows /\ m \in Procs /\ call' = [call EXCEPT ![m] = Idle]
  BY NothingIssued DEF Procs, Cancelled
<1> QED BY <1>1, IdleSound, RequestMoves

LEMMA StepDelete ==
    ASSUME Inv, NEW m \in Machines, Delete(m)
    PROVE  Keeps
<1>1. (Requests /\ Refusals /\ KeyHeld)' /\ InNeed
  BY CancelMoves DEF Delete, others
<1>2. /\ UNCHANGED <<answers, gate, issued>>
      /\ DOMAIN saved' = Machines
      /\ \A n \in Machines : saved'[n] = IF n = m THEN Unsaved ELSE saved[n]
      /\ DOMAIN activity' = Machines
      /\ \A n \in Machines : activity'[n] = IF n = m THEN Quiet ELSE activity[n]
  BY DEF Delete, others, Inv, Entries
<1>3. Entries'
  <2>1. /\ DOMAIN Unsaved = {"here", "list", "cookie"} /\ Unsaved.here \in BOOLEAN
        /\ DOMAIN Quiet = {"on", "busy"}
    BY DEF Unsaved, Quiet
  <2> QED BY <1>2, <2>1 DEF Inv, Entries
<1>4. Theirs'
  BY <1>2 DEF Inv, Theirs, Belongs, Unsaved
<1>5. Watched' /\ Stays
  BY <1>2 DEF Inv, Watched, Stays, Unsaved, Quiet
<1> QED BY <1>1, <1>3, <1>4, <1>5 DEF Keeps, Inv

LEMMA StepAdd ==
    ASSUME Inv, NEW p \in Procs, call[p].pc = "idle", NEW a \in Addresses, Add(p, a),
           left \in [Kinds -> Nat]
    PROVE  Keeps
<1> DEFINE m == answers[a]
<1>0. m \in Machines /\ UNCHANGED <<answers, gate, keyMu, activity, issued>> /\ Given' = Given
  BY DEF Add, Inv, Entries, others, locks, Given
<1>1. /\ DOMAIN saved' = Machines
      /\ \A n \in Machines :
            /\ DOMAIN saved'[n] = {"here", "list", "cookie"}
            /\ saved'[n].here = IF n = m THEN TRUE ELSE saved[n].here
            /\ saved'[n].cookie = saved[n].cookie
  BY <1>0 DEF Add, Inv, Entries
<1>2. Entries'
  BY <1>0, <1>1 DEF Inv, Entries
<1>3. Theirs' /\ Watched'
  BY <1>0, <1>1 DEF Inv, Theirs, Watched, Entries
<1>4. Stays
  BY SMT DEF Add, Spend, Stays, Kinds
<1>5. Grows
  BY <1>0, NothingIssued
<1>6. call' = [call EXCEPT ![p] = call'[p]] /\ Sound(call'[p])
  BY <1>0 DEF Add, Inv, Requests, Sound, Idle, Fields, Given
<1>7. keyMu' = Unlocked(p)
  BY <1>0 DEF Inv, KeyHeld, Unlocked
<1> QED BY <1>2, <1>3, <1>4, <1>5, <1>6, <1>7, RequestMoves DEF Keeps, Inv

LEMMA StepWatch ==
    ASSUME Inv, NEW p \in Procs, WatchActivity(p)
    PROVE  Keeps
<1> DEFINE m == call[p].id
<1>0. m \in Machines /\ UNCHANGED <<answers, gate, saved, issued>> /\ call[p].pc = "watch"
  BY DEF WatchActivity, Inv, Requests, others
<1>1. Grows
  BY <1>0, NothingIssued
<1>2. CASE ~saved[m].here
  BY <1>0, <1>2, IdleSound, RequestOnly DEF WatchActivity, StillSaved
<1>3. CASE saved[m].here
  <2>1. /\ call' = [Cancelled(m, call) EXCEPT ![p] = Idle] /\ keyMu' = Unlocked(m)
        /\ activity' = [activity EXCEPT ![m] = [on |-> TRUE, busy |-> call[p].seen]]
    BY <1>3 DEF WatchActivity, StillSaved
  <2>2. DOMAIN activity' = Machines /\ \A n \in Machines :
            activity'[n] = IF n = m THEN [on |-> TRUE, busy |-> call[p].seen] ELSE activity[n]
    BY <1>0, <2>1 DEF Inv, Entries
  <2>3. Entries' /\ Theirs'
    BY <1>0, <2>2 DEF Inv, Entries, Theirs
  <2>4. Watched' /\ Stays
    BY <1>0, <1>3, <2>2 DEF Inv, Watched, Stays
  <2>5. DOMAIN call' = Procs /\ \A q \in Procs :
            call'[q] = IF q \in {p, m} THEN Idle ELSE call[q]
    BY <2>1 DEF Inv, Requests, Cancelled
  <2>6. Requests'
    BY <1>0, <2>5, IdleSound DEF Inv, Requests, Sound, Idle, Given
  <2>7. Refusals' /\ InNeed
    BY <1>0, <2>5 DEF Inv, Refusals, Expired, InNeed, Idle
  <2>8. KeyHeld'
    BY <1>0, <2>1, <2>5, NobodyAssumption DEF Inv, KeyHeld, Unlocked, Idle, Procs
  <2> QED BY <2>3, <2>4, <2>6, <2>7, <2>8 DEF Keeps, Inv
<1> QED BY <1>2, <1>3

LEMMA StepRefreshed ==
    ASSUME Inv, NEW m \in Machines, Refreshed(m)
    PROVE  Keeps
<1>0. UNCHANGED <<answers, gate, saved, keyMu, issued>> /\ call[m].pc = "answer" /\ m \in Procs
  BY DEF Refreshed, others, locks, Procs
<1>1. /\ DOMAIN activity' = Machines
      /\ \A n \in Machines : /\ DOMAIN activity'[n] = {"on", "busy"}
                             /\ activity'[n].on = activity[n].on
  BY DEF Refreshed, Inv, Entries
<1>2. (Entries /\ Theirs /\ Watched)' /\ Stays
  BY <1>0, <1>1 DEF Inv, Entries, Theirs, Watched, Stays
<1>3. Grows /\ keyMu' = Unlocked(m) /\ call' = [call EXCEPT ![m] = Idle]
  BY <1>0, NothingIssued DEF Refreshed, Inv, KeyHeld, Unlocked
<1> QED BY <1>0, <1>2, <1>3, IdleSound, RequestMoves DEF Keeps, Inv

\* What others do leaves requests and entries alone, and gives out no session.
LEMMA StepOther ==
    ASSUME Inv, NEW m \in Machines,
           \/ PauseOver(m) \/ EndSessions(m) \/ RevokeKey(m) \/ Work(m)
           \/ \E a \in Addresses, n \in Machines \cup {Nobody} : Move(a, n)
    PROVE  Keeps
<1>1. UNCHANGED <<saved, keyMu, activity, call, issued>>
  BY DEF PauseOver, EndSessions, RevokeKey, Work, Move, others, locks
<1>2. answers' \in [Addresses -> Machines \cup {Nobody}]
  BY DEF PauseOver, EndSessions, RevokeKey, Work, Move, others, Inv, Entries
<1>3. /\ DOMAIN gate' = Machines
      /\ \A n \in Machines : /\ DOMAIN gate'[n] = {"trusts", "valid"}
                             /\ gate'[n].valid \subseteq gate[n].valid
  <2>1. CASE UNCHANGED gate
    BY <2>1 DEF Inv, Entries
  <2>2. CASE EndSessions(m)
    BY <2>2 DEF EndSessions, Inv, Entries
  <2>3. CASE RevokeKey(m)
    BY <2>3 DEF RevokeKey, Inv, Entries
  <2> QED BY <2>1, <2>2, <2>3 DEF PauseOver, Work, Move, others
<1>4. Grows
  BY <1>1, <1>3 DEF Grows
<1>5. (Entries /\ Theirs /\ Watched)' /\ Stays
  BY <1>1, <1>2, <1>3 DEF Inv, Entries, Theirs, Watched, Stays
<1> QED BY <1>1, <1>4, <1>5, RequestsStay DEF Keeps, Inv
-----------------------------------------------------------------------------
(* The theorems                                                             *)

Counted == left \in [Kinds -> Nat]

LEMMA StepKeeps ==
    ASSUME Inv, Counted, Next
    PROVE  Keeps
<1>1. ASSUME NEW p \in Procs, RequestStep(p)
      PROVE  Keeps
  BY <1>1, StepGet, StepReach, StepSend, StepSendPassword, StepAlone, StepLock, StepSignIn,
     StepConnected, StepWatch DEF RequestStep
<1>2. ASSUME NEW p \in Calls, call[p].pc = "idle",
             \/ \E m \in Machines : Route(p, m) \/ Connect(p, m) \/ Login(p, m)
             \/ \E a \in Addresses : Add(p, a)
      PROVE  Keeps
  BY <1>2, StepAsked, StepAdd DEF Procs, Counted
<1>3. ASSUME NEW m \in Machines,
             \/ WorkerStep(m) \/ Tick(m) \/ PauseOver(m)
             \/ Delete(m) \/ EndSessions(m) \/ RevokeKey(m) \/ Work(m)
      PROVE  Keeps
  BY <1>1, <1>3, StepRefreshed, StepAlone, StepOther, StepDelete DEF WorkerStep, Procs
<1>4. ASSUME NEW a \in Addresses, NEW m \in Machines \cup {Nobody}, Move(a, m)
      PROVE  Keeps
  <2>1. CASE Machines # {}
    BY <1>4, <2>1, StepOther
  <2>2. CASE Machines = {}
    <3>1. UNCHANGED <<saved, keyMu, activity, call, issued, gate>>
      BY <1>4 DEF Move, locks
    <3>2. answers' \in [Addresses -> Machines \cup {Nobody}]
      BY <1>4 DEF Move, Inv, Entries
    <3>3. (Entries /\ Theirs /\ Watched)' /\ Stays
      BY <3>1, <3>2 DEF Inv, Entries, Theirs, Watched, Stays
    <3> QED BY <3>1, <3>3, NothingIssued, RequestsStay DEF Keeps, Inv
  <2> QED BY <2>1, <2>2
<1> QED BY <1>1, <1>2, <1>3, <1>4 DEF Next, Procs

LEMMA StepCounted ==
    ASSUME Counted, [Next]_vars
    PROVE  Counted'
<1>1. CASE UNCHANGED left
  BY <1>1 DEF Counted
<1>2. ASSUME NEW k \in Kinds, Spend(k)
      PROVE  Counted'
  BY <1>2 DEF Counted, Spend
<1>3. ASSUME NEW p, RequestStep(p)
      PROVE  Counted'
  BY <1>1, <1>2, <1>3
  DEF Kinds, RequestStep, Get, Reach, Send, SendPassword, Trusted, Lock, SignIn, Resend,
      Done, SignedOut, Learn, WatchActivity
<1>4. ASSUME NEW p, NEW m, Route(p, m) \/ Connect(p, m) \/ Login(p, m)
      PROVE  Counted'
  BY <1>1, <1>2, <1>4 DEF Kinds, Route, Connect, Login
<1>5. ASSUME NEW p, NEW a, Add(p, a)
      PROVE  Counted'
  BY <1>1, <1>2, <1>5 DEF Kinds, Add
<1>6. ASSUME NEW m, WorkerStep(m) \/ Tick(m) \/ PauseOver(m)
      PROVE  Counted'
  BY <1>1, <1>2, <1>3, <1>6 DEF Kinds, WorkerStep, Refreshed, Tick, PauseOver
<1>7. ASSUME NEW m, Delete(m) \/ EndSessions(m) \/ RevokeKey(m) \/ Work(m)
      PROVE  Counted'
  BY <1>1, <1>2, <1>7 DEF Kinds, Delete, EndSessions, RevokeKey, Work
<1>8. ASSUME NEW a, NEW m, Move(a, m)
      PROVE  Counted'
  BY <1>1, <1>2, <1>8 DEF Kinds, Move
<1> QED
  BY <1>1, <1>3, <1>4, <1>5, <1>6, <1>7, <1>8 DEF Next, vars

LEMMA InitInv == Init => Inv /\ Counted
<1> SUFFICES ASSUME Init PROVE Inv /\ Counted
  OBVIOUS
<1>1. Entries
  BY HomeAssumption DEF Init, Entries, Forms, Unsaved, Quiet
<1>2. Requests
  BY DEF Init, Requests, Idle, Fields, Given
<1>3. Theirs
  BY DEF Init, Theirs, Belongs, Forms, Unsaved, NoSession
<1>4. Watched /\ Refusals
  BY DEF Init, Watched, Refusals, Quiet, Idle
<1>5. KeyHeld
  BY NobodyAssumption DEF Init, KeyHeld, Idle, Procs
<1>6. Counted
  BY BudgetAssumption DEF Init, Counted
<1> QED BY <1>1, <1>2, <1>3, <1>4, <1>5, <1>6 DEF Inv

LEMMA StutterKeeps ==
    ASSUME Inv, UNCHANGED vars
    PROVE  Inv'
<1>1. UNCHANGED <<answers, gate, saved, keyMu, activity, issued, call>>
  BY DEF vars, others, locks
<1> QED BY <1>1, EntriesStay, RequestsStay DEF Inv

LEMMA AlwaysInv == Spec => [](Inv /\ Counted)
<1>1. Inv /\ Counted /\ [Next]_vars => (Inv /\ Counted)'
  BY StepKeeps, StutterKeeps, StepCounted DEF Keeps
<1> QED BY <1>1, InitInv, PTL DEF Spec

\* The session that is saved for a machine was given by it, whoever answers at
\* its addresses meanwhile, or by one that accepted the password the user sent
\* for it (keySignIn, signInRemote).
THEOREM SessionsAreTheirs == Spec => []SessionIsTheirs
<1>1. Inv => SessionIsTheirs
  BY DEF Inv, Theirs, Belongs, SessionIsTheirs, NoSession
<1> QED BY <1>1, AlwaysInv, PTL

\* Requests that all hit an expired session sign in once (keySignIn): whoever
\* starts to sign in has the session that is saved by now, and it is over.
THEOREM SignInsAreNeeded == Spec => NoNeedlessSignIn
<1>1. Inv /\ Counted /\ [Next]_vars =>
         [\A p \in Procs : call'[p].pc = "key" /\ call[p].pc # "key" =>
            \/ saved[call[p].id].cookie \notin gate[call[p].id].valid
            \/ call[p].from # call[p].id]_vars
  BY StepKeeps DEF Keeps, InNeed
<1> QED BY <1>1, AlwaysInv, PTL DEF Spec, NoNeedlessSignIn

\* A removed machine has no worker and comes back only by being added, whatever
\* requests to it are still on their way (update, watchActivity, deleteRemote).
THEOREM RemovedMachinesStay == Spec => RemovedStaysRemoved
<1>1. Inv /\ Counted /\ [Next]_vars =>
         [\A m \in Machines :
            /\ ~saved'[m].here => ~activity'[m].on
            /\ ~saved[m].here /\ saved'[m].here => left'["add"] < left["add"]]_vars
  BY StepKeeps DEF Keeps, Stays, Inv, Watched
<1> QED BY <1>1, AlwaysInv, PTL DEF Spec, RemovedStaysRemoved

\* One request signs in at a time, although a removed machine's worker is
\* cancelled while it has keyMu (keySignIn, watchActivity).
THEOREM OneSignsIn ==
    Spec => [](\A p, q \in Procs : call[p].pc = "key" /\ call[q].pc = "key" => p = q)
<1>1. Inv => \A p, q \in Procs : call[p].pc = "key" /\ call[q].pc = "key" => p = q
  BY DEF Inv, KeyHeld
<1> QED BY <1>1, AlwaysInv, PTL
-----------------------------------------------------------------------------
(* Updates                                                                  *)

Versions == 1..MaxVersion
Ids == {-1, 0} \cup Attempts
Executables == [version : Versions, id : Ids]
Programs == Executables \cup {Absent}
MarkSet == {"ready", "error", "done", "cancel"}
HelperPlaces == {"none", "launched", "staging", "waiting", "moved", "over"}
Planned(a) == plan[a] # Unplanned
Working == {"downloading", "polling", "cancelling"}

\* What the variables hold, closely enough to compute with.
Typed ==
    /\ life \in Nat \ {0} /\ up \in BOOLEAN /\ version \in Versions
    /\ offer \in Versions \cup {None} /\ released \in Versions
    /\ status \in [busy : BOOLEAN, ready : BOOLEAN, error : BOOLEAN]
    /\ preparing \in [pc : Working, of : Attempts] \cup {Nothing}
    /\ target \in Programs
    /\ previous \in [Attempts -> Programs] /\ staged \in [Attempts -> Programs]
    /\ marks \in [Attempts -> SUBSET MarkSet]
    /\ plan \in [Attempts -> [parent : Nat \ {0}, version : Versions] \cup {Unplanned}]
    /\ helper \in [Attempts -> HelperPlaces] /\ original \in [Attempts -> Ids]
    /\ told \in [Attempts -> {"nothing", "ready", "failed", "unmarked"}]
    /\ installed \subseteq Attempts

\* prepare works on the newest attempt, in the program that began it, and has
\* told nothing of it yet.
Works ==
    /\ status.busy <=> preparing # Nothing
    /\ preparing # Nothing => up
    /\ preparing.pc = "downloading" => helper[preparing.of] = "none"
    /\ \A a \in Attempts : preparing.of = a =>
          /\ plan[a].parent = life /\ told[a] = "nothing" /\ Planned(a)
          /\ \A b \in Attempts : Planned(b) => b <= a

\* An attempt leaves no trace before it begins, and what it began with is not of
\* a later life.
Begun ==
    \A a \in Attempts :
        /\ plan[a].parent <= life
        /\ ~Planned(a) => helper[a] = "none" /\ told[a] = "nothing" /\ original[a] = 0
        /\ \A b \in Attempts : b < a /\ Planned(a) => Planned(b)

\* Where a helper is says what it has made and what it may find.
Helpers ==
    \A a \in Attempts :
        /\ helper[a] \in {"waiting", "moved"} => staged[a] = Executable(plan[a].version, a)
        /\ helper[a] = "moved" => previous[a] # Absent /\ previous[a].id = original[a]
        /\ helper[a] = "moved" \/ a \in installed => ParentGone(a) /\ told[a] # "failed"
        /\ a \in installed => helper[a] = "over"
        /\ "ready" \in marks[a] => helper[a] \in {"waiting", "moved", "over"}
        /\ told[a] = "ready" => helper[a] \in {"waiting", "moved", "over"}
        /\ helper[a] # "over" => marks[a] \cap {"error", "done"} = {}

\* What was given up has its marker, unless no helper will ever read it.
GivenUp ==
    \A a \in Attempts : told[a] = "failed" => "cancel" \in marks[a] \/ helper[a] \in {"none", "over"}

\* An executable is the first release, one that somebody else put there, or what
\* an attempt was planned to install.
Known(e) ==
    /\ e # Absent /\ e.id = 0 => e.version = 1
    /\ e.id \in Attempts => Planned(e.id) /\ e.version = plan[e.id].version
AllKnown == Known(target) /\ \A a \in Attempts : Known(previous[a])

\* Later attempts are for later releases.
Newer ==
    /\ \A a \in Attempts : Planned(a) =>
          /\ plan[a].version <= released
          /\ offer # None => plan[a].version <= offer
          /\ \A b \in Attempts : b <= a /\ Planned(b) => plan[b].version <= plan[a].version
    /\ offer <= released

\* The executable that a helper found in time is of no later attempt.
Found == \A a \in Attempts : told[a] = "ready" \/ preparing.of = a => original[a] <= a

Copies == target # Absent \/ \E a \in Attempts : previous[a] # Absent

UpdatesInv == Typed /\ Works /\ Begun /\ Helpers /\ GivenUp /\ AllKnown /\ Newer /\ Found /\ Copies

LEMMA Numbers == /\ \A a \in Attempts : a \in Nat /\ a > 0
                 /\ \A v \in Versions : v \in Nat /\ v > 0
                 /\ 1 \in Versions /\ Versions \subseteq Int
<1>1. \A v \in Versions : v \in Nat /\ v > 0
  BY UpdatesAssumption DEF Versions
<1>2. \A a \in Attempts : a \in Nat /\ a > 0
  <2> DEFINE n == Cardinality(Attempts)
  <2>1. Attempts = 1..n
    BY UpdatesAssumption
  <2> HIDE DEF n
  <2>2. QED
    BY <2>1
<1>3. 1 \in Versions /\ Versions \subseteq Int
  BY UpdatesAssumption DEF Versions
<1>4. QED
  BY <1>1, <1>2, <1>3

\* What is at a path where something is.
LEMMA Programmed ==
    /\ Absent \in Programs /\ Absent.id = 0 /\ Absent.version = 0
    /\ \A e \in Programs : e # Absent => e.version \in Versions /\ e.id \in Ids
    /\ \A v \in Versions, i \in Ids :
          LET e == Executable(v, i)
          IN  e \in Programs /\ e # Absent /\ e.version = v /\ e.id = i
BY Numbers DEF Absent, None, Programs, Executables, Executable

\* When prepare works on nothing.
LEMMA Unprepared == Nothing.pc # "downloading" /\ Nothing.of = 0 /\ Nothing.of \notin Attempts
BY Numbers DEF Nothing, None

\* What a plan says.
LEMMA Plans ==
    ASSUME UpdatesInv, NEW a \in Attempts
    PROVE  /\ Planned(a) => plan[a].version \in Versions /\ plan[a].parent \in Nat \ {0}
           /\ ~Planned(a) => plan[a].parent = 0
           /\ plan[a].parent \in Nat
BY DEF UpdatesInv, Typed, Planned, Unplanned, None

\* Everything the invariant is about.
state == <<life, up, version, offer, status, preparing, files, helpers, released, told, installed>>
LEMMA Unchanged == ASSUME UpdatesInv, UNCHANGED state PROVE UpdatesInv'
BY DEF UpdatesInv, state, files, helpers, Typed, Works, Begun, Planned, Helpers, ParentGone, GivenUp,
       AllKnown, Known, Newer, Found, Copies

LEMMA UpdatesInitInv == ASSUME UpdatesInit PROVE UpdatesInv
<1>1. Typed
  <2>1. Executable(1, 0) \in Programs /\ Absent \in Programs
    BY Numbers, Programmed DEF Ids
  <2>2. QED
    BY <2>1, Numbers DEF UpdatesInit, Typed, NoStatus, Ids, None, MarkSet, HelperPlaces
<1>2. Works /\ Begun /\ Helpers /\ GivenUp
  BY Numbers DEF UpdatesInit, Works, Nothing, NoStatus, None, Begun, Planned, Unplanned, Helpers, GivenUp
<1>3. AllKnown /\ Newer /\ Found /\ Copies
  BY Numbers, Programmed DEF UpdatesInit, AllKnown, Known, Newer, Found, Copies, Planned, Nothing, None, Executable, Absent
<1>4. QED
  BY <1>1, <1>2, <1>3 DEF UpdatesInv

\* The offer follows the published releases, which only get newer.
LEMMA CheckInv == ASSUME UpdatesInv, Check PROVE UpdatesInv'
<1>1. /\ offer' \in {released, None}
      /\ UNCHANGED <<life, up, version, status, preparing, files, helpers, released, told, installed>>
  BY DEF Check, history
<1>2. Typed'
  BY <1>1 DEF UpdatesInv, Typed, files, helpers
<1>3. Newer'
  BY <1>1, Numbers DEF UpdatesInv, Typed, Newer, Planned, files, None
<1>4. Works' /\ Begun' /\ Helpers' /\ GivenUp'
  BY <1>1 DEF UpdatesInv, Works, Begun, Planned, Helpers, ParentGone, GivenUp, files, helpers
<1>5. AllKnown' /\ Found' /\ Copies'
  BY <1>1 DEF UpdatesInv, AllKnown, Known, Planned, Found, Copies, files, helpers
<1>6. QED
  BY <1>2, <1>3, <1>4, <1>5 DEF UpdatesInv

LEMMA PublishInv == ASSUME UpdatesInv, Publish PROVE UpdatesInv'
<1>1. /\ released' = released + 1 /\ released < MaxVersion
      /\ UNCHANGED <<program, files, helpers, told, installed>>
  BY DEF Publish, history
<1>2. Typed'
  BY <1>1, UpdatesAssumption DEF UpdatesInv, Typed, Versions, program, files, helpers
<1>3. Newer'
  <2>1. \A a \in Attempts : (Planned(a)' <=> Planned(a)) /\ plan'[a] = plan[a]
    BY <1>1 DEF Planned, files
  <2>2. offer' = offer /\ offer \in Int /\ released \in Int
    BY <1>1, Numbers DEF UpdatesInv, Typed, None, program
  <2>3. \A a \in Attempts : Planned(a) => plan[a].version \in Int
    BY Plans, Numbers
  <2>4. QED
    BY <1>1, <2>1, <2>2, <2>3 DEF UpdatesInv, Newer
<1>4. Works' /\ Begun' /\ Helpers' /\ GivenUp'
  BY <1>1 DEF UpdatesInv, Works, Begun, Planned, Helpers, ParentGone, GivenUp, program, files, helpers
<1>5. AllKnown' /\ Found' /\ Copies'
  BY <1>1 DEF UpdatesInv, AllKnown, Known, Planned, Found, Copies, program, files, helpers
<1>6. QED
  BY <1>2, <1>3, <1>4, <1>5 DEF UpdatesInv

LEMMA IgnoreInv == ASSUME UpdatesInv, Ignore PROVE UpdatesInv'
<1>1. /\ status' = [status EXCEPT !.error = FALSE]
      /\ UNCHANGED <<life, up, version, offer, preparing, files, helpers, released, told, installed>>
  BY DEF Ignore, history
<1>2. Typed' /\ Works' /\ Begun'
  BY <1>1 DEF UpdatesInv, Typed, Works, Begun, Planned, files, helpers
<1>3. Helpers' /\ GivenUp' /\ AllKnown' /\ Newer' /\ Found' /\ Copies'
  BY <1>1 DEF UpdatesInv, Helpers, ParentGone, GivenUp, AllKnown, Known, Newer, Planned, Found, Copies,
              files, helpers
<1>4. QED
  BY <1>2, <1>3 DEF UpdatesInv

\* A new attempt is the newest, and is for the newest release any was for.
LEMMA StartInv == ASSUME UpdatesInv, NEW a \in Attempts, Start(a) PROVE UpdatesInv'
<1>1. /\ up /\ offer \in Versions /\ ~status.busy
      /\ ~Planned(a) /\ \A b \in Attempts : b < a => Planned(b)
      /\ status' = [busy |-> TRUE, ready |-> FALSE, error |-> FALSE]
      /\ preparing' = [pc |-> "downloading", of |-> a]
      /\ plan' = [plan EXCEPT ![a] = [parent |-> life, version |-> offer]]
      /\ UNCHANGED <<life, up, version, offer, target, previous, staged, marks, helper, original,
                     released, told, installed>>
  BY DEF Start, Available, InProgress, Planned, NoStatus, UpdatesInv, Typed, helpers, history
<1>2. /\ plan'[a] = [parent |-> life, version |-> offer] /\ Planned(a)'
      /\ \A b \in Attempts : b # a => plan'[b] = plan[b] /\ (Planned(b)' <=> Planned(b))
      /\ plan' \in [Attempts -> [parent : Nat \ {0}, version : Versions] \cup {Unplanned}]
  BY <1>1, Numbers DEF UpdatesInv, Typed, Planned, Unplanned, None
<1>3. Typed'
  BY <1>1, <1>2 DEF UpdatesInv, Typed, Working
<1>4. \A b \in Attempts : Planned(b) => b <= a /\ b # a
  BY <1>1, Numbers DEF UpdatesInv, Begun
<1>5. helper[a] = "none" /\ told[a] = "nothing" /\ original[a] = 0 /\ a \notin installed
  BY <1>1 DEF UpdatesInv, Begun, Helpers
<1>6. Works'
  BY <1>1, <1>2, <1>4, <1>5, Numbers DEF UpdatesInv, Works, Nothing, None
<1>7. Begun'
  BY <1>1, <1>2, Numbers DEF UpdatesInv, Typed, Begun
<1>8. Helpers' /\ GivenUp'
  BY <1>1, <1>2, <1>5 DEF UpdatesInv, Helpers, ParentGone, GivenUp
<1>9. AllKnown'
  BY <1>1, <1>2 DEF UpdatesInv, AllKnown, Known
<1>10. Newer'
  BY <1>1, <1>2, <1>4, Numbers DEF UpdatesInv, Typed, Newer, None
<1>11. Found' /\ Copies'
  BY <1>1, <1>5, Numbers DEF UpdatesInv, Found, Copies
<1>12. QED
  BY <1>3, <1>6, <1>7, <1>8, <1>9, <1>10, <1>11 DEF UpdatesInv

\* prepare goes on, with a helper on its way or without.
LEMMA GoesOn ==
    ASSUME UpdatesInv, NEW a \in Attempts, NEW w \in Working, w # "downloading", up,
           preparing.of = a, preparing' = [pc |-> w, of |-> a],
           \/ helper' = helper
           \/ helper[a] = "none" /\ helper' = [helper EXCEPT ![a] = "launched"],
           UNCHANGED <<life, up, version, offer, status, files, original, released, told, installed>>
    PROVE  UpdatesInv'
<1>1. /\ helper' \in [Attempts -> HelperPlaces]
      /\ \A b \in Attempts : b # a => helper'[b] = helper[b]
      /\ helper'[a] = helper[a] \/ (helper[a] = "none" /\ helper'[a] = "launched")
  BY DEF UpdatesInv, Typed, HelperPlaces
<1>2. preparing # Nothing /\ preparing' # Nothing
  BY Numbers DEF Nothing, None
<1>3. Typed' /\ Works'
  BY <1>1, <1>2 DEF UpdatesInv, Typed, Works, Planned, files
<1>4. Begun' /\ Helpers' /\ GivenUp'
  BY <1>1 DEF UpdatesInv, Begun, Works, Helpers, GivenUp, Planned, ParentGone, files
<1>5. AllKnown' /\ Newer' /\ Found' /\ Copies'
  BY DEF UpdatesInv, AllKnown, Known, Newer, Planned, Found, Copies, files
<1>6. QED
  BY <1>3, <1>4, <1>5 DEF UpdatesInv

LEMMA LaunchHelperInv == ASSUME UpdatesInv, NEW a \in Attempts, LaunchHelper(a) PROVE UpdatesInv'
<1>1. /\ up /\ preparing = [pc |-> "downloading", of |-> a]
      /\ preparing' = [pc |-> "polling", of |-> a]
      /\ helper' = [helper EXCEPT ![a] = "launched"]
      /\ UNCHANGED <<life, up, version, offer, status, files, original, released, told, installed>>
  BY DEF LaunchHelper, Preparing, history
<1>2. helper[a] = "none"
  BY <1>1 DEF UpdatesInv, Works
<1>3. QED
  BY <1>1, <1>2, GoesOn DEF Working

LEMMA LaunchFailsInv == ASSUME UpdatesInv, NEW a \in Attempts, LaunchFails(a) PROVE UpdatesInv'
<1>1. /\ up /\ preparing = [pc |-> "downloading", of |-> a]
      /\ preparing' = [pc |-> "cancelling", of |-> a]
      /\ helper' \in {helper, [helper EXCEPT ![a] = "launched"]}
      /\ UNCHANGED <<life, up, version, offer, status, files, original, released, told, installed>>
  BY DEF LaunchFails, Preparing, history
<1>2. helper[a] = "none"
  BY <1>1 DEF UpdatesInv, Works
<1>3. QED
  BY <1>1, <1>2, GoesOn DEF Working

LEMMA SeeErrorInv == ASSUME UpdatesInv, NEW a \in Attempts, SeeError(a) \/ GiveUp(a) PROVE UpdatesInv'
<1>1. /\ up /\ preparing = [pc |-> "polling", of |-> a]
      /\ preparing' = [pc |-> "cancelling", of |-> a]
      /\ UNCHANGED <<life, up, version, offer, status, files, helpers, released, told, installed>>
  BY DEF SeeError, GiveUp, Preparing, history
<1>2. QED
  BY <1>1, GoesOn DEF Working, helpers

\* prepare returns: it has seen its helper at work, or leaves its marker if it can.
LEMMA Returned ==
    ASSUME UpdatesInv, NEW a \in Attempts, NEW r \in {"ready", "failed", "unmarked"},
           preparing.of = a, Return(a, r),
           r = "ready" => helper[a] \in {"waiting", "moved", "over"},
           r # "failed" \/ helper[a] = "none" \/ "cancel" \in marks'[a],
           marks' \in {marks, [marks EXCEPT ![a] = @ \cup {"cancel"}]},
           UNCHANGED <<life, up, version, offer, target, previous, staged, plan, helpers,
                       released, installed>>
    PROVE  UpdatesInv'
<1>1. /\ marks' \in [Attempts -> SUBSET MarkSet]
      /\ \A b \in Attempts : marks'[b] \in {marks[b], marks[b] \cup {"cancel"}}
  BY DEF UpdatesInv, Typed, MarkSet
<1>2. /\ preparing' = Nothing /\ status' \in [busy : BOOLEAN, ready : BOOLEAN, error : BOOLEAN]
      /\ ~status'.busy
      /\ told' = [told EXCEPT ![a] = r]
  BY DEF Return
<1>3. /\ told' \in [Attempts -> {"nothing", "ready", "failed", "unmarked"}]
      /\ told'[a] = r
      /\ \A b \in Attempts : b # a => told'[b] = told[b]
  BY <1>2 DEF UpdatesInv, Typed
<1>4. up /\ plan[a].parent = life /\ Planned(a) /\ helper[a] # "moved" /\ a \notin installed
  BY Numbers DEF UpdatesInv, Works, Helpers, ParentGone, Nothing, None
<1>5. Typed' /\ Works' /\ Begun'
  BY <1>1, <1>2, <1>3, <1>4, Numbers DEF UpdatesInv, Typed, Works, Begun, Planned, helpers, Nothing, None
<1>6. Helpers' /\ GivenUp'
  BY <1>1, <1>3, <1>4 DEF UpdatesInv, Helpers, GivenUp, ParentGone, helpers
<1>7. AllKnown' /\ Newer' /\ Copies'
  BY DEF UpdatesInv, AllKnown, Known, Newer, Planned, Copies
<1>8. Found'
  BY <1>2, <1>3, Numbers DEF UpdatesInv, Found, Nothing, None, helpers
<1>9. QED
  BY <1>5, <1>6, <1>7, <1>8 DEF UpdatesInv

LEMMA DownloadFailsInv == ASSUME UpdatesInv, NEW a \in Attempts, DownloadFails(a) PROVE UpdatesInv'
<1>1. /\ up /\ preparing = [pc |-> "downloading", of |-> a] /\ Return(a, "failed")
      /\ UNCHANGED <<life, up, version, offer, files, helpers, released, installed>>
  BY DEF DownloadFails, Preparing
<1>2. helper[a] = "none"
  BY <1>1 DEF UpdatesInv, Works
<1>3. QED
  BY <1>1, <1>2, Returned DEF files

LEMMA SeeReadyInv == ASSUME UpdatesInv, NEW a \in Attempts, SeeReady(a) PROVE UpdatesInv'
<1>1. /\ up /\ preparing = [pc |-> "polling", of |-> a] /\ Return(a, "ready") /\ "ready" \in marks[a]
      /\ UNCHANGED <<life, up, version, offer, files, helpers, released, installed>>
  BY DEF SeeReady, Preparing
<1>2. helper[a] \in {"waiting", "moved", "over"}
  BY <1>1 DEF UpdatesInv, Helpers
<1>3. QED
  BY <1>1, <1>2, Returned DEF files

LEMMA CancelInv == ASSUME UpdatesInv, NEW a \in Attempts, Cancel(a) PROVE UpdatesInv'
<1>1. /\ up /\ preparing = [pc |-> "cancelling", of |-> a] /\ Return(a, "failed")
      /\ marks' = [marks EXCEPT ![a] = @ \cup {"cancel"}]
      /\ UNCHANGED <<life, up, version, offer, target, previous, staged, plan, helpers, released,
                     installed>>
  BY DEF Cancel, Preparing, Mark
<1>2. "cancel" \in marks'[a]
  BY <1>1 DEF UpdatesInv, Typed
<1>3. QED
  BY <1>1, <1>2, Returned

LEMMA CancelFailsInv == ASSUME UpdatesInv, NEW a \in Attempts, CancelFails(a) PROVE UpdatesInv'
<1>1. /\ up /\ preparing = [pc |-> "cancelling", of |-> a] /\ Return(a, "unmarked")
      /\ UNCHANGED <<life, up, version, offer, files, helpers, released, installed>>
  BY DEF CancelFails, Preparing
<1>2. QED
  BY <1>1, Returned DEF files

\* A helper that is over leaves its attempt as it is, but for what it takes away.
LEMMA Ended ==
    ASSUME UpdatesInv, NEW a \in Attempts, helper[a] # "none", helper' = [helper EXCEPT ![a] = "over"],
           NEW m \in SUBSET MarkSet, marks' = [marks EXCEPT ![a] = @ \cup m],
           staged' \in {staged, [staged EXCEPT ![a] = Absent]},
           installed' = installed \/ (helper[a] = "moved" /\ installed' = installed \cup {a}),
           \A b \in Attempts : b # a => previous'[b] = previous[b],
           target' \in Programs, previous' \in [Attempts -> Programs],
           UNCHANGED <<life, up, version, offer, status, preparing, plan, original, released, told>>
    PROVE  Typed' /\ Works' /\ Begun' /\ Helpers' /\ GivenUp' /\ Newer' /\ Found'
<1>1. /\ helper'[a] = "over" /\ \A b \in Attempts : b # a => helper'[b] = helper[b]
      /\ marks[a] \subseteq marks'[a] /\ \A b \in Attempts : b # a => marks'[b] = marks[b]
      /\ \A b \in Attempts : b # a => staged'[b] = staged[b]
      /\ helper' \in [Attempts -> HelperPlaces] /\ marks' \in [Attempts -> SUBSET MarkSet]
      /\ staged' \in [Attempts -> Programs] /\ installed' \subseteq Attempts
  <2>1. /\ Absent \in Programs
        /\ helper \in [Attempts -> HelperPlaces] /\ staged \in [Attempts -> Programs]
        /\ marks \in [Attempts -> SUBSET MarkSet] /\ installed \subseteq Attempts
    BY Programmed DEF UpdatesInv, Typed
  <2>2. /\ helper'[a] = "over" /\ \A b \in Attempts : b # a => helper'[b] = helper[b]
        /\ helper' \in [Attempts -> HelperPlaces]
    BY <2>1 DEF HelperPlaces
  <2>3. /\ marks[a] \subseteq marks'[a] /\ \A b \in Attempts : b # a => marks'[b] = marks[b]
        /\ marks' \in [Attempts -> SUBSET MarkSet]
    BY <2>1
  <2>4. /\ \A b \in Attempts : b # a => staged'[b] = staged[b]
        /\ staged' \in [Attempts -> Programs] /\ installed' \subseteq Attempts
    BY <2>1
  <2>5. QED
    BY <2>2, <2>3, <2>4
<1>2. Typed'
  BY <1>1 DEF UpdatesInv, Typed
<1>3. Works' /\ Begun'
  BY <1>1 DEF UpdatesInv, Works, Begun, Planned
<1>4. Helpers'
  BY <1>1 DEF UpdatesInv, Helpers, ParentGone
<1>5. GivenUp' /\ Newer' /\ Found'
  BY <1>1 DEF UpdatesInv, GivenUp, Newer, Planned, Found
<1>6. QED
  BY <1>2, <1>3, <1>4, <1>5

\* A helper that gives up in time has not touched the executable.
LEMMA HandsOff ==
    ASSUME UpdatesInv, NEW a \in Attempts, helper[a] # "none", helper' = [helper EXCEPT ![a] = "over"],
           NEW m \in SUBSET MarkSet, marks' = [marks EXCEPT ![a] = @ \cup m],
           staged' \in {staged, [staged EXCEPT ![a] = Absent]},
           UNCHANGED <<program, target, previous, plan, original, released, told, installed>>
    PROVE  UpdatesInv'
<1>1. target \in Programs /\ previous \in [Attempts -> Programs]
  BY DEF UpdatesInv, Typed
<1>2. Typed' /\ Works' /\ Begun' /\ Helpers' /\ GivenUp' /\ Newer' /\ Found'
  BY <1>1, Ended DEF program
<1>3. AllKnown' /\ Copies'
  BY DEF UpdatesInv, AllKnown, Known, Planned, Copies
<1>4. QED
  BY <1>2, <1>3 DEF UpdatesInv

LEMMA GivesUp ==
    ASSUME UpdatesInv, NEW a \in Attempts, helper[a] # "none", Fail(a),
           UNCHANGED <<program, target, previous, plan, original, released, told, installed>>
    PROVE  UpdatesInv'
<1>1. /\ helper' = [helper EXCEPT ![a] = "over"] /\ {"error"} \in SUBSET MarkSet
      /\ marks' = [marks EXCEPT ![a] = @ \cup {"error"}]
      /\ staged' = [staged EXCEPT ![a] = Absent]
  BY DEF Fail, Now, Mark, Discard, MarkSet
<1>2. QED
  BY <1>1, HandsOff

LEMMA StageFailsInv == ASSUME UpdatesInv, NEW a \in Attempts, StageFails(a) \/ WaitFails(a) \/ StandBack(a)
    PROVE UpdatesInv'
<1>1. /\ helper[a] # "none" /\ Fail(a)
      /\ UNCHANGED <<program, target, previous, plan, original, released, told, installed>>
  BY DEF StageFails, WaitFails, StandBack
<1>2. QED
  BY <1>1, GivesUp

LEMMA KillInv == ASSUME UpdatesInv, NEW a \in Attempts, Kill(a) PROVE UpdatesInv'
<1>1. /\ helper[a] # "none" /\ helper' = [helper EXCEPT ![a] = "over"]
      /\ marks' = marks \/ marks' = [marks EXCEPT ![a] = @ \cup {"error"}]
      /\ UNCHANGED <<program, target, previous, staged, plan, original, released, told, installed>>
  BY DEF Kill, Now, Mark
<1>2. \E m \in SUBSET MarkSet : marks' = [marks EXCEPT ![a] = @ \cup m]
  <2>1. marks = [marks EXCEPT ![a] = @ \cup {}] /\ {} \in SUBSET MarkSet /\ {"error"} \in SUBSET MarkSet
    BY DEF UpdatesInv, Typed, MarkSet
  <2>2. QED
    BY <1>1, <2>1
<1>3. QED
  BY <1>1, <1>2, HandsOff

\* The helper notes which executable it found: one of an attempt that was planned.
LEMMA BeginInv == ASSUME UpdatesInv, NEW a \in Attempts, Begin(a) PROVE UpdatesInv'
<1>1. /\ helper[a] = "launched"
      /\ UNCHANGED <<program, target, previous, plan, released, told, installed>>
  BY DEF Begin
<1>2. CASE "cancel" \in marks[a] \/ target = Absent
  <2>1. Fail(a) /\ original' = original
    BY <1>2 DEF Begin
  <2>2. QED
    BY <1>1, <2>1, GivesUp
<1>3. CASE ~("cancel" \in marks[a] \/ target = Absent)
  <2>1. /\ helper' = [helper EXCEPT ![a] = "staging"]
        /\ original' = [original EXCEPT ![a] = target.id]
        /\ UNCHANGED <<marks, staged>> /\ "cancel" \notin marks[a]
        /\ target.id \in Ids /\ Planned(a)
    BY <1>1, <1>3, Programmed DEF Begin, Now, UpdatesInv, Typed, Begun
  <2>2. /\ helper' \in [Attempts -> HelperPlaces] /\ original' \in [Attempts -> Ids]
        /\ helper'[a] = "staging" /\ original'[a] = target.id
        /\ \A b \in Attempts : b # a => helper'[b] = helper[b] /\ original'[b] = original[b]
    BY <2>1 DEF UpdatesInv, Typed, HelperPlaces
  <2>3. Typed' /\ Works' /\ Begun'
    BY <1>1, <2>1, <2>2 DEF UpdatesInv, Typed, Works, Begun, Planned, program
  <2>4. Helpers' /\ GivenUp'
    BY <1>1, <2>1, <2>2 DEF UpdatesInv, Helpers, GivenUp, ParentGone, program
  <2>5. AllKnown' /\ Newer' /\ Copies'
    BY <1>1 DEF UpdatesInv, AllKnown, Known, Newer, Planned, Copies, program
  <2>6. Found'
    <3>1. preparing.of = a => target.id <= a
      BY <2>1, Numbers DEF UpdatesInv, Works, AllKnown, Known, Ids
    <3>2. told[a] # "ready"
      BY <1>1 DEF UpdatesInv, Helpers
    <3>3. QED
      BY <1>1, <2>2, <3>1, <3>2 DEF UpdatesInv, Found, program
  <2>7. QED
    BY <2>3, <2>4, <2>5, <2>6 DEF UpdatesInv
<1>4. QED
  BY <1>2, <1>3

\* The replacement is staged before the helper says that it is ready.
LEMMA StageInv == ASSUME UpdatesInv, NEW a \in Attempts, Stage(a) PROVE UpdatesInv'
<1>1. /\ helper[a] = "staging" /\ helper' = [helper EXCEPT ![a] = "waiting"]
      /\ staged' = [staged EXCEPT ![a] = Executable(plan[a].version, a)]
      /\ marks' = [marks EXCEPT ![a] = @ \cup {"ready"}]
      /\ UNCHANGED <<program, target, previous, plan, original, released, told, installed>>
  BY DEF Stage, Now, Mark, history
<1>2. Planned(a) /\ Executable(plan[a].version, a) \in Programs
  <2>1. Planned(a)
    BY <1>1 DEF UpdatesInv, Begun
  <2>2. QED
    BY <2>1, Plans, Programmed DEF Ids
<1>3. /\ helper' \in [Attempts -> HelperPlaces] /\ staged' \in [Attempts -> Programs]
      /\ marks' \in [Attempts -> SUBSET MarkSet]
      /\ helper'[a] = "waiting" /\ staged'[a] = Executable(plan[a].version, a)
      /\ marks'[a] = marks[a] \cup {"ready"}
      /\ \A b \in Attempts : b # a =>
            helper'[b] = helper[b] /\ staged'[b] = staged[b] /\ marks'[b] = marks[b]
  BY <1>1, <1>2 DEF UpdatesInv, Typed, HelperPlaces, MarkSet
<1>4. Typed' /\ Works' /\ Begun'
  BY <1>1, <1>2, <1>3 DEF UpdatesInv, Typed, Works, Begun, Planned, program
<1>5. Helpers' /\ GivenUp'
  BY <1>1, <1>3 DEF UpdatesInv, Helpers, GivenUp, ParentGone, program
<1>6. AllKnown' /\ Newer' /\ Found' /\ Copies'
  BY <1>1 DEF UpdatesInv, AllKnown, Known, Newer, Planned, Found, Copies, program
<1>7. QED
  BY <1>4, <1>5, <1>6 DEF UpdatesInv

\* The executable is moved aside, not lost.
LEMMA MoveAsideInv == ASSUME UpdatesInv, NEW a \in Attempts, MoveAside(a) PROVE UpdatesInv'
<1>1. /\ helper[a] = "waiting" /\ helper' = [helper EXCEPT ![a] = "moved"]
      /\ ParentGone(a) /\ "cancel" \notin marks[a]
      /\ target # Absent /\ target.id = original[a]
      /\ previous' = [previous EXCEPT ![a] = target] /\ target' = Absent
      /\ UNCHANGED <<program, staged, marks, plan, original, released, told, installed>>
  BY DEF MoveAside, Abandoned, Same, Now, history
<1>2. /\ helper' \in [Attempts -> HelperPlaces] /\ previous' \in [Attempts -> Programs]
      /\ helper'[a] = "moved" /\ previous'[a] = target
      /\ \A b \in Attempts : b # a => helper'[b] = helper[b] /\ previous'[b] = previous[b]
  BY <1>1 DEF UpdatesInv, Typed, HelperPlaces
<1>3. Typed' /\ Works' /\ Begun'
  BY <1>1, <1>2, Programmed DEF UpdatesInv, Typed, Works, Begun, Planned, program
<1>4. told[a] # "failed"
  BY <1>1 DEF UpdatesInv, GivenUp
<1>5. Helpers' /\ GivenUp'
  BY <1>1, <1>2, <1>4 DEF UpdatesInv, Helpers, GivenUp, ParentGone, program
<1>6. AllKnown'
  BY <1>1, <1>2, Programmed, Numbers DEF UpdatesInv, AllKnown, Known, Planned
<1>7. Newer' /\ Found' /\ Copies'
  BY <1>1, <1>2 DEF UpdatesInv, Newer, Planned, Found, Copies, program
<1>8. QED
  BY <1>3, <1>5, <1>6, <1>7 DEF UpdatesInv

\* What is put in place is what the attempt was planned for.
LEMMA PlaceInv == ASSUME UpdatesInv, NEW a \in Attempts, Place(a) PROVE UpdatesInv'
<1>1. /\ helper[a] = "moved" /\ helper' = [helper EXCEPT ![a] = "over"]
      /\ target' = staged[a] /\ staged' = [staged EXCEPT ![a] = Absent]
      /\ previous' = [previous EXCEPT ![a] = Absent]
      /\ marks' = [marks EXCEPT ![a] = @ \cup {"done"}]
      /\ installed' = installed \cup {a}
      /\ UNCHANGED <<program, plan, original, released, told>>
  BY DEF Place, Now, Discard, Mark
<1>2. /\ {"done"} \in SUBSET MarkSet /\ target' \in Programs
      /\ previous' \in [Attempts -> Programs] /\ previous'[a] = Absent
      /\ \A b \in Attempts : b # a => previous'[b] = previous[b]
  BY <1>1, Programmed DEF UpdatesInv, Typed, MarkSet
<1>3. Typed' /\ Works' /\ Begun' /\ Helpers' /\ GivenUp' /\ Newer' /\ Found'
  BY <1>1, <1>2, Ended DEF program
<1>4. Planned(a) /\ target' = Executable(plan[a].version, a)
  BY <1>1 DEF UpdatesInv, Begun, Helpers
<1>5. target' # Absent /\ target'.version = plan[a].version /\ target'.id = a /\ a # 0
  BY <1>4, Plans, Programmed, Numbers DEF Ids
<1>6. AllKnown'
  BY <1>1, <1>2, <1>4, <1>5, Programmed, Numbers DEF UpdatesInv, AllKnown, Known, Planned
<1>7. QED
  BY <1>3, <1>5, <1>6 DEF UpdatesInv, Copies

\* When the second rename fails the backup is back in place, or stays.
LEMMA PlaceFailsInv == ASSUME UpdatesInv, NEW a \in Attempts, PlaceFails(a) PROVE UpdatesInv'
<1>1. /\ helper[a] = "moved" /\ helper' = [helper EXCEPT ![a] = "over"]
      /\ marks' = [marks EXCEPT ![a] = @ \cup {"error"}]
      /\ UNCHANGED <<program, plan, original, released, told, installed>>
  BY DEF PlaceFails, Fail, Now, Mark
<1>2. \/ /\ target' = previous[a] /\ previous' = [previous EXCEPT ![a] = Absent]
         /\ staged' = [staged EXCEPT ![a] = Absent]
      \/ UNCHANGED <<target, previous, staged>>
  BY DEF PlaceFails, Fail, Discard
<1>3. {"error"} \in SUBSET MarkSet
  BY DEF MarkSet
<1>4. CASE target' = previous[a] /\ previous' = [previous EXCEPT ![a] = Absent]
           /\ staged' = [staged EXCEPT ![a] = Absent]
  <2>1. /\ target' \in Programs /\ target' # Absent
        /\ previous' \in [Attempts -> Programs] /\ previous'[a] = Absent
        /\ \A b \in Attempts : b # a => previous'[b] = previous[b]
    BY <1>1, <1>4, Programmed DEF UpdatesInv, Typed, Helpers
  <2>2. Typed' /\ Works' /\ Begun' /\ Helpers' /\ GivenUp' /\ Newer' /\ Found'
    BY <1>1, <1>3, <1>4, <2>1, Ended DEF program
  <2>3. AllKnown'
    BY <1>1, <1>4, <2>1, Programmed, Numbers DEF UpdatesInv, AllKnown, Known, Planned
  <2>4. QED
    BY <2>1, <2>2, <2>3 DEF UpdatesInv, Copies
<1>5. CASE UNCHANGED <<target, previous, staged>>
  BY <1>1, <1>3, <1>5, HandsOff
<1>6. QED
  BY <1>2, <1>4, <1>5

\* Whatever prepare leaves behind, its helper finds its parent gone.
LEMMA EndInv == ASSUME UpdatesInv, End PROVE UpdatesInv'
<1>1. /\ up' = FALSE /\ preparing' = Nothing /\ status' = NoStatus
      /\ UNCHANGED <<life, version, offer, target, previous, staged, plan, helpers, released, told,
                     installed>>
  BY DEF End, history
<1>2. /\ marks' \in [Attempts -> SUBSET MarkSet]
      /\ \A a \in Attempts : marks'[a] \in {marks[a], marks[a] \cup {"cancel"}}
  <2>1. CASE marks' = marks
    BY <2>1 DEF UpdatesInv, Typed
  <2>2. CASE preparing.pc \in {"polling", "cancelling"} /\ Mark(preparing.of, "cancel")
    BY <2>2 DEF UpdatesInv, Typed, Mark, MarkSet, Nothing
  <2>3. QED
    BY <2>1, <2>2 DEF End
<1>3. Typed' /\ Works' /\ Begun'
  <2>1. status' \in [busy : BOOLEAN, ready : BOOLEAN, error : BOOLEAN] /\ ~status'.busy
    BY <1>1 DEF NoStatus
  <2>2. Typed'
    BY <1>1, <1>2, <2>1 DEF UpdatesInv, Typed, helpers
  <2>3. Works'
    BY <1>1, <2>1, Unprepared DEF Works
  <2>4. QED
    BY <1>1, <2>2, <2>3 DEF UpdatesInv, Begun, Planned, helpers
<1>4. Helpers' /\ GivenUp'
  BY <1>1, <1>2 DEF UpdatesInv, Helpers, GivenUp, ParentGone, helpers
<1>5. AllKnown' /\ Newer' /\ Copies'
  BY <1>1 DEF UpdatesInv, AllKnown, Known, Newer, Planned, Copies
<1>6. Found'
  BY <1>1, Numbers DEF UpdatesInv, Found, Nothing, None, helpers
<1>7. QED
  BY <1>3, <1>4, <1>5, <1>6 DEF UpdatesInv

\* A program that starts clears only the files of attempts that are over.
LEMMA OpenInv == ASSUME UpdatesInv, Open PROVE UpdatesInv'
<1>1. /\ ~up /\ target # Absent /\ up' = TRUE /\ life' = life + 1 /\ version' = target.version
      /\ marks' = [a \in Attempts |-> IF a \in Over THEN {} ELSE marks[a]]
      /\ UNCHANGED <<offer, preparing, target, previous, staged, plan, helpers, released, told,
                     installed>>
  BY DEF Open, history
<1>2. status' \in [busy : {FALSE}, ready : BOOLEAN, error : BOOLEAN]
  <2>1. PICK error \in {FALSE} \cup (IF \E a \in Over : "error" \in marks[a] THEN {TRUE} ELSE {}) :
            status' = [NoStatus EXCEPT !.error = error]
    BY DEF Open
  <2>2. error \in BOOLEAN
    OBVIOUS
  <2>3. QED
    BY <2>1, <2>2 DEF NoStatus
<1>3. preparing = Nothing /\ version' \in Versions
  BY <1>1, Programmed DEF UpdatesInv, Typed, Works
<1>4. /\ marks' \in [Attempts -> SUBSET MarkSet]
      /\ \A a \in Attempts : marks'[a] = marks[a] \/ (helper[a] = "over" /\ marks'[a] = {})
  BY <1>1 DEF UpdatesInv, Typed, Helpers, Over
<1>5. Typed' /\ Works'
  <2>1. status' \in [busy : BOOLEAN, ready : BOOLEAN, error : BOOLEAN] /\ ~status'.busy
    BY <1>2
  <2>2. Typed'
    BY <1>1, <1>3, <1>4, <2>1 DEF UpdatesInv, Typed, helpers
  <2>3. Works'
    BY <1>1, <1>3, <2>1, Unprepared DEF Works
  <2>4. QED
    BY <2>2, <2>3
<1>6. life \in Nat /\ \A a \in Attempts : plan[a].parent \in Nat /\ plan[a].parent <= life
  BY Plans DEF UpdatesInv, Typed, Begun
<1>7. Begun'
  BY <1>1, <1>6 DEF UpdatesInv, Begun, Planned, helpers
<1>8. Helpers' /\ GivenUp'
  BY <1>1, <1>4, <1>6 DEF UpdatesInv, Helpers, GivenUp, ParentGone, helpers
<1>9. AllKnown' /\ Newer' /\ Found' /\ Copies'
  BY <1>1 DEF UpdatesInv, AllKnown, Known, Newer, Planned, Found, Copies, helpers
<1>10. QED
  BY <1>5, <1>7, <1>8, <1>9 DEF UpdatesInv

LEMMA ChangeInv == ASSUME UpdatesInv, Change PROVE UpdatesInv'
<1>1. /\ target' = Executable(released, -1)
      /\ UNCHANGED <<program, previous, staged, marks, plan, helpers, released, told, installed>>
  BY DEF Change, history
<1>2. target' \in Programs /\ target' # Absent /\ target'.id = -1
  BY <1>1, Programmed DEF UpdatesInv, Typed, Ids
<1>3. Typed' /\ Works' /\ Begun'
  BY <1>1, <1>2 DEF UpdatesInv, Typed, Works, Begun, Planned, program, helpers
<1>4. Helpers' /\ GivenUp' /\ Newer' /\ Found'
  BY <1>1 DEF UpdatesInv, Helpers, GivenUp, ParentGone, Newer, Planned, Found, program, helpers
<1>5. AllKnown' /\ Copies'
  BY <1>1, <1>2, Numbers DEF UpdatesInv, AllKnown, Known, Planned, Copies
<1>6. QED
  BY <1>3, <1>4, <1>5 DEF UpdatesInv

LEMMA NextInv == ASSUME UpdatesInv, [UpdatesNext]_updateVars PROVE UpdatesInv'
<1>1. ASSUME NEW a \in Attempts, Start(a) \/ Prepare(a)
      PROVE  UpdatesInv'
  BY <1>1, StartInv, LaunchHelperInv, SeeErrorInv, SeeReadyInv, CancelInv DEF Prepare
<1>2. ASSUME NEW a \in Attempts, Help(a)
      PROVE  UpdatesInv'
  BY <1>2, BeginInv, StageInv, MoveAsideInv, StageFailsInv, PlaceInv DEF Help
<1>3. ASSUME NEW a \in Attempts, Faults(a)
      PROVE  UpdatesInv'
  BY <1>3, DownloadFailsInv, LaunchFailsInv, SeeErrorInv, CancelFailsInv, StageFailsInv,
     PlaceFailsInv, KillInv DEF Faults
<1>4. CASE UNCHANGED updateVars
  BY <1>4, Unchanged DEF updateVars, state, program, history
<1>5. QED
  BY <1>1, <1>2, <1>3, <1>4, CheckInv, IgnoreInv, EndInv, OpenInv, PublishInv, ChangeInv DEF UpdatesNext

LEMMA Inductive == UpdatesSpec => []UpdatesInv
<1>1. UpdatesInit => UpdatesInv
  BY UpdatesInitInv
<1>2. UpdatesInv /\ [UpdatesNext]_updateVars => UpdatesInv'
  BY NextInv
<1>3. QED
  BY <1>1, <1>2, PTL DEF UpdatesSpec

\* There is always a program, at the installed path or as a backup.
THEOREM CopiesSurvive == UpdatesSpec => []ACopySurvives
<1>1. UpdatesInv => ACopySurvives
  <2>1. ASSUME UpdatesInv
        PROVE  UpdatesTypeOK
    <3>1. target \in [version : 0..MaxVersion, id : {-1, 0} \cup Attempts]
      BY <2>1, UpdatesAssumption DEF UpdatesInv, Typed, Programs, Executables, Absent, None, Ids, Versions
    <3>2. preparing.of \in Attempts \cup {None}
      BY <2>1, Unprepared DEF UpdatesInv, Typed, None
    <3>3. QED
      BY <2>1, <3>1, <3>2 DEF UpdatesInv, Typed, Works, UpdatesTypeOK, Versions, MarkSet, HelperPlaces
  <2>2. QED
    BY <2>1 DEF UpdatesInv, Copies, ACopySurvives
<1>2. QED
  BY <1>1, Inductive, PTL

\* An attempt that was marked as cancelled and reported as failed is never put
\* in place.
THEOREM FailuresStayOut == UpdatesSpec => []FailedNeverInstalls
<1>1. UpdatesInv => FailedNeverInstalls
  BY DEF UpdatesInv, Typed, Helpers, FailedNeverInstalls
<1>2. QED
  BY <1>1, Inductive, PTL

\* An attempt whose end the user was told replaces no newer release.
LEMMA StepForward ==
    ASSUME UpdatesInv, [UpdatesNext]_updateVars, NEW a \in Attempts, a \in installed' \ installed, ~Orphan(a)
    PROVE  previous[a].id = -1 \/ previous[a].version <= target'.version
<1>1. Place(a)
  BY DEF UpdatesNext, updateVars, history, Prepare, Help, Faults, Start, Check, Ignore, End, Open, Publish, Change,
         LaunchHelper, SeeError, SeeReady, Cancel, Begin, Stage, MoveAside, StandBack, Place,
         DownloadFails, LaunchFails, GiveUp, CancelFails, StageFails,
         WaitFails, PlaceFails, Kill
<1>2. /\ helper[a] = "moved" /\ target' = Executable(plan[a].version, a)
      /\ previous[a] # Absent /\ previous[a].id = original[a]
      /\ ParentGone(a) /\ told[a] # "failed" /\ Planned(a)
  BY <1>1 DEF Place, UpdatesInv, Helpers, Begun
<1>3. told[a] = "ready"
  BY <1>2 DEF Orphan, Planned, UpdatesInv, Typed
<1>4. target'.version = plan[a].version /\ plan[a].version \in Nat /\ plan[a].version > 0
  BY <1>2, Plans, Programmed, Numbers DEF Ids
<1>5. original[a] <= a /\ original[a] \in Ids
  BY <1>3 DEF UpdatesInv, Typed, Found
<1>6. CASE previous[a].id = 0
  BY <1>2, <1>4, <1>6 DEF UpdatesInv, AllKnown, Known
<1>7. CASE previous[a].id \in Attempts
  BY <1>2, <1>4, <1>5, <1>7 DEF UpdatesInv, AllKnown, Known, Newer
<1>8. QED
  BY <1>2, <1>5, <1>6, <1>7 DEF Ids

\* No installation takes an executable the updater left to an older release,
\* unless the program ended in the middle of preparing it or could not mark it as
\* cancelled.
THEOREM ReleasesOnlyGetNewer == UpdatesSpec => NoGoingBack
<1>1. UpdatesInv /\ [UpdatesNext]_updateVars => [\A a \in Attempts : a \in installed' \ installed /\ ~Orphan(a) =>
                 previous[a].id = -1 \/ previous[a].version <= target'.version]_updateVars
  BY StepForward
<1>2. QED
  BY <1>1, Inductive, PTL DEF UpdatesSpec, NoGoingBack
=============================================================================
