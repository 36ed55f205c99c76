------------------------------ MODULE Remotes ------------------------------
(***************************************************************************)
(* Other machines and this one's sessions with them: server/remotes.go,    *)
(* remote_addresses.go, remote_activity.go and remote_down.go, with the    *)
(* lock of the other side, app/internal/netauth.                           *)
(*                                                                         *)
(* A machine is saved under its id, with the addresses that have worked    *)
(* and the session it gave.  Requests go to the address in use, whoever    *)
(* answers there now; they move to another address when nobody does, and   *)
(* sign in again with this machine's key when the session is over.  A step *)
(* is one exchange over the network or one critical section.               *)
(***************************************************************************)
EXTENDS Integers, SequencesExt, FiniteSetsExt

CONSTANTS
    Machines,       \* the other machines, by id
    Addresses,
    Home,           \* address -> the machine that answers there at first
    Saved,          \* machines saved by an earlier run, signed in
    Calls,          \* requests of windows that are served at the same time
    MaxAddresses,
    Budgets         \* how often each thing may happen; one of them does

Nobody == "nobody"
ASSUME NobodyAssumption == Nobody \notin Calls \cup Machines
ASSUME HomeAssumption == Home \in [Addresses -> Machines \cup {Nobody}]
ASSUME SavedAssumption == \A m \in Saved : \E a \in Addresses : Home[a] = m
ASSUME MaxAddressesAssumption == MaxAddresses \in Nat \ {0}
Kinds == {"route", "connect", "login", "add", "delete", "move", "end", "revoke", "work"}
ASSUME BudgetAssumption == Budgets \subseteq [Kinds -> Nat]

VARIABLES
    answers,        \* address -> who answers there
    gate,           \* each machine's lock: its sessions and whether it trusts our key
    working,        \* machines with a busy profile
    saved,          \* remoteManager.remotes
    keyMu, refused, \* remoteManager.keyMu and keyRefused
    down,           \* remoteManager.down: "no", "wait" or "due" for another try
    activity,       \* remoteManager.activity
    call,           \* requests in progress; machine m's own is its worker's
    issued,         \* sessions given out so far
    left            \* what is left of the budget

others == <<answers, gate, working>>
locks  == <<keyMu, refused>>
vars   == <<others, saved, locks, down, activity, call, issued, left>>

Procs   == Calls \cup Machines
\* A session: who gave it, its number and, observed for the properties only, for
\* which machine the user sent the password that it answers (Nobody: our key's).
NoSession == <<Nobody, 0, Nobody>>
Unsaved == [here |-> FALSE, list |-> <<>>, cookie |-> NoSession]
Idle    == [pc |-> "idle", kind |-> "none", id |-> Nobody, list |-> <<>>,
            cookie |-> NoSession, answer |-> "none", from |-> Nobody,
            tried |-> FALSE, seen |-> FALSE]
Quiet   == [on |-> FALSE, busy |-> FALSE]

Spend(kind) == left[kind] > 0 /\ left' = [left EXCEPT ![kind] = @ - 1]
At(m)       == {a \in Addresses : Home[a] = m}

Init ==
    /\ answers = Home
    /\ gate = [m \in Machines |-> [trusts |-> m \in Saved,
                                   valid |-> IF m \in Saved THEN {<<m, 0, Nobody>>} ELSE {}]]
    /\ working = [m \in Machines |-> FALSE]
    /\ saved = [m \in Machines |-> IF m \in Saved
                    THEN [here |-> TRUE, list |-> <<CHOOSE a \in At(m) : TRUE>>,
                          cookie |-> <<m, 0, Nobody>>]
                    ELSE Unsaved]
    /\ keyMu = Nobody /\ refused = {}
    /\ down = [m \in Machines |-> "no"]
    /\ activity = [m \in Machines |-> Quiet]
    /\ call = [p \in Procs |-> Idle]
    /\ issued = 0
    /\ left \in Budgets
-----------------------------------------------------------------------------
(* The catalog                                                              *)

\* known and use: the address in use first, then the most recent.
Used(list, a) ==
    LET all == <<a>> \o SelectSeq(list, LAMBDA b : b # a) IN
    SubSeq(all, 1, Min({Len(all), MaxAddresses}))

\* learn: what the machine reports goes behind what is known.
Learned(list, S) ==
    LET all == list \o SetToSeq(S \ ToSet(list)) IN
    SubSeq(all, 1, Max({Len(list), Min({Len(all), MaxAddresses})}))

\* update: only a machine that is still saved.
Updated(m, rec) == IF saved[m].here THEN [saved EXCEPT ![m] = rec] ELSE saved

\* The copy of the entry a request works with.
Copied(c, m) == [c EXCEPT !.list = saved[m].list, !.cookie = saved[m].cookie]

\* noteReach
Reached(m) == [down EXCEPT ![m] = "no"]
Lost(m)    == [down EXCEPT ![m] = "wait"]
-----------------------------------------------------------------------------
(* What the user asks for                                                   *)

Route(p, m) ==
    /\ saved[m].here
    /\ Spend("route")
    /\ call' = [call EXCEPT ![p] = Copied([Idle EXCEPT !.pc = "send", !.kind = "route",
                                                       !.id = m], m)]
    /\ UNCHANGED <<others, saved, locks, down, activity, issued>>

Connect(p, m) ==
    /\ saved[m].here
    /\ Spend("connect")
    /\ call' = [call EXCEPT ![p] = [Idle EXCEPT !.pc = "get", !.kind = "connect", !.id = m]]
    /\ UNCHANGED <<others, saved, locks, down, activity, issued>>

\* signInRemote
Login(p, m) ==
    /\ saved[m].here
    /\ Spend("login")
    /\ call' = [call EXCEPT ![p] = Copied([Idle EXCEPT !.pc = "send", !.kind = "login",
                                                       !.id = m], m)]
    /\ UNCHANGED <<others, saved, locks, down, activity, issued>>

\* addRemote: the machine that answers there is saved, or gets the address.
Add(p, a) ==
    /\ answers[a] # Nobody
    /\ Spend("add")
    /\ LET m == answers[a] IN
        /\ saved' = [saved EXCEPT ![m].here = TRUE, ![m].list = Used(@, a)]
        /\ call' = [call EXCEPT ![p] = [Idle EXCEPT !.pc = "get", !.kind = "connect",
                                                    !.id = m]]
    /\ UNCHANGED <<others, locks, down, activity, issued>>

\* The worker of m and what it was doing are cancelled.
Cancelled(m, calls) == [calls EXCEPT ![m] = Idle]
Unlocked(m)  == IF keyMu = m THEN Nobody ELSE keyMu

\* deleteRemote
Delete(m) ==
    /\ saved[m].here
    /\ Spend("delete")
    /\ saved' = [saved EXCEPT ![m] = Unsaved]
    /\ activity' = [activity EXCEPT ![m] = Quiet]
    /\ call' = Cancelled(m, call)
    /\ keyMu' = Unlocked(m)
    /\ UNCHANGED <<others, refused, down, issued>>
-----------------------------------------------------------------------------
(* request and what it rests on                                             *)

To(p, pc)   == [call EXCEPT ![p].pc = pc]
Outcome(p, answer) ==
    /\ call' = [call EXCEPT ![p].pc = "answer", ![p].answer = answer]
    /\ down' = IF answer = "gone" THEN Lost(call[p].id) ELSE Reached(call[p].id)

Get(p) ==
    /\ call[p].pc = "get"
    /\ call' = IF saved[call[p].id].here
               THEN [call EXCEPT ![p] = Copied([@ EXCEPT !.pc = "reach"], @.id)]
               ELSE [call EXCEPT ![p] = Idle]
    /\ UNCHANGED <<others, saved, locks, down, activity, issued, left>>

\* reach: an address where the machine itself answers, which is usually but not
\* always the best one; a new one becomes the address in use.
Locate(m, list) == {a \in ToSet(list) : answers[a] = m}
Reach(p) ==
    LET c == call[p]
        found == Locate(c.id, c.list)
    IN
    /\ c.pc = "reach"
    /\ IF found = {} THEN Outcome(p, "gone") /\ UNCHANGED saved
       ELSE \E a \in found :
            IF a = Head(c.list)
            THEN \* a request that has just failed there gives up
                 /\ IF c.tried THEN Outcome(p, "gone")
                    ELSE call' = To(p, "send") /\ down' = Reached(c.id)
                 /\ UNCHANGED saved
            ELSE /\ saved' = Updated(c.id, [saved[c.id] EXCEPT !.list = Used(@, a)])
                 /\ IF saved[c.id].here
                    THEN /\ call' = [call EXCEPT ![p].pc = "send",
                                        ![p].list = Used(saved[c.id].list, a),
                                        ![p].cookie = saved[c.id].cookie]
                         /\ down' = Reached(c.id)
                    ELSE /\ call' = [call EXCEPT ![p].pc = "answer", ![p].answer = "gone"]
                         /\ down' = IF c.tried THEN Lost(c.id) ELSE Reached(c.id)
    /\ UNCHANGED <<others, locks, activity, issued, left>>

Peer(c) == answers[Head(c.list)]

\* The other side: its session cookie, or 401.
Send(p) ==
    LET c == call[p]
        m == Peer(c)
    IN
    /\ c.pc = "send" /\ c.kind # "login"
    /\ \/ /\ m = Nobody
          /\ IF Len(c.list) > 1 /\ ~c.tried
             THEN /\ call' = [call EXCEPT ![p].pc = "reach", ![p].tried = TRUE]
                  /\ UNCHANGED down
             ELSE Outcome(p, "gone")
       \/ /\ m # Nobody /\ c.cookie \in gate[m].valid
          /\ call' = [call EXCEPT ![p].pc = "answer", ![p].answer = "ok",
                                  ![p].seen = working[m]]
          /\ down' = Reached(c.id)
       \/ /\ m # Nobody /\ c.cookie \notin gate[m].valid
          /\ call' = [call EXCEPT ![p].pc = "lock", ![p].from = m]
          /\ UNCHANGED down
    /\ UNCHANGED <<others, saved, locks, activity, issued, left>>

\* A new session of m, for a password form or (Nobody) for our key; m trusts
\* our key from then on.
NewSession(m, form) == <<m, issued + 1, form>>
Issue(m, form) ==
    /\ issued' = issued + 1
    /\ gate' = [gate EXCEPT ![m].valid = @ \cup {NewSession(m, form)},
                            ![m].trusts = TRUE]

\* The password form, posted to whoever answers at the address, which may be
\* another machine by now: it accepts the form if the password and the code are
\* its own too, and its session is kept with the entry the form was for.
SendPassword(p) ==
    LET c == call[p]
        m == Peer(c)
    IN
    /\ c.pc = "send" /\ c.kind = "login"
    /\ \/ /\ m = Nobody
          /\ IF Len(c.list) > 1 /\ ~c.tried
             THEN /\ call' = [call EXCEPT ![p].pc = "reach", ![p].tried = TRUE]
                  /\ UNCHANGED down
             ELSE Outcome(p, "gone")
          /\ UNCHANGED <<gate, issued, saved>>
       \/ /\ m \in Machines
          /\ Issue(m, c.id)
          /\ saved' = Updated(c.id, [saved[c.id] EXCEPT !.cookie = NewSession(m, c.id)])
          /\ call' = To(p, "trusted")
          /\ down' = Reached(c.id)
       \/ /\ m \in Machines                     \* a wrong password or code
          /\ Outcome(p, "refused")
          /\ UNCHANGED <<gate, issued, saved>>
    /\ UNCHANGED <<answers, working, locks, activity, left>>

\* A password sign-in lets the key be tried again, and goes on to connect.
Trusted(p) ==
    LET m == call[p].id IN
    /\ call[p].pc = "trusted" /\ keyMu = Nobody
    /\ refused' = refused \ {m}
    /\ call' = [call EXCEPT ![p] = [Idle EXCEPT !.pc = "get", !.kind = "connect", !.id = m]]
    /\ UNCHANGED <<others, saved, keyMu, down, activity, issued, left>>

\* keySignIn, one at a time: another request may have signed in meanwhile.
AsSent(c)  == FALSE                                         \* mutant
Renewed(c) == saved[c.id].cookie # c.cookie
Lock(p) ==
    LET c == call[p] IN
    /\ c.pc = "lock" /\ keyMu = Nobody
    /\ IF saved[c.id].here /\ Renewed(c)
       THEN /\ call' = [call EXCEPT ![p] = Copied([c EXCEPT !.pc = "resend"], c.id)]
            /\ UNCHANGED <<keyMu, down>>
       ELSE IF ~saved[c.id].here \/ c.id \in refused
       THEN Outcome(p, "refused") /\ UNCHANGED keyMu
       ELSE /\ keyMu' = p
            /\ call' = To(p, "key")
            /\ UNCHANGED down
    /\ UNCHANGED <<others, saved, refused, activity, issued, left>>

\* The challenge and its signature, which names the machine it is meant for.
AnySignature(m, id) == gate[m].trusts                       \* mutant
Accepts(m, id) == m = id /\ gate[m].trusts
SignIn(p) ==
    LET c == call[p]
        m == Peer(c)
    IN
    /\ c.pc = "key"
    /\ keyMu' = Nobody
    /\ \/ /\ m = Nobody
          /\ Outcome(p, "refused")
          /\ UNCHANGED <<gate, issued, saved, refused>>
       \/ /\ m # Nobody /\ Accepts(m, c.id)
          /\ Issue(m, Nobody)
          /\ saved' = Updated(c.id, [saved[c.id] EXCEPT !.cookie = NewSession(m, Nobody)])
          /\ IF saved[c.id].here
             THEN /\ call' = [call EXCEPT ![p].pc = "resend", ![p].list = saved[c.id].list,
                                          ![p].cookie = NewSession(m, Nobody)]
                  /\ UNCHANGED down
             ELSE Outcome(p, "refused")
          /\ UNCHANGED refused
       \/ /\ m # Nobody /\ ~Accepts(m, c.id)
          /\ refused' = refused \cup {c.id}
          /\ Outcome(p, "refused")
          /\ UNCHANGED <<gate, issued, saved>>
    /\ UNCHANGED <<answers, working, activity, left>>

Resend(p) ==
    LET c == call[p]
        m == Peer(c)
    IN
    /\ c.pc = "resend"
    /\ IF m # Nobody /\ c.cookie \in gate[m].valid
       THEN /\ call' = [call EXCEPT ![p].pc = "answer", ![p].answer = "ok",
                                    ![p].seen = working[m]]
            /\ down' = Reached(c.id)
       ELSE Outcome(p, IF m = Nobody THEN "gone" ELSE "refused")
    /\ UNCHANGED <<others, saved, locks, activity, issued, left>>
-----------------------------------------------------------------------------
(* What is done with the answer                                             *)

Done(p) ==
    /\ call[p].pc = "answer"
    /\ \/ call[p].kind \in {"route", "login"}
       \/ call[p].kind = "connect" /\ call[p].answer = "gone"
    /\ call' = [call EXCEPT ![p] = Idle]
    /\ UNCHANGED <<others, saved, locks, down, activity, issued, left>>

\* connect: a refused request ends the session that was saved.
SignedOut(p) ==
    LET m == call[p].id IN
    /\ call[p].pc = "answer" /\ call[p].kind = "connect" /\ call[p].answer = "refused"
    /\ saved' = Updated(m, [saved[m] EXCEPT !.cookie = NoSession])
    /\ call' = [call EXCEPT ![p] = Idle]
    /\ UNCHANGED <<others, locks, down, activity, issued, left>>

\* The profiles are saved, and the machine is asked where else it answers.
Learn(p) ==
    LET c == call[p]
        m == c.id
        told == IF Peer(c) = m THEN {a \in Addresses : answers[a] = m} ELSE {}
    IN
    /\ c.pc = "answer" /\ c.kind = "connect" /\ c.answer = "ok"
    /\ saved' = Updated(m, [saved[m] EXCEPT !.list = Learned(@, told)])
    /\ call' = IF saved[m].here THEN To(p, "watch") ELSE [call EXCEPT ![p] = Idle]
    /\ UNCHANGED <<others, locks, down, activity, issued, left>>

\* watchActivity: a new worker in the place of the old one.
Unasked(m) == TRUE                                          \* mutant
StillSaved(m) == saved[m].here
WatchActivity(p) ==
    LET m == call[p].id IN
    /\ call[p].pc = "watch"
    /\ IF StillSaved(m)
       THEN /\ activity' = [activity EXCEPT ![m] = [on |-> TRUE, busy |-> call[p].seen]]
            /\ call' = [Cancelled(m, call) EXCEPT ![p] = Idle]
            /\ keyMu' = Unlocked(m)
       ELSE /\ call' = [call EXCEPT ![p] = Idle]
            /\ UNCHANGED <<activity, keyMu>>
    /\ UNCHANGED <<others, saved, refused, down, issued, left>>

\* skip: a machine that is down is tried only once its pause is over.
Tick(m) ==
    /\ activity[m].on /\ call[m].pc = "idle" /\ down[m] # "wait"
    /\ call' = [call EXCEPT ![m] = [Idle EXCEPT !.pc = "get", !.kind = "watch", !.id = m]]
    /\ down' = IF down[m] = "due" THEN Lost(m) ELSE down
    /\ UNCHANGED <<others, saved, locks, activity, issued, left>>

\* refreshActivity: without an answer no profile counts as busy.
StaleBusy(c)  == IF c.answer = "ok" THEN c.seen ELSE activity[c.id].busy  \* mutant
BusyAfter(c) == c.answer = "ok" /\ c.seen
Refreshed(m) ==
    /\ call[m].pc = "answer" /\ call[m].kind = "watch"
    /\ activity' = [activity EXCEPT ![m].busy = BusyAfter(call[m])]
    /\ call' = [call EXCEPT ![m] = Idle]
    /\ UNCHANGED <<others, saved, locks, down, issued, left>>

PauseOver(m) ==
    /\ down[m] = "wait"
    /\ down' = [down EXCEPT ![m] = "due"]
    /\ UNCHANGED <<others, saved, locks, activity, call, issued, left>>
-----------------------------------------------------------------------------
(* The other machines                                                       *)

Move(a, m) ==
    /\ answers[a] # m
    /\ Spend("move")
    /\ answers' = [answers EXCEPT ![a] = m]
    /\ UNCHANGED <<gate, working, saved, locks, down, activity, call, issued>>

\* Revoke, a restart or an idle timeout ends the sessions...
EndSessions(m) ==
    /\ gate[m].valid # {}
    /\ Spend("end")
    /\ gate' = [gate EXCEPT ![m].valid = {}]
    /\ UNCHANGED <<answers, working, saved, locks, down, activity, call, issued>>

\* ...RevokeKey the trust as well.
RevokeKey(m) ==
    /\ gate[m].trusts
    /\ Spend("revoke")
    /\ gate' = [gate EXCEPT ![m] = [trusts |-> FALSE, valid |-> {}]]
    /\ UNCHANGED <<answers, working, saved, locks, down, activity, call, issued>>

Work(m) ==
    /\ Spend("work")
    /\ working' = [working EXCEPT ![m] = ~@]
    /\ UNCHANGED <<answers, gate, saved, locks, down, activity, call, issued>>
-----------------------------------------------------------------------------
RequestStep(p) ==
    \/ Get(p) \/ Reach(p) \/ Send(p) \/ SendPassword(p) \/ Trusted(p)
    \/ Lock(p) \/ SignIn(p) \/ Resend(p)
    \/ Done(p) \/ SignedOut(p) \/ Learn(p) \/ WatchActivity(p)
WorkerStep(m) == RequestStep(m) \/ Refreshed(m)

Next ==
    \/ \E p \in Calls :
        \/ RequestStep(p)
        \/ /\ call[p].pc = "idle"
           /\ \/ \E m \in Machines : Route(p, m) \/ Connect(p, m) \/ Login(p, m)
              \/ \E a \in Addresses : Add(p, a)
    \/ \E m \in Machines :
        \/ WorkerStep(m) \/ Tick(m) \/ PauseOver(m)
        \/ Delete(m) \/ EndSessions(m) \/ RevokeKey(m) \/ Work(m)
    \/ \E a \in Addresses, m \in Machines \cup {Nobody} : Move(a, m)

Spec == Init /\ [][Next]_vars

\* A request ends, with an answer or at its deadline; tickers tick, and keyMu is
\* handed to whoever waits for it.
Fairness ==
    /\ \A p \in Calls : SF_vars(RequestStep(p))
    /\ \A m \in Machines : SF_vars(WorkerStep(m)) /\ WF_vars(Tick(m)) /\ WF_vars(PauseOver(m))

FairSpec == Spec /\ Fairness
-----------------------------------------------------------------------------
(* Properties                                                               *)

TypeOK ==
    /\ answers \in [Addresses -> Machines \cup {Nobody}]
    /\ \A m \in Machines :
        /\ saved[m].here <=> saved[m].list # <<>>
        /\ Len(saved[m].list) <= MaxAddresses /\ IsInjective(saved[m].list)
        /\ down[m] \in {"no", "wait", "due"}
        /\ gate[m].valid \subseteq {m} \X (0..issued) \X (Machines \cup {Nobody})
    /\ keyMu \in Procs \cup {Nobody}
    /\ keyMu # Nobody => call[keyMu].pc = "key"
    /\ refused \subseteq Machines
    /\ left \in [Kinds -> Nat]

\* A machine that was removed stays removed, with its session and its worker,
\* whatever requests to it were in progress: only Add brings one back.
RemovedStaysRemoved ==
    [][\A m \in Machines :
        /\ ~saved'[m].here => ~activity'[m].on
        /\ ~saved[m].here /\ saved'[m].here => left'["add"] < left["add"]]_vars

\* remotes.go:84 "requests that all hit an expired session sign in once": a request
\* starts to sign in only if the session that is saved by now is over too, unless
\* it was another machine that refused it.
NoNeedlessSignIn ==
    [][\A p \in Procs : call'[p].pc = "key" /\ call[p].pc # "key" =>
        \/ saved[call[p].id].cookie \notin gate[call[p].id].valid
        \/ call[p].from # call[p].id]_vars

\* The saved session was given by the machine it is saved for, although requests
\* go to an address that may be another machine's by now; or by one that the user
\* sent this machine's password to and that accepted it, which remotes.go:545-575
\* does not look into.  Signing in with the key never saves another's.
SessionIsTheirs ==
    \A m \in Machines : LET s == saved[m].cookie IN
        s[1] \in {m, Nobody} \/ s[3] = m

\* specs/085: once nothing changes any more, the dot of a connected machine is lit
\* exactly if it is reachable and working, however it was lost, moved, signed out
\* and signed in again before.
Settled(m, lit) ==
    /\ activity[m].on
    /\ m \notin refused
    /\ lit = (working[m] /\ Locate(m, saved[m].list) # {} /\ gate[m].trusts)
DotIsRight ==
    \A m \in Machines, lit \in BOOLEAN :
        <>[]Settled(m, lit) => <>[](activity[m].on => activity[m].busy = lit)
=============================================================================
