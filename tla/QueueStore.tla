----------------------------- MODULE QueueStore -----------------------------
(***************************************************************************)
(* The queued_messages table of app/internal/store: how a row gets its id, *)
(* in which order the rows of a task run, and which row of a project the   *)
(* scheduler is handed next.                                               *)
(*                                                                         *)
(* A prompt is the ordinal of its acceptance, which stands for created_at; *)
(* a task is the number of its place in the sidebar.  `due' is retry_at <= *)
(* now, which every row that was never retried satisfies.                  *)
(***************************************************************************)
EXTENDS Naturals, FiniteSets

CONSTANTS
    Sessions,       \* the project's open tasks, numbered top to bottom
    RowIds,         \* the ids a queue row can take
    Prompts         \* acceptance ordinals

ASSUME SessionsAssumption == Sessions \subseteq Nat \ {0}
ASSUME RowIdsAssumption   == RowIds \subseteq Nat \ {0}
ASSUME PromptsAssumption  == Prompts \subseteq Nat \ {0}

Row == [id : RowIds, session : Sessions, prompt : Prompts,
        retries : Nat, due : BOOLEAN]

RowsOf(q, s) == {r \in q : r.session = s}
Retries(q)   == {r \in q : r.retries > 0}

\* The table has an INTEGER PRIMARY KEY without AUTOINCREMENT: an inserted
\* row takes one more than the largest id present, so the id of the newest
\* row is given out again once that row is gone.
IsNewId(q, id) ==
    /\ \A r \in q : r.id < id
    /\ id = 1 \/ \E r \in q : r.id + 1 = id

\* queuedOrder: acceptance time, a retry before a row never tried, then id.
RunsBefore(a, b) ==
    \/ a.prompt < b.prompt
    \/ /\ a.prompt = b.prompt
       /\ \/ a.retries > 0 /\ b.retries = 0
          \/ (a.retries > 0 <=> b.retries > 0) /\ a.id < b.id

\* NextQueuedMessage: only the oldest prompt of a task, and only once due; a
\* retry still waiting holds the later prompts of its task.
ReadyRow(q, s) ==
    {r \in RowsOf(q, s) : /\ \A o \in RowsOf(q, s) \ {r} : RunsBefore(r, o)
                          /\ r.due}

\* The task of the oldest retried prompt of the project.
RetryTask(q) ==
    {r.session : r \in {a \in Retries(q) :
        \A b \in Retries(q) \ {a} :
            \/ a.prompt < b.prompt
            \/ a.prompt = b.prompt /\ a.id < b.id}}

ReadyTasks(q) == {s \in Sessions : ReadyRow(q, s) # {}}

\* NextQueuedRun, as the set of at most one row: a retry holds the whole
\* project, then the preferred task, then the sidebar top to bottom.
NextQueuedRun(q, preferred) ==
    IF Retries(q) # {} THEN UNION {ReadyRow(q, s) : s \in RetryTask(q)}
    ELSE IF preferred \in ReadyTasks(q) THEN ReadyRow(q, preferred)
    ELSE UNION {ReadyRow(q, s) : s \in {t \in ReadyTasks(q) :
                                          \A u \in ReadyTasks(q) : t <= u}}
=============================================================================
