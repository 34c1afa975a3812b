-------------------------- MODULE ProjectionEngine --------------------------
(***************************************************************************)
(* The projection engine (core/projections/framework_engine*.py,           *)
(* runner.py): engines of several processes (the daemon, the sync_tick of  *)
(* every work-order command, `ds projection rebuild`) dispatch the events  *)
(* of one canonical table to one projection.  The only shared state is the *)
(* database: the projection's cursor, its retry queue, its dead letters    *)
(* and its target tables.  Every `with transaction()` block is one step;   *)
(* other engines, the operator and a crash come in between.                *)
(*                                                                         *)
(* handle() is idempotent by contract, so the target tables are abstracted *)
(* to the set of events applied to them since they were last truncated.    *)
(***************************************************************************)
EXTENDS Naturals, FiniteSets

CONSTANTS
    Events,      \* events of the consumed types
    Ts,          \* event_timestamp of each event (positive)
    Engines,     \* processes that run run_cycle() or rebuild()
    MaxRetries,  \* RetryPolicy.max_retries
    Poison,      \* events whose handle() always raises
    Flaky,       \* events whose handle() may raise
    InOrder,     \* TRUE: events arrive in strictly increasing timestamp order
    Rebuilds,    \* TRUE: `ds projection rebuild` is used
    DbErrors,    \* TRUE: a bookkeeping transaction after handle() may raise
    Operator,    \* TRUE: an operator retries and resolves dead letters
    Crashes,     \* TRUE: an engine's process may die or its cycle abort
    MaxRows,     \* bound: retry queue rows
    NoEvent      \* no cursor yet

ASSUME EngineAssumption ==
    /\ Ts \in [Events -> Nat \ {0}]
    /\ MaxRetries \in Nat \ {0} /\ MaxRows \in Nat \ {0}
    /\ Poison \subseteq Events /\ Flaky \subseteq Events
    /\ {InOrder, Rebuilds, DbErrors, Operator, Crashes} \subseteq BOOLEAN
    /\ NoEvent \notin Events /\ IsFiniteSet(Engines)

VARIABLES
    canonical,  \* rows of the canonical table
    projected,  \* events applied to the target tables
    cursor,     \* projection_state.last_processed_<source>_event_id
    queue,      \* projection_retry_queue
    dead,       \* projection_dead_letter: status of the event's latest row
    pc,         \* where each engine is
    due,        \* retry rows the engine has read and not yet tried
    base,       \* cursor timestamp the engine has read
    todo,       \* events the engine has fetched and not yet dispatched
    cur,        \* the retry row or event in hand, with its retry count
    attempts    \* history: failed attempts per event, capped

state == <<canonical, projected, cursor, queue, dead>>
local == <<pc, due, base, todo, cur>>
vars  == <<state, local, attempts>>

Rows == [id : Nat, ev : Events, n : 0..MaxRetries]
NoRow == [id |-> 0, ev |-> NoEvent, n |-> 0]

PCs == {"idle", "retry", "retried", "retry_advance", "reschedule", "retry_dead", "retry_drop",
        "read_cursor", "select", "dispatch", "advance", "count", "schedule", "dead_letter",
        "drop", "truncate", "reselect", "replay"}

TypeOK ==
    /\ canonical \subseteq Events /\ projected \subseteq canonical
    /\ cursor \in Events \cup {NoEvent}
    /\ queue \subseteq Rows
    /\ dead \in [Events -> {"none", "active", "resolved"}]
    /\ pc \in [Engines -> PCs]
    /\ due \in [Engines -> SUBSET Rows]
    /\ base \in [Engines -> Nat]
    /\ todo \in [Engines -> SUBSET Events]
    /\ cur \in [Engines -> Rows \cup {NoRow}]
    /\ attempts \in [Events -> 0..(MaxRetries + 1)]

Init ==
    /\ canonical = {} /\ projected = {} /\ cursor = NoEvent /\ queue = {}
    /\ dead = [e \in Events |-> "none"]
    /\ pc = [g \in Engines |-> "idle"]
    /\ due = [g \in Engines |-> {}]
    /\ base = [g \in Engines |-> 0]
    /\ todo = [g \in Engines |-> {}]
    /\ cur = [g \in Engines |-> NoRow]
    /\ attempts = [e \in Events |-> 0]

-----------------------------------------------------------------------------
(* Helpers.                                                                *)

Goto(g, label) == pc' = [pc EXCEPT ![g] = label]

CursorTs == IF cursor = NoEvent THEN 0 ELSE Ts[cursor]

(* AUTOINCREMENT ids name rows and order the rows of one event: the least id
   that no row, read or stored, has and that is above the event's rows.      *)
NewId(e) ==
    LET used == {r.id : r \in queue} \cup {cur[g].id : g \in Engines}
                \cup UNION {{r.id : r \in due[g]} : g \in Engines}
        free == {k \in 1..MaxRows : k \notin used /\ \A r \in queue : r.ev = e => r.id < k}
    IN  IF free = {} THEN MaxRows + 1 ELSE CHOOSE k \in free : \A j \in free : k <= j

MayFail(e)    == e \in Poison \cup Flaky
MaySucceed(e) == e \notin Poison

(* A failed attempt is counted (history). *)
Attempted(e) ==
    attempts' = [attempts EXCEPT ![e] = IF @ <= MaxRetries THEN @ + 1 ELSE @]

(* Mutants: off by one, in either direction. *)
Exhausted_Late(n)  == n > MaxRetries
Exhausted_Early(n) == n + 1 >= MaxRetries

(* next_attempt > proj.retry_policy.max_retries, with next_attempt = n + 1. *)
Exhausted(n) == n + 1 > MaxRetries

-----------------------------------------------------------------------------
(* The environment: ingestion and the operator.                            *)

(* The spool's dual write commits an event.  Its timestamp was taken when it
   was emitted, and files are ingested in the order of their random names.   *)
Arrive(e) ==
    /\ e \notin canonical
    /\ InOrder => \A d \in canonical : Ts[d] < Ts[e]
    /\ canonical' = canonical \cup {e}
    /\ UNCHANGED <<projected, cursor, queue, dead, local, attempts>>

(* `ds projection dead-letter retry`: back to active and into the queue with
   the retry count it died with.                                             *)
DeadLetterRetry(e) ==
    /\ Operator /\ dead[e] # "none"
    /\ NewId(e) <= MaxRows
    /\ dead' = [dead EXCEPT ![e] = "active"]
    /\ queue' = queue \cup {[id |-> NewId(e), ev |-> e, n |-> MaxRetries]}
    /\ UNCHANGED <<canonical, projected, cursor, local, attempts>>

DeadLetterResolve(e) ==
    /\ Operator /\ dead[e] # "none"
    /\ dead' = [dead EXCEPT ![e] = "resolved"]
    /\ UNCHANGED <<canonical, projected, cursor, queue, local, attempts>>

-----------------------------------------------------------------------------
(* run_cycle, first half: _process_retries.                                *)

(* SELECT the due rows: which ones are due is a matter of elapsed time. *)
StartCycle(g) ==
    /\ pc[g] = "idle"
    /\ \E rows \in SUBSET queue : due' = [due EXCEPT ![g] = rows]
    /\ Goto(g, "retry")
    /\ UNCHANGED <<state, base, todo, cur, attempts>>

(* handle() of the next due row commits or raises.  (A row whose event is not
   in the canonical table would be deleted; canonical rows are never.)       *)
RetryHandle(g) ==
    /\ pc[g] = "retry"
    /\ \E r \in due[g] :
        /\ due' = [due EXCEPT ![g] = @ \ {r}]
        /\ cur' = [cur EXCEPT ![g] = r]
        /\ \/ /\ MaySucceed(r.ev)
              /\ projected' = projected \cup {r.ev}
              /\ Goto(g, "retried") /\ UNCHANGED attempts
           \/ /\ MayFail(r.ev)
              /\ Attempted(r.ev)
              /\ Goto(g, IF Exhausted(r.n) THEN "retry_dead" ELSE "reschedule")
              /\ UNCHANGED projected
    /\ UNCHANGED <<canonical, cursor, queue, dead, base, todo>>

(* DELETE ... WHERE id = ?. *)
RetryDelete(g) ==
    /\ pc[g] = "retried"
    /\ queue' = {r \in queue : r.id # cur[g].id}
    /\ Goto(g, "retry_advance")
    /\ UNCHANGED <<canonical, projected, cursor, dead, due, base, todo, cur, attempts>>

(* _advance_cursor to the retried event, wherever the cursor is by now. *)
RetryAdvance(g) ==
    /\ pc[g] = "retry_advance"
    /\ cursor' = cur[g].ev
    /\ cur' = [cur EXCEPT ![g] = NoRow]
    /\ Goto(g, "retry")
    /\ UNCHANGED <<canonical, projected, queue, dead, due, base, todo, attempts>>

(* Deleting the row or moving the cursor raises inside the same try block:
   the attempt counts as failed although handle() has committed.             *)
RetryBookkeepingFault(g) ==
    /\ DbErrors /\ pc[g] \in {"retried", "retry_advance"}
    /\ Attempted(cur[g].ev)
    /\ Goto(g, IF Exhausted(cur[g].n) THEN "retry_dead" ELSE "reschedule")
    /\ UNCHANGED <<state, due, base, todo, cur>>

(* Mutant: the retry count of a failed retry is not written back. *)
RetryReschedule_KeepsCount(g) ==
    /\ pc[g] = "reschedule"
    /\ cur' = [cur EXCEPT ![g] = NoRow]
    /\ Goto(g, "retry")
    /\ UNCHANGED <<state, due, base, todo, attempts>>

(* UPDATE retry_count ... WHERE id = ?: no row, no effect. *)
RetryReschedule(g) ==
    /\ pc[g] = "reschedule"
    /\ queue' = {IF r.id = cur[g].id THEN [r EXCEPT !.n = cur[g].n + 1] ELSE r : r \in queue}
    /\ cur' = [cur EXCEPT ![g] = NoRow]
    /\ Goto(g, "retry")
    /\ UNCHANGED <<canonical, projected, cursor, dead, due, base, todo, attempts>>

(* _dead_letter, then the row is deleted in a second transaction. *)
RetryDeadLetter(g) ==
    /\ pc[g] = "retry_dead"
    /\ dead' = [dead EXCEPT ![cur[g].ev] = "active"]
    /\ Goto(g, "retry_drop")
    /\ UNCHANGED <<canonical, projected, cursor, queue, due, base, todo, cur, attempts>>

RetryDrop(g) ==
    /\ pc[g] = "retry_drop"
    /\ queue' = {r \in queue : r.id # cur[g].id}
    /\ cur' = [cur EXCEPT ![g] = NoRow]
    /\ Goto(g, "retry")
    /\ UNCHANGED <<canonical, projected, cursor, dead, due, base, todo, attempts>>

EndRetries(g) ==
    /\ pc[g] = "retry" /\ due[g] = {}
    /\ Goto(g, "read_cursor")
    /\ UNCHANGED <<state, due, base, todo, cur, attempts>>

-----------------------------------------------------------------------------
(* run_cycle, second half: _apply_v2.                                      *)

(* _get_cursor_timestamp. *)
ReadCursor(g) ==
    /\ pc[g] = "read_cursor"
    /\ base' = [base EXCEPT ![g] = CursorTs]
    /\ Goto(g, "select")
    /\ UNCHANGED <<state, due, todo, cur, attempts>>

(* SELECT ... WHERE event_timestamp > ? ORDER BY event_timestamp. *)
Select(g) ==
    /\ pc[g] = "select"
    /\ todo' = [todo EXCEPT ![g] = {e \in canonical : Ts[e] > base[g]}]
    /\ Goto(g, "dispatch")
    /\ UNCHANGED <<state, due, base, cur, attempts>>

(* The next fetched event, in timestamp order; ties in any order. *)
Oldest(S) == {e \in S : \A d \in S : Ts[e] <= Ts[d]}

Dispatch(g) ==
    /\ pc[g] = "dispatch"
    /\ \E e \in Oldest(todo[g]) :
        /\ todo' = [todo EXCEPT ![g] = @ \ {e}]
        /\ cur' = [cur EXCEPT ![g] = [id |-> 0, ev |-> e, n |-> 0]]
        /\ \/ /\ MaySucceed(e)
              /\ projected' = projected \cup {e}
              /\ Goto(g, "advance") /\ UNCHANGED attempts
           \/ /\ MayFail(e)
              /\ Attempted(e)
              /\ Goto(g, "count") /\ UNCHANGED projected
    /\ UNCHANGED <<canonical, cursor, queue, dead, due, base>>

AdvanceCursor(g) ==
    /\ pc[g] = "advance"
    /\ cursor' = cur[g].ev
    /\ cur' = [cur EXCEPT ![g] = NoRow]
    /\ Goto(g, "dispatch")
    /\ UNCHANGED <<canonical, projected, queue, dead, due, base, todo, attempts>>

(* The cursor update raises, or the metrics update after it: the event is
   scheduled for retry although handle() has committed.                      *)
AdvanceFault(g) ==
    /\ DbErrors /\ pc[g] = "advance"
    /\ cursor' \in {cursor, cur[g].ev}
    /\ Attempted(cur[g].ev)
    /\ Goto(g, "count")
    /\ UNCHANGED <<canonical, projected, queue, dead, due, base, todo, cur>>

(* _schedule_retry reads the retry count of the event's latest row. *)
ReadRetryCount(g) ==
    /\ pc[g] = "count"
    /\ LET mine  == {r \in queue : r.ev = cur[g].ev}
           count == IF mine = {} THEN 0
                    ELSE (CHOOSE r \in mine : \A s \in mine : s.id <= r.id).n
       IN  /\ cur' = [cur EXCEPT ![g].n = count]
           /\ Goto(g, IF Exhausted(count) THEN "dead_letter" ELSE "schedule")
    /\ UNCHANGED <<state, due, base, todo, attempts>>

(* Mutant: the failure is logged and no row is inserted. *)
ScheduleRetry_LogsOnly(g) ==
    /\ pc[g] = "schedule"
    /\ cur' = [cur EXCEPT ![g] = NoRow]
    /\ Goto(g, "dispatch")
    /\ UNCHANGED <<state, due, base, todo, attempts>>

(* INSERT ... ON CONFLICT DO NOTHING into a table with no unique constraint:
   it always inserts.                                                        *)
ScheduleRetry(g) ==
    /\ pc[g] = "schedule"
    /\ NewId(cur[g].ev) <= MaxRows
    /\ queue' = queue \cup {[id |-> NewId(cur[g].ev), ev |-> cur[g].ev, n |-> cur[g].n + 1]}
    /\ cur' = [cur EXCEPT ![g] = NoRow]
    /\ Goto(g, "dispatch")
    /\ UNCHANGED <<canonical, projected, cursor, dead, due, base, todo, attempts>>

DeadLetter(g) ==
    /\ pc[g] = "dead_letter"
    /\ dead' = [dead EXCEPT ![cur[g].ev] = "active"]
    /\ Goto(g, "drop")
    /\ UNCHANGED <<canonical, projected, cursor, queue, due, base, todo, cur, attempts>>

(* DELETE all rows of the event. *)
DropRows(g) ==
    /\ pc[g] = "drop"
    /\ queue' = {r \in queue : r.ev # cur[g].ev}
    /\ cur' = [cur EXCEPT ![g] = NoRow]
    /\ Goto(g, "dispatch")
    /\ UNCHANGED <<canonical, projected, cursor, dead, due, base, todo, attempts>>

EndCycle(g) ==
    /\ pc[g] = "dispatch" /\ todo[g] = {}
    /\ Goto(g, "idle")
    /\ UNCHANGED <<state, due, base, todo, cur, attempts>>

-----------------------------------------------------------------------------
(* rebuild.                                                                *)

StartRebuild(g) ==
    /\ Rebuilds /\ pc[g] = "idle"
    /\ Goto(g, "truncate")
    /\ UNCHANGED <<state, due, base, todo, cur, attempts>>

(* pre_rebuild: DELETE FROM the target tables, committed on its own. *)
Truncate(g) ==
    /\ pc[g] = "truncate"
    /\ projected' = {}
    /\ Goto(g, "reselect")
    /\ UNCHANGED <<canonical, cursor, queue, dead, due, base, todo, cur, attempts>>

Reselect(g) ==
    /\ pc[g] = "reselect"
    /\ todo' = [todo EXCEPT ![g] = canonical]
    /\ Goto(g, "replay")
    /\ UNCHANGED <<state, due, base, cur, attempts>>

(* cur holds last_event_id; a handle() that raises is logged and dropped. *)
Replay(g) ==
    /\ pc[g] = "replay"
    /\ \E e \in Oldest(todo[g]) :
        /\ todo' = [todo EXCEPT ![g] = @ \ {e}]
        /\ \/ /\ MaySucceed(e)
              /\ projected' = projected \cup {e}
              /\ cur' = [cur EXCEPT ![g] = [id |-> 0, ev |-> e, n |-> 0]]
              /\ UNCHANGED attempts
           \/ /\ MayFail(e)
              /\ Attempted(e)
              /\ UNCHANGED <<projected, cur>>
    /\ UNCHANGED <<canonical, cursor, queue, dead, pc, due, base>>

(* Mutant: the cursor is set to the newest canonical event. *)
EndRebuild_NewestCursor(g) ==
    /\ pc[g] = "replay" /\ todo[g] = {}
    /\ cursor' = IF cur[g] = NoRow THEN cursor
                 ELSE CHOOSE e \in canonical : \A d \in canonical : Ts[d] <= Ts[e]
    /\ cur' = [cur EXCEPT ![g] = NoRow]
    /\ Goto(g, "idle")
    /\ UNCHANGED <<canonical, projected, queue, dead, due, base, todo, attempts>>

EndRebuild(g) ==
    /\ pc[g] = "replay" /\ todo[g] = {}
    /\ cursor' = IF cur[g] = NoRow THEN cursor ELSE cur[g].ev
    /\ cur' = [cur EXCEPT ![g] = NoRow]
    /\ Goto(g, "idle")
    /\ UNCHANGED <<canonical, projected, queue, dead, due, base, todo, attempts>>

(* The process dies, or a database error outside the handled ones (a locked
   _schedule_retry) aborts the cycle.                                        *)
Crash(g) ==
    /\ Crashes /\ pc[g] # "idle"
    /\ Goto(g, "idle")
    /\ due' = [due EXCEPT ![g] = {}]
    /\ base' = [base EXCEPT ![g] = 0]
    /\ todo' = [todo EXCEPT ![g] = {}]
    /\ cur' = [cur EXCEPT ![g] = NoRow]
    /\ UNCHANGED <<state, attempts>>

Cycle(g) ==
    \/ StartCycle(g) \/ RetryHandle(g) \/ RetryDelete(g) \/ RetryAdvance(g)
    \/ RetryBookkeepingFault(g) \/ RetryReschedule(g) \/ RetryDeadLetter(g)
    \/ RetryDrop(g) \/ EndRetries(g)
    \/ ReadCursor(g) \/ Select(g) \/ Dispatch(g) \/ AdvanceCursor(g) \/ AdvanceFault(g) \/ ReadRetryCount(g)
    \/ ScheduleRetry(g) \/ DeadLetter(g) \/ DropRows(g) \/ EndCycle(g)

Rebuild(g) == Truncate(g) \/ Reselect(g) \/ Replay(g) \/ EndRebuild(g)

Next ==
    \/ \E e \in Events : Arrive(e) \/ DeadLetterRetry(e) \/ DeadLetterResolve(e)
    \/ \E g \in Engines : Cycle(g) \/ StartRebuild(g) \/ Rebuild(g) \/ Crash(g)

Spec == Init /\ [][Next]_vars

(* Fairness: the daemon starts a cycle every five seconds, a started cycle runs
   to its end, and a cycle that finds every queued row due comes again and
   again, because backoff delays are bounded.  Nothing is assumed about
   handle(): a flaky event may fail each time.                               *)
Fairness ==
    \A g \in Engines :
        /\ WF_vars(Cycle(g) \/ Rebuild(g))
        /\ SF_vars(StartCycle(g) /\ due'[g] = queue)

FairSpec == Spec /\ Fairness

-----------------------------------------------------------------------------
(* Properties.                                                             *)

Rebuilding == \E g \in Engines : pc[g] \in {"truncate", "reselect", "replay"}

(* The cursor never passes an event by: every canonical event is applied,
   queued for retry, dead-lettered, or still ahead of the cursor and so of
   the next fetch, however engines, failures and crashes interleave.         *)
NoSkippedEvent ==
    \A e \in canonical :
        \/ e \in projected \/ dead[e] # "none"
        \/ \E r \in queue : r.ev = e
        \/ Ts[e] > CursorTs
        \/ Rebuilding

(* An event is dead-lettered only after the attempts the retry policy allows:
   the first one and MaxRetries retries, however many engines count them and
   however many rows the event has in the queue.                             *)
DeadLetterIsEarned == \A e \in Events : dead[e] # "none" => attempts[e] > MaxRetries

(* Every event in the canonical table is eventually applied to the target
   tables or surfaced as a dead letter.                                      *)
EventuallyProjected ==
    \A e \in Events : e \in canonical ~> (e \in projected \/ dead[e] # "none")

=============================================================================
