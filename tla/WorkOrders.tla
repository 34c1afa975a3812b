----------------------------- MODULE WorkOrders -----------------------------
(***************************************************************************)
(* The commands that move work orders, tasks and their milestone           *)
(* (core/work_orders/mutations.py, start_main.py, close_main.py,           *)
(* carry_over.py, verify_gaps.py and core/milestones/close.py), the spool  *)
(* they emit into and the projections that apply what they emitted.        *)
(*                                                                         *)
(* A command writes the status twice: it updates the row itself (the       *)
(* synchronous mirror of task_status.py) and emits an event that the       *)
(* projection applies to the same row later, and a rebuild replays.        *)
(* Python's sqlite3 opens a transaction at the first UPDATE, so the row a  *)
(* command has read may change before it writes.  A command is a plan of   *)
(* steps, and steps of several processes and of the projection engine      *)
(* interleave:                                                             *)
(*   write  the UPDATE of the row, committed                               *)
(*   emit   write_event: the event is in the spool                         *)
(*   hold   UPDATE and write_event inside one transaction                  *)
(*   insert the INSERT of a row whose event was emitted before             *)
(*   gates  the gates of a close                                           *)
(*   sync   sync_tick: ingestion and a projection cycle                    *)
(*                                                                         *)
(* The spool and the engine are those of Spool and ProjectionEngine, here  *)
(* with one cycle at a time, ingestion in one step, and failures fewer     *)
(* than the retries an event has before it is dead-lettered.               *)
(***************************************************************************)
EXTENDS ReadModels, Sequences, FiniteSets

CONSTANTS
    Procs,        \* the processes that run commands
    WorkOrderIds, \* the work orders of one milestone
    Tasks,        \* task ids
    WoOf,         \* the work order a task id belongs to
    Past,         \* the commands already run and projected: a sequence of events
    MaxCommands,  \* bound: commands run
    MaxFaults     \* bound: handler failures, failed ticks and deaths

Milestone == "ms"
NoEvent   == Event("none", "none", "none", None, 0)

(* What a command emits. *)
IsEvent(e) ==
    \/ /\ e.kind = "wo" /\ e.key \in WorkOrderIds
       /\ e.type \in DOMAIN WORK_ORDER_EVENT_STATUS
       /\ e.type \in {"blocked", "unblocked"} => e.phase \in BLOCKABLE
    \/ e.kind = "task" /\ e.key \in Tasks /\ e.type \in DOMAIN TASK_EVENT_STATUS
    \/ e.kind = "ms" /\ e.key = Milestone /\ e.type = "completed"

(* Past is a history: what it creates is created once, before anything else
   happens to it.                                                            *)
ASSUME PastAssumption ==
    /\ Len(Past) \in Nat /\ DOMAIN Past = 1..Len(Past)
    /\ \A i \in DOMAIN Past : Past[i].id = i /\ IsEvent(Past[i])
    /\ \A i, j \in DOMAIN Past : Past[i].type = "created" /\ Past[j].key = Past[i].key => i <= j
ASSUME WoOfAssumption == WoOf \in [Tasks -> WorkOrderIds]
ASSUME KeysAssumption ==
    /\ WorkOrderIds \cap Tasks = {}
    /\ {None, Milestone} \cap (WorkOrderIds \cup Tasks) = {}
ASSUME BoundsAssumption == MaxCommands \in Nat /\ MaxFaults \in Nat

VARIABLES
    wo,        \* business_work_orders
    task,      \* business_tasks
    ms,        \* business_milestones.status of the milestone
    spool,     \* events emitted and not ingested
    log,       \* business_canonical_events
    cursor,    \* the timestamp each projection's cursor points at
    todo,      \* the events the running cycle has fetched
    retry,     \* projection_retry_queue
    carried,   \* the tasks the carry-over records name
    clock,     \* the latest timestamp taken
    cmd,       \* what each process is running
    budget,    \* commands left (bound)
    faults,    \* faults left (bound)
    disturbed  \* keys whose events or writes were crossed (history)

rows   == <<wo, task, ms>>
engine == <<log, cursor, todo, retry>>
bounds == <<clock, budget, faults>>
vars   == <<rows, spool, engine, carried, cmd, bounds, disturbed>>

Idle == [plan |-> <<>>, ev |-> NoEvent, aux |-> None]
Labels == {"write", "emit", "hold", "insert", "gates", "sync", "create", "create_task", "record"}

TypeOK ==
    /\ \A w \in WorkOrderIds : /\ wo[w].status \in WorkOrderStatuses \cup {Absent}
                               /\ wo[w].from \in BLOCKABLE \cup {None}
    /\ \A t \in Tasks : task[t].status \in TaskStatuses \cup {Absent}
    /\ ms \in MilestoneStatuses
    /\ cursor \in [Kinds -> Nat]
    /\ todo \subseteq log /\ retry \subseteq log /\ spool \cap log = {}
    /\ \A e \in spool \cup log : e.id \in 1..clock
    /\ \A p \in Procs : \A i \in DOMAIN cmd[p].plan : cmd[p].plan[i] \in Labels
    /\ carried \subseteq Tasks

(* Some prefix of Past has been run, and the projections have caught up. *)
Init ==
    /\ \E k \in 0..Len(Past) :
        /\ log = {Past[i] : i \in 1..k}
        /\ clock = k
        /\ cursor = [d \in Kinds |-> LastId({e \in log : e.kind = d})]
    /\ wo   = [w \in WorkOrderIds |-> ReplayWorkOrder(log, w)]
    /\ task = [t \in Tasks |-> ReplayTask(log, t)]
    /\ ms = "pending" /\ spool = {} /\ todo = {} /\ retry = {} /\ carried = {}
    /\ cmd = [p \in Procs |-> Idle]
    /\ budget = MaxCommands /\ faults = MaxFaults /\ disturbed = {}

-----------------------------------------------------------------------------
(* Commands.                                                               *)

Emitted == spool \cup log
Busy(p) == cmd[p].plan # <<>>
At(p, label) == Busy(p) /\ Head(cmd[p].plan) = label
Step(p) == [cmd EXCEPT ![p] = IF Len(cmd[p].plan) = 1 THEN Idle
                              ELSE [cmd[p] EXCEPT !.plan = Tail(cmd[p].plan)]]
Stop(p) == [cmd EXCEPT ![p] = Idle]

(* Keys the commands in flight are about. *)
InFlight(k) == \E q \in Procs : Busy(q) /\ k \in {cmd[q].ev.key, cmd[q].aux}

(* A uuid that nothing has used or is about to. *)
Fresh(k) ==
    /\ ~InFlight(k) /\ \A e \in Emitted : e.key # k
    /\ \A q \in Procs : cmd[q].aux \in Tasks => WoOf[cmd[q].aux] # k

(* The command has read what it needs and starts its plan; `now` is taken. *)
Begin(p, kind, type, key, phase, plan) ==
    /\ ~Busy(p) /\ budget > 0
    /\ clock' = clock + 1 /\ budget' = budget - 1
    /\ cmd' = [cmd EXCEPT ![p] =
                [plan |-> plan, ev |-> Event(kind, type, key, phase, clock + 1), aux |-> None]]
    /\ disturbed' = IF InFlight(key) THEN disturbed \cup {key} ELSE disturbed
    /\ UNCHANGED <<rows, spool, engine, carried, faults>>

(* create_work_order: no row is written, the projection makes it. *)
CreateWorkOrder(p, w) ==
    /\ Fresh(w)
    /\ Begin(p, "wo", "created", w, None, <<"emit", "sync">>)

(* _insert_gap_work_orders: a review spawns a work order beside a reviewed one.
   It emits the event and inserts the row itself, for readers who do not wait. *)
SpawnWorkOrder(p, w) ==
    /\ Fresh(w)
    /\ \E v \in WorkOrderIds : wo[v].status # Absent
    /\ Begin(p, "wo", "created", w, None, <<"emit", "insert">>)

(* start_work_order: from created, or again from in_progress (a resume).  It
   emits first and updates the row afterwards, whatever the row is by then.  *)
StartWorkOrder(p, w) ==
    /\ wo[w].status \in {"created", "in_progress"}
    /\ Begin(p, "wo", "started", w, None, <<"emit", "write">>)

(* _ADVANCE_EVENTS. *)
AdvanceEvents == [in_review |-> "review_requested", pushed |-> "pushed", ci_issues |-> "ci_failed"]

(* advance_work_order; a review that still holds the work order refuses. *)
AdvanceWorkOrder(p, w, to) ==
    /\ wo[w].status \in WorkOrderStatuses
    /\ to \in WORK_ORDER_TRANSITIONS[wo[w].status]
    /\ Begin(p, "wo", AdvanceEvents[to], w, None, <<"write", "emit">>)

(* Mutant: blocking asks no phase. *)
BlockWorkOrder_AnyPhase(p, w) ==
    /\ wo[w].status # Absent
    /\ Begin(p, "wo", "blocked", w, wo[w].status, <<"hold">>)

BlockWorkOrder(p, w) ==
    /\ wo[w].status \in BLOCKABLE
    /\ Begin(p, "wo", "blocked", w, wo[w].status, <<"hold">>)

UnblockWorkOrder(p, w) ==
    /\ wo[w].status = "blocked"
    /\ LET back == IF wo[w].from \in BLOCKABLE THEN wo[w].from
                   ELSE WORK_ORDER_EVENT_STATUS.unblocked
       IN  Begin(p, "wo", "unblocked", w, back, <<"write", "emit">>)

ReopenWorkOrder(p, w) ==
    /\ wo[w].status = "closed"
    /\ Begin(p, "wo", "reopened", w, None, <<"write", "emit", "sync">>)

(* drain_fanned_out_categories cancels a duplicate spawned work order. *)
DrainWorkOrder(p, w) ==
    /\ wo[w].status \in {"created", "in_progress"}
    /\ Begin(p, "wo", "cancelled", w, None, <<"hold">>)

(* close_work_order: the phase is checked before the verification. *)
CloseWorkOrder(p, w) ==
    /\ wo[w].status \in CLOSEABLE
    /\ Begin(p, "wo", "closed", w, None, <<"sync", "gates", "hold", "sync">>)

TasksDone(w) ==
    \A t \in Tasks : WoOf[t] = w =>
        task[t].status \in {Absent, "complete", "cancelled"} \/ t \in carried

(* The gates: --force waives the tasks_done gate; any other gate, an escalated
   work order's review or a red main may refuse.  `now` is taken after them.  *)
Gates(p) ==
    /\ At(p, "gates")
    /\ \/ /\ \E force \in BOOLEAN : force \/ TasksDone(cmd[p].ev.key)
          /\ cmd' = [Step(p) EXCEPT ![p].ev.id = clock + 1]
          /\ clock' = clock + 1
       \/ /\ cmd' = Stop(p)
          /\ UNCHANGED clock
    /\ UNCHANGED <<rows, spool, engine, carried, budget, faults, disturbed>>

(* create_task: the work order need not be materialised yet. *)
CreateTask(p, t) ==
    /\ Fresh(t)
    /\ \E e \in Emitted : e.kind = "wo" /\ e.key = WoOf[t]
    /\ Begin(p, "task", "created", t, None, <<"emit", "sync">>)

(* _attach_gap_tasks: a failed review adds a task to the work order it reviewed. *)
AttachTask(p, t) ==
    /\ Fresh(t)
    /\ wo[WoOf[t]].status \in {"created", "in_progress"}
    /\ Begin(p, "task", "created", t, None, <<"emit", "insert">>)

(* start_task refuses a complete task and leaves a started one alone. *)
StartTask(p, t) ==
    /\ task[t].status \notin {Absent, "complete", "in_progress"}
    /\ Begin(p, "task", "started", t, None, <<"write", "emit">>)

(* mark_task_done: the row must exist, whatever its status. *)
MarkTaskDone(p, t) ==
    /\ task[t].status # Absent
    /\ Begin(p, "task", "completed", t, None, <<"emit", "sync">>)

(* The drain cancels a duplicate attached task of an open work order. *)
DrainTask(p, t) ==
    /\ task[t].status \notin TASK_SETTLED \cup {Absent}
    /\ wo[WoOf[t]].status \in {"created", "in_progress"}
    /\ Begin(p, "task", "cancelled", t, None, <<"hold">>)

(* carry_over: an open task moves to a new work order, something remains.
   `now` is taken before the work order and the task are created and stamps
   the task.deleted event that follows them.                                 *)
CarryOver(p, t, u) ==
    /\ task[t].status \notin TASK_SETTLED \cup {Absent}
    /\ \E s \in Tasks \ {t} : WoOf[s] = WoOf[t] /\ task[s].status # Absent
    /\ Fresh(u) /\ Fresh(WoOf[u])
    /\ ~Busy(p) /\ budget > 0
    /\ clock' = clock + 1 /\ budget' = budget - 1
    /\ cmd' = [cmd EXCEPT ![p] =
                [plan |-> <<"create", "sync", "create_task", "sync", "emit", "sync", "record">>,
                 ev |-> Event("task", "deleted", t, None, clock + 1), aux |-> u]]
    /\ disturbed' = IF InFlight(t) THEN disturbed \cup {t} ELSE disturbed
    /\ UNCHANGED <<rows, spool, engine, carried, faults>>

CarryCreate(p) ==
    /\ At(p, "create") \/ At(p, "create_task")
    /\ clock' = clock + 1
    /\ spool' = spool \cup {IF At(p, "create")
                            THEN Event("wo", "created", WoOf[cmd[p].aux], None, clock + 1)
                            ELSE Event("task", "created", cmd[p].aux, None, clock + 1)}
    /\ cmd' = Step(p)
    /\ UNCHANGED <<rows, engine, carried, budget, faults, disturbed>>

CarryRecord(p) ==
    /\ At(p, "record")
    /\ carried' = carried \cup {cmd[p].ev.key}
    /\ cmd' = Step(p)
    /\ UNCHANGED <<rows, spool, engine, bounds, disturbed>>

(* close_milestone: no work order is open, or a closed event of it is in the
   canonical log.  The artifact checks may refuse, and --force waives them.   *)
CloseMilestone(p) ==
    /\ \A w \in WorkOrderIds :
        \/ wo[w].status \in TERMINAL \cup {Absent}
        \/ \E e \in log : e.kind = "wo" /\ e.key = w /\ e.type = "closed"
    /\ Begin(p, "ms", "completed", Milestone, None, <<"emit", "sync">>)

-----------------------------------------------------------------------------
(* The steps of a plan.                                                    *)

(* The columns a command's own UPDATE writes; the provenance ids and, when it
   reopens or cancels, closed_at are left to the projection.                 *)
Mirror(row, e) ==
    IF e.kind = "task" THEN [row EXCEPT !.status = TASK_EVENT_STATUS[e.type]]
    ELSE [row EXCEPT
            !.status = IF e.type = "unblocked" THEN e.phase ELSE WORK_ORDER_EVENT_STATUS[e.type],
            !.from   = CASE e.type = "blocked"   -> e.phase
                         [] e.type = "unblocked" -> None
                         [] OTHER                -> row.from,
            !.closed = row.closed \/ e.type = "closed"]

(* UPDATE ... WHERE id = ?, unconditionally. *)
WriteRow(e) ==
    \/ /\ e.kind = "wo"
       /\ wo' = IF wo[e.key].status = Absent THEN wo
                ELSE [wo EXCEPT ![e.key] = Mirror(wo[e.key], e)]
       /\ UNCHANGED <<task, ms>>
    \/ /\ e.kind = "task"
       /\ task' = IF task[e.key].status = Absent THEN task
                  ELSE [task EXCEPT ![e.key] = Mirror(task[e.key], e)]
       /\ UNCHANGED <<wo, ms>>

Write(p) ==
    /\ At(p, "write")
    /\ WriteRow(cmd[p].ev)
    /\ cmd' = Step(p)
    /\ UNCHANGED <<spool, engine, carried, bounds, disturbed>>

(* INSERT of the row; if the projection has made it already, the IntegrityError
   ends the review.                                                          *)
Insert(p) ==
    /\ At(p, "insert")
    /\ LET e == cmd[p].ev
       IN  \/ /\ e.kind = "wo"
              /\ wo' = IF wo[e.key].status = Absent
                       THEN [wo EXCEPT ![e.key].status = WORK_ORDER_EVENT_STATUS.created] ELSE wo
              /\ UNCHANGED <<task, ms>>
           \/ /\ e.kind = "task"
              /\ task' = IF task[e.key].status = Absent
                         THEN [task EXCEPT ![e.key].status = TASK_EVENT_STATUS.created] ELSE task
              /\ UNCHANGED <<wo, ms>>
    /\ cmd' = Stop(p)
    /\ UNCHANGED <<spool, engine, carried, bounds, disturbed>>

Emit(p) ==
    /\ At(p, "emit")
    /\ spool' = spool \cup {cmd[p].ev}
    /\ cmd' = Step(p)
    /\ UNCHANGED <<rows, engine, carried, bounds, disturbed>>

(* Mutant: the phase is checked at the top of close and not held. *)
HoldsPhase_CheckedOnly(e) == TRUE

(* THE PHASE IS HELD: only close's UPDATE carries a condition. *)
HoldsPhase(e) == e.type = "closed" => wo[e.key].status \in CLOSEABLE

(* One transaction: another writer waits, so readers see both or none. *)
Hold(p) ==
    /\ At(p, "hold")
    /\ \/ /\ HoldsPhase(cmd[p].ev)
          /\ WriteRow(cmd[p].ev)
          /\ spool' = spool \cup {cmd[p].ev}
          /\ cmd' = Step(p)
       \/ /\ ~HoldsPhase(cmd[p].ev)
          /\ cmd' = Stop(p)
          /\ UNCHANGED <<rows, spool>>
    /\ UNCHANGED <<engine, carried, bounds, disturbed>>

Pending == {e \in log : e.id > cursor[e.kind]}

(* sync_tick has ingested and projected what it found, or failed silently. *)
EndSync(p) ==
    /\ At(p, "sync")
    /\ \/ spool = {} /\ todo = {} /\ Pending = {} /\ UNCHANGED faults
       \/ faults > 0 /\ faults' = faults - 1
    /\ cmd' = Step(p)
    /\ UNCHANGED <<rows, spool, engine, carried, clock, budget, disturbed>>

(* The process dies.  In a hold the event may be written and the transaction
   rolled back.                                                              *)
Die(p) ==
    /\ Busy(p) /\ faults > 0
    /\ faults' = faults - 1
    /\ cmd' = Stop(p)
    /\ \/ UNCHANGED spool
       \/ /\ At(p, "hold") /\ HoldsPhase(cmd[p].ev)
          /\ spool' = spool \cup {cmd[p].ev}
    /\ disturbed' = disturbed \cup {cmd[p].ev.key}
    /\ UNCHANGED <<rows, engine, carried, clock, budget>>

-----------------------------------------------------------------------------
(* The spool and the projections, run by the daemon or by a command's tick. *)

(* Events that reach the log after a later one of their kind: the cursor may
   pass them by.                                                             *)
Overtaken == {e \in spool : \E d \in log : d.kind = e.kind /\ d.id > e.id}

Ingest ==
    /\ spool # {} /\ todo = {}
    /\ log' = log \cup spool /\ spool' = {}
    /\ disturbed' = disturbed \cup {e.key : e \in Overtaken}
    /\ UNCHANGED <<rows, cursor, todo, retry, carried, cmd, bounds>>

(* A task's row needs its work order's (foreign key). *)
CanHandle(e) == e.kind = "task" => wo[WoOf[e.key]].status # Absent

(* handle() of e, committed. *)
Handle(e) ==
    CASE e.kind = "wo" ->
            /\ wo' = [wo EXCEPT ![e.key] = HandleWorkOrder(wo[e.key], e)]
            /\ UNCHANGED <<task, ms>>
      [] e.kind = "task" ->
            /\ task' = [task EXCEPT ![e.key] = HandleTask(task[e.key], e)]
            /\ UNCHANGED <<wo, ms>>
      [] e.kind = "ms" ->
            /\ ms' = "complete"
            /\ UNCHANGED <<wo, task>>

(* _apply_v2 of every projection: the events after its cursor. *)
Select ==
    /\ todo = {} /\ Pending # {}
    /\ todo' = Pending
    /\ UNCHANGED <<rows, spool, log, cursor, retry, carried, cmd, bounds, disturbed>>

(* Projections run in this order, each over its events in timestamp order. *)
Rank == [wo |-> 1, task |-> 2, ms |-> 3]
Before(d, e) == Rank[d.kind] < Rank[e.kind] \/ (d.kind = e.kind /\ d.id < e.id)

(* A handler that raises leaves the event to the retry queue. *)
Deliver ==
    \E e \in todo :
        /\ \A d \in todo \ {e} : Before(e, d)
        /\ todo' = todo \ {e}
        /\ \/ /\ CanHandle(e) /\ Handle(e)
              /\ cursor' = [cursor EXCEPT ![e.kind] = e.id]
              /\ UNCHANGED <<retry, faults>>
           \/ /\ CanHandle(e) => faults > 0
              /\ faults' = IF CanHandle(e) THEN faults - 1 ELSE faults
              /\ retry' = retry \cup {e}
              /\ UNCHANGED <<rows, cursor>>
        /\ UNCHANGED <<spool, log, carried, cmd, clock, budget, disturbed>>

(* Events applied once that a cursor moved back has yet to pass again: a retry
   of a later event moves the cursor over them.                              *)
Passed(e) == {d \in Pending \ retry : d.kind = e.kind /\ d.id < e.id}

(* Mutant: the cursor never moves back. *)
RetryDelivery_KeepsCursor(e) ==
    /\ todo = {} /\ e \in retry /\ CanHandle(e)
    /\ Handle(e)
    /\ retry' = retry \ {e}
    /\ cursor' = [cursor EXCEPT ![e.kind] = IF @ > e.id THEN @ ELSE e.id]
    /\ disturbed' = disturbed \cup {d.key : d \in Passed(e)}
    /\ UNCHANGED <<spool, log, todo, carried, cmd, bounds>>

(* Mutant: the retry row is not removed once it has succeeded. *)
RetryDelivery_KeepsRow(e) ==
    /\ todo = {} /\ e \in retry /\ CanHandle(e)
    /\ Handle(e)
    /\ cursor' = [cursor EXCEPT ![e.kind] = e.id]
    /\ disturbed' = disturbed \cup {d.key : d \in Passed(e)}
    /\ UNCHANGED <<spool, log, todo, retry, carried, cmd, bounds>>

(* _process_retries: the row is handled again and the cursor moves to it,
   backwards if need be, so that what came after it is fetched again.        *)
RetryDelivery(e) ==
    /\ todo = {} /\ e \in retry /\ CanHandle(e)
    /\ Handle(e)
    /\ retry' = retry \ {e}
    /\ cursor' = [cursor EXCEPT ![e.kind] = e.id]
    /\ disturbed' = disturbed \cup {d.key : d \in Passed(e)}
    /\ UNCHANGED <<spool, log, todo, carried, cmd, bounds>>

-----------------------------------------------------------------------------
Command(p) ==
    \/ \E w \in WorkOrderIds :
        \/ CreateWorkOrder(p, w)
        \/ SpawnWorkOrder(p, w)
        \/ StartWorkOrder(p, w)
        \/ \E to \in DOMAIN AdvanceEvents : AdvanceWorkOrder(p, w, to)
        \/ BlockWorkOrder(p, w)
        \/ UnblockWorkOrder(p, w)
        \/ ReopenWorkOrder(p, w)
        \/ DrainWorkOrder(p, w)
        \/ CloseWorkOrder(p, w)
    \/ \E t \in Tasks :
        \/ CreateTask(p, t)
        \/ AttachTask(p, t)
        \/ StartTask(p, t)
        \/ MarkTaskDone(p, t)
        \/ DrainTask(p, t)
        \/ \E u \in Tasks : CarryOver(p, t, u)
    \/ CloseMilestone(p)

Run(p) ==
    \/ Write(p) \/ Emit(p) \/ Insert(p) \/ Hold(p) \/ Gates(p) \/ EndSync(p)
    \/ CarryCreate(p) \/ CarryRecord(p)

Project == Ingest \/ Select \/ Deliver \/ \E e \in retry : RetryDelivery(e)

Next ==
    \/ \E p \in Procs : Command(p) \/ Run(p) \/ Die(p)
    \/ Project

Spec == Init /\ [][Next]_vars

(* A command that has begun goes on, hooks and pulses keep ingesting, the daemon
   polls, and every cycle retries the rows that are due.                     *)
FairSpec ==
    /\ Spec
    /\ \A p \in Procs : WF_vars(Run(p))
    /\ WF_vars(Ingest \/ Select \/ Deliver)
    /\ SF_vars(\E e \in retry : RetryDelivery(e))

-----------------------------------------------------------------------------
(* Properties.                                                             *)

(* A work order is closed only from pushed or ci_issues: however long the
   verification took and whatever another command did to the row meanwhile,
   an event that announces a close is emitted only if the row was in a
   closeable phase at that moment (close_main.py, the conditional UPDATE).    *)
ClosesFromHeldPhase ==
    [][\A e \in (spool' \ spool) :
        e.kind = "wo" /\ e.type = "closed" => wo[e.key].status \in CLOSEABLE]_vars

Quiet == /\ \A p \in Procs : ~Busy(p)
         /\ spool = {} /\ todo = {} /\ retry = {} /\ Pending = {}

(* start_task accepts a task that was cancelled or deleted; the projection
   does not.                                                                 *)
StartedAfterEnd(t) ==
    \E d, e \in log : /\ {d.kind, e.kind} = {"task"} /\ {d.key, e.key} = {t}
                      /\ d.type \in {"completed", "cancelled", "deleted"}
                      /\ e.type = "started" /\ d.id < e.id

State(row) == [status |-> row.status, from |-> row.from, closed |-> row.closed]

(* The mirror and the log agree: once nothing is in flight, every work order
   and task row shows what a rebuild would make of the log, although each
   status was written twice, in either order, with events applied late, failed,
   retried and applied again.  Excepted are the keys whose commands overlapped
   or died, those with an event that reached the log behind the cursor or that
   a second retry passed over, and the tasks started again after their end,
   whose rows refuse the late start.                                         *)
RowsReplay ==
    Quiet =>
        /\ \A w \in WorkOrderIds \ disturbed : State(wo[w]) = State(ReplayWorkOrder(log, w))
        /\ \A t \in Tasks \ disturbed :
              StartedAfterEnd(t) \/ task[t].status = ReplayTask(log, t).status

(* The read models catch up: whatever is emitted is ingested and projected,
   failures included, and then rows and log agree for good.                  *)
Converges == <>[](Quiet /\ RowsReplay)

(* What task_status.py says of the phases: each lifecycle event is one that
   the history emitted so far allows.                                        *)
Allowed(w, e) ==
    LET s == ReplayWorkOrder(Emitted, w).status
    IN  CASE e.type = "created"   -> s = Absent
          [] e.type = "started"   -> s \in {"created", "in_progress"}
          [] e.type = "blocked"   -> s \in BLOCKABLE
          [] e.type = "unblocked" -> s = "blocked"
          [] e.type = "reopened"  -> s = "closed"
          [] e.type \in {"cancelled", "deleted"} -> TRUE
          [] OTHER -> s \in WorkOrderStatuses
                      /\ WORK_ORDER_EVENT_STATUS[e.type] \in WORK_ORDER_TRANSITIONS[s]

(* Nothing is skipped and nothing steps back. *)
NothingStepsBack ==
    [][\A e \in (spool' \ spool) : e.kind = "wo" => Allowed(e.key, e)]_vars

(* A carried task reads as deleted once the carry-over is recorded and the
   projections have caught up (carry_over.py, _recovery_advice).             *)
CarriedTaskIsDeleted ==
    Quiet => \A t \in carried : task[t].status = "deleted"

(* A milestone is announced complete only when no work order of it is open by
   the history emitted so far (core/milestones/close.py).                    *)
MilestoneCoversClosed ==
    [][\A e \in (spool' \ spool) : e.kind = "ms" =>
        \A w \in WorkOrderIds : ReplayWorkOrder(Emitted, w).status \in TERMINAL \cup {Absent}]_vars
=============================================================================
