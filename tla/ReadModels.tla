----------------------------- MODULE ReadModels -----------------------------
(***************************************************************************)
(* The status vocabulary of work orders, tasks and milestones              *)
(* (core/work_orders/task_status.py) and what the three projections do     *)
(* with one event (core/projections/work_order_projection.py,              *)
(* task_projection.py and milestone_projection.py).                        *)
(*                                                                         *)
(* An event is identified by its timestamp, a natural number.  A row keeps *)
(* the columns that decide what happens next: the status, the phase it was *)
(* blocked from, whether closed_at is set, and the ids of the event that   *)
(* created it and of the latest one applied (0 for NULL).  Titles,         *)
(* descriptions, priorities and the other timestamps are left out.         *)
(***************************************************************************)
EXTENDS Naturals

(* WHERE A WORK ORDER MAY GO NEXT: the table every lifecycle writer asks. *)
WORK_ORDER_TRANSITIONS ==
    [created     |-> {"in_progress"},
     in_progress |-> {"in_review"},
     in_review   |-> {"pushed"},
     pushed      |-> {"ci_issues", "closed"},
     ci_issues   |-> {"closed"},
     closed      |-> {},
     blocked     |-> {},
     cancelled   |-> {},
     deleted     |-> {}]

WorkOrderStatuses == DOMAIN WORK_ORDER_TRANSITIONS
BLOCKABLE == {s \in WorkOrderStatuses : WORK_ORDER_TRANSITIONS[s] # {}}
CLOSEABLE == {s \in WorkOrderStatuses : "closed" \in WORK_ORDER_TRANSITIONS[s]}
TERMINAL  == {"closed", "cancelled", "deleted"}

(* WORK_ORDER_EVENT_STATUS; unblocked has its fallback. *)
WORK_ORDER_EVENT_STATUS ==
    [created          |-> "created",
     started          |-> "in_progress",
     unblocked        |-> "in_progress",
     reopened         |-> "in_progress",
     review_requested |-> "in_review",
     pushed           |-> "pushed",
     ci_failed        |-> "ci_issues",
     blocked          |-> "blocked",
     closed           |-> "closed",
     cancelled        |-> "cancelled",
     deleted          |-> "deleted"]

(* TASK_EVENT_STATUS.  The stored synonym `done` of complete is never
   written by an event.                                                     *)
TASK_EVENT_STATUS ==
    [created   |-> "pending",
     started   |-> "in_progress",
     completed |-> "complete",
     cancelled |-> "cancelled",
     deleted   |-> "deleted"]

TaskStatuses == {TASK_EVENT_STATUS[x] : x \in DOMAIN TASK_EVENT_STATUS}
TASK_SETTLED == {"complete", "cancelled", "deleted"}

MilestoneStatuses == {"pending", "complete"}

Absent == "absent"
None   == "none"

(* An event of a kind about the entity `key`.  `phase` is the payload's
   from_status of a blocked event and to_status of an unblocked one.        *)
Kinds == {"wo", "task", "ms"}
Event(kind, type, key, phase, id) ==
    [kind |-> kind, type |-> type, key |-> key, phase |-> phase, id |-> id]

NoWorkOrder == [status |-> Absent, from |-> None, closed |-> FALSE, src |-> 0, last |-> 0]
NoTask      == [status |-> Absent, src |-> 0, last |-> 0]

(* is_already_processed: only the first and the latest event are recognised. *)
AlreadyProcessed(row, e) == e.id \in {row.src, row.last}

-----------------------------------------------------------------------------
(* WorkOrderProjection.                                                    *)

(* INSERT OR IGNORE, then COALESCE the columns a skeleton lacks. *)
WorkOrderCreated(row, e) ==
    IF row.status = Absent
    THEN [row EXCEPT !.status = WORK_ORDER_EVENT_STATUS.created, !.src = e.id, !.last = e.id]
    ELSE [row EXCEPT !.src = IF row.src = 0 THEN e.id ELSE row.src]

(* _handle_unblocked: to_status, else the recorded phase, else the fallback. *)
BackTo(row, e) ==
    IF e.phase \in BLOCKABLE THEN e.phase
    ELSE IF row.from \in BLOCKABLE THEN row.from ELSE WORK_ORDER_EVENT_STATUS.unblocked

(* The other handlers upsert the row, which _ensure_skeleton has made exist. *)
WorkOrderMoved(row, e) ==
    [row EXCEPT
        !.status = IF e.type = "unblocked" THEN BackTo(row, e)
                   ELSE WORK_ORDER_EVENT_STATUS[e.type],
        !.from   = CASE e.type = "blocked"   -> IF e.phase \in BLOCKABLE THEN e.phase ELSE None
                     [] e.type = "unblocked" -> None
                     [] OTHER                -> row.from,
        !.closed = CASE e.type \in {"closed", "cancelled"} -> TRUE
                     [] e.type = "reopened"                -> FALSE
                     [] OTHER                              -> row.closed,
        !.last   = e.id]

HandleWorkOrder(row, e) ==
    IF AlreadyProcessed(row, e)     THEN row
    ELSE IF e.type = "created"      THEN WorkOrderCreated(row, e)
    ELSE WorkOrderMoved(row, e)

-----------------------------------------------------------------------------
(* TaskProjection.                                                         *)

TaskCreated(row, e) ==
    IF row.status = Absent
    THEN [status |-> TASK_EVENT_STATUS.created, src |-> e.id, last |-> e.id]
    ELSE [row EXCEPT !.src = IF row.src = 0 THEN e.id ELSE row.src]

(* A start moves a task only while it has not finished; the other handlers
   write the status whatever it was.  (A skeleton has the status pending.)   *)
TaskMoved(row, e) ==
    IF e.type = "started" /\ row.status \in TASK_SETTLED THEN row
    ELSE [row EXCEPT !.status = TASK_EVENT_STATUS[e.type], !.last = e.id]

HandleTask(row, e) ==
    IF AlreadyProcessed(row, e) THEN row
    ELSE IF e.type = "created"  THEN TaskCreated(row, e)
    ELSE TaskMoved(row, e)

-----------------------------------------------------------------------------
(* Rebuild: the events of one row from nothing, in timestamp order.        *)

LastId(S) == IF S = {} THEN 0 ELSE CHOOSE n \in {e.id : e \in S} : \A e \in S : e.id <= n

ReplayWorkOrder(S, w) ==
    LET mine == {e \in S : e.kind = "wo" /\ e.key = w}
        row[n \in 0..LastId(mine)] ==
            IF n = 0 THEN NoWorkOrder
            ELSE IF \E e \in mine : e.id = n
                 THEN HandleWorkOrder(row[n - 1], CHOOSE e \in mine : e.id = n)
                 ELSE row[n - 1]
    IN  row[LastId(mine)]

ReplayTask(S, t) ==
    LET mine == {e \in S : e.kind = "task" /\ e.key = t}
        row[n \in 0..LastId(mine)] ==
            IF n = 0 THEN NoTask
            ELSE IF \E e \in mine : e.id = n
                 THEN HandleTask(row[n - 1], CHOOSE e \in mine : e.id = n)
                 ELSE row[n - 1]
    IN  row[LastId(mine)]
=============================================================================
