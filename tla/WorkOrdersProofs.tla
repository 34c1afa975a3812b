-------------------------- MODULE WorkOrdersProofs --------------------------
(***************************************************************************)
(* Proofs about WorkOrders, for any processes, work orders and tasks, any  *)
(* history before them and any number of commands and faults.              *)
(***************************************************************************)
EXTENDS WorkOrders, WellFoundedInduction, TLAPS

-----------------------------------------------------------------------------
(* The invariants.                                                         *)

(* What may be left of a plan, by the initials of its steps; C1 to C7 are a
   carry-over's.                                                             *)
ES   == <<"emit", "sync">>
EI   == <<"emit", "insert">>
EW   == <<"emit", "write">>
WE   == <<"write", "emit">>
WES  == <<"write", "emit", "sync">>
Em   == <<"emit">>
Ho   == <<"hold">>
SGHS == <<"sync", "gates", "hold", "sync">>
GHS  == <<"gates", "hold", "sync">>
HS   == <<"hold", "sync">>
C1   == <<"create", "sync", "create_task", "sync", "emit", "sync", "record">>
C2   == <<"sync", "create_task", "sync", "emit", "sync", "record">>
C3   == <<"create_task", "sync", "emit", "sync", "record">>
C4   == <<"sync", "emit", "sync", "record">>
C5   == <<"emit", "sync", "record">>
C6   == <<"sync", "record">>
C7   == <<"record">>
Sy   == <<"sync">>
In   == <<"insert">>
Wr   == <<"write">>

(* The plans whose event is not emitted yet. *)
Owing == {ES, EI, EW, WE, WES, Em, Ho, SGHS, GHS, HS, C1, C2, C3, C4, C5}

Plans == Owing \cup {<<>>, Sy, In, Wr, C6, C7}

(* Which plans an event comes with. *)
PlanOK(c) ==
    \/ c.plan = <<>> \/ c.plan = Sy
    \/ c.ev.type = "created" /\ c.plan \in {ES, EI, In}
    \/ c.ev.kind = "wo" /\ c.ev.type = "started" /\ c.plan \in {EW, Wr}
    \/ /\ c.ev.type \notin {"created", "closed"} /\ c.plan \in {WE, WES, Em, ES}
       /\ c.ev.kind = "task" => c.ev.type = "started" \/ c.plan = ES
    \/ c.ev.type \in {"blocked", "cancelled"} /\ c.plan = Ho
    \/ c.ev.kind = "wo" /\ c.ev.type = "closed" /\ c.plan \in {SGHS, GHS, HS}
    \/ /\ c.ev.kind = "task" /\ c.ev.type = "deleted" /\ c.aux \in Tasks
       /\ c.plan \in {C1, C2, C3, C4, C5, C6, C7}

Owes(p) == cmd[p].plan \in Owing

(* The keys whose first event a command has yet to emit. *)
ClaimsOf(c) ==
    IF c.plan = C1 THEN {WoOf[c.aux], c.aux}
    ELSE IF c.plan \in {C2, C3} THEN {c.aux}
    ELSE IF c.plan \in {ES, EI} /\ c.ev.type = "created" THEN {c.ev.key}
    ELSE {}
Claims(p) == ClaimsOf(cmd[p])

EventTypes == DOMAIN WORK_ORDER_EVENT_STATUS \cup DOMAIN TASK_EVENT_STATUS \cup {"none"}
CmdEvents  == [kind : Kinds \cup {"none"}, type : EventTypes,
               key : WorkOrderIds \cup Tasks \cup {Milestone, None},
               phase : WorkOrderStatuses \cup {None}, id : Nat]
Commands   == [plan : Plans, ev : CmdEvents, aux : Tasks \cup {None}]

WoRows   == [status : WorkOrderStatuses \cup {Absent}, from : BLOCKABLE \cup {None},
             closed : BOOLEAN, src : Nat, last : Nat]
TaskRows == [status : TaskStatuses \cup {Absent}, src : Nat, last : Nat]

TypeInv ==
    /\ wo \in [WorkOrderIds -> WoRows]
    /\ task \in [Tasks -> TaskRows]
    /\ ms \in MilestoneStatuses
    /\ cursor \in [Kinds -> Nat]
    /\ todo \subseteq log /\ retry \subseteq log /\ spool \cap log = {}
    /\ carried \subseteq Tasks
    /\ clock \in Nat /\ budget \in Nat /\ faults \in Nat
    /\ cmd \in [Procs -> Commands]
    /\ \A e \in Emitted : IsEvent(e) /\ e.id \in 1..clock

(* A command in flight, its timestamp no later than n. *)
CmdOK(c, n) ==
    /\ PlanOK(c)
    /\ c.plan # <<>> => IsEvent(c.ev) /\ c.ev.id \in 1..n
    /\ c.aux \in Tasks => c.plan # <<>>

CmdInv == \A p \in Procs : CmdOK(cmd[p], clock)

(* No two events have the same timestamp. *)
IdInv ==
    /\ \A d, e \in Emitted : d.id = e.id => d = e
    /\ \A p \in Procs : Owes(p) =>
        /\ \A e \in Emitted : e.id # cmd[p].ev.id
        /\ \A q \in Procs \ {p} : Owes(q) => cmd[q].ev.id # cmd[p].ev.id

(* A row that exists has an event, a settled task one that settles it. *)
Ends == {"completed", "cancelled", "deleted"}
RowInv ==
    /\ \A w \in WorkOrderIds : wo[w].status # Absent => \E e \in Emitted : e.key = w
    /\ \A t \in Tasks : task[t].status # Absent => \E e \in Emitted : e.key = t
    /\ \A t \in Tasks : task[t].status \in TASK_SETTLED =>
            \E e \in Emitted : e.kind = "task" /\ e.key = t /\ e.type \in Ends

(* A key that is to be created is no one else's. *)
ClaimInv ==
    \A p \in Procs : \A k \in Claims(p) :
        /\ \A e \in Emitted : e.key # k
        /\ \A q \in Procs \ {p} : k \notin Claims(q) /\ (Busy(q) => cmd[q].ev.key # k)
        /\ cmd[p].plan \in {C1, C2, C3} => cmd[p].ev.key # k

(* Two commands about one key disturb it; otherwise a command's event is the
   latest of its key.                                                        *)
LatestInv ==
    /\ \A p \in Procs, q \in Procs :
        p # q /\ Busy(p) /\ Busy(q) /\ cmd[p].ev.key = cmd[q].ev.key => cmd[p].ev.key \in disturbed
    /\ \A p \in Procs : cmd[p].ev.key \notin disturbed =>
        /\ Owes(p) => \A e \in Emitted : e.key = cmd[p].ev.key => e.id < cmd[p].ev.id
        /\ cmd[p].plan \in {In, Wr} => \A e \in Emitted : e.key = cmd[p].ev.key => e.id <= cmd[p].ev.id
    /\ \A p \in Procs : cmd[p].plan \in {In, Wr} => cmd[p].ev \in Emitted

(* An entity's creation is its first event. *)
BornInv ==
    \A d, e \in Emitted : d.type = "created" /\ d.key = e.key /\ e.key \notin disturbed => d.id <= e.id

(* A cycle has fetched everything its cursors have not passed. *)
EngineInv ==
    /\ todo \subseteq Pending
    /\ todo # {} => Pending \subseteq todo \cup retry
    /\ \A d \in Kinds : cursor[d] # 0 => \E e \in log : e.kind = d /\ e.id = cursor[d]

(* The provenance ids of a row. *)
ProvInv(row) ==
    /\ row.last # 0 => \E e \in log : e.id = row.last
    /\ row.src # 0 => \E e \in log : e.id = row.src /\ e.type = "created"

SrcInv == (\A w \in WorkOrderIds : ProvInv(wo[w])) /\ (\A t \in Tasks : ProvInv(task[t]))

(* The columns of the two tables; what an event sets them to. *)
Columns == {"status", "from", "closed", "task"}
KindOf(c) == IF c = "task" THEN "task" ELSE "wo"
KeysOf(c) == IF c = "task" THEN Tasks ELSE WorkOrderIds
RowOf(c, k) == IF c = "task" THEN task[k] ELSE wo[k]
Blank(c) == IF c = "from" THEN None ELSE IF c = "closed" THEN FALSE ELSE Absent
Col(c, row) == IF c = "from" THEN row.from ELSE IF c = "closed" THEN row.closed ELSE row.status
Sets(c, e) ==
    /\ e.kind = KindOf(c)
    /\ c = "from"   => e.type \in {"blocked", "unblocked"}
    /\ c = "closed" => e.type \in {"closed", "cancelled", "reopened"}
Val(c, e) ==
    IF c = "from" THEN IF e.type = "blocked" THEN e.phase ELSE None
    ELSE IF c = "closed" THEN e.type # "reopened"
    ELSE IF c = "task" THEN TASK_EVENT_STATUS[e.type]
    ELSE IF e.type = "unblocked" THEN e.phase ELSE WORK_ORDER_EVENT_STATUS[e.type]

(* The events of S that set column c of k, and the latest of them. *)
Setters(c, k, S) == {e \in S : Sets(c, e) /\ e.key = k}
IsLatest(x, T) == x \in T /\ \A d \in T : d.id <= x.id

(* A task of S started after its end. *)
Restarted(t, S) ==
    \E d, e \in S : /\ d.kind = "task" /\ e.kind = "task" /\ d.key = t /\ e.key = t
                    /\ d.type \in Ends /\ e.type = "started" /\ d.id < e.id

(* A command has written the column and not yet emitted its event. *)
Mirrored(c, k) ==
    \E p \in Procs : /\ At(p, "emit") /\ cmd[p].ev.key = k
                     /\ Sets(c, cmd[p].ev) /\ cmd[p].ev.type # "created"

(* An event that is still to be applied to the row. *)
Outstanding(x, row) ==
    /\ x \in spool \cup todo \cup retry \cup Pending
    /\ x.id # row.src /\ x.id # row.last
    /\ x.type = "created" => row.status = Absent

Agrees(c, k) ==
    \/ Setters(c, k, Emitted) = {} /\ Col(c, RowOf(c, k)) = Blank(c)
    \/ \E x : /\ IsLatest(x, Setters(c, k, Emitted))
              /\ Col(c, RowOf(c, k)) = Val(c, x) \/ Outstanding(x, RowOf(c, k))

(* Every column shows the latest event that sets it, unless that event is still
   to be applied.                                                            *)
ColInv ==
    \A c \in Columns : \A k \in KeysOf(c) :
        \/ k \in disturbed \/ (c = "task" /\ Restarted(k, Emitted))
        \/ Mirrored(c, k) \/ Agrees(c, k)

-----------------------------------------------------------------------------
(* Plans.                                                                  *)

(* The first step of each plan and what is left after it. *)
LEMMA PlanTable ==
    /\ Head(ES) = "emit" /\ Len(ES) = 2 /\ Tail(ES) = Sy
    /\ Head(EI) = "emit" /\ Len(EI) = 2 /\ Tail(EI) = In
    /\ Head(EW) = "emit" /\ Len(EW) = 2 /\ Tail(EW) = Wr
    /\ Head(WE) = "write" /\ Len(WE) = 2 /\ Tail(WE) = Em
    /\ Head(WES) = "write" /\ Len(WES) = 3 /\ Tail(WES) = ES
    /\ Head(Em) = "emit" /\ Len(Em) = 1
    /\ Head(Ho) = "hold" /\ Len(Ho) = 1
    /\ Head(SGHS) = "sync" /\ Len(SGHS) = 4 /\ Tail(SGHS) = GHS
    /\ Head(GHS) = "gates" /\ Len(GHS) = 3 /\ Tail(GHS) = HS
    /\ Head(HS) = "hold" /\ Len(HS) = 2 /\ Tail(HS) = Sy
    /\ Head(C1) = "create" /\ Len(C1) = 7 /\ Tail(C1) = C2
    /\ Head(C2) = "sync" /\ Len(C2) = 6 /\ Tail(C2) = C3
    /\ Head(C3) = "create_task" /\ Len(C3) = 5 /\ Tail(C3) = C4
    /\ Head(C4) = "sync" /\ Len(C4) = 4 /\ Tail(C4) = C5
    /\ Head(C5) = "emit" /\ Len(C5) = 3 /\ Tail(C5) = C6
    /\ Head(C6) = "sync" /\ Len(C6) = 2 /\ Tail(C6) = C7
    /\ Head(C7) = "record" /\ Len(C7) = 1
    /\ Head(Sy) = "sync" /\ Len(Sy) = 1
    /\ Head(In) = "insert" /\ Len(In) = 1
    /\ Head(Wr) = "write" /\ Len(Wr) = 1
    /\ \A x : x = <<>> => Len(x) = 0
  BY DEF ES, EI, EW, WE, WES, Em, Ho, SGHS, GHS, HS, C1, C2, C3, C4, C5, C6, C7, Sy, In, Wr

(* No plan is empty, and no two are the same. *)
LEMMA PlansDiffer ==
    /\ ES \notin {<<>>, EI, EW, WE, WES, Em, Ho, SGHS, GHS, HS, C1, C2, C3, C4, C5, C6, C7, Sy, In, Wr}
    /\ EI \notin {<<>>, EW, WE, WES, Em, Ho, SGHS, GHS, HS, C1, C2, C3, C4, C5, C6, C7, Sy, In, Wr}
    /\ EW \notin {<<>>, WE, WES, Em, Ho, SGHS, GHS, HS, C1, C2, C3, C4, C5, C6, C7, Sy, In, Wr}
    /\ WE \notin {<<>>, WES, Em, Ho, SGHS, GHS, HS, C1, C2, C3, C4, C5, C6, C7, Sy, In, Wr}
    /\ WES \notin {<<>>, Em, Ho, SGHS, GHS, HS, C1, C2, C3, C4, C5, C6, C7, Sy, In, Wr}
    /\ Em \notin {<<>>, Ho, SGHS, GHS, HS, C1, C2, C3, C4, C5, C6, C7, Sy, In, Wr}
    /\ Ho \notin {<<>>, SGHS, GHS, HS, C1, C2, C3, C4, C5, C6, C7, Sy, In, Wr}
    /\ SGHS \notin {<<>>, GHS, HS, C1, C2, C3, C4, C5, C6, C7, Sy, In, Wr}
    /\ GHS \notin {<<>>, HS, C1, C2, C3, C4, C5, C6, C7, Sy, In, Wr}
    /\ HS \notin {<<>>, C1, C2, C3, C4, C5, C6, C7, Sy, In, Wr}
    /\ C1 \notin {<<>>, C2, C3, C4, C5, C6, C7, Sy, In, Wr}
    /\ C2 \notin {<<>>, C3, C4, C5, C6, C7, Sy, In, Wr}
    /\ C3 \notin {<<>>, C4, C5, C6, C7, Sy, In, Wr}
    /\ C4 \notin {<<>>, C5, C6, C7, Sy, In, Wr}
    /\ C5 \notin {<<>>, C6, C7, Sy, In, Wr}
    /\ C6 \notin {<<>>, C7, Sy, In, Wr}
    /\ C7 \notin {<<>>, Sy, In, Wr}
    /\ Sy \notin {<<>>, In, Wr}
    /\ In \notin {<<>>, Wr}
    /\ Wr \notin {<<>>}
  BY DEF ES, EI, EW, WE, WES, Em, Ho, SGHS, GHS, HS, C1, C2, C3, C4, C5, C6, C7, Sy, In, Wr

(* After its first step a plan x of several goes on as y. *)
GoesOn(x, y) ==
    \/ (x = ES /\ y = Sy) \/ (x = EI /\ y = In) \/ (x = EW /\ y = Wr)
    \/ (x = WE /\ y = Em) \/ (x = WES /\ y = ES) \/ (x = SGHS /\ y = GHS)
    \/ (x = GHS /\ y = HS) \/ (x = HS /\ y = Sy) \/ (x = C1 /\ y = C2)
    \/ (x = C2 /\ y = C3) \/ (x = C3 /\ y = C4) \/ (x = C4 /\ y = C5)
    \/ (x = C5 /\ y = C6) \/ (x = C6 /\ y = C7)

(* The plans by their first step, and how they go on. *)
LEMMA PlanCases ==
    ASSUME NEW x \in Plans \ {<<>>}
    PROVE  /\ Len(x) = 1 => x \in {Em, Ho, Sy, In, Wr, C7}
           /\ Len(x) # 1 => GoesOn(x, Tail(x))
           /\ Head(x) = "emit" => x \in {ES, EI, EW, Em, C5}
           /\ Head(x) = "write" => x \in {WE, WES, Wr}
           /\ Head(x) = "hold" => x \in {Ho, HS}
           /\ Head(x) = "sync" => x \in {SGHS, C2, C4, C6, Sy}
           /\ Head(x) = "gates" => x \in {GHS}
           /\ Head(x) = "create" => x \in {C1}
           /\ Head(x) = "create_task" => x \in {C3}
           /\ Head(x) = "record" => x \in {C7}
           /\ Head(x) = "insert" => x \in {In}
<1>1. CASE x = ES
  <2>1. Head(x) = "emit" /\ Len(x) = 2 /\ Tail(x) = Sy
    BY <1>1, PlanTable
  <2> QED BY <1>1, <2>1 DEF GoesOn
<1>2. CASE x = EI
  <2>1. Head(x) = "emit" /\ Len(x) = 2 /\ Tail(x) = In
    BY <1>2, PlanTable
  <2> QED BY <1>2, <2>1 DEF GoesOn
<1>3. CASE x = EW
  <2>1. Head(x) = "emit" /\ Len(x) = 2 /\ Tail(x) = Wr
    BY <1>3, PlanTable
  <2> QED BY <1>3, <2>1 DEF GoesOn
<1>4. CASE x = WE
  <2>1. Head(x) = "write" /\ Len(x) = 2 /\ Tail(x) = Em
    BY <1>4, PlanTable
  <2> QED BY <1>4, <2>1 DEF GoesOn
<1>5. CASE x = WES
  <2>1. Head(x) = "write" /\ Len(x) = 3 /\ Tail(x) = ES
    BY <1>5, PlanTable
  <2> QED BY <1>5, <2>1 DEF GoesOn
<1>6. CASE x = Em
  <2>1. Head(x) = "emit" /\ Len(x) = 1
    BY <1>6, PlanTable
  <2> QED BY <1>6, <2>1 DEF GoesOn
<1>7. CASE x = Ho
  <2>1. Head(x) = "hold" /\ Len(x) = 1
    BY <1>7, PlanTable
  <2> QED BY <1>7, <2>1 DEF GoesOn
<1>8. CASE x = SGHS
  <2>1. Head(x) = "sync" /\ Len(x) = 4 /\ Tail(x) = GHS
    BY <1>8, PlanTable
  <2> QED BY <1>8, <2>1 DEF GoesOn
<1>9. CASE x = GHS
  <2>1. Head(x) = "gates" /\ Len(x) = 3 /\ Tail(x) = HS
    BY <1>9, PlanTable
  <2> QED BY <1>9, <2>1 DEF GoesOn
<1>10. CASE x = HS
  <2>1. Head(x) = "hold" /\ Len(x) = 2 /\ Tail(x) = Sy
    BY <1>10, PlanTable
  <2> QED BY <1>10, <2>1 DEF GoesOn
<1>11. CASE x = C1
  <2>1. Head(x) = "create" /\ Len(x) = 7 /\ Tail(x) = C2
    BY <1>11, PlanTable
  <2> QED BY <1>11, <2>1 DEF GoesOn
<1>12. CASE x = C2
  <2>1. Head(x) = "sync" /\ Len(x) = 6 /\ Tail(x) = C3
    BY <1>12, PlanTable
  <2> QED BY <1>12, <2>1 DEF GoesOn
<1>13. CASE x = C3
  <2>1. Head(x) = "create_task" /\ Len(x) = 5 /\ Tail(x) = C4
    BY <1>13, PlanTable
  <2> QED BY <1>13, <2>1 DEF GoesOn
<1>14. CASE x = C4
  <2>1. Head(x) = "sync" /\ Len(x) = 4 /\ Tail(x) = C5
    BY <1>14, PlanTable
  <2> QED BY <1>14, <2>1 DEF GoesOn
<1>15. CASE x = C5
  <2>1. Head(x) = "emit" /\ Len(x) = 3 /\ Tail(x) = C6
    BY <1>15, PlanTable
  <2> QED BY <1>15, <2>1 DEF GoesOn
<1>16. CASE x = C6
  <2>1. Head(x) = "sync" /\ Len(x) = 2 /\ Tail(x) = C7
    BY <1>16, PlanTable
  <2> QED BY <1>16, <2>1 DEF GoesOn
<1>17. CASE x = C7
  <2>1. Head(x) = "record" /\ Len(x) = 1
    BY <1>17, PlanTable
  <2> QED BY <1>17, <2>1 DEF GoesOn
<1>18. CASE x = Sy
  <2>1. Head(x) = "sync" /\ Len(x) = 1
    BY <1>18, PlanTable
  <2> QED BY <1>18, <2>1 DEF GoesOn
<1>19. CASE x = In
  <2>1. Head(x) = "insert" /\ Len(x) = 1
    BY <1>19, PlanTable
  <2> QED BY <1>19, <2>1 DEF GoesOn
<1>20. CASE x = Wr
  <2>1. Head(x) = "write" /\ Len(x) = 1
    BY <1>20, PlanTable
  <2> QED BY <1>20, <2>1 DEF GoesOn
<1> QED BY <1>1, <1>2, <1>3, <1>4, <1>5, <1>6, <1>7, <1>8, <1>9, <1>10, <1>11, <1>12, <1>13, <1>14, <1>15, <1>16, <1>17, <1>18, <1>19, <1>20 DEF Plans, Owing

(* Every step of a plan is one of Labels. *)
LEMMA PlanLabels ==
    ASSUME NEW x \in Plans
    PROVE  \A i \in DOMAIN x : x[i] \in Labels
<1>1. CASE x = <<>>
  BY <1>1 DEF Labels
<1>2. CASE x = ES
  BY <1>2 DEF Labels, ES
<1>3. CASE x = EI
  BY <1>3 DEF Labels, EI
<1>4. CASE x = EW
  BY <1>4 DEF Labels, EW
<1>5. CASE x = WE
  BY <1>5 DEF Labels, WE
<1>6. CASE x = WES
  BY <1>6 DEF Labels, WES
<1>7. CASE x = Em
  BY <1>7 DEF Labels, Em
<1>8. CASE x = Ho
  BY <1>8 DEF Labels, Ho
<1>9. CASE x = SGHS
  BY <1>9 DEF Labels, SGHS
<1>10. CASE x = GHS
  BY <1>10 DEF Labels, GHS
<1>11. CASE x = HS
  BY <1>11 DEF Labels, HS
<1>12. CASE x = C1
  BY <1>12 DEF Labels, C1
<1>13. CASE x = C2
  BY <1>13 DEF Labels, C2
<1>14. CASE x = C3
  BY <1>14 DEF Labels, C3
<1>15. CASE x = C4
  BY <1>15 DEF Labels, C4
<1>16. CASE x = C5
  BY <1>16 DEF Labels, C5
<1>17. CASE x = C6
  BY <1>17 DEF Labels, C6
<1>18. CASE x = C7
  BY <1>18 DEF Labels, C7
<1>19. CASE x = Sy
  BY <1>19 DEF Labels, Sy
<1>20. CASE x = In
  BY <1>20 DEF Labels, In
<1>21. CASE x = Wr
  BY <1>21 DEF Labels, Wr
<1> QED BY <1>1, <1>2, <1>3, <1>4, <1>5, <1>6, <1>7, <1>8, <1>9, <1>10, <1>11, <1>12, <1>13, <1>14, <1>15, <1>16, <1>17, <1>18, <1>19, <1>20, <1>21 DEF Plans, Owing

-----------------------------------------------------------------------------
(* The vocabulary.                                                         *)

(* The phases, and the ones a work order may be blocked in or closed from. *)
LEMMA Phases ==
    /\ WorkOrderStatuses = {"created", "in_progress", "in_review", "pushed", "ci_issues", "closed",
                            "blocked", "cancelled", "deleted"}
    /\ BLOCKABLE = {"created", "in_progress", "in_review", "pushed", "ci_issues"}
    /\ CLOSEABLE = {"pushed", "ci_issues"}
<1>1. WorkOrderStatuses = {"created", "in_progress", "in_review", "pushed", "ci_issues", "closed",
                           "blocked", "cancelled", "deleted"}
  BY DEF WorkOrderStatuses, WORK_ORDER_TRANSITIONS
<1>2. /\ WORK_ORDER_TRANSITIONS["created"] = {"in_progress"} /\ WORK_ORDER_TRANSITIONS["in_progress"] = {"in_review"}
      /\ WORK_ORDER_TRANSITIONS["in_review"] = {"pushed"} /\ WORK_ORDER_TRANSITIONS["pushed"] = {"ci_issues", "closed"}
      /\ WORK_ORDER_TRANSITIONS["ci_issues"] = {"closed"} /\ WORK_ORDER_TRANSITIONS["closed"] = {}
      /\ WORK_ORDER_TRANSITIONS["blocked"] = {} /\ WORK_ORDER_TRANSITIONS["cancelled"] = {}
      /\ WORK_ORDER_TRANSITIONS["deleted"] = {}
  BY DEF WORK_ORDER_TRANSITIONS
<1>3. BLOCKABLE = {"created", "in_progress", "in_review", "pushed", "ci_issues"}
  BY <1>1, <1>2 DEF BLOCKABLE
<1>4. CLOSEABLE = {"pushed", "ci_issues"}
  BY <1>1, <1>2 DEF CLOSEABLE
<1> QED BY <1>1, <1>3, <1>4

(* The events of a work order and the phase each leads to. *)
LEMMA WorkOrderEvents ==
    /\ DOMAIN WORK_ORDER_EVENT_STATUS = {"created", "started", "unblocked", "reopened", "review_requested",
            "pushed", "ci_failed", "blocked", "closed", "cancelled", "deleted"}
    /\ WORK_ORDER_EVENT_STATUS["created"] = "created"
    /\ \A x \in DOMAIN WORK_ORDER_EVENT_STATUS : WORK_ORDER_EVENT_STATUS[x] \in WorkOrderStatuses
    /\ WORK_ORDER_EVENT_STATUS.created = "created" /\ WORK_ORDER_EVENT_STATUS.unblocked = "in_progress"
  BY Phases DEF WORK_ORDER_EVENT_STATUS

(* The events of a task and the status each leads to. *)
LEMMA TaskEvents ==
    /\ DOMAIN TASK_EVENT_STATUS = {"created", "started", "completed", "cancelled", "deleted"}
    /\ TASK_EVENT_STATUS["created"] = "pending" /\ TASK_EVENT_STATUS["started"] = "in_progress"
    /\ TASK_EVENT_STATUS["completed"] = "complete" /\ TASK_EVENT_STATUS["cancelled"] = "cancelled"
    /\ TASK_EVENT_STATUS["deleted"] = "deleted" /\ TASK_EVENT_STATUS.created = "pending"
    /\ TaskStatuses = {"pending", "in_progress", "complete", "cancelled", "deleted"}
<1>1. /\ DOMAIN TASK_EVENT_STATUS = {"created", "started", "completed", "cancelled", "deleted"}
      /\ TASK_EVENT_STATUS["created"] = "pending" /\ TASK_EVENT_STATUS["started"] = "in_progress"
      /\ TASK_EVENT_STATUS["completed"] = "complete" /\ TASK_EVENT_STATUS["cancelled"] = "cancelled"
      /\ TASK_EVENT_STATUS["deleted"] = "deleted" /\ TASK_EVENT_STATUS.created = "pending"
  BY DEF TASK_EVENT_STATUS
<1>2. TaskStatuses = {"pending", "in_progress", "complete", "cancelled", "deleted"}
  BY <1>1 DEF TaskStatuses
<1> QED BY <1>1, <1>2

-----------------------------------------------------------------------------
(* What a command does when it begins.                                     *)

Begins(p, c) ==
    /\ ~Busy(p)
    /\ cmd' = [cmd EXCEPT ![p] = c] /\ clock' = clock + 1 /\ budget' \in Nat
    /\ c \in Commands /\ CmdOK(c, clock + 1) /\ c.plan \in Owing /\ c.ev.id = clock + 1
    /\ disturbed' = IF InFlight(c.ev.key) THEN disturbed \cup {c.ev.key} ELSE disturbed
    /\ UNCHANGED <<wo, task, ms, spool, log, cursor, todo, retry, carried, faults>>
    /\ \A k \in ClaimsOf(c) : Fresh(k)
    /\ \/ c.plan \notin {C1, C2, C3} /\ c.ev.key \in ClaimsOf(c)
       \/ c.ev.key = Milestone
       \/ \E e \in Emitted : e.key = c.ev.key

(* A command that begins with a known entity, or makes up a fresh one. *)
LEMMA BeginIs ==
    ASSUME TypeInv, NEW p \in Procs, NEW kind, NEW type, NEW key, NEW phase \in WorkOrderStatuses \cup {None},
           NEW plan \in Owing \ {C1, C2, C3, C4, C5},
           Begin(p, kind, type, key, phase, plan),
           IsEvent(Event(kind, type, key, phase, clock + 1)),
           PlanOK([plan |-> plan, ev |-> Event(kind, type, key, phase, clock + 1), aux |-> None]),
           \/ type = "created" /\ plan \in {ES, EI} /\ Fresh(key)
           \/ type # "created" /\ (key = Milestone \/ \E e \in Emitted : e.key = key)
    PROVE  \E c : Begins(p, c)
<1> DEFINE ev == Event(kind, type, key, phase, clock + 1)
           c  == [plan |-> plan, ev |-> ev, aux |-> None]
<1>0. /\ ev.kind = kind /\ ev.type = type /\ ev.key = key /\ ev.phase = phase /\ ev.id = clock + 1
      /\ c.plan = plan /\ c.ev = ev /\ c.aux = None
  BY DEF Event
<1>1. clock \in Nat /\ budget \in Nat /\ budget > 0 /\ budget' = budget - 1 /\ clock' = clock + 1
  BY DEF TypeInv, Begin
<1>2. ev \in CmdEvents
  <2>1. kind \in Kinds /\ type \in EventTypes /\ key \in WorkOrderIds \cup Tasks \cup {Milestone, None}
    BY <1>0, TaskEvents DEF IsEvent, Kinds, EventTypes
  <2> QED BY <1>1, <2>1 DEF Event, CmdEvents
<1>3. c \in Commands
  BY <1>2 DEF Commands, Plans
<1>4. CmdOK(c, clock + 1)
  <2>1. clock + 1 \in 1..(clock + 1) /\ None \notin Tasks
    BY <1>1, KeysAssumption
  <2> HIDE DEF c, ev
  <2> QED BY <1>0, <2>1 DEF CmdOK, c, ev
<1>5. IF type = "created" THEN ClaimsOf(c) = {key} ELSE ClaimsOf(c) = {}
  <2> HIDE DEF c, ev
  <2> QED BY <1>0, PlansDiffer DEF ClaimsOf
<1>6. cmd' = [cmd EXCEPT ![p] = c] /\ budget' \in Nat
  BY <1>1 DEF Begin
<1>7. Begins(p, c)
  <2> HIDE DEF c, ev
  <2>1. /\ ~Busy(p)
        /\ disturbed' = IF InFlight(key) THEN disturbed \cup {key} ELSE disturbed
        /\ UNCHANGED <<wo, task, ms, spool, log, cursor, todo, retry, carried, faults>>
    BY DEF Begin, rows, engine
  <2>2. \A k \in ClaimsOf(c) : Fresh(k)
    BY <1>5
  <2>3. \/ c.plan \notin {C1, C2, C3} /\ key \in ClaimsOf(c)
        \/ key = Milestone
        \/ \E e \in Emitted : e.key = key
    BY <1>0, <1>5
  <2> QED BY <1>0, <1>1, <1>3, <1>4, <1>6, <2>1, <2>2, <2>3 DEF Begins
<1> QED BY <1>7

(* Every command begins so. *)
LEMMA CommandBegins ==
    ASSUME TypeInv, RowInv, NEW p \in Procs, Command(p)
    PROVE  \E c : Begins(p, c)
<1>0. None \in WorkOrderStatuses \cup {None}
  OBVIOUS
<1>1. ASSUME NEW w \in WorkOrderIds, CreateWorkOrder(p, w) PROVE \E c : Begins(p, c)
  <2>1. Fresh(w) /\ Begin(p, "wo", "created", w, None, ES)
    BY <1>1 DEF CreateWorkOrder, ES
  <2>2. IsEvent(Event("wo", "created", w, None, clock + 1))
    BY WorkOrderEvents DEF IsEvent, Event
  <2>3. PlanOK([plan |-> ES, ev |-> Event("wo", "created", w, None, clock + 1), aux |-> None])
    BY DEF PlanOK, Event
  <2> QED BY <1>0, <2>1, <2>2, <2>3, BeginIs, PlansDiffer DEF Owing
<1>2. ASSUME NEW w \in WorkOrderIds, SpawnWorkOrder(p, w) PROVE \E c : Begins(p, c)
  <2>1. Fresh(w) /\ Begin(p, "wo", "created", w, None, EI)
    BY <1>2 DEF SpawnWorkOrder, EI
  <2>2. IsEvent(Event("wo", "created", w, None, clock + 1))
    BY WorkOrderEvents DEF IsEvent, Event
  <2>3. PlanOK([plan |-> EI, ev |-> Event("wo", "created", w, None, clock + 1), aux |-> None])
    BY DEF PlanOK, Event
  <2> QED BY <1>0, <2>1, <2>2, <2>3, BeginIs, PlansDiffer DEF Owing
<1>3. ASSUME NEW w \in WorkOrderIds, StartWorkOrder(p, w) PROVE \E c : Begins(p, c)
  <2>1. wo[w].status # Absent /\ Begin(p, "wo", "started", w, None, EW)
    BY <1>3 DEF StartWorkOrder, EW, Absent
  <2>4. \E e \in Emitted : e.key = w
    BY <2>1 DEF RowInv
  <2>2. IsEvent(Event("wo", "started", w, None, clock + 1))
    BY WorkOrderEvents DEF IsEvent, Event
  <2>3. PlanOK([plan |-> EW, ev |-> Event("wo", "started", w, None, clock + 1), aux |-> None])
    BY DEF PlanOK, Event
  <2> QED BY <1>0, <2>1, <2>2, <2>3, <2>4, BeginIs, PlansDiffer DEF Owing
<1>4. ASSUME NEW w \in WorkOrderIds, ReopenWorkOrder(p, w) PROVE \E c : Begins(p, c)
  <2>1. wo[w].status # Absent /\ Begin(p, "wo", "reopened", w, None, WES)
    BY <1>4 DEF ReopenWorkOrder, WES, Absent
  <2>4. \E e \in Emitted : e.key = w
    BY <2>1 DEF RowInv
  <2>2. IsEvent(Event("wo", "reopened", w, None, clock + 1))
    BY WorkOrderEvents DEF IsEvent, Event
  <2>3. PlanOK([plan |-> WES, ev |-> Event("wo", "reopened", w, None, clock + 1), aux |-> None])
    BY DEF PlanOK, Event
  <2> QED BY <1>0, <2>1, <2>2, <2>3, <2>4, BeginIs, PlansDiffer DEF Owing
<1>5. ASSUME NEW w \in WorkOrderIds, DrainWorkOrder(p, w) PROVE \E c : Begins(p, c)
  <2>1. wo[w].status # Absent /\ Begin(p, "wo", "cancelled", w, None, Ho)
    BY <1>5 DEF DrainWorkOrder, Ho, Absent
  <2>4. \E e \in Emitted : e.key = w
    BY <2>1 DEF RowInv
  <2>2. IsEvent(Event("wo", "cancelled", w, None, clock + 1))
    BY WorkOrderEvents DEF IsEvent, Event
  <2>3. PlanOK([plan |-> Ho, ev |-> Event("wo", "cancelled", w, None, clock + 1), aux |-> None])
    BY DEF PlanOK, Event
  <2> QED BY <1>0, <2>1, <2>2, <2>3, <2>4, BeginIs, PlansDiffer DEF Owing
<1>6. ASSUME NEW w \in WorkOrderIds, CloseWorkOrder(p, w) PROVE \E c : Begins(p, c)
  <2>1. wo[w].status # Absent /\ Begin(p, "wo", "closed", w, None, SGHS)
    BY <1>6, Phases DEF CloseWorkOrder, SGHS, Absent
  <2>4. \E e \in Emitted : e.key = w
    BY <2>1 DEF RowInv
  <2>2. IsEvent(Event("wo", "closed", w, None, clock + 1))
    BY WorkOrderEvents DEF IsEvent, Event
  <2>3. PlanOK([plan |-> SGHS, ev |-> Event("wo", "closed", w, None, clock + 1), aux |-> None])
    BY DEF PlanOK, Event
  <2> QED BY <1>0, <2>1, <2>2, <2>3, <2>4, BeginIs, PlansDiffer DEF Owing
<1>7. ASSUME NEW t \in Tasks, CreateTask(p, t) PROVE \E c : Begins(p, c)
  <2>1. Fresh(t) /\ Begin(p, "task", "created", t, None, ES)
    BY <1>7 DEF CreateTask, ES
  <2>2. IsEvent(Event("task", "created", t, None, clock + 1))
    BY TaskEvents DEF IsEvent, Event
  <2>3. PlanOK([plan |-> ES, ev |-> Event("task", "created", t, None, clock + 1), aux |-> None])
    BY DEF PlanOK, Event
  <2> QED BY <1>0, <2>1, <2>2, <2>3, BeginIs, PlansDiffer DEF Owing
<1>8. ASSUME NEW t \in Tasks, AttachTask(p, t) PROVE \E c : Begins(p, c)
  <2>1. Fresh(t) /\ Begin(p, "task", "created", t, None, EI)
    BY <1>8 DEF AttachTask, EI
  <2>2. IsEvent(Event("task", "created", t, None, clock + 1))
    BY TaskEvents DEF IsEvent, Event
  <2>3. PlanOK([plan |-> EI, ev |-> Event("task", "created", t, None, clock + 1), aux |-> None])
    BY DEF PlanOK, Event
  <2> QED BY <1>0, <2>1, <2>2, <2>3, BeginIs, PlansDiffer DEF Owing
<1>9. ASSUME NEW t \in Tasks, StartTask(p, t) PROVE \E c : Begins(p, c)
  <2>1. task[t].status # Absent /\ Begin(p, "task", "started", t, None, WE)
    BY <1>9 DEF StartTask, WE, Absent
  <2>4. \E e \in Emitted : e.key = t
    BY <2>1 DEF RowInv
  <2>2. IsEvent(Event("task", "started", t, None, clock + 1))
    BY TaskEvents DEF IsEvent, Event
  <2>3. PlanOK([plan |-> WE, ev |-> Event("task", "started", t, None, clock + 1), aux |-> None])
    BY DEF PlanOK, Event
  <2> QED BY <1>0, <2>1, <2>2, <2>3, <2>4, BeginIs, PlansDiffer DEF Owing
<1>10. ASSUME NEW t \in Tasks, MarkTaskDone(p, t) PROVE \E c : Begins(p, c)
  <2>1. task[t].status # Absent /\ Begin(p, "task", "completed", t, None, ES)
    BY <1>10 DEF MarkTaskDone, ES, Absent
  <2>4. \E e \in Emitted : e.key = t
    BY <2>1 DEF RowInv
  <2>2. IsEvent(Event("task", "completed", t, None, clock + 1))
    BY TaskEvents DEF IsEvent, Event
  <2>3. PlanOK([plan |-> ES, ev |-> Event("task", "completed", t, None, clock + 1), aux |-> None])
    BY DEF PlanOK, Event
  <2> QED BY <1>0, <2>1, <2>2, <2>3, <2>4, BeginIs, PlansDiffer DEF Owing
<1>11. ASSUME NEW t \in Tasks, DrainTask(p, t) PROVE \E c : Begins(p, c)
  <2>1. task[t].status # Absent /\ Begin(p, "task", "cancelled", t, None, Ho)
    BY <1>11 DEF DrainTask, Ho, Absent
  <2>4. \E e \in Emitted : e.key = t
    BY <2>1 DEF RowInv
  <2>2. IsEvent(Event("task", "cancelled", t, None, clock + 1))
    BY TaskEvents DEF IsEvent, Event
  <2>3. PlanOK([plan |-> Ho, ev |-> Event("task", "cancelled", t, None, clock + 1), aux |-> None])
    BY DEF PlanOK, Event
  <2> QED BY <1>0, <2>1, <2>2, <2>3, <2>4, BeginIs, PlansDiffer DEF Owing
<1>12. ASSUME NEW w \in WorkOrderIds, NEW to \in DOMAIN AdvanceEvents, AdvanceWorkOrder(p, w, to)
       PROVE \E c : Begins(p, c)
  <2>0. PICK type : type = AdvanceEvents[to]
    OBVIOUS
  <2>1. wo[w].status # Absent /\ Begin(p, "wo", type, w, None, WE)
    BY <1>12, <2>0, Phases DEF AdvanceWorkOrder, WE, Absent
  <2>2. type \in {"review_requested", "pushed", "ci_failed"}
    BY <2>0 DEF AdvanceEvents
  <2>3. \E e \in Emitted : e.key = w
    BY <2>1 DEF RowInv
  <2>4. IsEvent(Event("wo", type, w, None, clock + 1))
    BY <2>2, WorkOrderEvents DEF IsEvent, Event
  <2>5. PlanOK([plan |-> WE, ev |-> Event("wo", type, w, None, clock + 1), aux |-> None])
    BY <2>2 DEF PlanOK, Event
  <2> QED BY <1>0, <2>1, <2>2, <2>3, <2>4, <2>5, BeginIs, PlansDiffer DEF Owing
<1>13. ASSUME NEW w \in WorkOrderIds, BlockWorkOrder(p, w) PROVE \E c : Begins(p, c)
  <2>0. PICK phase : phase = wo[w].status
    OBVIOUS
  <2>1. phase \in BLOCKABLE /\ Begin(p, "wo", "blocked", w, phase, Ho)
    BY <1>13, <2>0 DEF BlockWorkOrder, Ho
  <2>2. phase \in WorkOrderStatuses \cup {None} /\ phase # Absent
    BY <2>1, Phases DEF Absent
  <2>3. \E e \in Emitted : e.key = w
    BY <2>0, <2>2 DEF RowInv
  <2>4. IsEvent(Event("wo", "blocked", w, phase, clock + 1))
    BY <2>1, WorkOrderEvents DEF IsEvent, Event
  <2>5. PlanOK([plan |-> Ho, ev |-> Event("wo", "blocked", w, phase, clock + 1), aux |-> None])
    BY DEF PlanOK, Event
  <2> QED BY <2>1, <2>2, <2>3, <2>4, <2>5, BeginIs, PlansDiffer DEF Owing
<1>14. ASSUME NEW w \in WorkOrderIds, UnblockWorkOrder(p, w) PROVE \E c : Begins(p, c)
  <2>1. PICK back : /\ back = IF wo[w].from \in BLOCKABLE THEN wo[w].from ELSE WORK_ORDER_EVENT_STATUS.unblocked
                    /\ Begin(p, "wo", "unblocked", w, back, WE) /\ wo[w].status = "blocked"
    BY <1>14 DEF UnblockWorkOrder, WE
  <2>2. back \in BLOCKABLE /\ back \in WorkOrderStatuses \cup {None}
    BY <2>1, Phases, WorkOrderEvents
  <2>3. \E e \in Emitted : e.key = w
    BY <2>1 DEF RowInv, Absent
  <2>4. IsEvent(Event("wo", "unblocked", w, back, clock + 1))
    BY <2>2, WorkOrderEvents DEF IsEvent, Event
  <2>5. PlanOK([plan |-> WE, ev |-> Event("wo", "unblocked", w, back, clock + 1), aux |-> None])
    BY DEF PlanOK, Event
  <2> QED BY <2>1, <2>2, <2>3, <2>4, <2>5, BeginIs, PlansDiffer DEF Owing
<1>15. ASSUME CloseMilestone(p) PROVE \E c : Begins(p, c)
  <2>1. Begin(p, "ms", "completed", Milestone, None, ES)
    BY <1>15 DEF CloseMilestone, ES
  <2>2. IsEvent(Event("ms", "completed", Milestone, None, clock + 1))
    BY DEF IsEvent, Event
  <2>3. PlanOK([plan |-> ES, ev |-> Event("ms", "completed", Milestone, None, clock + 1), aux |-> None])
    BY DEF PlanOK, Event
  <2> QED BY <1>0, <2>1, <2>2, <2>3, BeginIs, PlansDiffer DEF Owing
<1>16. ASSUME NEW t \in Tasks, NEW u \in Tasks, CarryOver(p, t, u) PROVE \E c : Begins(p, c)
  <2> DEFINE ev == Event("task", "deleted", t, None, clock + 1)
             c  == [plan |-> C1, ev |-> ev, aux |-> u]
  <2>0. /\ ev.kind = "task" /\ ev.type = "deleted" /\ ev.key = t /\ ev.phase = None /\ ev.id = clock + 1
        /\ c.plan = C1 /\ c.ev = ev /\ c.aux = u
    BY DEF Event
  <2>1. clock \in Nat /\ budget \in Nat /\ budget > 0 /\ budget' = budget - 1 /\ clock' = clock + 1
    BY <1>16 DEF TypeInv, CarryOver
  <2>2. cmd' = [cmd EXCEPT ![p] = c]
    BY <1>16 DEF CarryOver, C1
  <2>3. /\ ~Busy(p) /\ Fresh(u) /\ Fresh(WoOf[u]) /\ task[t].status # Absent
        /\ disturbed' = IF InFlight(t) THEN disturbed \cup {t} ELSE disturbed
        /\ UNCHANGED <<wo, task, ms, spool, log, cursor, todo, retry, carried, faults>>
    BY <1>16 DEF CarryOver, rows, engine
  <2>4. ev \in CmdEvents /\ c \in Commands
    <3>1. ev \in CmdEvents
      BY <2>1, TaskEvents DEF Event, CmdEvents, Kinds, EventTypes
    <3> QED BY <3>1 DEF Commands, Plans, Owing
  <2>5. CmdOK(c, clock + 1)
    <3>1. clock + 1 \in 1..(clock + 1) /\ IsEvent(ev)
      BY <2>0, <2>1, TaskEvents DEF IsEvent
    <3> HIDE DEF c, ev
    <3>2. PlanOK(c) /\ c.plan # <<>>
      BY <2>0, PlansDiffer DEF PlanOK
    <3> QED BY <2>0, <3>1, <3>2 DEF CmdOK
  <2>6. ClaimsOf(c) = {WoOf[u], u}
    <3> HIDE DEF c, ev
    <3> QED BY <2>0 DEF ClaimsOf
  <2>7. \E e \in Emitted : e.key = t
    BY <2>3 DEF RowInv
  <2>8. Begins(p, c)
    <3>1. \A k \in ClaimsOf(c) : Fresh(k)
      BY <2>3, <2>6
    <3>2. budget' \in Nat /\ c.plan \in Owing
      BY <2>0, <2>1 DEF Owing
    <3> HIDE DEF c, ev
    <3> QED BY <2>0, <2>1, <2>2, <2>3, <2>4, <2>5, <2>7, <3>1, <3>2 DEF Begins
  <2> QED BY <2>8
<1> QED BY <1>1, <1>2, <1>3, <1>4, <1>5, <1>6, <1>7, <1>8, <1>9, <1>10, <1>11, <1>12, <1>13, <1>14, <1>15, <1>16
        DEF Command

-----------------------------------------------------------------------------
(* What a process does at a step of its plan.                              *)

(* d is what is left of command c after a step. *)
After(c, d) ==
    \/ Len(c.plan) = 1 /\ d = Idle
    \/ /\ Len(c.plan) # 1 /\ d \in Commands
       /\ d.plan = Tail(c.plan) /\ d.ev = c.ev /\ d.aux = c.aux

(* An idle process is a command with an empty plan. *)
LEMMA IdleIs == Idle \in Commands /\ Idle.plan = <<>> /\ Idle.aux = None /\ \A n : CmdOK(Idle, n)
<1>1. Idle.plan = <<>> /\ Idle.ev = NoEvent /\ Idle.aux = None
  BY DEF Idle
<1>2. NoEvent \in CmdEvents
  BY DEF NoEvent, Event, CmdEvents, EventTypes, None
<1>3. Idle \in Commands
  BY <1>2 DEF Idle, Commands, Plans
<1>4. None \notin Tasks
  BY KeysAssumption
<1> QED BY <1>1, <1>3, <1>4 DEF CmdOK, PlanOK

(* What is left of a command is a command. *)
LEMMA AfterIs ==
    ASSUME NEW c \in Commands, NEW n, CmdOK(c, n), c.plan # <<>>, NEW d, After(c, d)
    PROVE  d \in Commands /\ CmdOK(d, n)
<1>1. CASE d = Idle
  BY <1>1, IdleIs
<1>2. CASE d # Idle
  <2>1. /\ Len(c.plan) # 1 /\ d \in Commands
        /\ d.plan = Tail(c.plan) /\ d.ev = c.ev /\ d.aux = c.aux
    BY <1>2 DEF After
  <2>2. PlanOK(d) /\ d.plan # <<>>
    <3>1. GoesOn(c.plan, d.plan)
      BY <2>1, PlanCases DEF Commands
    <3> QED BY <2>1, <3>1, PlansDiffer DEF GoesOn, CmdOK, PlanOK
  <2> QED BY <2>1, <2>2 DEF CmdOK
<1> QED BY <1>1, <1>2

(* Step(p) leaves the rest of the plan. *)
LEMMA StepIs ==
    ASSUME TypeInv, NEW p \in Procs, CmdOK(cmd[p], clock), Busy(p)
    PROVE  \E d : Step(p) = [cmd EXCEPT ![p] = d] /\ After(cmd[p], d)
<1> DEFINE c == cmd[p]
           d == IF Len(c.plan) = 1 THEN Idle ELSE [c EXCEPT !.plan = Tail(c.plan)]
<1>0. c \in Commands /\ c.plan # <<>>
  BY DEF TypeInv, Busy
<1>1. Step(p) = [cmd EXCEPT ![p] = d]
  BY DEF Step
<1>2. CASE Len(c.plan) = 1
  BY <1>1, <1>2 DEF After
<1>3. CASE Len(c.plan) # 1
  <2>1. Tail(c.plan) \in Plans
    <3> HIDE DEF c
    <3>1. PICK y : y = Tail(c.plan) /\ GoesOn(c.plan, y)
      BY <1>0, <1>3, PlanCases DEF Commands
    <3> QED BY <3>1 DEF GoesOn, Plans, Owing
  <2>2. d \in Commands /\ d.plan = Tail(c.plan) /\ d.ev = c.ev /\ d.aux = c.aux
    BY <1>0, <1>3, <2>1 DEF Commands
  <2> QED BY <1>1, <1>3, <2>2 DEF After
<1> QED BY <1>2, <1>3

(* Process p goes on to c; nothing of the engine's moves. *)
Turns(p, c) ==
    /\ Busy(p) /\ cmd' = [cmd EXCEPT ![p] = c] /\ c \in Commands /\ CmdOK(c, clock')
    /\ clock' \in {clock, clock + 1} /\ disturbed \subseteq disturbed'
    /\ UNCHANGED <<ms, log, cursor, todo, retry, budget>>

(* It emits nothing. *)
Still(p, c) ==
    /\ spool' = spool
    /\ c.plan # <<>> => c.ev.key = cmd[p].ev.key
    /\ c.plan \in Owing => /\ Owes(p)
                           /\ \/ c.ev.id = cmd[p].ev.id
                              \/ c.ev.id = clock + 1 /\ clock' = clock + 1
    /\ c.plan \notin {In, Wr}
    /\ ClaimsOf(c) \subseteq Claims(p) /\ (c.plan \in {C1, C2, C3} => cmd[p].plan \in {C1, C2, C3})

(* It emits its own event. *)
Emits(p, c) ==
    /\ Owes(p) /\ spool' = spool \cup {cmd[p].ev} /\ clock' = clock
    /\ c.plan \notin Owing /\ (c.plan # <<>> => c.ev = cmd[p].ev)
    /\ ClaimsOf(c) = {} /\ cmd[p].plan \notin {C1, C2, C3}
    /\ cmd[p].ev.type = "created" => cmd[p].ev.key \in Claims(p)

(* It emits the event e that creates a claimed key. *)
Creates(p, c, e) ==
    /\ Owes(p) /\ spool' = spool \cup {e} /\ clock' = clock + 1
    /\ c.plan \in Owing /\ c.ev = cmd[p].ev /\ cmd[p].plan \in {C1, C3}
    /\ e.key \in Claims(p) /\ ClaimsOf(c) \subseteq Claims(p) \ {e.key}
    /\ e.type = "created" /\ e.id = clock + 1 /\ IsEvent(e)

(* What is left of a plan that emits nothing at this step. *)
LEMMA StillIs ==
    ASSUME TypeInv, NEW p \in Procs, CmdOK(cmd[p], clock), Busy(p), NEW c, After(cmd[p], c) \/ c = Idle,
           Head(cmd[p].plan) \in {"write", "insert", "gates", "sync", "record"} \/ c = Idle, spool' = spool
    PROVE  Still(p, c)
<1>1. CASE c = Idle
  <2>1. c.plan = <<>>
    BY <1>1, IdleIs
  <2>2. ClaimsOf(c) = {} /\ c.plan \notin Owing /\ c.plan \notin {In, Wr} /\ c.plan \notin {C1, C2, C3}
    BY <2>1, PlansDiffer DEF ClaimsOf, Owing
  <2> QED BY <2>1, <2>2 DEF Still
<1>2. CASE c # Idle
  <2>1. PICK x \in Plans \ {<<>>} : x = cmd[p].plan
    BY DEF TypeInv, Commands, Busy
  <2>2. Len(x) # 1 /\ c.plan = Tail(x) /\ c.ev = cmd[p].ev /\ c.aux = cmd[p].aux
    BY <1>2, <2>1 DEF After
  <2>3. x \in {WE, WES, Wr, In, GHS, SGHS, C2, C4, C6, Sy, C7}
    BY <1>2, <2>1, PlanCases
  <2>4. \/ (x = WE /\ c.plan = Em) \/ (x = WES /\ c.plan = ES) \/ (x = GHS /\ c.plan = HS)
        \/ (x = SGHS /\ c.plan = GHS) \/ (x = C2 /\ c.plan = C3) \/ (x = C4 /\ c.plan = C5)
        \/ (x = C6 /\ c.plan = C7)
    <3>1. CASE x = WE
      BY <2>2, <3>1, PlanTable
    <3>2. CASE x = WES
      BY <2>2, <3>2, PlanTable
    <3>3. CASE x = Wr
      BY <2>2, <3>3, PlanTable
    <3>4. CASE x = In
      BY <2>2, <3>4, PlanTable
    <3>5. CASE x = GHS
      BY <2>2, <3>5, PlanTable
    <3>6. CASE x = SGHS
      BY <2>2, <3>6, PlanTable
    <3>7. CASE x = C2
      BY <2>2, <3>7, PlanTable
    <3>8. CASE x = C4
      BY <2>2, <3>8, PlanTable
    <3>9. CASE x = C6
      BY <2>2, <3>9, PlanTable
    <3>10. CASE x = Sy
      BY <2>2, <3>10, PlanTable
    <3>11. CASE x = C7
      BY <2>2, <3>11, PlanTable
    <3> QED BY <2>3, <3>1, <3>2, <3>3, <3>4, <3>5, <3>6, <3>7, <3>8, <3>9, <3>10, <3>11
  <2>5. x \in Owing \/ c.plan \notin Owing
    BY <2>4, PlansDiffer DEF Owing
  <2>6. c.plan \notin {In, Wr} /\ (c.plan \in {C1, C2, C3} => x \in {C1, C2, C3})
    BY <2>4, PlansDiffer
  <2>7. ClaimsOf(c) \subseteq ClaimsOf(cmd[p])
    <3>1. c.plan = ES => c.ev.type # "created"
      BY <2>1, <2>2, <2>4, PlansDiffer DEF CmdOK, PlanOK
    <3> QED BY <2>1, <2>2, <2>4, <3>1, PlansDiffer DEF ClaimsOf
  <2> QED BY <2>1, <2>2, <2>5, <2>6, <2>7 DEF Still, Owes, Claims
<1> QED BY <1>1, <1>2

(* What is left of a plan that emits its event at this step. *)
LEMMA EmitsIs ==
    ASSUME TypeInv, NEW p \in Procs, CmdOK(cmd[p], clock), Busy(p), NEW c, After(cmd[p], c) \/ c = Idle,
           Head(cmd[p].plan) \in {"emit", "hold"}, spool' = spool \cup {cmd[p].ev}, clock' = clock
    PROVE  Emits(p, c)
<1>1. PICK x \in Plans \ {<<>>} : x = cmd[p].plan
  BY DEF TypeInv, Commands, Busy
<1>2. x \in {ES, EI, EW, Em, C5, Ho, HS}
  BY <1>1, PlanCases
<1>3. Owes(p) /\ x \notin {C1, C2, C3}
  BY <1>1, <1>2, PlansDiffer DEF Owes, Owing
<1>4. cmd[p].ev.type = "created" => cmd[p].ev.key \in Claims(p)
  <2>1. cmd[p].ev.type = "created" => x \in {ES, EI}
    BY <1>1, <1>2, PlansDiffer DEF CmdOK, PlanOK
  <2> QED BY <1>1, <2>1, PlansDiffer DEF Claims, ClaimsOf
<1>5. c.plan \in {<<>>, Sy, In, Wr, C6} /\ (c.plan # <<>> => c.ev = cmd[p].ev)
  <2>1. CASE c = Idle
    BY <2>1, IdleIs
  <2>2. CASE c # Idle
    <3>1. Len(x) # 1 /\ c.plan = Tail(x) /\ c.ev = cmd[p].ev
      BY <1>1, <2>2 DEF After
    <3>2. x \in {ES, EI, EW, C5, HS} => Tail(x) \in {Sy, In, Wr, C6}
      BY PlanTable
    <3>3. x \notin {Em, Ho}
      BY <3>1, PlanTable
    <3> QED BY <1>2, <3>1, <3>2, <3>3
  <2> QED BY <2>1, <2>2
<1>6. c.plan \notin Owing /\ ClaimsOf(c) = {}
  BY <1>5, PlansDiffer DEF Owing, ClaimsOf
<1> QED BY <1>1, <1>3, <1>4, <1>5, <1>6 DEF Emits

(* What is left of a carry-over that creates an entity at this step. *)
LEMMA CreatesIs ==
    ASSUME TypeInv, NEW p \in Procs, CmdOK(cmd[p], clock), CarryCreate(p)
    PROVE  \E c, e : Turns(p, c) /\ Creates(p, c, e)
<1>0. Busy(p) /\ cmd[p] \in Commands
  BY DEF CarryCreate, At, TypeInv
<1>1. PICK c : cmd' = [cmd EXCEPT ![p] = c] /\ After(cmd[p], c)
  BY <1>0, StepIs DEF CarryCreate
<1>2. PICK x \in Plans \ {<<>>} : x = cmd[p].plan
  BY <1>0 DEF Commands, Busy
<1>3. x \in {C1, C3} /\ (At(p, "create") <=> x = C1)
  <2>1. Head(x) \in {"create", "create_task"} /\ (At(p, "create") <=> Head(x) = "create")
    BY <1>0, <1>2 DEF CarryCreate, At
  <2> QED BY <2>1, PlanCases, PlanTable
<1>4. cmd[p].aux \in Tasks /\ cmd[p].plan # <<>> /\ WoOf[cmd[p].aux] \in WorkOrderIds
  BY <1>2, <1>3, PlansDiffer, WoOfAssumption DEF CmdOK, PlanOK
<1>5. /\ x = C1 => c.plan = C2
      /\ x = C3 => c.plan = C4
      /\ c.ev = cmd[p].ev /\ c.aux = cmd[p].aux
  <2>1. /\ Tail(C1) = C2 /\ Tail(C3) = C4
        /\ Len(C1) = 7 /\ Len(C3) = 5
    BY PlanTable
  <2>2. Len(x) # 1
    <3>1. CASE x = C1
      <4>1. Len(x) = 7
        BY <2>1, <3>1
      <4> QED BY <4>1
    <3>2. CASE x = C3
      <4>1. Len(x) = 5
        BY <2>1, <3>2
      <4> QED BY <4>1
    <3> QED BY <1>3, <3>1, <3>2
  <2>3. c.plan = Tail(x) /\ c.ev = cmd[p].ev /\ c.aux = cmd[p].aux
    BY <1>1, <1>2, <2>2 DEF After
  <2>4. (x = C1 => c.plan = Tail(C1)) /\ (x = C3 => c.plan = Tail(C3))
    BY <2>3
  <2> QED BY <2>1, <2>3, <2>4
<1> DEFINE e == IF x = C1 THEN Event("wo", "created", WoOf[cmd[p].aux], None, clock + 1)
                ELSE Event("task", "created", cmd[p].aux, None, clock + 1)
<1>6. spool' = spool \cup {e} /\ clock' = clock + 1
  BY <1>3 DEF CarryCreate
<1>7. /\ e.key = IF x = C1 THEN WoOf[cmd[p].aux] ELSE cmd[p].aux
      /\ e.type = "created" /\ e.id = clock + 1 /\ IsEvent(e)
  BY <1>4, WorkOrderEvents, TaskEvents DEF Event, IsEvent
<1> HIDE DEF e
<1>8. e.key \in Claims(p) /\ ClaimsOf(c) \subseteq Claims(p) \ {e.key}
  <2>1. WoOf[cmd[p].aux] # cmd[p].aux
    BY <1>4, KeysAssumption
  <2> QED BY <1>2, <1>3, <1>5, <1>7, <2>1, PlansDiffer DEF Claims, ClaimsOf
<1>9. Owes(p) /\ c.plan \in Owing
  BY <1>2, <1>3, <1>5 DEF Owes, Owing
<1>10. c \in Commands /\ CmdOK(c, clock')
  <2>1. c \in Commands /\ CmdOK(c, clock)
    BY <1>0, <1>1, <1>4, AfterIs
  <2>2. clock \in Nat /\ \A n \in 1..clock : n \in 1..(clock + 1)
    BY DEF TypeInv
  <2> QED BY <1>6, <2>1, <2>2 DEF CmdOK
<1>11. Turns(p, c)
  BY <1>0, <1>1, <1>6, <1>10 DEF Turns, CarryCreate, rows, engine
<1>12. Creates(p, c, e)
  BY <1>2, <1>3, <1>5, <1>6, <1>7, <1>8, <1>9 DEF Creates
<1> QED BY <1>11, <1>12

(* A step or the death of a process does one of the three. *)
LEMMA RunIs ==
    ASSUME TypeInv, CmdInv, NEW p \in Procs, Run(p) \/ Die(p)
    PROVE  \E c : Turns(p, c) /\ (Still(p, c) \/ Emits(p, c) \/ \E e : Creates(p, c, e))
<1>0. CmdOK(cmd[p], clock) /\ cmd[p] \in Commands /\ clock \in Nat
  BY DEF CmdInv, TypeInv
<1>a. ASSUME Busy(p), NEW c, cmd' = [cmd EXCEPT ![p] = c], After(cmd[p], c) \/ c = Idle, clock' = clock,
             UNCHANGED <<ms, log, cursor, todo, retry, budget>>, disturbed \subseteq disturbed'
      PROVE  Turns(p, c)
  <2>1. c \in Commands /\ CmdOK(c, clock')
    BY <1>0, <1>a, AfterIs, IdleIs DEF Busy
  <2> QED BY <1>a, <2>1 DEF Turns
<1>b. Stop(p) = [cmd EXCEPT ![p] = Idle]
  BY DEF Stop
<1>1. CASE Write(p)
  <2>1. /\ Busy(p) /\ Head(cmd[p].plan) = "write" /\ cmd' = Step(p)
        /\ spool' = spool /\ clock' = clock /\ UNCHANGED <<ms, log, cursor, todo, retry, budget, disturbed>>
    BY <1>1 DEF Write, WriteRow, At, engine, bounds
  <2>2. PICK c : cmd' = [cmd EXCEPT ![p] = c] /\ After(cmd[p], c)
    BY <1>0, <2>1, StepIs
  <2> QED BY <1>0, <1>a, <2>1, <2>2, StillIs
<1>2. CASE Insert(p)
  <2>1. /\ Busy(p) /\ cmd' = [cmd EXCEPT ![p] = Idle]
        /\ spool' = spool /\ clock' = clock /\ UNCHANGED <<ms, log, cursor, todo, retry, budget, disturbed>>
    BY <1>2, <1>b DEF Insert, At, engine, bounds
  <2> QED BY <1>0, <1>a, <2>1, StillIs
<1>3. CASE Emit(p)
  <2>1. /\ Busy(p) /\ Head(cmd[p].plan) = "emit" /\ cmd' = Step(p)
        /\ spool' = spool \cup {cmd[p].ev} /\ clock' = clock
        /\ UNCHANGED <<ms, log, cursor, todo, retry, budget, disturbed>>
    BY <1>3 DEF Emit, At, rows, engine, bounds
  <2>2. PICK c : cmd' = [cmd EXCEPT ![p] = c] /\ After(cmd[p], c)
    BY <1>0, <2>1, StepIs
  <2> QED BY <1>0, <1>a, <2>1, <2>2, EmitsIs
<1>4. CASE Hold(p)
  <2>1. /\ Busy(p) /\ Head(cmd[p].plan) = "hold" /\ clock' = clock
        /\ UNCHANGED <<ms, log, cursor, todo, retry, budget, disturbed>>
        /\ \/ spool' = spool \cup {cmd[p].ev} /\ cmd' = Step(p)
           \/ spool' = spool /\ cmd' = [cmd EXCEPT ![p] = Idle]
    BY <1>4, <1>b DEF Hold, WriteRow, At, rows, engine, bounds
  <2>2. CASE spool' = spool \cup {cmd[p].ev} /\ cmd' = Step(p)
    <3>1. PICK c : cmd' = [cmd EXCEPT ![p] = c] /\ After(cmd[p], c)
      BY <1>0, <2>1, <2>2, StepIs
    <3> QED BY <1>0, <1>a, <2>1, <2>2, <3>1, EmitsIs
  <2>3. CASE spool' = spool /\ cmd' = [cmd EXCEPT ![p] = Idle]
    BY <1>0, <1>a, <2>1, <2>3, StillIs
  <2> QED BY <2>1, <2>2, <2>3
<1>5. CASE Gates(p)
  <2>1. /\ Busy(p) /\ Head(cmd[p].plan) = "gates" /\ spool' = spool
        /\ UNCHANGED <<ms, log, cursor, todo, retry, budget, disturbed>>
        /\ \/ cmd' = [Step(p) EXCEPT ![p].ev.id = clock + 1] /\ clock' = clock + 1
           \/ cmd' = [cmd EXCEPT ![p] = Idle] /\ clock' = clock
    BY <1>5, <1>b DEF Gates, At, rows, engine
  <2>2. CASE cmd' = [cmd EXCEPT ![p] = Idle] /\ clock' = clock
    BY <1>0, <1>a, <2>1, <2>2, StillIs
  <2>3. CASE cmd' = [Step(p) EXCEPT ![p].ev.id = clock + 1] /\ clock' = clock + 1
    <3>1. PICK d : Step(p) = [cmd EXCEPT ![p] = d] /\ After(cmd[p], d)
      BY <1>0, <2>1, StepIs
    <3>2. PICK x \in Plans \ {<<>>} : x = cmd[p].plan
      BY <1>0, <2>1 DEF Commands, Busy
    <3>3. x = GHS /\ cmd[p].ev.kind = "wo" /\ cmd[p].ev.type = "closed"
      <4>1. x = GHS
        BY <2>1, <3>2, PlanCases
      <4> QED BY <1>0, <3>2, <4>1, PlansDiffer DEF CmdOK, PlanOK
    <3>4. d.plan = HS /\ d.ev = cmd[p].ev /\ d.aux = cmd[p].aux /\ d \in Commands
      <4>1. Tail(GHS) = HS /\ Len(GHS) = 3
        BY PlanTable
      <4>2. Len(x) = 3 /\ Tail(x) = HS
        BY <3>3, <4>1
      <4>3. Len(x) # 1
        BY <4>2
      <4> QED BY <3>1, <3>2, <4>2, <4>3 DEF After
    <3> DEFINE c == [d EXCEPT !.ev.id = clock + 1]
    <3>5. cmd' = [cmd EXCEPT ![p] = c]
      BY <2>3, <3>1 DEF TypeInv
    <3>6. /\ c \in Commands /\ c.plan = HS /\ c.aux = cmd[p].aux
          /\ c.ev.id = clock + 1 /\ c.ev.kind = "wo" /\ c.ev.type = "closed" /\ c.ev.key = cmd[p].ev.key
          /\ c.ev.phase = cmd[p].ev.phase
      BY <1>0, <3>3, <3>4 DEF Commands, CmdEvents
    <3> HIDE DEF c
    <3>7. CmdOK(c, clock')
      <4>1. IsEvent(cmd[p].ev) /\ (cmd[p].aux \in Tasks => cmd[p].plan # <<>>)
        BY <1>0, <2>1 DEF CmdOK, Busy
      <4>2. IsEvent(c.ev)
        BY <3>3, <3>6, <4>1 DEF IsEvent
      <4>3. PlanOK(c) /\ c.plan # <<>>
        BY <3>6, PlansDiffer DEF PlanOK
      <4>4. clock + 1 \in 1..clock'
        BY <1>0, <2>3
      <4> QED BY <3>6, <4>2, <4>3, <4>4 DEF CmdOK
    <3>8. Turns(p, c)
      BY <2>1, <2>3, <3>5, <3>6, <3>7 DEF Turns
    <3>9. Still(p, c)
      <4>1. ClaimsOf(c) = {} /\ c.plan \notin {In, Wr, C1, C2, C3} /\ Owes(p)
        BY <3>2, <3>3, <3>6, PlansDiffer DEF ClaimsOf, Owes, Owing
      <4> QED BY <2>1, <2>3, <3>6, <4>1 DEF Still
    <3> QED BY <3>8, <3>9
  <2> QED BY <2>1, <2>2, <2>3
<1>6. CASE EndSync(p)
  <2>1. /\ Busy(p) /\ Head(cmd[p].plan) = "sync" /\ cmd' = Step(p)
        /\ spool' = spool /\ clock' = clock /\ UNCHANGED <<ms, log, cursor, todo, retry, budget, disturbed>>
    BY <1>6 DEF EndSync, At, rows, engine
  <2>2. PICK c : cmd' = [cmd EXCEPT ![p] = c] /\ After(cmd[p], c)
    BY <1>0, <2>1, StepIs
  <2> QED BY <1>0, <1>a, <2>1, <2>2, StillIs
<1>7. CASE CarryCreate(p)
  BY <1>0, <1>7, CreatesIs
<1>8. CASE CarryRecord(p)
  <2>1. /\ Busy(p) /\ Head(cmd[p].plan) = "record" /\ cmd' = Step(p)
        /\ spool' = spool /\ clock' = clock /\ UNCHANGED <<ms, log, cursor, todo, retry, budget, disturbed>>
    BY <1>8 DEF CarryRecord, At, rows, engine, bounds
  <2>2. PICK c : cmd' = [cmd EXCEPT ![p] = c] /\ After(cmd[p], c)
    BY <1>0, <2>1, StepIs
  <2> QED BY <1>0, <1>a, <2>1, <2>2, StillIs
<1>9. CASE Die(p)
  <2>1. /\ Busy(p) /\ cmd' = [cmd EXCEPT ![p] = Idle] /\ clock' = clock
        /\ UNCHANGED <<ms, log, cursor, todo, retry, budget>> /\ disturbed \subseteq disturbed'
        /\ \/ spool' = spool
           \/ Head(cmd[p].plan) = "hold" /\ spool' = spool \cup {cmd[p].ev}
    BY <1>9, <1>b DEF Die, At, rows, engine
  <2>2. CASE spool' = spool
    BY <1>0, <1>a, <2>1, <2>2, StillIs
  <2>3. CASE Head(cmd[p].plan) = "hold" /\ spool' = spool \cup {cmd[p].ev}
    BY <1>0, <1>a, <2>1, <2>3, EmitsIs
  <2> QED BY <2>1, <2>2, <2>3
<1> QED BY <1>1, <1>2, <1>3, <1>4, <1>5, <1>6, <1>7, <1>8, <1>9 DEF Run

-----------------------------------------------------------------------------
(* The commands in flight.                                                 *)

FlightInv == CmdInv /\ IdInv /\ ClaimInv /\ LatestInv /\ BornInv

(* A process that owes or claims something is busy. *)
LEMMA OwingIsBusy ==
    ASSUME NEW c, c.plan \in Owing \/ ClaimsOf(c) # {} \/ c.plan \in {In, Wr}
    PROVE  c.plan # <<>>
<1>1. ClaimsOf(c) # {} => c.plan \in {C1, C2, C3, ES, EI}
  BY DEF ClaimsOf
<1> QED BY <1>1, PlansDiffer DEF Owing

(* A claimed key is that of a task or a work order. *)
LEMMA ClaimsAreKeys ==
    ASSUME NEW c, NEW n, CmdOK(c, n), NEW k \in ClaimsOf(c)
    PROVE  k \in WorkOrderIds \cup Tasks
<1>1. CASE c.plan \in {C1, C2, C3}
  <2>1. c.aux \in Tasks
    BY <1>1, PlansDiffer DEF CmdOK, PlanOK
  <2> QED BY <1>1, <2>1, WoOfAssumption, PlansDiffer DEF ClaimsOf
<1>2. CASE c.plan \notin {C1, C2, C3}
  <2>1. c.plan \in {ES, EI} /\ c.ev.type = "created" /\ k = c.ev.key
    BY <1>2 DEF ClaimsOf
  <2> QED BY <2>1, PlansDiffer DEF CmdOK, IsEvent
<1> QED BY <1>1, <1>2

(* A command that begins keeps the others in order. *)
LEMMA FlightBegins ==
    ASSUME TypeInv, FlightInv, NEW p \in Procs, NEW c, Begins(p, c)
    PROVE  FlightInv'
<1>0. /\ clock \in Nat /\ clock' = clock + 1 /\ Emitted' = Emitted /\ disturbed \subseteq disturbed'
      /\ c.plan # <<>> /\ c.plan \in Owing /\ c.ev.id = clock + 1 /\ ~Busy(p) /\ cmd[p].plan = <<>>
      /\ \A e \in Emitted : e.id \in Nat /\ e.id <= clock
  BY OwingIsBusy DEF TypeInv, Begins, Emitted, Busy
<1>1. \A q \in Procs : (q = p => cmd'[q] = c) /\ (q # p => cmd'[q] = cmd[q])
  BY DEF Begins, TypeInv
<1>2. \A q \in Procs : Busy(q) => cmd[q].ev.id \in Nat /\ cmd[q].ev.id <= clock
  BY <1>0 DEF FlightInv, CmdInv, CmdOK, Busy
<1>3. \A q \in Procs : Owes(q) \/ Claims(q) # {} \/ cmd[q].plan \in {In, Wr} => Busy(q)
  BY OwingIsBusy DEF Owes, Claims, Busy
<1>4. CmdInv'
  <2>1. ASSUME NEW q \in Procs, q # p PROVE CmdOK(cmd[q], clock + 1)
    <3>1. CmdOK(cmd[q], clock) /\ \A n \in 1..clock : n \in 1..(clock + 1)
      BY <1>0 DEF FlightInv, CmdInv
    <3> QED BY <3>1 DEF CmdOK
  <2> QED BY <1>0, <1>1, <2>1 DEF CmdInv, Begins
<1>5. IdInv'
  <2>1. \A d, e \in Emitted' : d.id = e.id => d = e
    BY <1>0 DEF FlightInv, IdInv
  <2>2. ASSUME NEW q \in Procs, Owes(q)', NEW e \in Emitted' PROVE e.id # cmd'[q].ev.id
    <3>1. CASE q = p
      BY <1>0, <1>1, <3>1
    <3>2. CASE q # p
      BY <1>0, <1>1, <2>2, <3>2 DEF FlightInv, IdInv, Owes
    <3> QED BY <3>1, <3>2
  <2>3. ASSUME NEW q \in Procs, NEW r \in Procs \ {q}, Owes(q)', Owes(r)' PROVE cmd'[q].ev.id # cmd'[r].ev.id
    <3>1. CASE q = p
      <4>1. cmd'[q].ev.id = clock + 1 /\ cmd'[r] = cmd[r] /\ Owes(r)
        BY <1>0, <1>1, <2>3, <3>1 DEF Owes
      <4> QED BY <1>0, <1>2, <1>3, <4>1
    <3>2. CASE r = p
      <4>1. cmd'[r].ev.id = clock + 1 /\ cmd'[q] = cmd[q] /\ Owes(q)
        BY <1>0, <1>1, <2>3, <3>2 DEF Owes
      <4> QED BY <1>0, <1>2, <1>3, <4>1
    <3>3. CASE q # p /\ r # p
      BY <1>1, <2>3, <3>3 DEF FlightInv, IdInv, Owes
    <3> QED BY <3>1, <3>2, <3>3
  <2> QED BY <2>1, <2>2, <2>3 DEF IdInv
<1>6. \A k \in ClaimsOf(c) : Fresh(k)
  BY DEF Begins
<1>7. ASSUME NEW k \in ClaimsOf(c), NEW q \in Procs \ {p} PROVE k \notin Claims(q) /\ (Busy(q) => cmd[q].ev.key # k)
  <2>1. Fresh(k)
    BY <1>6
  <2>2. Busy(q) => cmd[q].ev.key # k /\ cmd[q].aux # k
    BY <2>1 DEF Fresh, InFlight
  <2>3. cmd[q].aux \in Tasks => WoOf[cmd[q].aux] # k
    BY <2>1 DEF Fresh
  <2>4. ASSUME k \in Claims(q) PROVE FALSE
    <3>1. Busy(q)
      BY <1>3, <2>4
    <3>2. CASE cmd[q].plan \in {C1, C2, C3}
      <4>1. cmd[q].aux \in Tasks
        BY <3>2, PlansDiffer DEF FlightInv, CmdInv, CmdOK, PlanOK
      <4> QED BY <2>2, <2>3, <2>4, <3>1, <3>2, <4>1, PlansDiffer DEF Claims, ClaimsOf
    <3>3. CASE cmd[q].plan \notin {C1, C2, C3}
      BY <2>2, <2>4, <3>1, <3>3 DEF Claims, ClaimsOf
    <3> QED BY <3>2, <3>3
  <2> QED BY <2>2, <2>4
<1>8. ASSUME NEW q \in Procs \ {p}, NEW k \in Claims(q) PROVE c.ev.key # k
  <2>1. k \in WorkOrderIds \cup Tasks
    BY ClaimsAreKeys DEF Claims, FlightInv, CmdInv
  <2>2. k # Milestone
    BY <2>1, KeysAssumption
  <2>3. \A e \in Emitted : e.key # k
    BY DEF FlightInv, ClaimInv
  <2>4. c.ev.key \in ClaimsOf(c) => c.ev.key # k
    BY <1>7
  <2> QED BY <2>2, <2>3, <2>4 DEF Begins
<1>9. ClaimInv'
  <2> SUFFICES ASSUME NEW q \in Procs, NEW k \in Claims(q)'
               PROVE  /\ \A e \in Emitted' : e.key # k
                      /\ \A r \in Procs \ {q} : k \notin Claims(r)' /\ (Busy(r)' => cmd'[r].ev.key # k)
                      /\ cmd'[q].plan \in {C1, C2, C3} => cmd'[q].ev.key # k
    BY DEF ClaimInv
  <2>0. \A r \in Procs : (r = p => Claims(r)' = ClaimsOf(c)) /\ (r # p => Claims(r)' = Claims(r))
    BY <1>1 DEF Claims
  <2>1. CASE q = p
    <3>1. k \in ClaimsOf(c) /\ cmd'[q] = c
      BY <1>1, <2>0, <2>1
    <3>2. \A e \in Emitted' : e.key # k
      BY <1>0, <1>6, <3>1 DEF Fresh
    <3>3. \A r \in Procs \ {q} : k \notin Claims(r)' /\ (Busy(r)' => cmd'[r].ev.key # k)
      BY <1>1, <1>7, <2>0, <2>1, <3>1 DEF Busy
    <3>4. ASSUME c.plan \in {C1, C2, C3} PROVE c.ev.key # k
      <4>1. c.ev.type = "deleted"
        BY <3>4, PlansDiffer DEF Begins, CmdOK, PlanOK
      <4>2. c.ev.key \in Tasks
        BY <1>0, <3>4, <4>1, PlansDiffer DEF Begins, CmdOK, PlanOK, IsEvent
      <4>3. \E e \in Emitted : e.key = c.ev.key
        BY <3>4, <4>2, KeysAssumption DEF Begins
      <4> QED BY <1>6, <3>1, <4>3 DEF Fresh
    <3> QED BY <3>1, <3>2, <3>3, <3>4
  <2>2. CASE q # p
    <3>1. k \in Claims(q) /\ cmd'[q] = cmd[q]
      BY <1>1, <2>0, <2>2
    <3>2. \A r \in Procs \ {q} : k \notin Claims(r)' /\ (Busy(r)' => cmd'[r].ev.key # k)
      <4>1. ASSUME NEW r \in Procs \ {q}, r # p PROVE k \notin Claims(r)' /\ (Busy(r)' => cmd'[r].ev.key # k)
        BY <1>1, <2>0, <3>1, <4>1 DEF FlightInv, ClaimInv, Busy
      <4>2. k \notin ClaimsOf(c) /\ c.ev.key # k
        BY <1>7, <1>8, <2>2, <3>1
      <4> QED BY <1>1, <2>0, <4>1, <4>2 DEF Busy
    <3> QED BY <1>0, <3>1, <3>2 DEF FlightInv, ClaimInv
  <2> QED BY <2>1, <2>2
<1>10. LatestInv'
  <2>1. ASSUME NEW q \in Procs, NEW r \in Procs, q # r, Busy(q)', Busy(r)', cmd'[q].ev.key = cmd'[r].ev.key
        PROVE  cmd'[q].ev.key \in disturbed'
    <3>1. CASE q # p /\ r # p
      BY <1>0, <1>1, <2>1, <3>1 DEF FlightInv, LatestInv, Busy
    <3>2. ASSUME NEW s \in Procs \ {p}, Busy(s)', cmd'[s].ev.key = c.ev.key PROVE c.ev.key \in disturbed'
      <4>1. InFlight(c.ev.key)
        BY <1>1, <3>2 DEF InFlight, Busy
      <4> QED BY <4>1 DEF Begins
    <3> QED BY <1>1, <2>1, <3>1, <3>2
  <2>2. ASSUME NEW q \in Procs, cmd'[q].ev.key \notin disturbed'
        PROVE  /\ Owes(q)' => \A e \in Emitted' : e.key = cmd'[q].ev.key => e.id < cmd'[q].ev.id
               /\ cmd'[q].plan \in {In, Wr} =>
                    \A e \in Emitted' : e.key = cmd'[q].ev.key => e.id <= cmd'[q].ev.id
    <3>1. CASE q = p
      <4>1. c.plan \notin {In, Wr}
        BY <1>0, PlansDiffer DEF Owing
      <4> QED BY <1>0, <1>1, <3>1, <4>1
    <3>2. CASE q # p
      BY <1>0, <1>1, <2>2, <3>2 DEF FlightInv, LatestInv, Owes
    <3> QED BY <3>1, <3>2
  <2>3. \A q \in Procs : cmd'[q].plan \in {In, Wr} => cmd'[q].ev \in Emitted'
    <3>1. c.plan \notin {In, Wr}
      BY <1>0, PlansDiffer DEF Owing
    <3> QED BY <1>0, <1>1, <3>1 DEF FlightInv, LatestInv
  <2> QED BY <2>1, <2>2, <2>3 DEF LatestInv
<1>11. BornInv'
  BY <1>0 DEF FlightInv, BornInv
<1> QED BY <1>4, <1>5, <1>9, <1>10, <1>11 DEF FlightInv

(* What a step of p that leaves c adds to the events, and how the rest of the
   command relates to it.                                                    *)
Adds(p, c, N) ==
    /\ spool' = spool \cup N /\ Emitted' = Emitted \cup N /\ \A m, n \in N : m = n
    /\ \A n \in N : /\ IsEvent(n) /\ n.id \in 1..clock' /\ n.key \notin ClaimsOf(c)
                    /\ \A e \in Emitted : e.id # n.id
                    /\ n.type = "created" => \A e \in Emitted : e.key # n.key
                    /\ n.key \notin disturbed => \A e \in Emitted : e.key = n.key => e.id < n.id
                    /\ c.plan \in Owing => n.id # c.ev.id /\ n.key # c.ev.key
    /\ \A n \in N : \A q \in Procs \ {p} :
            /\ Owes(q) => cmd[q].ev.id # n.id
            /\ n.key \notin Claims(q)
            /\ Busy(q) /\ cmd[q].ev.key = n.key => n.key \in disturbed
    /\ c.plan \in {In, Wr} => c.ev \in N
    /\ c.plan # <<>> => c.ev.key = cmd[p].ev.key
    /\ c.plan \in Owing => /\ Owes(p)
                           /\ \/ c.ev.id = cmd[p].ev.id
                              \/ c.ev.id = clock + 1 /\ clock' = clock + 1
    /\ ClaimsOf(c) \subseteq Claims(p) /\ (c.plan \in {C1, C2, C3} => cmd[p].plan \in {C1, C2, C3})

(* A step adds no event, its own, or the one that creates a claimed key. *)
LEMMA TurnsAdd ==
    ASSUME TypeInv, FlightInv, NEW p \in Procs, NEW c, Turns(p, c),
           Still(p, c) \/ Emits(p, c) \/ \E e : Creates(p, c, e)
    PROVE  \E N : Adds(p, c, N)
<1>0. /\ Busy(p) /\ clock \in Nat /\ UNCHANGED log /\ clock' \in {clock, clock + 1}
      /\ IsEvent(cmd[p].ev) /\ cmd[p].ev.id \in 1..clock
      /\ \A e \in Emitted : e.id \in 1..clock
  BY DEF TypeInv, Turns, FlightInv, CmdInv, CmdOK, Busy
<1>1. CASE Still(p, c)
  <2>1. spool' = spool \cup {} /\ Emitted' = Emitted \cup {}
    BY <1>0, <1>1 DEF Still, Emitted
  <2>2. Adds(p, c, {})
    BY <1>1, <2>1 DEF Still, Adds
  <2> QED BY <2>2
<1>2. CASE Emits(p, c)
  <2> DEFINE n == cmd[p].ev
  <2>1. spool' = spool \cup {n} /\ Emitted' = Emitted \cup {n} /\ Owes(p) /\ clock' = clock
    BY <1>0, <1>2 DEF Emits, Emitted
  <2>2. /\ ClaimsOf(c) = {} /\ c.plan \notin Owing /\ (c.plan # <<>> => c.ev = n)
        /\ (n.type = "created" => n.key \in Claims(p)) /\ c.plan \notin {C1, C2, C3}
    BY <1>2, PlansDiffer DEF Emits, Owing
  <2>3. \A e \in Emitted : e.id # n.id
    BY <2>1 DEF FlightInv, IdInv
  <2>4. n.type = "created" => \A e \in Emitted : e.key # n.key
    BY <2>2 DEF FlightInv, ClaimInv
  <2>5. n.key \notin disturbed => \A e \in Emitted : e.key = n.key => e.id < n.id
    BY <2>1 DEF FlightInv, LatestInv
  <2>6. ASSUME NEW q \in Procs \ {p}
        PROVE  /\ Owes(q) => cmd[q].ev.id # n.id
               /\ n.key \notin Claims(q)
               /\ Busy(q) /\ cmd[q].ev.key = n.key => n.key \in disturbed
    <3>1. Owes(q) => cmd[q].ev.id # n.id
      BY <2>1 DEF FlightInv, IdInv
    <3>2. n.key \notin Claims(q)
      BY <1>0 DEF FlightInv, ClaimInv
    <3>3. Busy(q) /\ cmd[q].ev.key = n.key => n.key \in disturbed
      BY <1>0 DEF FlightInv, LatestInv
    <3> QED BY <3>1, <3>2, <3>3
  <2>7. c.plan \in {In, Wr} => c.ev \in {n}
    BY <2>2, PlansDiffer
  <2> HIDE DEF n
  <2>8. Adds(p, c, {n})
    BY <1>0, <2>1, <2>2, <2>3, <2>4, <2>5, <2>6, <2>7 DEF Adds, n
  <2> QED BY <2>8
<1>3. ASSUME NEW n, Creates(p, c, n) PROVE \E N : Adds(p, c, N)
  <2>1. /\ spool' = spool \cup {n} /\ Emitted' = Emitted \cup {n}
        /\ Owes(p) /\ clock' = clock + 1 /\ n.id = clock + 1
        /\ IsEvent(n) /\ n.key \in Claims(p) /\ c.plan \in Owing /\ c.ev = cmd[p].ev
        /\ ClaimsOf(c) \subseteq Claims(p) /\ n.key \notin ClaimsOf(c) /\ cmd[p].plan \in {C1, C2, C3}
    BY <1>0, <1>3 DEF Creates, Emitted
  <2>2. n.id \in 1..clock' /\ \A e \in Emitted : e.id # n.id
    BY <1>0, <2>1
  <2>3. \A e \in Emitted : e.key # n.key
    BY <2>1 DEF FlightInv, ClaimInv
  <2>4. n.id # c.ev.id /\ n.key # c.ev.key
    <3>1. n.id # c.ev.id
      BY <1>0, <2>1
    <3> QED BY <2>1, <3>1 DEF FlightInv, ClaimInv
  <2>5. ASSUME NEW q \in Procs \ {p}
        PROVE  /\ Owes(q) => cmd[q].ev.id # n.id
               /\ n.key \notin Claims(q)
               /\ Busy(q) /\ cmd[q].ev.key = n.key => n.key \in disturbed
    <3>1. Owes(q) => cmd[q].ev.id \in 1..clock
      BY OwingIsBusy DEF FlightInv, CmdInv, CmdOK, Owes
    <3>2. Owes(q) => cmd[q].ev.id # n.id
      BY <1>0, <2>1, <3>1
    <3>3. n.key \notin Claims(q) /\ (Busy(q) => cmd[q].ev.key # n.key)
      BY <2>1 DEF FlightInv, ClaimInv
    <3> QED BY <3>2, <3>3
  <2>6. c.plan \notin {In, Wr}
    BY <2>1, PlansDiffer DEF Owing
  <2>7. Adds(p, c, {n})
    BY <2>1, <2>2, <2>3, <2>4, <2>5, <2>6 DEF Adds
  <2> QED BY <2>7
<1> QED BY <1>1, <1>2, <1>3

(* A step keeps the commands in flight in order. *)
LEMMA FlightAdds ==
    ASSUME TypeInv, FlightInv, NEW p \in Procs, NEW c, NEW N, Turns(p, c), Adds(p, c, N)
    PROVE  FlightInv'
<1>0. /\ clock \in Nat /\ clock' \in {clock, clock + 1} /\ Emitted' = Emitted \cup N
      /\ disturbed \subseteq disturbed' /\ Busy(p)
      /\ \A e \in Emitted : e.id \in Nat /\ e.id <= clock
      /\ \A n \in N : n.id \in Nat
  BY DEF TypeInv, Turns, Adds
<1>1. \A q \in Procs : (q = p => cmd'[q] = c) /\ (q # p => cmd'[q] = cmd[q])
  BY DEF Turns, TypeInv
<1>2. \A q \in Procs : Owes(q) \/ Claims(q) # {} \/ cmd[q].plan \in {In, Wr} => Busy(q)
  BY OwingIsBusy DEF Owes, Claims, Busy
<1>3. \A q \in Procs : Busy(q) => cmd[q].ev.id \in Nat /\ cmd[q].ev.id <= clock
  BY <1>0 DEF FlightInv, CmdInv, CmdOK, Busy
<1>4. CmdInv'
  <2>1. ASSUME NEW q \in Procs, q # p PROVE CmdOK(cmd[q], clock')
    <3>1. CmdOK(cmd[q], clock) /\ \A n \in 1..clock : n \in 1..clock'
      BY <1>0 DEF FlightInv, CmdInv
    <3> QED BY <3>1 DEF CmdOK
  <2> QED BY <1>1, <2>1 DEF CmdInv, Turns
<1>5. IdInv'
  <2>1. \A d, e \in Emitted' : d.id = e.id => d = e
    BY <1>0 DEF FlightInv, IdInv, Adds
  <2>2. ASSUME NEW q \in Procs, Owes(q)', NEW e \in Emitted' PROVE e.id # cmd'[q].ev.id
    <3>1. CASE q = p /\ e \in Emitted
      <4>1. c.plan \in Owing /\ cmd'[q] = c
        BY <1>1, <2>2, <3>1 DEF Owes
      <4>2. Owes(p) /\ (c.ev.id = cmd[p].ev.id \/ c.ev.id = clock + 1)
        BY <4>1 DEF Adds
      <4>3. e.id # cmd[p].ev.id
        BY <3>1, <4>2 DEF FlightInv, IdInv
      <4> QED BY <1>0, <3>1, <4>1, <4>2, <4>3
    <3>2. CASE q = p /\ e \in N
      BY <1>1, <2>2, <3>2 DEF Owes, Adds
    <3>3. CASE q # p /\ e \in Emitted
      BY <1>1, <2>2, <3>3 DEF Owes, FlightInv, IdInv
    <3>4. CASE q # p /\ e \in N
      BY <1>1, <2>2, <3>4 DEF Owes, Adds
    <3> QED BY <1>0, <3>1, <3>2, <3>3, <3>4
  <2>a. ASSUME NEW q \in Procs \ {p}, Owes(q), c.plan \in Owing PROVE cmd[q].ev.id # c.ev.id
    <3>1. Owes(p) /\ (c.ev.id = cmd[p].ev.id \/ c.ev.id = clock + 1)
      BY <2>a DEF Adds
    <3>2. cmd[q].ev.id # cmd[p].ev.id
      BY <2>a, <3>1 DEF FlightInv, IdInv
    <3> QED BY <1>0, <1>2, <1>3, <2>a, <3>1, <3>2
  <2>3. ASSUME NEW q \in Procs, NEW r \in Procs \ {q}, Owes(q)', Owes(r)' PROVE cmd'[q].ev.id # cmd'[r].ev.id
    <3>1. CASE q = p
      BY <1>1, <2>3, <2>a, <3>1 DEF Owes
    <3>2. CASE r = p
      BY <1>1, <2>3, <2>a, <3>2 DEF Owes
    <3>3. CASE q # p /\ r # p
      BY <1>1, <2>3, <3>3 DEF FlightInv, IdInv, Owes
    <3> QED BY <3>1, <3>2, <3>3
  <2> QED BY <2>1, <2>2, <2>3 DEF IdInv
<1>6. ClaimInv'
  <2> SUFFICES ASSUME NEW q \in Procs, NEW k \in Claims(q)'
               PROVE  /\ \A e \in Emitted' : e.key # k
                      /\ \A r \in Procs \ {q} : k \notin Claims(r)' /\ (Busy(r)' => cmd'[r].ev.key # k)
                      /\ cmd'[q].plan \in {C1, C2, C3} => cmd'[q].ev.key # k
    BY DEF ClaimInv
  <2>1. \A r \in Procs : (r = p => Claims(r)' = ClaimsOf(c)) /\ (r # p => Claims(r)' = Claims(r))
    BY <1>1 DEF Claims
  <2>2. k \in Claims(q)
    BY <2>1 DEF Adds
  <2>3. \A n \in N : n.key # k
    BY <2>1 DEF Adds
  <2>4. ASSUME NEW r \in Procs \ {q} PROVE k \notin Claims(r)' /\ (Busy(r)' => cmd'[r].ev.key # k)
    <3>1. k \notin Claims(r) /\ (Busy(r) => cmd[r].ev.key # k)
      BY <2>2 DEF FlightInv, ClaimInv
    <3>2. Claims(r)' \subseteq Claims(r)
      BY <2>1 DEF Adds
    <3>3. Busy(r)' => Busy(r) /\ cmd'[r].ev.key = cmd[r].ev.key
      BY <1>0, <1>1 DEF Adds, Busy
    <3> QED BY <3>1, <3>2, <3>3
  <2>5. ASSUME cmd'[q].plan \in {C1, C2, C3} PROVE cmd'[q].ev.key # k
    <3>1. cmd[q].plan \in {C1, C2, C3} /\ cmd'[q].ev.key = cmd[q].ev.key
      BY <1>1, <2>5, PlansDiffer DEF Adds
    <3> QED BY <2>2, <3>1 DEF FlightInv, ClaimInv
  <2> QED BY <1>0, <2>2, <2>3, <2>4, <2>5 DEF FlightInv, ClaimInv
<1>7. LatestInv'
  <2>1. ASSUME NEW q \in Procs, NEW r \in Procs, q # r, Busy(q)', Busy(r)', cmd'[q].ev.key = cmd'[r].ev.key
        PROVE  cmd'[q].ev.key \in disturbed'
    <3>1. \A s \in Procs : Busy(s)' => Busy(s) /\ cmd'[s].ev.key = cmd[s].ev.key
      BY <1>0, <1>1 DEF Adds, Busy
    <3> QED BY <1>0, <2>1, <3>1 DEF FlightInv, LatestInv
  <2>2. ASSUME NEW q \in Procs, cmd'[q].ev.key \notin disturbed', Owes(q)', NEW e \in Emitted', e.key = cmd'[q].ev.key
        PROVE  e.id < cmd'[q].ev.id
    <3>1. CASE q = p
      <4>1. c.plan \in Owing /\ cmd'[q] = c
        BY <1>1, <2>2, <3>1 DEF Owes
      <4>2. /\ Owes(p) /\ (c.ev.id = cmd[p].ev.id \/ c.ev.id = clock + 1)
            /\ c.ev.key = cmd[p].ev.key /\ \A n \in N : n.key # c.ev.key
        BY <4>1, PlansDiffer, OwingIsBusy DEF Adds
      <4>3. e \in Emitted /\ e.id < cmd[p].ev.id
        BY <1>0, <2>2, <4>1, <4>2 DEF FlightInv, LatestInv
      <4> QED BY <1>0, <1>3, <4>1, <4>2, <4>3
    <3>2. CASE q # p
      <4>1. Owes(q) /\ cmd'[q] = cmd[q] /\ Busy(q)
        BY <1>1, <1>2, <2>2, <3>2 DEF Owes
      <4>2. e \notin N
        BY <1>0, <2>2, <3>2, <4>1 DEF Adds
      <4> QED BY <1>0, <2>2, <4>1, <4>2 DEF FlightInv, LatestInv
    <3> QED BY <3>1, <3>2
  <2>3. ASSUME NEW q \in Procs, cmd'[q].ev.key \notin disturbed', cmd'[q].plan \in {In, Wr}
        PROVE  \A e \in Emitted' : e.key = cmd'[q].ev.key => e.id <= cmd'[q].ev.id
    <3>1. CASE q = p
      <4>1. cmd'[q] = c /\ c.ev \in N
        BY <1>1, <2>3, <3>1 DEF Adds
      <4>2. \A e \in Emitted : e.key = c.ev.key => e.id < c.ev.id
        BY <1>0, <2>3, <4>1 DEF Adds
      <4>3. \A e \in N : e = c.ev
        BY <4>1 DEF Adds
      <4> QED BY <1>0, <4>1, <4>2, <4>3
    <3>2. CASE q # p
      <4>1. cmd'[q] = cmd[q] /\ Busy(q) /\ cmd[q].plan \in {In, Wr}
        BY <1>1, <1>2, <2>3, <3>2
      <4>2. \A n \in N : n.key # cmd[q].ev.key
        BY <1>0, <2>3, <3>2, <4>1 DEF Adds
      <4> QED BY <1>0, <2>3, <4>1, <4>2 DEF FlightInv, LatestInv
    <3> QED BY <3>1, <3>2
  <2>4. \A q \in Procs : cmd'[q].plan \in {In, Wr} => cmd'[q].ev \in Emitted'
    BY <1>0, <1>1 DEF FlightInv, LatestInv, Adds
  <2> QED BY <2>1, <2>2, <2>3, <2>4 DEF LatestInv
<1>8. BornInv'
  <2> SUFFICES ASSUME NEW d \in Emitted', NEW e \in Emitted', d.type = "created", d.key = e.key, e.key \notin disturbed'
               PROVE  d.id <= e.id
    BY DEF BornInv
  <2>1. CASE d \in Emitted /\ e \in Emitted
    BY <1>0, <2>1 DEF FlightInv, BornInv
  <2>2. CASE d \in N
    <3>1. e \notin Emitted
      BY <2>2 DEF Adds
    <3>2. e = d
      BY <1>0, <2>2, <3>1 DEF Adds
    <3> QED BY <1>0, <2>2, <3>2
  <2>3. CASE d \in Emitted /\ e \in N
    BY <1>0, <2>3 DEF Adds
  <2> QED BY <1>0, <2>1, <2>2, <2>3
<1> QED BY <1>4, <1>5, <1>6, <1>7, <1>8 DEF FlightInv

(* The projections do not touch the commands, and lose no event. *)
LEMMA ProjectKeeps ==
    ASSUME Project
    PROVE  /\ cmd' = cmd /\ clock' = clock /\ Emitted' = Emitted /\ disturbed \subseteq disturbed'
           /\ UNCHANGED <<carried, budget>>
<1>1. CASE Ingest
  BY <1>1 DEF Ingest, Emitted, bounds
<1>2. CASE Select
  BY <1>2 DEF Select, Emitted, bounds
<1>3. CASE Deliver
  BY <1>3 DEF Deliver, Emitted
<1>4. ASSUME NEW e \in retry, RetryDelivery(e)
      PROVE  /\ cmd' = cmd /\ clock' = clock /\ Emitted' = Emitted /\ disturbed \subseteq disturbed'
             /\ UNCHANGED <<carried, budget>>
  BY <1>4 DEF RetryDelivery, Emitted, bounds
<1> QED BY <1>1, <1>2, <1>3, <1>4 DEF Project

LEMMA FlightProject ==
    ASSUME FlightInv, Project
    PROVE  FlightInv'
<1>0. cmd' = cmd /\ clock' = clock /\ Emitted' = Emitted /\ disturbed \subseteq disturbed'
  BY ProjectKeeps
<1>1. CmdInv'
  BY <1>0 DEF FlightInv, CmdInv
<1>2. IdInv'
  BY <1>0 DEF FlightInv, IdInv, Owes
<1>3. ClaimInv'
  BY <1>0 DEF FlightInv, ClaimInv, Claims, Busy
<1>4. LatestInv'
  BY <1>0 DEF FlightInv, LatestInv, Owes, Busy
<1>5. BornInv'
  BY <1>0 DEF FlightInv, BornInv
<1> QED BY <1>1, <1>2, <1>3, <1>4, <1>5 DEF FlightInv

-----------------------------------------------------------------------------
(* What a command's UPDATE and a projection's handler do to a row.         *)

WoColumns == {"status", "from", "closed"}

(* The mirror of a work order's event. *)
LEMMA MirrorWorkOrder ==
    ASSUME NEW row \in WoRows, NEW e, IsEvent(e), e.kind = "wo"
    PROVE  /\ Mirror(row, e) \in WoRows /\ Mirror(row, e).status # Absent
           /\ Mirror(row, e).src = row.src /\ Mirror(row, e).last = row.last
           /\ \A c \in WoColumns : ~Sets(c, e) => Col(c, Mirror(row, e)) = Col(c, row)
           /\ e.type = "started" => Mirror(row, e).status = Val("status", e)
<1> DEFINE st == IF e.type = "unblocked" THEN e.phase ELSE WORK_ORDER_EVENT_STATUS[e.type]
           fr == CASE e.type = "blocked"   -> e.phase
                   [] e.type = "unblocked" -> None
                   [] OTHER                -> row.from
           cl == row.closed \/ e.type = "closed"
           m  == [row EXCEPT !.status = st, !.from = fr, !.closed = cl]
<1>1. Mirror(row, e) = m
  BY DEF Mirror
<1>2. /\ e.type \in DOMAIN WORK_ORDER_EVENT_STATUS
      /\ (e.type \in {"blocked", "unblocked"} => e.phase \in BLOCKABLE)
  BY DEF IsEvent
<1>3. st \in WorkOrderStatuses /\ st # Absent
  BY <1>2, WorkOrderEvents, Phases DEF Absent
<1>4. /\ e.type = "blocked" => fr = e.phase
      /\ e.type = "unblocked" => fr = None
      /\ e.type \notin {"blocked", "unblocked"} => fr = row.from
  BY Zenon
<1>5. fr \in BLOCKABLE \cup {None}
  BY <1>2, <1>4 DEF WoRows
<1>6. cl \in BOOLEAN /\ (e.type # "closed" => cl = row.closed)
  BY DEF WoRows
<1> HIDE DEF st, fr, cl
<1>7. /\ m \in WoRows /\ m.status = st /\ m.from = fr /\ m.closed = cl /\ m.src = row.src /\ m.last = row.last
  BY <1>3, <1>5, <1>6 DEF WoRows
<1> HIDE DEF m
<1>8. \A c \in WoColumns : ~Sets(c, e) => Col(c, m) = Col(c, row)
  BY <1>4, <1>6, <1>7 DEF WoColumns, Sets, Col, KindOf
<1>9. e.type = "started" => st = Val("status", e)
  BY DEF st, Val
<1> QED BY <1>1, <1>3, <1>7, <1>8, <1>9

(* The mirror of a task's event. *)
LEMMA MirrorTask ==
    ASSUME NEW row \in TaskRows, NEW e, IsEvent(e), e.kind = "task"
    PROVE  /\ Mirror(row, e) \in TaskRows /\ Mirror(row, e).status # Absent
           /\ Mirror(row, e).src = row.src /\ Mirror(row, e).last = row.last
           /\ Mirror(row, e).status = TASK_EVENT_STATUS[e.type]
<1>1. Mirror(row, e) = [row EXCEPT !.status = TASK_EVENT_STATUS[e.type]]
  BY DEF Mirror
<1>2. TASK_EVENT_STATUS[e.type] \in TaskStatuses /\ TASK_EVENT_STATUS[e.type] # Absent
  BY TaskEvents DEF IsEvent, Absent
<1> QED BY <1>1, <1>2 DEF TaskRows

(* What holds of a row r that a handler has made of a row with an event. *)
Handled(c, row, e, r) ==
    /\ r.last \in {row.last, e.id}
    /\ r.src = row.src \/ (r.src = e.id /\ e.type = "created")
    /\ row.status # Absent => r.status # Absent
    /\ Col(c, r) = Col(c, row) \/ (Sets(c, e) /\ Col(c, r) = Val(c, e) /\ r.last = e.id)
    /\ (/\ Sets(c, e) /\ ~AlreadyProcessed(row, e)
        /\ (e.type = "created" => row.status = Absent)
        /\ (c = "task" /\ e.type = "started" => row.status \notin TASK_SETTLED)) => Col(c, r) = Val(c, e)

(* The work order projection. *)
LEMMA HandlesWorkOrder ==
    ASSUME NEW row \in WoRows, NEW e, IsEvent(e), e.kind = "wo", e.id \in Nat
    PROVE  /\ HandleWorkOrder(row, e) \in WoRows
           /\ \A c \in WoColumns : Handled(c, row, e, HandleWorkOrder(row, e))
           /\ HandleWorkOrder(row, e).status = Absent => HandleWorkOrder(row, e) = row
<1>0. /\ e.type \in DOMAIN WORK_ORDER_EVENT_STATUS
      /\ (e.type \in {"blocked", "unblocked"} => e.phase \in BLOCKABLE)
  BY DEF IsEvent
<1>1. CASE AlreadyProcessed(row, e)
  <2>1. HandleWorkOrder(row, e) = row
    BY <1>1 DEF HandleWorkOrder
  <2> QED BY <1>1, <2>1 DEF Handled
<1>2. CASE ~AlreadyProcessed(row, e) /\ e.type = "created"
  <2>1. HandleWorkOrder(row, e) = WorkOrderCreated(row, e)
    BY <1>2 DEF HandleWorkOrder
  <2>2. CASE row.status = Absent
    <3> DEFINE r == [row EXCEPT !.status = "created", !.src = e.id, !.last = e.id]
    <3>1. WorkOrderCreated(row, e) = r
      BY <2>2, WorkOrderEvents DEF WorkOrderCreated
    <3>2. /\ r \in WoRows /\ r.status = "created" /\ r.from = row.from /\ r.closed = row.closed
          /\ r.src = e.id /\ r.last = e.id
      BY Phases DEF WoRows
    <3> HIDE DEF r
    <3>3. \A c \in WoColumns : Handled(c, row, e, r)
      BY <1>2, <2>2, <3>2, WorkOrderEvents DEF WoColumns, Handled, Col, Sets, Val, KindOf
    <3> QED BY <2>1, <3>1, <3>2, <3>3 DEF Absent
  <2>3. CASE row.status # Absent
    <3> DEFINE r == [row EXCEPT !.src = IF row.src = 0 THEN e.id ELSE row.src]
    <3>1. WorkOrderCreated(row, e) = r
      BY <2>3 DEF WorkOrderCreated
    <3>2. /\ r \in WoRows /\ r.status = row.status /\ r.from = row.from /\ r.closed = row.closed
          /\ r.src \in {row.src, e.id} /\ r.last = row.last
      BY DEF WoRows
    <3> HIDE DEF r
    <3>3. \A c \in WoColumns : Handled(c, row, e, r)
      BY <1>2, <2>3, <3>2 DEF WoColumns, Handled, Col, Sets, Val, KindOf
    <3> QED BY <2>1, <2>3, <3>1, <3>2, <3>3
  <2> QED BY <2>2, <2>3
<1>3. CASE ~AlreadyProcessed(row, e) /\ e.type # "created"
  <2> DEFINE st == IF e.type = "unblocked" THEN BackTo(row, e) ELSE WORK_ORDER_EVENT_STATUS[e.type]
             fr == CASE e.type = "blocked"   -> IF e.phase \in BLOCKABLE THEN e.phase ELSE None
                     [] e.type = "unblocked" -> None
                     [] OTHER                -> row.from
             cl == CASE e.type \in {"closed", "cancelled"} -> TRUE
                     [] e.type = "reopened"                -> FALSE
                     [] OTHER                              -> row.closed
             r  == [row EXCEPT !.status = st, !.from = fr, !.closed = cl, !.last = e.id]
  <2>1. HandleWorkOrder(row, e) = r
    BY <1>3 DEF HandleWorkOrder, WorkOrderMoved
  <2>2. st = Val("status", e) /\ st \in WorkOrderStatuses /\ st # Absent
    BY <1>0, WorkOrderEvents, Phases DEF Val, BackTo, Absent
  <2>3. /\ e.type = "blocked" => fr = IF e.phase \in BLOCKABLE THEN e.phase ELSE None
        /\ e.type = "unblocked" => fr = None
        /\ e.type \notin {"blocked", "unblocked"} => fr = row.from
    BY Zenon
  <2>4. /\ e.type \in {"closed", "cancelled"} => cl = TRUE
        /\ e.type = "reopened" => cl = FALSE
        /\ e.type \notin {"closed", "cancelled", "reopened"} => cl = row.closed
    BY Zenon
  <2>5. fr \in BLOCKABLE \cup {None} /\ cl \in BOOLEAN
    <3>1. fr \in BLOCKABLE \cup {None}
      BY <1>0, <2>3 DEF WoRows
    <3>2. cl \in BOOLEAN
      BY <2>4 DEF WoRows
    <3> QED BY <3>1, <3>2
  <2> HIDE DEF st, fr, cl
  <2>6. /\ r \in WoRows /\ r.status = st /\ r.from = fr /\ r.closed = cl /\ r.src = row.src /\ r.last = e.id
    BY <2>2, <2>5 DEF WoRows
  <2> HIDE DEF r
  <2>7. Handled("status", row, e, r)
    BY <2>2, <2>6 DEF Handled, Col, Sets, KindOf
  <2>8. Handled("from", row, e, r)
    <3>1. Sets("from", e) => fr = Val("from", e)
      BY <1>0, <2>3 DEF Sets, Val, KindOf
    <3>2. ~Sets("from", e) => fr = row.from
      BY <2>3 DEF Sets, KindOf
    <3> QED BY <2>2, <2>6, <3>1, <3>2 DEF Handled, Col
  <2>9. Handled("closed", row, e, r)
    <3>1. Sets("closed", e) => cl = Val("closed", e)
      BY <1>0, <2>4 DEF Sets, Val, KindOf
    <3>2. ~Sets("closed", e) => cl = row.closed
      BY <2>4 DEF Sets, KindOf
    <3> QED BY <2>2, <2>6, <3>1, <3>2 DEF Handled, Col
  <2>10. \A c \in WoColumns : Handled(c, row, e, r)
    BY <2>7, <2>8, <2>9 DEF WoColumns
  <2> QED BY <2>1, <2>2, <2>6, <2>10
<1> QED BY <1>1, <1>2, <1>3

(* The task projection. *)
LEMMA HandlesTask ==
    ASSUME NEW row \in TaskRows, NEW e, IsEvent(e), e.kind = "task", e.id \in Nat
    PROVE  /\ HandleTask(row, e) \in TaskRows
           /\ Handled("task", row, e, HandleTask(row, e))
           /\ HandleTask(row, e).status = Absent => HandleTask(row, e) = row
           /\ \/ HandleTask(row, e).status = row.status
              \/ HandleTask(row, e).status = TASK_EVENT_STATUS[e.type]
<1>0. e.type \in DOMAIN TASK_EVENT_STATUS /\ Val("task", e) = TASK_EVENT_STATUS[e.type] /\ Sets("task", e)
  BY DEF IsEvent, Val, Sets, KindOf
<1>1. CASE AlreadyProcessed(row, e)
  <2>1. HandleTask(row, e) = row
    BY <1>1 DEF HandleTask
  <2> QED BY <1>1, <2>1 DEF Handled
<1>2. CASE ~AlreadyProcessed(row, e) /\ e.type = "created"
  <2>1. HandleTask(row, e) = TaskCreated(row, e)
    BY <1>2 DEF HandleTask
  <2>2. CASE row.status = Absent
    <3> DEFINE r == [status |-> "pending", src |-> e.id, last |-> e.id]
    <3>1. TaskCreated(row, e) = r
      BY <2>2, TaskEvents DEF TaskCreated
    <3>2. r \in TaskRows /\ r.status = "pending" /\ r.src = e.id /\ r.last = e.id
      BY TaskEvents DEF TaskRows
    <3> HIDE DEF r
    <3>3. Handled("task", row, e, r)
      BY <1>0, <1>2, <2>2, <3>2, TaskEvents DEF Handled, Col
    <3> QED BY <1>2, <2>1, <3>1, <3>2, <3>3, TaskEvents DEF Absent
  <2>3. CASE row.status # Absent
    <3> DEFINE r == [row EXCEPT !.src = IF row.src = 0 THEN e.id ELSE row.src]
    <3>1. TaskCreated(row, e) = r
      BY <2>3 DEF TaskCreated
    <3>2. r \in TaskRows /\ r.status = row.status /\ r.src \in {row.src, e.id} /\ r.last = row.last
      BY DEF TaskRows
    <3> HIDE DEF r
    <3>3. Handled("task", row, e, r)
      BY <1>0, <1>2, <2>3, <3>2 DEF Handled, Col
    <3> QED BY <2>1, <2>3, <3>1, <3>2, <3>3
  <2> QED BY <2>2, <2>3
<1>3. CASE ~AlreadyProcessed(row, e) /\ e.type # "created"
  <2>1. HandleTask(row, e) = TaskMoved(row, e)
    BY <1>3 DEF HandleTask
  <2>2. CASE e.type = "started" /\ row.status \in TASK_SETTLED
    <3>1. HandleTask(row, e) = row
      BY <2>1, <2>2 DEF TaskMoved
    <3> QED BY <2>2, <3>1 DEF Handled
  <2>3. CASE ~(e.type = "started" /\ row.status \in TASK_SETTLED)
    <3> DEFINE r == [row EXCEPT !.status = TASK_EVENT_STATUS[e.type], !.last = e.id]
    <3>1. HandleTask(row, e) = r
      BY <2>1, <2>3 DEF TaskMoved
    <3>2. TASK_EVENT_STATUS[e.type] \in TaskStatuses /\ TASK_EVENT_STATUS[e.type] # Absent
      BY <1>0, TaskEvents DEF Absent
    <3>3. r \in TaskRows /\ r.status = TASK_EVENT_STATUS[e.type] /\ r.src = row.src /\ r.last = e.id
      BY <3>2 DEF TaskRows
    <3> HIDE DEF r
    <3>4. Handled("task", row, e, r)
      BY <1>0, <3>2, <3>3 DEF Handled, Col
    <3> QED BY <3>1, <3>2, <3>3, <3>4
  <2> QED BY <2>2, <2>3
<1> QED BY <1>1, <1>2, <1>3

-----------------------------------------------------------------------------
(* What a step of a process does to the rows.                              *)

RowTypes(c) == IF c = "task" THEN TaskRows ELSE WoRows

(* A column's own event e is written over row: the UPDATE of a command. *)
Updated(c, k, row, r, e) ==
    /\ e.kind = KindOf(c) /\ e.key = k /\ row.status # Absent
    /\ r.status # Absent /\ r.src = row.src /\ r.last = row.last
    /\ ~Sets(c, e) => Col(c, r) = Col(c, row)
    /\ e.type = "started" \/ c = "task" => r.status = Val(IF c = "task" THEN "task" ELSE "status", e)

(* The INSERT of a row whose created event is e. *)
Inserted(c, k, row, r, e) ==
    /\ e.kind = KindOf(c) /\ e.key = k /\ e.type = "created" /\ row.status = Absent
    /\ r.src = row.src /\ r.last = row.last
    /\ r.status = Val(IF c = "task" THEN "task" ELSE "status", e)
    /\ c \in {"from", "closed"} => Col(c, r) = Col(c, row)

RowTurn(p, c, k, row, r) ==
    \/ r = row
    \/ At(p, "write") /\ cmd' = Step(p) /\ spool' = spool /\ Updated(c, k, row, r, cmd[p].ev)
    \/ At(p, "hold") /\ cmd[p].ev \in spool' /\ Updated(c, k, row, r, cmd[p].ev)
    \/ At(p, "insert") /\ spool' = spool /\ Inserted(c, k, row, r, cmd[p].ev)

(* WriteRow updates the one row its event is about. *)
LEMMA WriteRowIs ==
    ASSUME TypeInv, NEW e, IsEvent(e), WriteRow(e)
    PROVE  /\ wo' \in [WorkOrderIds -> WoRows] /\ task' \in [Tasks -> TaskRows]
           /\ \A c \in Columns : \A k \in KeysOf(c) :
                RowOf(c, k)' = RowOf(c, k) \/ Updated(c, k, RowOf(c, k), RowOf(c, k)', e)
<1>0. wo \in [WorkOrderIds -> WoRows] /\ task \in [Tasks -> TaskRows]
  BY DEF TypeInv
<1>1. CASE e.kind = "wo"
  <2>1. /\ e.key \in WorkOrderIds /\ task' = task
        /\ wo' = IF wo[e.key].status = Absent THEN wo ELSE [wo EXCEPT ![e.key] = Mirror(wo[e.key], e)]
    BY <1>1 DEF WriteRow, IsEvent
  <2>2. PICK m : m = Mirror(wo[e.key], e)
    OBVIOUS
  <2>3. /\ m \in WoRows /\ m.status # Absent /\ m.src = wo[e.key].src /\ m.last = wo[e.key].last
        /\ \A c \in WoColumns : ~Sets(c, e) => Col(c, m) = Col(c, wo[e.key])
        /\ e.type = "started" => m.status = Val("status", e)
    BY <1>0, <1>1, <2>1, <2>2, MirrorWorkOrder
  <2>4. wo' \in [WorkOrderIds -> WoRows]
    BY <1>0, <2>1, <2>2, <2>3
  <2>5. ASSUME NEW c \in Columns, NEW k \in KeysOf(c)
        PROVE  RowOf(c, k)' = RowOf(c, k) \/ Updated(c, k, RowOf(c, k), RowOf(c, k)', e)
    <3>1. CASE c = "task"
      BY <2>1, <3>1 DEF RowOf
    <3>2. CASE c # "task" /\ (k # e.key \/ wo[e.key].status = Absent)
      <4>1. k \in WorkOrderIds /\ RowOf(c, k) = wo[k] /\ RowOf(c, k)' = wo'[k]
        BY <3>2 DEF KeysOf, RowOf
      <4>2. wo'[k] = wo[k]
        BY <1>0, <2>1, <3>2, <4>1
      <4> QED BY <4>1, <4>2
    <3>3. CASE c # "task" /\ k = e.key /\ wo[e.key].status # Absent
      <4>1. RowOf(c, k) = wo[k] /\ RowOf(c, k)' = m
        BY <1>0, <2>1, <2>2, <3>3 DEF RowOf
      <4>2. c \in WoColumns /\ KindOf(c) = "wo"
        BY <3>3 DEF Columns, WoColumns, KindOf
      <4>3. Updated(c, k, wo[k], m, e)
        BY <1>1, <2>3, <3>3, <4>2 DEF Updated
      <4> QED BY <4>1, <4>3
    <3> QED BY <3>1, <3>2, <3>3
  <2> QED BY <1>0, <2>1, <2>4, <2>5
<1>2. CASE e.kind = "task"
  <2>1. /\ e.key \in Tasks /\ wo' = wo
        /\ task' = IF task[e.key].status = Absent THEN task ELSE [task EXCEPT ![e.key] = Mirror(task[e.key], e)]
    BY <1>2 DEF WriteRow, IsEvent
  <2>2. PICK m : m = Mirror(task[e.key], e)
    OBVIOUS
  <2>3. /\ m \in TaskRows /\ m.status # Absent /\ m.src = task[e.key].src /\ m.last = task[e.key].last
        /\ m.status = TASK_EVENT_STATUS[e.type]
    BY <1>0, <1>2, <2>1, <2>2, MirrorTask
  <2>4. task' \in [Tasks -> TaskRows]
    BY <1>0, <2>1, <2>2, <2>3
  <2>5. ASSUME NEW c \in Columns, NEW k \in KeysOf(c)
        PROVE  RowOf(c, k)' = RowOf(c, k) \/ Updated(c, k, RowOf(c, k), RowOf(c, k)', e)
    <3>1. CASE c # "task"
      BY <2>1, <3>1 DEF RowOf
    <3>2. CASE c = "task" /\ (k # e.key \/ task[e.key].status = Absent)
      <4>1. k \in Tasks /\ RowOf(c, k) = task[k] /\ RowOf(c, k)' = task'[k]
        BY <3>2 DEF KeysOf, RowOf
      <4>2. task'[k] = task[k]
        BY <1>0, <2>1, <3>2, <4>1
      <4> QED BY <4>1, <4>2
    <3>3. CASE c = "task" /\ k = e.key /\ task[e.key].status # Absent
      <4>1. RowOf(c, k) = task[k] /\ RowOf(c, k)' = m
        BY <1>0, <2>1, <2>2, <3>3 DEF RowOf
      <4>2. Sets(c, e) /\ KindOf(c) = "task" /\ Val("task", e) = TASK_EVENT_STATUS[e.type]
        BY <1>2, <3>3 DEF Sets, Val, KindOf
      <4>3. Updated(c, k, task[k], m, e)
        BY <1>2, <2>3, <3>3, <4>2 DEF Updated
      <4> QED BY <4>1, <4>3
    <3> QED BY <3>1, <3>2, <3>3
  <2> QED BY <1>0, <2>1, <2>4, <2>5
<1> QED BY <1>1, <1>2 DEF WriteRow

(* Insert makes the one row its event is about. *)
LEMMA InsertIs ==
    ASSUME TypeInv, CmdInv, NEW p \in Procs, Insert(p)
    PROVE  /\ wo' \in [WorkOrderIds -> WoRows] /\ task' \in [Tasks -> TaskRows]
           /\ cmd[p].plan = In
           /\ \A c \in Columns : \A k \in KeysOf(c) :
                RowOf(c, k)' = RowOf(c, k) \/ Inserted(c, k, RowOf(c, k), RowOf(c, k)', cmd[p].ev)
<1>0. /\ wo \in [WorkOrderIds -> WoRows] /\ task \in [Tasks -> TaskRows]
      /\ cmd[p] \in Commands /\ CmdOK(cmd[p], clock) /\ cmd[p].plan # <<>>
  BY DEF TypeInv, CmdInv, Insert, At, Busy
<1>1. PICK e : e = cmd[p].ev
  OBVIOUS
<1>2. cmd[p].plan = In /\ e.type = "created" /\ IsEvent(e)
  <2>1. cmd[p].plan = In
    BY <1>0, PlanCases DEF Insert, At, Commands
  <2> QED BY <1>0, <1>1, <2>1, PlansDiffer DEF CmdOK, PlanOK
<1>3. \/ /\ e.kind = "wo" /\ task' = task
         /\ wo' = IF wo[e.key].status = Absent THEN [wo EXCEPT ![e.key].status = "created"] ELSE wo
      \/ /\ e.kind = "task" /\ wo' = wo
         /\ task' = IF task[e.key].status = Absent THEN [task EXCEPT ![e.key].status = "pending"] ELSE task
  BY <1>1, WorkOrderEvents, TaskEvents DEF Insert
<1>4. CASE e.kind = "wo"
  <2>1. /\ e.key \in WorkOrderIds /\ task' = task /\ Val("status", e) = "created"
        /\ wo' = IF wo[e.key].status = Absent THEN [wo EXCEPT ![e.key].status = "created"] ELSE wo
    BY <1>2, <1>3, <1>4, WorkOrderEvents DEF IsEvent, Val
  <2>2. PICK m : m = [wo[e.key] EXCEPT !.status = "created"]
    OBVIOUS
  <2>3. /\ m \in WoRows /\ m.status = "created" /\ m.src = wo[e.key].src /\ m.last = wo[e.key].last
        /\ m.from = wo[e.key].from /\ m.closed = wo[e.key].closed
    BY <1>0, <2>1, <2>2, Phases DEF WoRows
  <2>4. wo' = IF wo[e.key].status = Absent THEN [wo EXCEPT ![e.key] = m] ELSE wo
    BY <1>0, <2>1, <2>2
  <2>5. wo' \in [WorkOrderIds -> WoRows]
    BY <1>0, <2>1, <2>3, <2>4
  <2>6. ASSUME NEW c \in Columns, NEW k \in KeysOf(c)
        PROVE  RowOf(c, k)' = RowOf(c, k) \/ Inserted(c, k, RowOf(c, k), RowOf(c, k)', e)
    <3>1. CASE c = "task"
      BY <2>1, <3>1 DEF RowOf
    <3>2. CASE c # "task" /\ (k # e.key \/ wo[e.key].status # Absent)
      <4>1. k \in WorkOrderIds /\ RowOf(c, k) = wo[k] /\ RowOf(c, k)' = wo'[k]
        BY <3>2 DEF KeysOf, RowOf
      <4>2. wo'[k] = wo[k]
        BY <1>0, <2>1, <2>4, <3>2, <4>1
      <4> QED BY <4>1, <4>2
    <3>3. CASE c # "task" /\ k = e.key /\ wo[e.key].status = Absent
      <4>1. RowOf(c, k) = wo[k] /\ RowOf(c, k)' = m
        BY <1>0, <2>1, <2>4, <3>3 DEF RowOf
      <4>2. Inserted(c, k, wo[k], m, e)
        BY <1>2, <1>4, <2>1, <2>3, <3>3 DEF Inserted, Col, KindOf
      <4> QED BY <4>1, <4>2
    <3> QED BY <3>1, <3>2, <3>3
  <2> QED BY <1>0, <1>1, <1>2, <2>1, <2>5, <2>6
<1>5. CASE e.kind = "task"
  <2>1. /\ e.key \in Tasks /\ wo' = wo /\ Val("task", e) = "pending"
        /\ task' = IF task[e.key].status = Absent THEN [task EXCEPT ![e.key].status = "pending"] ELSE task
    BY <1>2, <1>3, <1>5, TaskEvents DEF IsEvent, Val
  <2>2. PICK m : m = [task[e.key] EXCEPT !.status = "pending"]
    OBVIOUS
  <2>3. m \in TaskRows /\ m.status = "pending" /\ m.src = task[e.key].src /\ m.last = task[e.key].last
    BY <1>0, <2>1, <2>2, TaskEvents DEF TaskRows
  <2>4. task' = IF task[e.key].status = Absent THEN [task EXCEPT ![e.key] = m] ELSE task
    BY <1>0, <2>1, <2>2
  <2>5. task' \in [Tasks -> TaskRows]
    BY <1>0, <2>1, <2>3, <2>4
  <2>6. ASSUME NEW c \in Columns, NEW k \in KeysOf(c)
        PROVE  RowOf(c, k)' = RowOf(c, k) \/ Inserted(c, k, RowOf(c, k), RowOf(c, k)', e)
    <3>1. CASE c # "task"
      BY <2>1, <3>1 DEF RowOf
    <3>2. CASE c = "task" /\ (k # e.key \/ task[e.key].status # Absent)
      <4>1. k \in Tasks /\ RowOf(c, k) = task[k] /\ RowOf(c, k)' = task'[k]
        BY <3>2 DEF KeysOf, RowOf
      <4>2. task'[k] = task[k]
        BY <1>0, <2>1, <2>4, <3>2, <4>1
      <4> QED BY <4>1, <4>2
    <3>3. CASE c = "task" /\ k = e.key /\ task[e.key].status = Absent
      <4>1. RowOf(c, k) = task[k] /\ RowOf(c, k)' = m
        BY <1>0, <2>1, <2>4, <3>3 DEF RowOf
      <4>2. Inserted(c, k, task[k], m, e)
        BY <1>2, <1>5, <2>1, <2>3, <3>3 DEF Inserted, KindOf
      <4> QED BY <4>1, <4>2
    <3> QED BY <3>1, <3>2, <3>3
  <2> QED BY <1>0, <1>1, <1>2, <2>1, <2>5, <2>6
<1> QED BY <1>3, <1>4, <1>5

(* Only write, hold and insert steps touch the rows. *)
LEMMA RunRows ==
    ASSUME TypeInv, CmdInv, NEW p \in Procs, Run(p) \/ Die(p)
    PROVE  /\ wo' \in [WorkOrderIds -> WoRows] /\ task' \in [Tasks -> TaskRows]
           /\ carried' \subseteq Tasks /\ faults' \in Nat
           /\ \A c \in Columns : \A k \in KeysOf(c) : RowTurn(p, c, k, RowOf(c, k), RowOf(c, k)')
<1>0. /\ wo \in [WorkOrderIds -> WoRows] /\ task \in [Tasks -> TaskRows]
      /\ carried \subseteq Tasks /\ faults \in Nat
      /\ cmd[p] \in Commands /\ CmdOK(cmd[p], clock)
  BY DEF TypeInv, CmdInv
<1>a. ASSUME UNCHANGED <<wo, task>>
      PROVE  \A c \in Columns : \A k \in KeysOf(c) : RowTurn(p, c, k, RowOf(c, k), RowOf(c, k)')
  <2>1. \A c \in Columns : \A k \in KeysOf(c) : RowOf(c, k)' = RowOf(c, k)
    BY <1>a DEF RowOf
  <2> QED BY <2>1 DEF RowTurn
<1>b. Busy(p) => IsEvent(cmd[p].ev)
  BY <1>0 DEF CmdOK, Busy
<1>1. CASE Write(p)
  <2>1. /\ At(p, "write") /\ Busy(p) /\ cmd' = Step(p) /\ spool' = spool /\ WriteRow(cmd[p].ev)
        /\ carried' = carried /\ faults' = faults
    BY <1>1 DEF Write, At, engine, bounds
  <2> QED BY <1>0, <1>b, <2>1, WriteRowIs DEF RowTurn
<1>2. CASE Insert(p)
  <2>1. At(p, "insert") /\ spool' = spool /\ carried' = carried /\ faults' = faults
    BY <1>2 DEF Insert, bounds
  <2>2. /\ wo' \in [WorkOrderIds -> WoRows] /\ task' \in [Tasks -> TaskRows]
        /\ \A c \in Columns : \A k \in KeysOf(c) :
             RowOf(c, k)' = RowOf(c, k) \/ Inserted(c, k, RowOf(c, k), RowOf(c, k)', cmd[p].ev)
    BY <1>2, InsertIs
  <2> QED BY <1>0, <2>1, <2>2 DEF RowTurn
<1>3. CASE Hold(p)
  <2>1. /\ At(p, "hold") /\ Busy(p) /\ carried' = carried /\ faults' = faults
        /\ \/ WriteRow(cmd[p].ev) /\ cmd[p].ev \in spool'
           \/ UNCHANGED <<wo, task>>
    BY <1>3 DEF Hold, At, rows, bounds
  <2>2. CASE WriteRow(cmd[p].ev) /\ cmd[p].ev \in spool'
    BY <1>0, <1>b, <2>1, <2>2, WriteRowIs DEF RowTurn
  <2>3. CASE UNCHANGED <<wo, task>>
    BY <1>0, <1>a, <2>1, <2>3
  <2> QED BY <2>1, <2>2, <2>3
<1>4. CASE Emit(p)
  BY <1>0, <1>4, <1>a DEF Emit, rows, bounds
<1>5. CASE Gates(p)
  BY <1>0, <1>5, <1>a DEF Gates, rows
<1>6. CASE EndSync(p)
  <2>1. UNCHANGED <<wo, task, carried>> /\ faults' \in Nat
    BY <1>0, <1>6 DEF EndSync, rows
  <2> QED BY <1>0, <1>a, <2>1
<1>7. CASE CarryCreate(p)
  BY <1>0, <1>7, <1>a DEF CarryCreate, rows
<1>8. CASE CarryRecord(p)
  <2>1. cmd[p].plan # <<>> /\ Head(cmd[p].plan) = "record"
    BY <1>8 DEF CarryRecord, At, Busy
  <2>2. cmd[p].plan = C7
    BY <1>0, <2>1, PlanCases DEF Commands
  <2>3. cmd[p].ev.key \in Tasks
    BY <1>0, <2>1, <2>2, PlansDiffer DEF CmdOK, PlanOK, IsEvent
  <2> QED BY <1>0, <1>8, <1>a, <2>3 DEF CarryRecord, rows, bounds
<1>9. CASE Die(p)
  <2>1. UNCHANGED <<wo, task, carried>> /\ faults' \in Nat
    BY <1>0, <1>9 DEF Die, rows
  <2> QED BY <1>0, <1>a, <2>1
<1> QED BY <1>1, <1>2, <1>3, <1>4, <1>5, <1>6, <1>7, <1>8, <1>9 DEF Run

-----------------------------------------------------------------------------
(* What the projections do to the rows.                                    *)

(* The event x has been applied to the row of column c and key k. *)
RowHandled(c, k, row, r, x) ==
    IF x.kind = KindOf(c) /\ x.key = k THEN Handled(c, row, x, r) /\ (r.status = Absent => r = row)
    ELSE r = row

LEMMA HandleIs ==
    ASSUME TypeInv, NEW x \in log, Handle(x)
    PROVE  /\ wo' \in [WorkOrderIds -> WoRows] /\ task' \in [Tasks -> TaskRows] /\ ms' \in MilestoneStatuses
           /\ \A c \in Columns : \A k \in KeysOf(c) : RowHandled(c, k, RowOf(c, k), RowOf(c, k)', x)
           /\ \A t \in Tasks : \/ task'[t].status = task[t].status
                               \/ x.kind = "task" /\ x.key = t /\ task'[t].status = TASK_EVENT_STATUS[x.type]
<1>0. /\ wo \in [WorkOrderIds -> WoRows] /\ task \in [Tasks -> TaskRows] /\ ms \in MilestoneStatuses
      /\ IsEvent(x) /\ x.id \in Nat
  BY DEF TypeInv, Emitted
<1>1. CASE x.kind = "wo"
  <2>1. wo' = [wo EXCEPT ![x.key] = HandleWorkOrder(wo[x.key], x)] /\ task' = task /\ ms' = ms
    BY <1>1 DEF Handle
  <2>2. x.key \in WorkOrderIds
    BY <1>0, <1>1 DEF IsEvent
  <2>3. PICK r : r = HandleWorkOrder(wo[x.key], x)
    OBVIOUS
  <2>4. /\ r \in WoRows /\ (r.status = Absent => r = wo[x.key])
        /\ \A c \in WoColumns : Handled(c, wo[x.key], x, r)
    BY <1>0, <1>1, <2>2, <2>3, HandlesWorkOrder
  <2>5. wo' \in [WorkOrderIds -> WoRows]
    BY <1>0, <2>1, <2>3, <2>4
  <2>6. ASSUME NEW c \in Columns, NEW k \in KeysOf(c) PROVE RowHandled(c, k, RowOf(c, k), RowOf(c, k)', x)
    <3>1. CASE c = "task"
      BY <1>1, <2>1, <3>1 DEF RowOf, RowHandled, KindOf
    <3>2. CASE c # "task" /\ k # x.key
      <4>1. k \in WorkOrderIds /\ RowOf(c, k) = wo[k] /\ RowOf(c, k)' = wo'[k] /\ wo'[k] = wo[k]
        BY <1>0, <2>1, <3>2 DEF KeysOf, RowOf
      <4> QED BY <3>2, <4>1 DEF RowHandled
    <3>3. CASE c # "task" /\ k = x.key
      <4>1. RowOf(c, k) = wo[k] /\ RowOf(c, k)' = r /\ c \in WoColumns
        BY <1>0, <2>1, <2>2, <2>3, <3>3 DEF RowOf, Columns, WoColumns
      <4> QED BY <1>1, <2>4, <3>3, <4>1 DEF RowHandled, KindOf
    <3> QED BY <3>1, <3>2, <3>3
  <2> QED BY <1>0, <2>1, <2>5, <2>6
<1>2. CASE x.kind = "task"
  <2>1. task' = [task EXCEPT ![x.key] = HandleTask(task[x.key], x)] /\ wo' = wo /\ ms' = ms
    BY <1>2 DEF Handle
  <2>2. x.key \in Tasks
    BY <1>0, <1>2 DEF IsEvent
  <2>3. PICK r : r = HandleTask(task[x.key], x)
    OBVIOUS
  <2>4. /\ r \in TaskRows /\ (r.status = Absent => r = task[x.key])
        /\ Handled("task", task[x.key], x, r)
        /\ (r.status = task[x.key].status \/ r.status = TASK_EVENT_STATUS[x.type])
    BY <1>0, <1>2, <2>2, <2>3, HandlesTask
  <2>5. task' \in [Tasks -> TaskRows]
    BY <1>0, <2>1, <2>3, <2>4
  <2>6. ASSUME NEW c \in Columns, NEW k \in KeysOf(c) PROVE RowHandled(c, k, RowOf(c, k), RowOf(c, k)', x)
    <3>1. CASE c # "task"
      BY <1>2, <2>1, <3>1 DEF RowOf, RowHandled, KindOf
    <3>2. CASE c = "task" /\ k # x.key
      <4>1. k \in Tasks /\ RowOf(c, k) = task[k] /\ RowOf(c, k)' = task'[k] /\ task'[k] = task[k]
        BY <1>0, <2>1, <3>2 DEF KeysOf, RowOf
      <4> QED BY <3>2, <4>1 DEF RowHandled
    <3>3. CASE c = "task" /\ k = x.key
      <4>1. RowOf(c, k) = task[k] /\ RowOf(c, k)' = r
        BY <1>0, <2>1, <2>2, <2>3, <3>3 DEF RowOf
      <4> QED BY <1>2, <2>4, <3>3, <4>1 DEF RowHandled, KindOf
    <3> QED BY <3>1, <3>2, <3>3
  <2>7. ASSUME NEW t \in Tasks
        PROVE  \/ task'[t].status = task[t].status
               \/ x.kind = "task" /\ x.key = t /\ task'[t].status = TASK_EVENT_STATUS[x.type]
    BY <1>0, <1>2, <2>1, <2>2, <2>3, <2>4
  <2> QED BY <1>0, <2>1, <2>5, <2>6, <2>7
<1>3. CASE x.kind = "ms"
  <2>1. ms' = "complete" /\ wo' = wo /\ task' = task
    BY <1>3 DEF Handle
  <2>2. \A c \in Columns : \A k \in KeysOf(c) : RowHandled(c, k, RowOf(c, k), RowOf(c, k)', x)
    BY <1>3, <2>1 DEF RowOf, RowHandled, KindOf
  <2> QED BY <1>0, <2>1, <2>2 DEF MilestoneStatuses
<1> QED BY <1>0, <1>1, <1>2, <1>3 DEF IsEvent

-----------------------------------------------------------------------------
(* Types.                                                                  *)

LEMMA TypeBegins ==
    ASSUME TypeInv, NEW p \in Procs, NEW c, Begins(p, c)
    PROVE  TypeInv'
<1>1. cmd' \in [Procs -> Commands]
  BY DEF TypeInv, Begins
<1>2. clock' \in Nat /\ budget' \in Nat
  BY DEF TypeInv, Begins
<1>3. \A e \in Emitted' : IsEvent(e) /\ e.id \in 1..clock'
  BY DEF TypeInv, Begins, Emitted
<1> QED BY <1>1, <1>2, <1>3 DEF TypeInv, Begins

LEMMA TypeTurns ==
    ASSUME TypeInv, FlightInv, NEW p \in Procs, Run(p) \/ Die(p), NEW c, NEW N, Turns(p, c), Adds(p, c, N)
    PROVE  TypeInv'
<1>1. /\ wo' \in [WorkOrderIds -> WoRows] /\ task' \in [Tasks -> TaskRows]
      /\ carried' \subseteq Tasks /\ faults' \in Nat
  BY RunRows DEF FlightInv
<1>2. cmd' \in [Procs -> Commands] /\ clock' \in Nat
  BY DEF TypeInv, Turns
<1>3. \A e \in Emitted' : IsEvent(e) /\ e.id \in 1..clock'
  BY DEF TypeInv, Turns, Adds
<1>4. log' = log /\ spool' \cap log' = {}
  <2>1. log' = log /\ spool' = spool \cup N
    BY DEF Turns, Adds
  <2>2. \A n \in N : n \notin log
    BY DEF Adds, Emitted
  <2> QED BY <2>1, <2>2 DEF TypeInv
<1> QED BY <1>1, <1>2, <1>3, <1>4 DEF TypeInv, Turns

(* One event of the log is applied: by a cycle or by a retry. *)
Applies(x) ==
    /\ x \in log /\ Handle(x)
    /\ cursor' = [cursor EXCEPT ![x.kind] = x.id]
    /\ UNCHANGED <<spool, log, carried, cmd, clock, budget, faults>>

(* What the projections do. *)
LEMMA ProjectIs ==
    ASSUME TypeInv, Project
    PROVE  \/ Ingest
           \/ Select
           \/ \E x \in todo : /\ Applies(x) /\ todo' = todo \ {x} /\ UNCHANGED <<retry, disturbed>>
                              /\ \A d \in todo \ {x} : Before(x, d)
           \/ \E x \in todo : /\ todo' = todo \ {x} /\ retry' = retry \cup {x} /\ faults' \in Nat
                              /\ UNCHANGED <<wo, task, ms, cursor, spool, log, carried, cmd, clock, budget, disturbed>>
           \/ \E x \in retry : /\ Applies(x) /\ todo = {} /\ retry' = retry \ {x} /\ todo' = todo
                               /\ disturbed' = disturbed \cup {d.key : d \in Passed(x)}
<1>0. todo \subseteq log /\ retry \subseteq log /\ faults \in Nat
  BY DEF TypeInv
<1>1. CASE Deliver
  <2>1. PICK x \in todo :
            /\ \A d \in todo \ {x} : Before(x, d)
            /\ todo' = todo \ {x}
            /\ \/ /\ CanHandle(x) /\ Handle(x)
                  /\ cursor' = [cursor EXCEPT ![x.kind] = x.id]
                  /\ UNCHANGED <<retry, faults>>
               \/ /\ CanHandle(x) => faults > 0
                  /\ faults' = IF CanHandle(x) THEN faults - 1 ELSE faults
                  /\ retry' = retry \cup {x}
                  /\ UNCHANGED <<wo, task, ms, cursor>>
            /\ UNCHANGED <<spool, log, carried, cmd, clock, budget, disturbed>>
    BY <1>1 DEF Deliver, rows
  <2>2. CASE /\ CanHandle(x) /\ Handle(x)
             /\ cursor' = [cursor EXCEPT ![x.kind] = x.id]
             /\ UNCHANGED <<retry, faults>>
    BY <1>0, <2>1, <2>2 DEF Applies
  <2>3. CASE /\ CanHandle(x) => faults > 0
             /\ faults' = IF CanHandle(x) THEN faults - 1 ELSE faults
             /\ retry' = retry \cup {x}
             /\ UNCHANGED <<wo, task, ms, cursor>>
    <3>1. faults' \in Nat
      BY <1>0, <2>3
    <3> QED BY <2>1, <2>3, <3>1
  <2> QED BY <2>1, <2>2, <2>3
<1>2. ASSUME NEW x \in retry, RetryDelivery(x)
      PROVE  /\ Applies(x) /\ todo = {} /\ retry' = retry \ {x} /\ todo' = todo
             /\ disturbed' = disturbed \cup {d.key : d \in Passed(x)}
  BY <1>0, <1>2 DEF RetryDelivery, Applies, bounds
<1> QED BY <1>1, <1>2 DEF Project

LEMMA TypeProject ==
    ASSUME TypeInv, Project
    PROVE  TypeInv'
<1>0. /\ cmd' = cmd /\ clock' = clock /\ Emitted' = Emitted /\ carried' = carried /\ budget' = budget
      /\ \A e \in Emitted' : IsEvent(e) /\ e.id \in 1..clock'
  BY ProjectKeeps DEF TypeInv
<1>1. CASE Ingest
  <2>1. /\ log' = log \cup spool /\ spool' = {} /\ UNCHANGED <<wo, task, ms, cursor, todo, retry, faults>>
    BY <1>1 DEF Ingest, rows, bounds
  <2>2. todo' \subseteq log' /\ retry' \subseteq log' /\ spool' \cap log' = {}
    BY <2>1 DEF TypeInv
  <2> QED BY <1>0, <2>1, <2>2 DEF TypeInv
<1>2. CASE Select
  <2>1. todo' = Pending /\ UNCHANGED <<wo, task, ms, cursor, log, spool, retry, faults>>
    BY <1>2 DEF Select, rows, bounds
  <2> QED BY <1>0, <2>1 DEF TypeInv, Pending
<1>3. ASSUME NEW x \in log, Applies(x), todo' \subseteq todo, retry' \subseteq retry PROVE TypeInv'
  <2>1. wo' \in [WorkOrderIds -> WoRows] /\ task' \in [Tasks -> TaskRows] /\ ms' \in MilestoneStatuses
    BY <1>3, HandleIs DEF Applies
  <2>2. x.kind \in Kinds /\ x.id \in Nat
    BY DEF TypeInv, Emitted, IsEvent, Kinds
  <2>3. cursor' \in [Kinds -> Nat]
    BY <1>3, <2>2 DEF Applies, TypeInv
  <2> QED BY <1>0, <1>3, <2>1, <2>3 DEF TypeInv, Applies
<1>4. ASSUME NEW x \in todo, todo' = todo \ {x}, retry' = retry \cup {x}, faults' \in Nat,
             UNCHANGED <<wo, task, ms, cursor, spool, log>>
      PROVE  TypeInv'
  BY <1>0, <1>4 DEF TypeInv
<1>5. todo \subseteq log /\ retry \subseteq log
  BY DEF TypeInv
<1> QED BY <1>1, <1>2, <1>3, <1>4, <1>5, ProjectIs

-----------------------------------------------------------------------------
(* The engine, the rows' events and their provenance.                      *)

LEMMA EngineProject ==
    ASSUME TypeInv, EngineInv, Project
    PROVE  EngineInv'
<1>0. /\ todo \subseteq log /\ retry \subseteq log /\ cursor \in [Kinds -> Nat]
      /\ \A e \in log : e.kind \in Kinds /\ e.id \in Nat
      /\ todo \subseteq Pending /\ (todo # {} => Pending \subseteq todo \cup retry)
  BY DEF TypeInv, Emitted, IsEvent, Kinds, EngineInv
<1>1. CASE Ingest
  <2>1. log' = log \cup spool /\ cursor' = cursor /\ todo = {} /\ todo' = todo
    BY <1>1 DEF Ingest
  <2>2. \A d \in Kinds : cursor'[d] # 0 => \E e \in log' : e.kind = d /\ e.id = cursor'[d]
    BY <2>1 DEF EngineInv
  <2> QED BY <2>1, <2>2 DEF EngineInv
<1>2. CASE Select
  <2>1. todo' = Pending /\ Pending' = Pending /\ log' = log /\ cursor' = cursor
    BY <1>2 DEF Select, Pending
  <2> QED BY <2>1 DEF EngineInv
<1>3. ASSUME NEW x \in log, Applies(x)
      PROVE  \A d \in Kinds : cursor'[d] # 0 => \E e \in log' : e.kind = d /\ e.id = cursor'[d]
  <2>1. log' = log /\ cursor' = [cursor EXCEPT ![x.kind] = x.id]
    BY <1>3 DEF Applies
  <2> QED BY <1>0, <2>1 DEF EngineInv
<1>4. ASSUME NEW x \in todo, Applies(x), todo' = todo \ {x}, retry' = retry, \A d \in todo \ {x} : Before(x, d)
      PROVE  EngineInv'
  <2>1. log' = log /\ cursor' = [cursor EXCEPT ![x.kind] = x.id] /\ x \in log
    BY <1>0, <1>4 DEF Applies
  <2>2. cursor'[x.kind] = x.id /\ \A d \in Kinds : d # x.kind => cursor'[d] = cursor[d]
    BY <1>0, <2>1
  <2>3. x.id > cursor[x.kind]
    BY <1>0 DEF Pending
  <2>4. ASSUME NEW d \in todo' PROVE d \in Pending'
    <3>1. d \in log /\ d \in todo \ {x}
      BY <1>0, <1>4, <2>4
    <3>2. CASE d.kind = x.kind
      <4>1. Rank[x.kind] \in Nat
        BY <1>0, <2>1 DEF Rank, Kinds
      <4>2. x.id < d.id
        BY <1>4, <3>1, <3>2, <4>1 DEF Before
      <4> QED BY <1>0, <2>1, <2>2, <3>1, <3>2, <4>2 DEF Pending
    <3>3. CASE d.kind # x.kind
      <4>1. d.id > cursor[d.kind]
        BY <1>0, <3>1 DEF Pending
      <4> QED BY <1>0, <2>1, <2>2, <3>1, <3>3, <4>1 DEF Pending
    <3> QED BY <3>2, <3>3
  <2>5. ASSUME NEW d \in Pending' PROVE d \in todo' \cup retry'
    <3>1. d \in log /\ d.id > cursor'[d.kind]
      BY <2>1 DEF Pending
    <3>2. d # x
      BY <1>0, <2>1, <2>2, <3>1
    <3>3. d.id > cursor[d.kind]
      <4>1. CASE d.kind = x.kind
        <5>1. d.id > x.id /\ cursor[x.kind] \in Nat /\ d.id \in Nat /\ x.id \in Nat
          BY <1>0, <2>1, <2>2, <3>1, <4>1
        <5> QED BY <2>3, <4>1, <5>1
      <4>2. CASE d.kind # x.kind
        BY <1>0, <2>2, <3>1, <4>2
      <4> QED BY <4>1, <4>2
    <3> QED BY <1>0, <1>4, <3>1, <3>2, <3>3 DEF Pending
  <2> QED BY <1>3, <1>4, <2>1, <2>4, <2>5 DEF EngineInv
<1>5. ASSUME NEW x \in todo, todo' = todo \ {x}, retry' = retry \cup {x}, UNCHANGED <<cursor, log>>
      PROVE  EngineInv'
  <2>1. Pending' = Pending
    BY <1>5 DEF Pending
  <2> QED BY <1>0, <1>5, <2>1 DEF EngineInv
<1>6. ASSUME NEW x \in retry, Applies(x), todo = {}, todo' = todo
      PROVE  EngineInv'
  BY <1>0, <1>3, <1>6 DEF EngineInv
<1> QED BY <1>1, <1>2, <1>4, <1>5, <1>6, ProjectIs

(* Every step of a process keeps the rows' events. *)
LEMMA RowTurns ==
    ASSUME TypeInv, FlightInv, RowInv, SrcInv, NEW p \in Procs, Run(p) \/ Die(p), NEW c, NEW N,
           Turns(p, c), Adds(p, c, N)
    PROVE  RowInv' /\ SrcInv'
<1>0. /\ cmd[p] \in Commands /\ CmdOK(cmd[p], clock) /\ Emitted \subseteq Emitted' /\ spool' \subseteq Emitted'
      /\ log' = log
      /\ \A d \in Columns : \A k \in KeysOf(d) : RowTurn(p, d, k, RowOf(d, k), RowOf(d, k)')
  BY RunRows DEF TypeInv, FlightInv, CmdInv, Adds, Emitted, Turns
<1>1. At(p, "insert") => cmd[p].ev \in Emitted
  <2>1. ASSUME At(p, "insert") PROVE cmd[p].plan = In
    <3>1. cmd[p].plan \in Plans \ {<<>>} /\ Head(cmd[p].plan) = "insert"
      BY <1>0, <2>1 DEF At, Busy, Commands
    <3> QED BY <3>1, PlanCases
  <2> QED BY <2>1 DEF FlightInv, LatestInv
<1>2. ASSUME NEW w \in WorkOrderIds, wo'[w].status # Absent PROVE \E e \in Emitted' : e.key = w
  <2>1. RowTurn(p, "status", w, wo[w], wo'[w])
    BY <1>0 DEF Columns, KeysOf, RowOf
  <2>2. wo[w].status # Absent \/ \E e \in Emitted : e.key = w
    BY <1>1, <1>2, <2>1 DEF RowTurn, Updated, Inserted
  <2> QED BY <1>0, <2>2 DEF RowInv
<1>3. ASSUME NEW t \in Tasks PROVE RowTurn(p, "task", t, task[t], task'[t])
  BY <1>0 DEF Columns, KeysOf, RowOf
<1>4. ASSUME NEW t \in Tasks, task'[t].status # Absent PROVE \E e \in Emitted' : e.key = t
  <2>2. task[t].status # Absent \/ \E e \in Emitted : e.key = t
    BY <1>1, <1>3, <1>4 DEF RowTurn, Updated, Inserted
  <2> QED BY <1>0, <2>2 DEF RowInv
<1>5. ASSUME NEW t \in Tasks, task'[t].status \in TASK_SETTLED
      PROVE  \E e \in Emitted' : e.kind = "task" /\ e.key = t /\ e.type \in Ends
  <2>0. Busy(p) => IsEvent(cmd[p].ev)
    BY <1>0 DEF CmdOK, Busy
  <2>1. CASE task'[t] = task[t]
    BY <1>0, <1>5, <2>1 DEF RowInv
  <2>2. CASE At(p, "write") /\ Updated("task", t, task[t], task'[t], cmd[p].ev)
    <3>1. cmd[p].plan \in Plans \ {<<>>} /\ Head(cmd[p].plan) = "write"
      BY <1>0, <2>2 DEF At, Busy, Commands
    <3>2. cmd[p].plan \in {WE, WES, Wr} /\ cmd[p].ev.kind = "task"
      BY <2>2, <3>1, PlanCases DEF Updated, KindOf
    <3>3. cmd[p].ev.type = "started"
      BY <1>0, <3>2, PlansDiffer DEF CmdOK, PlanOK
    <3>4. task'[t].status = "in_progress"
      BY <2>2, <3>3, TaskEvents DEF Updated, Val
    <3> QED BY <1>5, <3>4 DEF TASK_SETTLED
  <2>3. CASE At(p, "hold") /\ cmd[p].ev \in spool' /\ Updated("task", t, task[t], task'[t], cmd[p].ev)
    <3>1. cmd[p].plan \in Plans \ {<<>>} /\ Head(cmd[p].plan) = "hold" /\ IsEvent(cmd[p].ev)
      BY <1>0, <2>0, <2>3 DEF At, Busy, Commands
    <3>2. cmd[p].plan \in {Ho, HS} /\ cmd[p].ev.kind = "task" /\ cmd[p].ev.key = t
      BY <2>3, <3>1, PlanCases DEF Updated, KindOf
    <3>3. cmd[p].ev.type \in {"blocked", "cancelled"}
      BY <1>0, <3>2, PlansDiffer DEF CmdOK, PlanOK
    <3>4. cmd[p].ev.type = "cancelled"
      BY <3>1, <3>2, <3>3, TaskEvents DEF IsEvent
    <3> QED BY <1>0, <2>3, <3>2, <3>4 DEF Ends
  <2>4. CASE At(p, "insert") /\ Inserted("task", t, task[t], task'[t], cmd[p].ev)
    <3>1. task'[t].status = "pending"
      BY <2>4, TaskEvents DEF Inserted, Val
    <3> QED BY <1>5, <3>1 DEF TASK_SETTLED
  <2> QED BY <1>3, <2>1, <2>2, <2>3, <2>4 DEF RowTurn
<1>6. RowInv'
  BY <1>2, <1>4, <1>5 DEF RowInv
<1>7. SrcInv'
  <2>1. ASSUME NEW w \in WorkOrderIds PROVE ProvInv(wo[w])'
    <3>1. RowTurn(p, "status", w, wo[w], wo'[w])
      BY <1>0 DEF Columns, KeysOf, RowOf
    <3>2. wo'[w].src = wo[w].src /\ wo'[w].last = wo[w].last
      BY <3>1 DEF RowTurn, Updated, Inserted
    <3> QED BY <1>0, <3>2 DEF SrcInv, ProvInv
  <2>2. ASSUME NEW t \in Tasks PROVE ProvInv(task[t])'
    <3>2. task'[t].src = task[t].src /\ task'[t].last = task[t].last
      BY <1>3 DEF RowTurn, Updated, Inserted
    <3> QED BY <1>0, <3>2 DEF SrcInv, ProvInv
  <2> QED BY <2>1, <2>2 DEF SrcInv
<1> QED BY <1>6, <1>7

LEMMA RowProject ==
    ASSUME TypeInv, RowInv, SrcInv, Project
    PROVE  RowInv' /\ SrcInv'
<1>0. Emitted' = Emitted /\ log \subseteq log'
  <2>1. log \subseteq log'
    BY ProjectIs DEF Ingest, Select, Applies
  <2> QED BY <2>1, ProjectKeeps
<1>1. CASE UNCHANGED <<wo, task>>
  <2>1. RowInv'
    BY <1>0, <1>1 DEF RowInv
  <2>2. SrcInv'
    BY <1>0, <1>1 DEF SrcInv, ProvInv
  <2> QED BY <2>1, <2>2
<1>2. ASSUME NEW x \in log, Applies(x) PROVE RowInv' /\ SrcInv'
  <2>0. /\ log' = log /\ x \in Emitted
        /\ \A c \in Columns : \A k \in KeysOf(c) : RowHandled(c, k, RowOf(c, k), RowOf(c, k)', x)
        /\ \A t \in Tasks : \/ task'[t].status = task[t].status
                            \/ x.kind = "task" /\ x.key = t /\ task'[t].status = TASK_EVENT_STATUS[x.type]
    BY <1>2, HandleIs DEF Applies, Emitted
  <2>1. ASSUME NEW w \in WorkOrderIds PROVE RowHandled("status", w, wo[w], wo'[w], x)
    BY <2>0 DEF Columns, KeysOf, RowOf
  <2>2. ASSUME NEW t \in Tasks PROVE RowHandled("task", t, task[t], task'[t], x)
    BY <2>0 DEF Columns, KeysOf, RowOf
  <2>3. RowInv'
    <3>1. ASSUME NEW w \in WorkOrderIds, wo'[w].status # Absent PROVE \E e \in Emitted : e.key = w
      BY <2>0, <2>1, <3>1 DEF RowInv, RowHandled
    <3>2. ASSUME NEW t \in Tasks, task'[t].status # Absent PROVE \E e \in Emitted : e.key = t
      BY <2>0, <2>2, <3>2 DEF RowInv, RowHandled
    <3>3. ASSUME NEW t \in Tasks, task'[t].status \in TASK_SETTLED
          PROVE  \E e \in Emitted : e.kind = "task" /\ e.key = t /\ e.type \in Ends
      <4>1. CASE task'[t].status = task[t].status
        BY <3>3, <4>1 DEF RowInv
      <4>2. CASE x.kind = "task" /\ x.key = t /\ task'[t].status = TASK_EVENT_STATUS[x.type]
        <5>1. IsEvent(x)
          BY <2>0 DEF TypeInv
        <5>2. x.type \in Ends
          BY <3>3, <4>2, <5>1, TaskEvents DEF IsEvent, TASK_SETTLED, Ends
        <5> QED BY <2>0, <4>2, <5>2
      <4> QED BY <2>0, <4>1, <4>2
    <3> QED BY <1>0, <3>1, <3>2, <3>3 DEF RowInv
  <2>4. SrcInv'
    <3>1. ASSUME NEW w \in WorkOrderIds PROVE ProvInv(wo[w])'
      <4>1. /\ wo'[w].last \in {wo[w].last, x.id}
            /\ wo'[w].src = wo[w].src \/ (wo'[w].src = x.id /\ x.type = "created")
        BY <2>1 DEF RowHandled, Handled
      <4> QED BY <2>0, <4>1 DEF SrcInv, ProvInv
    <3>2. ASSUME NEW t \in Tasks PROVE ProvInv(task[t])'
      <4>1. /\ task'[t].last \in {task[t].last, x.id}
            /\ task'[t].src = task[t].src \/ (task'[t].src = x.id /\ x.type = "created")
        BY <2>2 DEF RowHandled, Handled
      <4> QED BY <2>0, <4>1 DEF SrcInv, ProvInv
    <3> QED BY <3>1, <3>2 DEF SrcInv
  <2> QED BY <2>3, <2>4
<1>3. todo \subseteq log /\ retry \subseteq log
  BY DEF TypeInv
<1> QED BY <1>1, <1>2, <1>3, ProjectIs DEF Ingest, Select, rows

-----------------------------------------------------------------------------
(* The columns.                                                            *)

(* A process that is about to emit does, or dies. *)
LEMMA EmitOrDie ==
    ASSUME TypeInv, CmdInv, IdInv, NEW p \in Procs, NEW c, NEW N, Turns(p, c), Adds(p, c, N),
           Run(p) \/ Die(p), At(p, "emit"), cmd[p].ev.key \notin disturbed'
    PROVE  cmd[p].ev \in N
<1>0. Busy(p) /\ Head(cmd[p].plan) = "emit" /\ cmd[p] \in Commands
  BY DEF At, TypeInv
<1>1. ~Die(p)
  BY DEF Die
<1>2. ~Write(p) /\ ~Insert(p) /\ ~Hold(p) /\ ~Gates(p) /\ ~EndSync(p) /\ ~CarryCreate(p) /\ ~CarryRecord(p)
  BY <1>0 DEF Write, Insert, Hold, Gates, EndSync, CarryCreate, CarryRecord, At
<1>3. cmd[p].ev \in spool'
  BY <1>1, <1>2 DEF Run, Emit
<1>4. Owes(p)
  <2>1. cmd[p].plan \in {ES, EI, EW, Em, C5}
    BY <1>0, PlanCases DEF Commands, Busy
  <2> QED BY <2>1 DEF Owes, Owing
<1>5. cmd[p].ev \notin Emitted
  BY <1>4 DEF IdInv
<1> QED BY <1>3, <1>5 DEF Adds, Emitted

(* A row whose columns have not moved agrees as it did. *)
LEMMA StillAgrees ==
    ASSUME NEW c \in Columns, NEW k \in KeysOf(c), Agrees(c, k),
           Setters(c, k, Emitted)' = Setters(c, k, Emitted),
           \A x : Outstanding(x, RowOf(c, k)) => x \in (spool \cup todo \cup retry \cup Pending)',
           Col(c, RowOf(c, k))' = Col(c, RowOf(c, k)),
           RowOf(c, k)'.src = RowOf(c, k).src, RowOf(c, k)'.last = RowOf(c, k).last,
           RowOf(c, k)'.status = Absent \/ RowOf(c, k).status # Absent \/ c \in {"from", "closed"}
    PROVE  Agrees(c, k)'
<1>1. CASE Setters(c, k, Emitted) = {} /\ Col(c, RowOf(c, k)) = Blank(c)
  BY <1>1 DEF Agrees, Blank
<1>2. ASSUME NEW x, IsLatest(x, Setters(c, k, Emitted)),
             Col(c, RowOf(c, k)) = Val(c, x) \/ Outstanding(x, RowOf(c, k))
      PROVE  Agrees(c, k)'
  <2>1. IsLatest(x, Setters(c, k, Emitted)')
    BY <1>2
  <2>2. c \in {"from", "closed"} => x.type # "created"
    BY <1>2 DEF IsLatest, Setters, Sets
  <2>3. Outstanding(x, RowOf(c, k)) => Outstanding(x, RowOf(c, k))'
    BY <2>2 DEF Outstanding
  <2> QED BY <1>2, <2>1, <2>3 DEF Agrees, IsLatest, Val
<1> QED BY <1>1, <1>2 DEF Agrees

(* An event that a step adds is the latest of its key, and outstanding. *)
LEMMA AddedAgrees ==
    ASSUME TypeInv, RowInv, SrcInv, NEW p \in Procs, NEW c0, NEW N, Turns(p, c0), Adds(p, c0, N),
           NEW c \in Columns, NEW k \in KeysOf(c), k \notin disturbed,
           RowTurn(p, c, k, RowOf(c, k), RowOf(c, k)'),
           NEW n \in N, Sets(c, n), n.key = k
    PROVE  Agrees(c, k)'
<1> DEFINE row == RowOf(c, k)
<1>0. /\ Emitted' = Emitted \cup N /\ spool' = spool \cup N
      /\ \A m \in N : m = n
      /\ \A e \in Emitted : e.id # n.id
      /\ \A e \in Emitted : e.key = k => e.id < n.id
      /\ n.type = "created" => \A e \in Emitted : e.key # k
      /\ n.id \in Nat /\ n.id > 0
  BY DEF Adds, Turns, TypeInv
<1>1. IsLatest(n, Setters(c, k, Emitted)')
  <2>1. n \in Setters(c, k, Emitted)'
    BY <1>0 DEF Setters, Sets, KindOf
  <2>2. ASSUME NEW d \in Setters(c, k, Emitted)' PROVE d.id <= n.id
    <3>1. d.key = k /\ (d \in Emitted \/ d = n)
      BY <1>0, <2>2 DEF Setters
    <3>2. d \in Emitted => d.id \in Nat
      BY DEF TypeInv
    <3> QED BY <1>0, <3>1, <3>2
  <2> QED BY <2>1, <2>2 DEF IsLatest
<1>2. row'.src = row.src /\ row'.last = row.last
  BY DEF RowTurn, Updated, Inserted
<1>3. ProvInv(row) /\ log \subseteq Emitted
  BY DEF SrcInv, RowOf, KeysOf, Emitted, Columns
<1>4. n.id # row'.src /\ n.id # row'.last
  BY <1>0, <1>2, <1>3 DEF ProvInv
<1>5. n.type = "created" => row'.status = Absent
  <2> SUFFICES ASSUME n.type = "created" PROVE row'.status = Absent
    OBVIOUS
  <2>1. row.status = Absent
    BY <1>0 DEF RowInv, RowOf, KeysOf, Columns
  <2>2. spool' # spool
    BY <1>0 DEF Emitted
  <2> QED BY <2>1, <2>2 DEF RowTurn, Updated
<1>6. Outstanding(n, row)'
  BY <1>0, <1>4, <1>5 DEF Outstanding
<1> QED BY <1>1, <1>6 DEF Agrees

(* A command that updates a row holds a plan to write. *)
LEMMA WritesPlan ==
    ASSUME TypeInv, CmdInv, NEW p \in Procs, At(p, "write") \/ At(p, "hold") \/ At(p, "insert")
    PROVE  /\ At(p, "write") => /\ cmd[p].plan \in {WE, WES, Wr}
                                /\ cmd[p].plan = Wr => cmd[p].ev.kind = "wo" /\ cmd[p].ev.type = "started"
                                /\ cmd[p].plan # Wr => cmd[p].ev.type # "created"
           /\ At(p, "hold") => cmd[p].plan \in {Ho, HS}
           /\ At(p, "insert") => cmd[p].plan = In
           /\ ~At(p, "emit")
<1>1. PICK x \in Plans \ {<<>>} : x = cmd[p].plan
  BY DEF TypeInv, Commands, At, Busy
<1>2. CmdOK(cmd[p], clock)
  BY DEF CmdInv
<1>3. At(p, "write") => x \in {WE, WES, Wr}
  BY <1>1, PlanCases DEF At
<1>4. At(p, "hold") => x \in {Ho, HS}
  BY <1>1, PlanCases DEF At
<1>5. At(p, "insert") => x = In
  BY <1>1, PlanCases DEF At
<1>6. x = Wr => cmd[p].ev.kind = "wo" /\ cmd[p].ev.type = "started"
  BY <1>1, <1>2, PlansDiffer DEF CmdOK, PlanOK
<1>7. x \in {WE, WES} => cmd[p].ev.type # "created"
  BY <1>1, <1>2, PlansDiffer DEF CmdOK, PlanOK
<1>8. ~At(p, "emit")
  BY DEF At
<1> QED BY <1>1, <1>3, <1>4, <1>5, <1>6, <1>7, <1>8

(* After the UPDATE of a plan that writes first, the event is next. *)
LEMMA WriteThenEmit ==
    ASSUME TypeInv, CmdInv, NEW p \in Procs, At(p, "write"), cmd[p].plan # Wr, cmd' = Step(p)
    PROVE  At(p, "emit")' /\ cmd'[p].ev = cmd[p].ev
<1>1. cmd[p].plan \in {WE, WES} /\ Busy(p) /\ CmdOK(cmd[p], clock)
  BY WritesPlan DEF At, CmdInv
<1>2. PICK d : Step(p) = [cmd EXCEPT ![p] = d] /\ After(cmd[p], d)
  BY <1>1, StepIs
<1>3. cmd'[p] = d
  BY <1>2 DEF TypeInv
<1>4. d.ev = cmd[p].ev /\ d.plan \in {Em, ES}
  <2>1. Len(WE) = 2 /\ Len(WES) = 3 /\ Tail(WE) = Em /\ Tail(WES) = ES
    BY PlanTable
  <2>2. Len(cmd[p].plan) # 1 /\ Tail(cmd[p].plan) \in {Em, ES}
    <3>1. CASE cmd[p].plan = WE
      <4>1. Len(cmd[p].plan) = 2 /\ Tail(cmd[p].plan) = Em
        BY <2>1, <3>1
      <4> QED BY <4>1
    <3>2. CASE cmd[p].plan = WES
      <4>1. Len(cmd[p].plan) = 3 /\ Tail(cmd[p].plan) = ES
        BY <2>1, <3>2
      <4> QED BY <4>1
    <3> QED BY <1>1, <3>1, <3>2
  <2> QED BY <1>2, <2>2 DEF After
<1>5. Head(d.plan) = "emit" /\ d.plan # <<>>
  BY <1>4, PlanTable, PlansDiffer
<1> QED BY <1>3, <1>4, <1>5 DEF At, Busy

LEMMA ColTurns ==
    ASSUME TypeInv, FlightInv, RowInv, SrcInv, ColInv, NEW p \in Procs, Run(p) \/ Die(p), NEW c0, NEW N,
           Turns(p, c0), Adds(p, c0, N)
    PROVE  ColInv'
<1> SUFFICES ASSUME NEW c \in Columns, NEW k \in KeysOf(c), k \notin disturbed',
                    ~(c = "task" /\ Restarted(k, Emitted)'), ~Mirrored(c, k)'
             PROVE  Agrees(c, k)'
  BY DEF ColInv, KeysOf
<1> DEFINE row == RowOf(c, k)
<1>0. /\ Emitted' = Emitted \cup N /\ spool' = spool \cup N /\ UNCHANGED <<log, todo, retry, cursor>>
      /\ disturbed \subseteq disturbed' /\ k \notin disturbed /\ CmdInv /\ IdInv /\ LatestInv
      /\ RowTurn(p, c, k, row, row')
  <2>1. RowTurn(p, c, k, row, row')
    BY RunRows DEF FlightInv
  <2> QED BY <2>1 DEF Adds, Turns, FlightInv
<1>1. CASE \E n \in N : Sets(c, n) /\ n.key = k
  BY <1>0, <1>1, AddedAgrees
<1>2. CASE ~ \E n \in N : Sets(c, n) /\ n.key = k
  <2>1. Setters(c, k, Emitted)' = Setters(c, k, Emitted)
    BY <1>0, <1>2 DEF Setters, Sets, KindOf
  <2>2. \A x : Outstanding(x, row) => x \in (spool \cup todo \cup retry \cup Pending)'
    BY <1>0 DEF Outstanding, Pending
  <2>3. row'.src = row.src /\ row'.last = row.last
    BY <1>0 DEF RowTurn, Updated, Inserted
  <2>4. ASSUME Mirrored(c, k) PROVE FALSE
    <3>1. PICK q \in Procs : At(q, "emit") /\ cmd[q].ev.key = k /\ Sets(c, cmd[q].ev) /\ cmd[q].ev.type # "created"
      BY <2>4 DEF Mirrored
    <3>2. CASE q = p
      <4>1. cmd[p].ev \in N
        BY <1>0, <3>1, <3>2, EmitOrDie
      <4> QED BY <1>2, <3>1, <3>2, <4>1
    <3>3. CASE q # p
      <4>1. cmd'[q] = cmd[q]
        BY <3>3 DEF Turns, TypeInv
      <4>2. At(q, "emit")'
        BY <3>1, <4>1 DEF At, Busy
      <4>3. Mirrored(c, k)'
        BY <3>1, <4>1, <4>2 DEF Mirrored, Sets, KindOf
      <4> QED BY <4>3
    <3> QED BY <3>2, <3>3
  <2>5. Agrees(c, k)
    <3>1. ~(c = "task" /\ Restarted(k, Emitted))
      BY <1>0 DEF Restarted
    <3> QED BY <1>0, <2>4, <3>1 DEF ColInv
  <2>6. ASSUME Col(c, row') = Col(c, row), row'.status = Absent \/ row.status # Absent \/ c \in {"from", "closed"}
        PROVE  Agrees(c, k)'
    <3>1. Col(c, row)' = Col(c, row)
      BY <2>6 DEF Col
    <3> QED BY <2>1, <2>2, <2>3, <2>5, <2>6, <3>1, StillAgrees
  <2>7. ASSUME NEW e \in Emitted, Sets(c, e), e.key = k, \A d \in Emitted : d.key = k => d.id <= e.id,
               Col(c, row') = Val(c, e)
        PROVE  Agrees(c, k)'
    <3>1. IsLatest(e, Setters(c, k, Emitted))
      BY <2>7 DEF IsLatest, Setters
    <3>2. IsLatest(e, Setters(c, k, Emitted)')
      BY <2>1, <3>1
    <3>3. Col(c, row)' = Val(c, e)
      BY <2>7 DEF Col
    <3> QED BY <3>2, <3>3 DEF Agrees, IsLatest, Val
  <2>8. CASE row' = row
    BY <2>6, <2>8
  <2>9. ASSUME Updated(c, k, row, row', cmd[p].ev), ~Sets(c, cmd[p].ev) PROVE Agrees(c, k)'
    BY <2>6, <2>9 DEF Updated
  <2>10. CASE At(p, "write") /\ cmd' = Step(p) /\ Updated(c, k, row, row', cmd[p].ev) /\ Sets(c, cmd[p].ev)
    <3>1. CASE cmd[p].plan # Wr
      <4>1. At(p, "emit")' /\ cmd'[p].ev = cmd[p].ev /\ cmd[p].ev.type # "created" /\ cmd[p].ev.key = k
        BY <1>0, <2>10, <3>1, WriteThenEmit, WritesPlan DEF Updated
      <4>2. Mirrored(c, k)'
        BY <2>10, <4>1 DEF Mirrored, Sets, KindOf
      <4> QED BY <4>2
    <3>2. CASE cmd[p].plan = Wr
      <4>1. cmd[p].ev.kind = "wo" /\ cmd[p].ev.type = "started" /\ cmd[p].ev.key = k
        BY <1>0, <2>10, <3>2, WritesPlan DEF Updated
      <4>2. cmd[p].ev \in Emitted /\ \A d \in Emitted : d.key = k => d.id <= cmd[p].ev.id
        BY <1>0, <3>2, <4>1 DEF LatestInv
      <4>3. c = "status"
        BY <2>10, <4>1 DEF Sets, KindOf, Columns
      <4>4. Col(c, row') = Val(c, cmd[p].ev)
        BY <2>10, <4>1, <4>3 DEF Updated, Col
      <4> QED BY <2>7, <2>10, <4>1, <4>2, <4>4
    <3> QED BY <3>1, <3>2
  <2>11. CASE At(p, "hold") /\ cmd[p].ev \in spool' /\ Updated(c, k, row, row', cmd[p].ev) /\ Sets(c, cmd[p].ev)
    <3>1. Owes(p)
      BY <1>0, <2>11, WritesPlan DEF Owes, Owing
    <3>2. cmd[p].ev \in N
      BY <1>0, <2>11, <3>1 DEF IdInv, Emitted
    <3> QED BY <1>2, <2>11, <3>2 DEF Updated
  <2>12. CASE At(p, "insert") /\ Inserted(c, k, row, row', cmd[p].ev)
    <3>1. cmd[p].plan = In /\ cmd[p].ev.kind = KindOf(c) /\ cmd[p].ev.key = k /\ cmd[p].ev.type = "created"
      BY <1>0, <2>12, WritesPlan DEF Inserted
    <3>2. CASE c \in {"from", "closed"}
      <4>1. Col(c, row') = Col(c, row)
        BY <2>12, <3>2 DEF Inserted
      <4> QED BY <2>6, <3>2, <4>1
    <3>3. CASE c \in {"status", "task"}
      <4>1. Sets(c, cmd[p].ev) /\ Col(c, row') = Val(c, cmd[p].ev)
        BY <2>12, <3>1, <3>3 DEF Inserted, Sets, Col
      <4>2. cmd[p].ev \in Emitted /\ \A d \in Emitted : d.key = k => d.id <= cmd[p].ev.id
        BY <1>0, <3>1 DEF LatestInv
      <4> QED BY <2>7, <3>1, <4>1, <4>2
    <3> QED BY <3>2, <3>3 DEF Columns
  <2> QED BY <1>0, <2>8, <2>9, <2>10, <2>11, <2>12 DEF RowTurn
<1> QED BY <1>1, <1>2

(* A command that begins moves nothing. *)
LEMMA InvBegins ==
    ASSUME TypeInv, RowInv, SrcInv, EngineInv, ColInv, NEW p \in Procs, NEW c0, Begins(p, c0)
    PROVE  RowInv' /\ SrcInv' /\ EngineInv' /\ ColInv'
<1>0. /\ UNCHANGED <<wo, task, spool, log, cursor, todo, retry>> /\ Emitted' = Emitted /\ Pending' = Pending
      /\ disturbed \subseteq disturbed'
  BY DEF Begins, Emitted, Pending
<1>1. RowInv' /\ SrcInv' /\ EngineInv'
  BY <1>0 DEF RowInv, SrcInv, ProvInv, EngineInv
<1>2. ColInv'
  <2> SUFFICES ASSUME NEW c \in Columns, NEW k \in KeysOf(c), k \notin disturbed',
                      ~(c = "task" /\ Restarted(k, Emitted)'), ~Mirrored(c, k)'
               PROVE  Agrees(c, k)'
    BY DEF ColInv, KeysOf
  <2>1. Setters(c, k, Emitted)' = Setters(c, k, Emitted) /\ RowOf(c, k)' = RowOf(c, k)
        /\ Col(c, RowOf(c, k))' = Col(c, RowOf(c, k))
    BY <1>0 DEF Setters, Sets, KindOf, RowOf, Col
  <2>2. \A x : Outstanding(x, RowOf(c, k)) => x \in (spool \cup todo \cup retry \cup Pending)'
    BY <1>0 DEF Outstanding
  <2>3. ~Mirrored(c, k)
    <3> SUFFICES ASSUME NEW q \in Procs, At(q, "emit"), cmd[q].ev.key = k, Sets(c, cmd[q].ev),
                        cmd[q].ev.type # "created"
                 PROVE  FALSE
      BY DEF Mirrored
    <3>1. q # p
      BY DEF At, Begins
    <3>2. cmd'[q] = cmd[q]
      BY <3>1 DEF Begins, TypeInv
    <3>3. At(q, "emit")'
      BY <3>2 DEF At, Busy
    <3> QED BY <3>2, <3>3 DEF Mirrored, Sets, KindOf
  <2>4. Agrees(c, k)
    <3>1. ~(c = "task" /\ Restarted(k, Emitted))
      BY <1>0 DEF Restarted
    <3> QED BY <1>0, <2>3, <3>1 DEF ColInv
  <2> QED BY <2>1, <2>2, <2>4, StillAgrees
<1> QED BY <1>1, <1>2

(* Nor does the engine, at a step of a process. *)
LEMMA EngineTurns ==
    ASSUME EngineInv, NEW p \in Procs, NEW c, Turns(p, c)
    PROVE  EngineInv'
<1>1. UNCHANGED <<log, cursor, todo, retry>> /\ Pending' = Pending
  BY DEF Turns, Pending
<1> QED BY <1>1 DEF EngineInv

(* An event is applied to a row of column c and key k whose latest setter is L. *)
LEMMA AppliedAgrees ==
    ASSUME TypeInv, IdInv, BornInv, RowInv, SrcInv, NEW c \in Columns, NEW k \in KeysOf(c), k \notin disturbed,
           ~(c = "task" /\ Restarted(k, Emitted)), Agrees(c, k),
           NEW x \in log, Applies(x), x \in todo \cup retry,
           \A y \in spool \cup todo \cup retry \cup Pending :
                y # x => y.key \in disturbed' \/ y \in (spool \cup todo \cup retry \cup Pending)',
           k \notin disturbed'
    PROVE  Agrees(c, k)'
<1> DEFINE row == RowOf(c, k)
<1>0. /\ Emitted' = Emitted /\ log' = log /\ spool' = spool /\ x \in Emitted /\ log \subseteq Emitted
      /\ \A e \in Emitted : e.id \in Nat /\ e.id > 0
      /\ \A d, e \in Emitted : d.id = e.id => d = e
      /\ Setters(c, k, Emitted)' = Setters(c, k, Emitted)
  <2>1. Emitted' = Emitted /\ log' = log /\ spool' = spool /\ x \in Emitted /\ log \subseteq Emitted
    BY DEF Applies, Emitted
  <2> QED BY <2>1 DEF TypeInv, IdInv, Setters, Sets, KindOf
<1>1. RowHandled(c, k, row, row', x)
  BY HandleIs DEF Applies
<1>2. ProvInv(row)
  BY DEF SrcInv, RowOf, KeysOf
<1>3. CASE Setters(c, k, Emitted) = {} /\ Col(c, row) = Blank(c)
  <2>1. ~(Sets(c, x) /\ x.key = k)
    BY <1>0, <1>3 DEF Setters
  <2>2. Col(c, row') = Col(c, row)
    BY <1>1, <2>1 DEF RowHandled, Handled
  <2>3. Col(c, row)' = Col(c, row)
    BY <2>2 DEF Col
  <2> QED BY <1>0, <1>3, <2>3 DEF Agrees, Blank
<1>4. ASSUME NEW L, IsLatest(L, Setters(c, k, Emitted)), Col(c, row) = Val(c, L) \/ Outstanding(L, row)
      PROVE  Agrees(c, k)'
  <2>0. /\ L \in Emitted /\ Sets(c, L) /\ L.key = k
        /\ \A d \in Emitted : Sets(c, d) /\ d.key = k => d.id <= L.id
    BY <1>4 DEF IsLatest, Setters
  <2>1. IsLatest(L, Setters(c, k, Emitted)')
    BY <1>0, <1>4
  <2>a. ASSUME Col(c, row') = Val(c, L) PROVE Agrees(c, k)'
    <3>1. Col(c, row)' = Val(c, L)
      BY <2>a DEF Col
    <3> QED BY <2>1, <3>1 DEF Agrees, IsLatest, Val
  <2>b. ASSUME Outstanding(L, row)' PROVE Agrees(c, k)'
    BY <2>1, <2>b DEF Agrees, IsLatest
  <2>2. CASE ~(x.kind = KindOf(c) /\ x.key = k)
    <3>1. row' = row
      BY <1>1, <2>2 DEF RowHandled
    <3>2. L # x
      BY <2>0, <2>2 DEF Sets
    <3>3. CASE Col(c, row) = Val(c, L)
      BY <2>a, <3>1, <3>3
    <3>4. CASE Outstanding(L, row)
      <4>1. L \in (spool \cup todo \cup retry \cup Pending)'
        BY <2>0, <3>2, <3>4 DEF Outstanding
      <4> QED BY <2>b, <3>1, <3>4, <4>1 DEF Outstanding
    <3> QED BY <1>4, <3>3, <3>4
  <2>3. CASE x.kind = KindOf(c) /\ x.key = k /\ x = L
    <3>1. Handled(c, row, x, row')
      BY <1>1, <2>3 DEF RowHandled
    <3>2. CASE Col(c, row) = Val(c, L)
      <4>1. Col(c, row') = Val(c, L)
        BY <2>3, <3>1, <3>2 DEF Handled
      <4> QED BY <2>a, <4>1
    <3>3. CASE Outstanding(L, row)
      <4>1. ~AlreadyProcessed(row, x) /\ (x.type = "created" => row.status = Absent)
        BY <2>3, <3>3 DEF Outstanding, AlreadyProcessed
      <4>2. ASSUME c = "task", x.type = "started", row.status \in TASK_SETTLED PROVE FALSE
        <5>1. k \in Tasks /\ task[k].status \in TASK_SETTLED
          BY <4>2 DEF RowOf, KeysOf
        <5>2. PICK d \in Emitted : d.kind = "task" /\ d.key = k /\ d.type \in Ends
          BY <5>1 DEF RowInv
        <5>3. Sets(c, d)
          BY <4>2, <5>2 DEF Sets, KindOf
        <5>4. d.id <= x.id /\ d # x
          BY <2>0, <2>3, <4>2, <5>2, <5>3 DEF Ends
        <5>5. d.id < x.id
          BY <1>0, <5>4
        <5>6. Restarted(k, Emitted)
          BY <1>0, <2>3, <4>2, <5>2, <5>5 DEF Restarted, KindOf
        <5> QED BY <4>2, <5>6
      <4>3. Col(c, row') = Val(c, x)
        BY <2>0, <2>3, <3>1, <4>1, <4>2 DEF Handled
      <4> QED BY <2>3, <2>a, <4>3
    <3> QED BY <1>4, <3>2, <3>3
  <2>4. CASE x.kind = KindOf(c) /\ x.key = k /\ x # L
    <3>1. Handled(c, row, x, row') /\ x.id # L.id
      BY <1>0, <1>1, <2>0, <2>4 DEF RowHandled
    <3>2. Sets(c, x) => x.id < L.id
      BY <1>0, <2>0, <2>4, <3>1
    <3>3. L.type # "created" \/ ~Sets(c, x)
      BY <1>0, <2>0, <2>4, <3>2 DEF BornInv
    <3>4. L.type # "created"
      <4>1. L.type = "created" => c \in {"status", "task"}
        BY <2>0 DEF Sets, Columns
      <4>2. c \in {"status", "task"} => Sets(c, x)
        BY <2>4 DEF Sets
      <4> QED BY <3>3, <4>1, <4>2
    <3>5. L.id # row.src /\ L.id # row'.src
      <4>1. L.id # row.src
        BY <1>0, <1>2, <2>0, <3>4 DEF ProvInv
      <4> QED BY <3>1, <4>1 DEF Handled
    <3>6. CASE L.id # row'.last /\ L \in (spool \cup todo \cup retry \cup Pending)'
      <4>1. Outstanding(L, row)'
        BY <3>4, <3>5, <3>6 DEF Outstanding
      <4> QED BY <2>b, <4>1
    <3>7. CASE Outstanding(L, row)
      <4>1. L \in (spool \cup todo \cup retry \cup Pending)'
        BY <2>0, <2>4, <3>7 DEF Outstanding
      <4>2. L.id # row'.last
        BY <3>1, <3>7 DEF Outstanding, Handled
      <4> QED BY <3>6, <4>1, <4>2
    <3>8. CASE Col(c, row) = Val(c, L)
      <4>1. CASE Col(c, row') = Col(c, row)
        BY <2>a, <3>8, <4>1
      <4>2. CASE Sets(c, x) /\ row'.last = x.id
        <5>1. x.id < L.id /\ L.id # row'.last
          BY <3>1, <3>2, <4>2
        <5>2. L \in spool \/ L \in log
          BY <2>0 DEF Emitted
        <5>3. cursor'[L.kind] = x.id
          BY <2>0, <2>4 DEF Applies, TypeInv, Sets, KindOf, Kinds
        <5>4. L \in log => L \in Pending'
          BY <1>0, <2>0, <5>1, <5>3 DEF Pending
        <5> QED BY <1>0, <3>6, <5>1, <5>2, <5>4
      <4> QED BY <3>1, <4>1, <4>2 DEF Handled
    <3> QED BY <1>4, <3>7, <3>8
  <2> QED BY <2>2, <2>3, <2>4
<1> QED BY <1>3, <1>4 DEF Agrees

LEMMA ColProject ==
    ASSUME TypeInv, FlightInv, EngineInv, RowInv, SrcInv, ColInv, Project
    PROVE  ColInv'
<1> SUFFICES ASSUME NEW c \in Columns, NEW k \in KeysOf(c), k \notin disturbed',
                    ~(c = "task" /\ Restarted(k, Emitted)'), ~Mirrored(c, k)'
             PROVE  Agrees(c, k)'
  BY DEF ColInv, KeysOf
<1> DEFINE row == RowOf(c, k)
           Left == spool \cup todo \cup retry \cup Pending
<1>0. /\ cmd' = cmd /\ Emitted' = Emitted /\ k \notin disturbed
      /\ Setters(c, k, Emitted)' = Setters(c, k, Emitted)
      /\ IdInv /\ BornInv
      /\ todo \subseteq log /\ retry \subseteq log /\ spool \cap log = {} /\ cursor \in [Kinds -> Nat]
      /\ \A e \in Emitted : e.kind \in Kinds /\ e.id \in Nat /\ e.id > 0
      /\ \A d, e \in Emitted : d.id = e.id => d = e
  <2>1. cmd' = cmd /\ Emitted' = Emitted /\ k \notin disturbed
    BY ProjectKeeps
  <2>2. \A e \in Emitted : e.kind \in Kinds /\ e.id \in Nat /\ e.id > 0
    BY DEF TypeInv, IsEvent, Kinds
  <2> QED BY <2>1, <2>2 DEF Setters, Sets, KindOf, TypeInv, FlightInv, IdInv
<1>1. Agrees(c, k)
  <2>1. ~Mirrored(c, k)
    BY <1>0 DEF Mirrored, At, Busy, Sets, KindOf
  <2>2. ~(c = "task" /\ Restarted(k, Emitted))
    BY <1>0 DEF Restarted
  <2> QED BY <1>0, <2>1, <2>2 DEF ColInv
<1>2. ASSUME UNCHANGED <<wo, task>>, \A y \in Left : y.key \in disturbed' \/ y \in Left'
      PROVE  Agrees(c, k)'
  <2>1. row' = row
    BY <1>2 DEF RowOf
  <2>2. CASE Setters(c, k, Emitted) = {} /\ Col(c, row) = Blank(c)
    BY <1>0, <2>1, <2>2 DEF Agrees, Blank, Col
  <2>3. ASSUME NEW x, IsLatest(x, Setters(c, k, Emitted)), Col(c, row) = Val(c, x) \/ Outstanding(x, row)
        PROVE  Agrees(c, k)'
    <3>1. x.key = k
      BY <2>3 DEF IsLatest, Setters
    <3>2. Outstanding(x, row) => Outstanding(x, row)'
      BY <1>2, <2>1, <3>1 DEF Outstanding
    <3>3. Col(c, row)' = Col(c, row)
      BY <2>1 DEF Col
    <3> QED BY <1>0, <2>3, <3>2, <3>3 DEF Agrees, IsLatest, Val
  <2> QED BY <1>1, <2>2, <2>3 DEF Agrees
<1>3. CASE Ingest
  <2>1. /\ log' = log \cup spool /\ spool' = {} /\ UNCHANGED <<wo, task, cursor, todo, retry>>
        /\ disturbed' = disturbed \cup {e.key : e \in Overtaken}
    BY <1>3 DEF Ingest, rows
  <2>2. ASSUME NEW y \in Left PROVE y.key \in disturbed' \/ y \in Left'
    <3>1. CASE y \in todo \cup retry \cup Pending
      BY <2>1, <3>1 DEF Pending
    <3>2. CASE y \in spool /\ y.id > cursor[y.kind]
      BY <2>1, <3>2 DEF Pending
    <3>3. CASE y \in spool /\ ~(y.id > cursor[y.kind])
      <4>1. y.kind \in Kinds /\ y.id > 0 /\ y.id \in Nat /\ cursor[y.kind] \in Nat
        BY <1>0, <3>3 DEF Emitted
      <4>2. cursor[y.kind] # 0 /\ y.id <= cursor[y.kind]
        BY <3>3, <4>1
      <4>3. PICK d \in log : d.kind = y.kind /\ d.id = cursor[y.kind]
        BY <4>1, <4>2 DEF EngineInv
      <4>4. d.id # y.id
        BY <1>0, <3>3 DEF Emitted
      <4>5. d.id > y.id
        BY <4>1, <4>2, <4>3, <4>4
      <4>6. y \in Overtaken
        BY <3>3, <4>3, <4>5 DEF Overtaken
      <4> QED BY <2>1, <4>6
    <3> QED BY <3>1, <3>2, <3>3
  <2> QED BY <1>2, <2>1, <2>2
<1>4. CASE Select
  <2>1. todo = {} /\ UNCHANGED <<wo, task, spool, log, cursor, retry>> /\ Pending' = Pending
    BY <1>4 DEF Select, rows, Pending
  <2> QED BY <1>2, <2>1
<1>5. ASSUME NEW x \in todo, Applies(x), todo' = todo \ {x}, UNCHANGED <<retry, disturbed>>
      PROVE  Agrees(c, k)'
  <2>0. x \in log /\ log' = log /\ spool' = spool /\ cursor' = [cursor EXCEPT ![x.kind] = x.id]
    BY <1>0, <1>5 DEF Applies
  <2>1. ASSUME NEW y \in Left, y # x PROVE y \in Left'
    <3>1. CASE y \in spool \cup todo \cup retry
      BY <1>5, <2>0, <2>1, <3>1
    <3>2. CASE y \in Pending
      <4>1. y \in todo \cup retry
        BY <1>5, <3>2 DEF EngineInv
      <4> QED BY <2>1, <3>1, <4>1
    <3> QED BY <3>1, <3>2
  <2> QED BY <1>0, <1>1, <1>5, <2>0, <2>1, AppliedAgrees DEF Restarted
<1>6. ASSUME NEW x \in todo, todo' = todo \ {x}, retry' = retry \cup {x},
             UNCHANGED <<wo, task, ms, cursor, spool, log, disturbed>>
      PROVE  Agrees(c, k)'
  <2>1. Pending' = Pending
    BY <1>6 DEF Pending
  <2> QED BY <1>2, <1>6, <2>1
<1>7. ASSUME NEW x \in retry, Applies(x), todo = {}, retry' = retry \ {x}, todo' = todo,
             disturbed' = disturbed \cup {d.key : d \in Passed(x)}
      PROVE  Agrees(c, k)'
  <2>0. x \in log /\ log' = log /\ spool' = spool /\ cursor' = [cursor EXCEPT ![x.kind] = x.id]
    BY <1>0, <1>7 DEF Applies
  <2>1. ASSUME NEW y \in Left, y # x PROVE y.key \in disturbed' \/ y \in Left'
    <3>1. CASE y \in spool \cup retry
      BY <1>7, <2>0, <2>1, <3>1
    <3>2. CASE y \in Pending /\ y \notin retry
      <4>1. y \in log /\ y.id \in Nat /\ x.id \in Nat /\ y.id # x.id /\ y.id > cursor[y.kind]
        BY <1>0, <2>0, <2>1, <3>2 DEF Pending, Emitted
      <4>2. CASE y.kind = x.kind /\ y.id < x.id
        <5>1. y \in Passed(x)
          BY <3>2, <4>2 DEF Passed
        <5> QED BY <1>7, <5>1
      <4>3. CASE y.kind = x.kind /\ ~(y.id < x.id)
        <5>1. y.id > x.id /\ cursor'[y.kind] = x.id
          BY <1>0, <2>0, <4>1, <4>3 DEF Emitted
        <5> QED BY <2>0, <4>1, <5>1 DEF Pending
      <4>4. CASE y.kind # x.kind
        <5>1. cursor'[y.kind] = cursor[y.kind]
          BY <1>0, <2>0, <4>1, <4>4 DEF Emitted
        <5> QED BY <2>0, <4>1, <5>1 DEF Pending
      <4> QED BY <4>2, <4>3, <4>4
    <3> QED BY <1>7, <3>1, <3>2
  <2> QED BY <1>0, <1>1, <1>7, <2>0, <2>1, AppliedAgrees DEF Restarted
<1> QED BY <1>3, <1>4, <1>5, <1>6, <1>7, ProjectIs

-----------------------------------------------------------------------------
(* What a rebuild makes of a history.                                      *)

(* Every non-empty set of naturals has a least element. *)
LEMMA LeastElement ==
    ASSUME NEW S \in SUBSET Nat, S # {}
    PROVE  \E m \in S : \A k \in S : m <= k
<1>1. PICK m \in S : \A k \in S : ~ <<k, m>> \in OpToRel(<, Nat)
  BY NatLessThanWellFounded, WFMin
<1>2. \A k \in S : ~ (k < m)
  BY <1>1 DEF OpToRel
<1> QED BY <1>2

(* The latest timestamp of a history. *)
LEMMA LastIdIs ==
    ASSUME NEW T, NEW n \in Nat, \A e \in T : e.id \in 1..n
    PROVE  /\ LastId(T) \in Nat /\ \A e \in T : e.id <= LastId(T)
           /\ T # {} => \E e \in T : e.id = LastId(T)
<1>1. CASE T = {}
  BY <1>1 DEF LastId
<1>2. CASE T # {}
  <2> DEFINE Ups == {m \in 0..n : \A e \in T : e.id <= m}
  <2>1. n \in Ups /\ Ups \in SUBSET Nat
    OBVIOUS
  <2>2. PICK m \in Ups : \A k \in Ups : m <= k
    <3> HIDE DEF Ups
    <3> QED BY <2>1, LeastElement
  <2>3. m \in Nat /\ \A e \in T : e.id <= m
    OBVIOUS
  <2>4. PICK x : x \in T
    BY <1>2
  <2>5. m > 0
    <3>1. x.id \in 1..n /\ x.id <= m
      BY <2>3, <2>4
    <3> QED BY <2>3, <3>1
  <2>6. ASSUME \A e \in T : e.id # m PROVE FALSE
    <3>1. m - 1 \in 0..n
      BY <2>5
    <3>2. ASSUME NEW e \in T PROVE e.id <= m - 1
      <4>1. e.id \in 1..n /\ e.id <= m /\ e.id # m
        BY <2>3, <2>6
      <4> QED BY <2>3, <4>1
    <3>3. m - 1 \in Ups
      BY <3>1, <3>2
    <3>4. m <= m - 1
      <4> HIDE DEF Ups
      <4> QED BY <2>2, <3>3
    <3> QED BY <2>3, <3>4
  <2>7. \E k \in {e.id : e \in T} : \A e \in T : e.id <= k
    BY <2>3, <2>6
  <2>8. LastId(T) \in {e.id : e \in T} /\ \A e \in T : e.id <= LastId(T)
    BY <1>2, <2>7 DEF LastId
  <2> QED BY <2>8
<1> QED BY <1>1, <1>2

(* The events of one row, the row before them, and the row after the event of
   timestamp n.                                                              *)
Mine(c, k, S) == {e \in S : e.kind = KindOf(c) /\ e.key = k}
Start(c) == IF c = "task" THEN NoTask ELSE NoWorkOrder
Hand(c, row, e) == IF c = "task" THEN HandleTask(row, e) ELSE HandleWorkOrder(row, e)
Onward(c, T, row, n) == IF \E e \in T : e.id = n THEN Hand(c, row, CHOOSE e \in T : e.id = n) ELSE row

(* f[n] is the row after the events of T up to n. *)
Replays(f, c, T, m) == f = [n \in 0..m |-> IF n = 0 THEN Start(c) ELSE Onward(c, T, f[n - 1], n)]

(* The recursive function of a rebuild exists. *)
LEMMA ReplayExists ==
    ASSUME NEW c, NEW T, NEW L \in Nat
    PROVE  \E f : Replays(f, c, T, L)
<1> DEFINE Bad == {m \in 0..L : ~ \E f : Replays(f, c, T, m)}
<1>0. Bad \in SUBSET Nat /\ L \in 0..L
  OBVIOUS
<1> SUFFICES ASSUME Bad # {} PROVE FALSE
  BY <1>0
<1>1. PICK m \in Bad : \A k \in Bad : m <= k
  <2> HIDE DEF Bad
  <2> QED BY <1>0, LeastElement
<1>2. m \in 0..L /\ ~ \E f : Replays(f, c, T, m)
  OBVIOUS
<1>3. CASE m = 0
  <2> DEFINE u == [i \in 0..0 |-> Start(c)]
  <2>1. Replays(u, c, T, 0)
    BY DEF Replays
  <2> QED BY <1>2, <1>3, <2>1
<1>4. CASE m > 0
  <2>1. m - 1 \in 0..L /\ m - 1 \notin Bad
    <3>1. m - 1 \in 0..L /\ ~ (m <= m - 1)
      BY <1>2, <1>4
    <3> HIDE DEF Bad
    <3> QED BY <1>1, <3>1
  <2>2. PICK u : Replays(u, c, T, m - 1)
    BY <2>1
  <2> DEFINE v == [i \in 0..m |-> IF i = m THEN Onward(c, T, u[m - 1], m) ELSE u[i]]
  <2>3. ASSUME NEW i \in 0..m PROVE v[i] = IF i = 0 THEN Start(c) ELSE Onward(c, T, v[i - 1], i)
    <3>1. CASE i = m
      <4>1. m - 1 \in 0..m /\ m - 1 # m /\ m \in 0..m /\ m # 0
        BY <1>2, <1>4
      <4> QED BY <3>1, <4>1
    <3>2. CASE i # m
      <4>1. i \in 0..(m - 1) /\ v[i] = u[i]
        BY <1>2, <1>4, <3>2
      <4>2. i # 0 => i - 1 \in 0..m /\ i - 1 # m /\ v[i - 1] = u[i - 1]
        BY <1>2, <1>4, <4>1
      <4> HIDE DEF v
      <4> QED BY <2>2, <4>1, <4>2 DEF Replays
    <3> QED BY <3>1, <3>2
  <2>4. Replays(v, c, T, m)
    BY <2>3 DEF Replays
  <2> QED BY <1>2, <2>4
<1> QED BY <1>2, <1>3, <1>4

(* The row a rebuild makes. *)
Replay(c, k, S) == IF c = "task" THEN ReplayTask(S, k) ELSE ReplayWorkOrder(S, k)

LEMMA ReplayIs ==
    ASSUME NEW c, NEW k, NEW S, LastId(Mine(c, k, S)) \in Nat
    PROVE  \E f : Replays(f, c, Mine(c, k, S), LastId(Mine(c, k, S))) /\ Replay(c, k, S) = f[LastId(Mine(c, k, S))]
<1> DEFINE T == Mine(c, k, S)
           L == LastId(T)
<1>1. \E f : Replays(f, c, T, L)
  BY ReplayExists
<1>2. CASE c = "task"
  <2>0. T = {e \in S : e.kind = "task" /\ e.key = k}
    BY <1>2 DEF Mine, KindOf
  <2> DEFINE U == CHOOSE f : f = [n \in 0..L |->
                    IF n = 0 THEN NoTask
                    ELSE IF \E e \in T : e.id = n THEN HandleTask(f[n - 1], CHOOSE e \in T : e.id = n)
                    ELSE f[n - 1]]
  <2>1. ReplayTask(S, k) = U[L]
    BY <2>0 DEF ReplayTask
  <2>2. \A f : Replays(f, c, T, L) <=>
                 f = [n \in 0..L |->
                    IF n = 0 THEN NoTask
                    ELSE IF \E e \in T : e.id = n THEN HandleTask(f[n - 1], CHOOSE e \in T : e.id = n)
                    ELSE f[n - 1]]
    <3> HIDE DEF T, L
    <3> QED BY <1>2 DEF Replays, Start, Onward, Hand
  <2>3. Replays(U, c, T, L)
    <3> HIDE DEF T, L
    <3> QED BY <1>1, <2>2
  <2> QED BY <1>2, <2>1, <2>3 DEF Replay
<1>3. CASE c # "task"
  <2>0. T = {e \in S : e.kind = "wo" /\ e.key = k}
    BY <1>3 DEF Mine, KindOf
  <2> DEFINE U == CHOOSE f : f = [n \in 0..L |->
                    IF n = 0 THEN NoWorkOrder
                    ELSE IF \E e \in T : e.id = n THEN HandleWorkOrder(f[n - 1], CHOOSE e \in T : e.id = n)
                    ELSE f[n - 1]]
  <2>1. ReplayWorkOrder(S, k) = U[L]
    BY <2>0 DEF ReplayWorkOrder
  <2>2. \A f : Replays(f, c, T, L) <=>
                 f = [n \in 0..L |->
                    IF n = 0 THEN NoWorkOrder
                    ELSE IF \E e \in T : e.id = n THEN HandleWorkOrder(f[n - 1], CHOOSE e \in T : e.id = n)
                    ELSE f[n - 1]]
    <3> HIDE DEF T, L
    <3> QED BY <1>3 DEF Replays, Start, Onward, Hand
  <2>3. Replays(U, c, T, L)
    <3> HIDE DEF T, L
    <3> QED BY <1>1, <2>2
  <2> QED BY <1>3, <2>1, <2>3 DEF Replay
<1> QED BY <1>2, <1>3

(* T is the history of a row of column c. *)
History(c, T) == \A e \in T : IsEvent(e) /\ e.kind = KindOf(c) /\ e.id \in Nat /\ e.id > 0

(* What holds of a row after the events of T up to n. *)
Kept(c, row, T, n) ==
    /\ row \in RowTypes(c) /\ row.src <= n /\ row.last <= n
    /\ row.last # 0 => \E e \in T : e.id = row.last
    /\ row.src # 0 => \E e \in T : e.id = row.src /\ e.type = "created"
    /\ row.status # Absent => \E e \in T : e.id <= n
    /\ c = "task" /\ row.status \in TASK_SETTLED => \E e \in T : e.type \in Ends /\ e.id <= n

(* A handler, whichever the table. *)
LEMMA HandIs ==
    ASSUME NEW c \in Columns, NEW row \in RowTypes(c), NEW e, IsEvent(e), e.kind = KindOf(c), e.id \in Nat
    PROVE  /\ Hand(c, row, e) \in RowTypes(c)
           /\ Handled(c, row, e, Hand(c, row, e))
           /\ c = "task" => \/ Hand(c, row, e).status = row.status
                            \/ Hand(c, row, e).status = TASK_EVENT_STATUS[e.type]
<1>1. CASE c = "task"
  <2>1. row \in TaskRows /\ e.kind = "task" /\ Hand(c, row, e) = HandleTask(row, e)
    BY <1>1 DEF RowTypes, KindOf, Hand
  <2> QED BY <1>1, <2>1, HandlesTask DEF RowTypes
<1>2. CASE c # "task"
  <2>1. row \in WoRows /\ e.kind = "wo" /\ Hand(c, row, e) = HandleWorkOrder(row, e) /\ c \in WoColumns
    BY <1>2 DEF RowTypes, KindOf, Hand, Columns, WoColumns
  <2> QED BY <1>2, <2>1, HandlesWorkOrder DEF RowTypes
<1> QED BY <1>1, <1>2

(* One more event keeps it. *)
LEMMA OnwardKeeps ==
    ASSUME NEW c \in Columns, NEW T, History(c, T), NEW n \in Nat, n > 0, NEW row, Kept(c, row, T, n - 1)
    PROVE  Kept(c, Onward(c, T, row, n), T, n)
<1>0. row \in RowTypes(c) /\ row.src \in Nat /\ row.last \in Nat /\ row.src <= n - 1 /\ row.last <= n - 1
  BY DEF Kept, RowTypes, WoRows, TaskRows
<1>a. \A e \in T : e.id \in Nat /\ (e.id <= n - 1 => e.id <= n)
  BY DEF History
<1>1. CASE ~ \E e \in T : e.id = n
  <2>1. Onward(c, T, row, n) = row
    BY <1>1 DEF Onward
  <2> QED BY <1>0, <1>a, <2>1 DEF Kept
<1>2. CASE \E e \in T : e.id = n
  <2>1. PICK e \in T : e.id = n /\ Onward(c, T, row, n) = Hand(c, row, e)
    BY <1>2 DEF Onward
  <2>2. PICK r : r = Hand(c, row, e)
    OBVIOUS
  <2>3. IsEvent(e) /\ e.kind = KindOf(c) /\ e.id \in Nat
    BY DEF History
  <2>4. /\ r \in RowTypes(c) /\ Handled(c, row, e, r)
        /\ c = "task" => r.status = row.status \/ r.status = TASK_EVENT_STATUS[e.type]
    BY <1>0, <2>2, <2>3, HandIs
  <2>5. /\ r.last \in {row.last, e.id}
        /\ r.src = row.src \/ (r.src = e.id /\ e.type = "created")
    BY <2>4 DEF Handled
  <2>6. r.src <= n /\ r.last <= n
    BY <1>0, <2>1, <2>5
  <2>7. /\ r.last # 0 => \E d \in T : d.id = r.last
        /\ r.src # 0 => \E d \in T : d.id = r.src /\ d.type = "created"
    BY <2>1, <2>5 DEF Kept
  <2>8. ASSUME c = "task", r.status \in TASK_SETTLED PROVE \E d \in T : d.type \in Ends /\ d.id <= n
    <3>1. CASE r.status = row.status
      BY <1>a, <2>8, <3>1 DEF Kept
    <3>2. CASE r.status = TASK_EVENT_STATUS[e.type]
      <4>1. e.type \in Ends
        BY <2>3, <2>8, <3>2, TaskEvents DEF IsEvent, KindOf, TASK_SETTLED, Ends
      <4> QED BY <2>1, <4>1
    <3> QED BY <2>4, <2>8, <3>1, <3>2
  <2> QED BY <2>1, <2>2, <2>4, <2>6, <2>7, <2>8 DEF Kept
<1> QED BY <1>1, <1>2

(* A rebuilt row is one, and knows the events it was made from. *)
LEMMA ReplayKeeps ==
    ASSUME NEW c \in Columns, NEW T, History(c, T), NEW L \in Nat, NEW f, Replays(f, c, T, L)
    PROVE  \A n \in 0..L : Kept(c, f[n], T, n)
<1> DEFINE Bad == {n \in 0..L : ~ Kept(c, f[n], T, n)}
<1>0. Bad \in SUBSET Nat
  OBVIOUS
<1> SUFFICES ASSUME Bad # {} PROVE FALSE
  OBVIOUS
<1>1. PICK n \in Bad : \A k \in Bad : n <= k
  <2> HIDE DEF Bad
  <2> QED BY <1>0, LeastElement
<1>2. n \in 0..L /\ ~ Kept(c, f[n], T, n)
  OBVIOUS
<1>3. CASE n = 0
  <2>1. f[0] = Start(c)
    BY DEF Replays
  <2>2. Start(c) \in RowTypes(c) /\ Start(c).status = Absent /\ Start(c).src = 0 /\ Start(c).last = 0
    BY DEF Start, RowTypes, NoTask, NoWorkOrder, TaskRows, WoRows
  <2>3. Absent \notin TASK_SETTLED
    BY DEF Absent, TASK_SETTLED
  <2> QED BY <1>2, <1>3, <2>1, <2>2, <2>3 DEF Kept
<1>4. CASE n > 0
  <2>1. n - 1 \in 0..L /\ n - 1 \notin Bad
    <3>1. n - 1 \in 0..L /\ ~ (n <= n - 1)
      BY <1>2, <1>4
    <3> HIDE DEF Bad
    <3> QED BY <1>1, <3>1
  <2>2. Kept(c, f[n - 1], T, n - 1)
    BY <2>1
  <2>3. f[n] = Onward(c, T, f[n - 1], n)
    BY <1>2, <1>4 DEF Replays
  <2> QED BY <1>2, <1>4, <2>2, <2>3, OnwardKeeps
<1> QED BY <1>2, <1>3, <1>4

(* The row's column shows the latest event of T up to n that sets it. *)
SetBy(c, T, n) == {e \in T : Sets(c, e) /\ e.id <= n}
Shows(c, row, T, n) ==
    \/ SetBy(c, T, n) = {} /\ Col(c, row) = Blank(c)
    \/ \E x : IsLatest(x, SetBy(c, T, n)) /\ Col(c, row) = Val(c, x)

(* A history whose timestamps differ, that begins with its creation and, a
   task's, ends with its end.                                                *)
Orderly(c, T) ==
    /\ \A d, e \in T : d.id = e.id => d = e
    /\ \A d, e \in T : d.type = "created" => d.id <= e.id
    /\ c = "task" => \A d, e \in T : d.type \in Ends /\ e.type = "started" => ~ (d.id < e.id)

LEMMA OnwardShows ==
    ASSUME NEW c \in Columns, NEW T, History(c, T), Orderly(c, T), NEW n \in Nat, n > 0,
           NEW row, Kept(c, row, T, n - 1), Shows(c, row, T, n - 1)
    PROVE  Shows(c, Onward(c, T, row, n), T, n)
<1>0. row \in RowTypes(c) /\ row.src \in Nat /\ row.last \in Nat /\ row.src <= n - 1 /\ row.last <= n - 1
  BY DEF Kept, RowTypes, WoRows, TaskRows
<1>a. \A e \in T : e.id \in Nat /\ (e.id # n => (e.id <= n - 1 <=> e.id <= n))
  BY DEF History
<1>1. CASE ~ \E e \in T : e.id = n
  <2>1. Onward(c, T, row, n) = row
    BY <1>1 DEF Onward
  <2>2. SetBy(c, T, n) = SetBy(c, T, n - 1)
    BY <1>a, <1>1 DEF SetBy
  <2> QED BY <2>1, <2>2 DEF Shows
<1>2. CASE \E e \in T : e.id = n
  <2>1. PICK e \in T : e.id = n /\ Onward(c, T, row, n) = Hand(c, row, e)
    BY <1>2 DEF Onward
  <2>2. PICK r : r = Hand(c, row, e)
    OBVIOUS
  <2>3. IsEvent(e) /\ e.kind = KindOf(c) /\ e.id \in Nat
    BY DEF History
  <2>4. Handled(c, row, e, r)
    BY <1>0, <2>2, <2>3, HandIs
  <2>5. CASE ~Sets(c, e)
    <3>1. SetBy(c, T, n) = SetBy(c, T, n - 1)
      <4>1. ASSUME NEW d \in T, Sets(c, d) PROVE d.id <= n - 1 <=> d.id <= n
        <5>1. d.id # n
          BY <2>1, <2>5, <4>1 DEF Orderly
        <5> QED BY <1>a, <5>1
      <4> QED BY <4>1 DEF SetBy
    <3>2. Col(c, r) = Col(c, row)
      BY <2>4, <2>5 DEF Handled
    <3> QED BY <2>1, <2>2, <3>1, <3>2 DEF Shows
  <2>6. CASE Sets(c, e)
    <3>1. ~AlreadyProcessed(row, e)
      BY <1>0, <2>1 DEF AlreadyProcessed
    <3>2. e.type = "created" => row.status = Absent
      <4> SUFFICES ASSUME e.type = "created", row.status # Absent PROVE FALSE
        OBVIOUS
      <4>1. PICK d \in T : d.id <= n - 1
        BY DEF Kept
      <4>2. n <= d.id /\ d.id \in Nat
        BY <1>a, <2>1 DEF Orderly
      <4> QED BY <4>1, <4>2
    <3>3. c = "task" /\ e.type = "started" => row.status \notin TASK_SETTLED
      <4> SUFFICES ASSUME c = "task", e.type = "started", row.status \in TASK_SETTLED PROVE FALSE
        OBVIOUS
      <4>1. PICK d \in T : d.type \in Ends /\ d.id <= n - 1
        BY DEF Kept
      <4>2. d.id < e.id
        BY <1>a, <2>1, <4>1
      <4> QED BY <4>1, <4>2 DEF Orderly
    <3>4. Col(c, r) = Val(c, e)
      BY <2>4, <2>6, <3>1, <3>2, <3>3 DEF Handled
    <3>5. IsLatest(e, SetBy(c, T, n))
      BY <2>1, <2>6 DEF IsLatest, SetBy
    <3> QED BY <2>1, <2>2, <3>4, <3>5 DEF Shows
  <2> QED BY <2>5, <2>6
<1> QED BY <1>1, <1>2

LEMMA ReplayShows ==
    ASSUME NEW c \in Columns, NEW T, History(c, T), Orderly(c, T), NEW L \in Nat, NEW f, Replays(f, c, T, L)
    PROVE  \A n \in 0..L : Shows(c, f[n], T, n)
<1> DEFINE Bad == {n \in 0..L : ~ Shows(c, f[n], T, n)}
<1>0. Bad \in SUBSET Nat
  OBVIOUS
<1> SUFFICES ASSUME Bad # {} PROVE FALSE
  OBVIOUS
<1>1. PICK n \in Bad : \A k \in Bad : n <= k
  <2> HIDE DEF Bad
  <2> QED BY <1>0, LeastElement
<1>2. n \in 0..L /\ ~ Shows(c, f[n], T, n)
  OBVIOUS
<1>3. CASE n = 0
  <2>1. f[0] = Start(c)
    BY DEF Replays
  <2>2. Col(c, Start(c)) = Blank(c)
    BY DEF Start, Col, Blank, NoTask, NoWorkOrder, Columns
  <2>3. SetBy(c, T, 0) = {}
    BY DEF SetBy, History
  <2> QED BY <1>2, <1>3, <2>1, <2>2, <2>3 DEF Shows
<1>4. CASE n > 0
  <2>1. n - 1 \in 0..L /\ n - 1 \notin Bad
    <3>1. n - 1 \in 0..L /\ ~ (n <= n - 1)
      BY <1>2, <1>4
    <3> HIDE DEF Bad
    <3> QED BY <1>1, <3>1
  <2>2. Shows(c, f[n - 1], T, n - 1) /\ Kept(c, f[n - 1], T, n - 1)
    BY <2>1, ReplayKeeps
  <2>3. f[n] = Onward(c, T, f[n - 1], n)
    BY <1>2, <1>4 DEF Replays
  <2> QED BY <1>2, <1>4, <2>2, <2>3, OnwardShows
<1> QED BY <1>2, <1>3, <1>4

(* What a rebuild makes of the events S for the row of column c and key k. *)
LEMMA ReplayRow ==
    ASSUME NEW c \in Columns, NEW k, NEW S, NEW n \in Nat, \A e \in S : IsEvent(e) /\ e.id \in 1..n
    PROVE  /\ Replay(c, k, S) \in RowTypes(c)
           /\ Replay(c, k, S).last # 0 => \E e \in S : e.id = Replay(c, k, S).last
           /\ Replay(c, k, S).src # 0 => \E e \in S : e.id = Replay(c, k, S).src /\ e.type = "created"
           /\ Replay(c, k, S).status # Absent => \E e \in S : e.key = k
           /\ c = "task" /\ Replay(c, k, S).status \in TASK_SETTLED =>
                \E e \in S : e.kind = "task" /\ e.key = k /\ e.type \in Ends
           /\ Orderly(c, Mine(c, k, S)) =>
                \/ Setters(c, k, S) = {} /\ Col(c, Replay(c, k, S)) = Blank(c)
                \/ \E x : IsLatest(x, Setters(c, k, S)) /\ Col(c, Replay(c, k, S)) = Val(c, x)
<1>1. PICK T : T = Mine(c, k, S)
  OBVIOUS
<1>2. /\ \A e \in T : e \in S /\ e.kind = KindOf(c) /\ e.key = k
      /\ History(c, T)
  BY <1>1 DEF Mine, History
<1>3. PICK L : L = LastId(T)
  OBVIOUS
<1>4. L \in Nat /\ \A e \in T : e.id <= L
  BY <1>2, <1>3, LastIdIs
<1>5. PICK f : Replays(f, c, T, L) /\ Replay(c, k, S) = f[L]
  BY <1>1, <1>3, <1>4, ReplayIs
<1>6. Kept(c, Replay(c, k, S), T, L)
  <2>1. L \in 0..L
    BY <1>4
  <2> QED BY <1>2, <1>4, <1>5, <2>1, ReplayKeeps
<1>7. c = "task" => KindOf(c) = "task"
  BY DEF KindOf
<1>8. ASSUME Orderly(c, T)
      PROVE  \/ Setters(c, k, S) = {} /\ Col(c, Replay(c, k, S)) = Blank(c)
             \/ \E x : IsLatest(x, Setters(c, k, S)) /\ Col(c, Replay(c, k, S)) = Val(c, x)
  <2>1. Shows(c, Replay(c, k, S), T, L)
    <3>1. L \in 0..L
      BY <1>4
    <3> QED BY <1>2, <1>4, <1>5, <1>8, <3>1, ReplayShows
  <2>2. SetBy(c, T, L) = Setters(c, k, S)
    BY <1>1, <1>4 DEF SetBy, Setters, Mine, Sets
  <2> QED BY <2>1, <2>2 DEF Shows
<1> QED BY <1>1, <1>2, <1>6, <1>7, <1>8 DEF Kept

-----------------------------------------------------------------------------
(* The theorems.                                                           *)

Inv == TypeInv /\ FlightInv /\ EngineInv /\ RowInv /\ SrcInv /\ ColInv

LEMMA InvInit ==
    ASSUME Init
    PROVE  Inv
<1>1. PICK k \in 0..Len(Past) :
          /\ log = {Past[i] : i \in 1..k} /\ clock = k
          /\ cursor = [d \in Kinds |-> LastId({e \in log : e.kind = d})]
  BY DEF Init
<1>2. /\ k \in Nat /\ spool = {} /\ todo = {} /\ retry = {} /\ carried = {} /\ disturbed = {} /\ ms = "pending"
      /\ Emitted = log
      /\ budget \in Nat /\ faults \in Nat
      /\ wo = [w \in WorkOrderIds |-> ReplayWorkOrder(log, w)]
      /\ task = [t \in Tasks |-> ReplayTask(log, t)]
      /\ cmd = [p \in Procs |-> Idle]
  BY PastAssumption, BoundsAssumption DEF Init, Emitted
<1>3. \A i \in 1..k : i \in DOMAIN Past
  BY PastAssumption
<1>4. \A e \in log : IsEvent(e) /\ e.id \in 1..clock
  BY <1>1, <1>3, PastAssumption
<1>5. \A d, e \in log : d.id = e.id => d = e
  BY <1>1, <1>3, PastAssumption
<1>6. \A d, e \in log : d.type = "created" /\ d.key = e.key => d.id <= e.id
  BY <1>1, <1>3, PastAssumption
<1>7. ASSUME NEW d \in Kinds
      PROVE  cursor[d] \in Nat /\ \A e \in log : e.kind = d => e.id <= cursor[d]
  <2>1. cursor[d] = LastId({e \in log : e.kind = d})
    BY <1>1
  <2> QED BY <1>1, <1>2, <1>4, <2>1, LastIdIs
<1>8. ASSUME NEW d \in Kinds, cursor[d] # 0
      PROVE  \E e \in log : e.kind = d /\ e.id = cursor[d]
  <2>1. PICK T : T = {e \in log : e.kind = d}
    OBVIOUS
  <2>2. cursor[d] = LastId(T) /\ T # {}
    BY <1>1, <1>8, <2>1 DEF LastId
  <2>3. \E e \in T : e.id = LastId(T)
    BY <1>1, <1>2, <1>4, <2>1, <2>2, LastIdIs
  <2> QED BY <2>1, <2>2, <2>3
<1>9. Pending = {}
  <2>1. \A e \in log : e.kind \in Kinds /\ e.id \in Nat
    BY <1>4 DEF IsEvent, Kinds
  <2> QED BY <1>7, <2>1 DEF Pending
<1>10. ASSUME NEW c \in Columns, NEW j \in KeysOf(c) PROVE RowOf(c, j) = Replay(c, j, log)
  BY <1>2 DEF RowOf, KeysOf, Replay
<1>11. ASSUME NEW c \in Columns, NEW j \in KeysOf(c)
       PROVE  /\ RowOf(c, j) \in RowTypes(c)
              /\ ProvInv(RowOf(c, j))
              /\ RowOf(c, j).status # Absent => \E e \in log : e.key = j
              /\ c = "task" /\ RowOf(c, j).status \in TASK_SETTLED =>
                   \E e \in log : e.kind = "task" /\ e.key = j /\ e.type \in Ends
              /\ Orderly(c, Mine(c, j, log)) => Agrees(c, j)
  <2>1. PICK r : r = RowOf(c, j) /\ r = Replay(c, j, log)
    BY <1>10
  <2>2. /\ r \in RowTypes(c)
        /\ r.last # 0 => \E e \in log : e.id = r.last
        /\ r.src # 0 => \E e \in log : e.id = r.src /\ e.type = "created"
        /\ r.status # Absent => \E e \in log : e.key = j
        /\ c = "task" /\ r.status \in TASK_SETTLED =>
              \E e \in log : e.kind = "task" /\ e.key = j /\ e.type \in Ends
        /\ Orderly(c, Mine(c, j, log)) =>
              \/ Setters(c, j, log) = {} /\ Col(c, r) = Blank(c)
              \/ \E x : IsLatest(x, Setters(c, j, log)) /\ Col(c, r) = Val(c, x)
    <3>1. clock \in Nat /\ \A e \in log : IsEvent(e) /\ e.id \in 1..clock
      BY <1>1, <1>2, <1>4
    <3> QED BY <2>1, <3>1, ReplayRow
  <2> QED BY <1>2, <2>1, <2>2 DEF ProvInv, Agrees
<1>12. TypeInv
  <2>1. wo \in [WorkOrderIds -> WoRows]
    <3>1. \A w \in WorkOrderIds : wo[w] \in WoRows
      BY <1>11 DEF Columns, KeysOf, RowOf, RowTypes
    <3> QED BY <1>2, <3>1
  <2>2. task \in [Tasks -> TaskRows]
    <3>1. \A t \in Tasks : task[t] \in TaskRows
      BY <1>11 DEF Columns, KeysOf, RowOf, RowTypes
    <3> QED BY <1>2, <3>1
  <2>3. cursor \in [Kinds -> Nat] /\ cmd \in [Procs -> Commands]
    BY <1>1, <1>2, <1>7, IdleIs
  <2> QED BY <1>1, <1>2, <1>4, <2>1, <2>2, <2>3 DEF TypeInv, MilestoneStatuses
<1>13. FlightInv
  <2>1. \A p \in Procs : cmd[p] = Idle /\ ~Busy(p) /\ ~Owes(p) /\ Claims(p) = {} /\ cmd[p].plan \notin {In, Wr}
    BY <1>2, IdleIs, OwingIsBusy DEF Busy, Owes, Claims
  <2>2. CmdInv
    BY <2>1, IdleIs DEF CmdInv
  <2>3. IdInv /\ ClaimInv /\ LatestInv /\ BornInv
    BY <1>2, <1>5, <1>6, <2>1 DEF IdInv, ClaimInv, LatestInv, BornInv
  <2> QED BY <2>2, <2>3 DEF FlightInv
<1>14. EngineInv
  BY <1>2, <1>8 DEF EngineInv
<1>15. RowInv /\ SrcInv
  <2>1. ASSUME NEW w \in WorkOrderIds
        PROVE  (wo[w].status # Absent => \E e \in Emitted : e.key = w) /\ ProvInv(wo[w])
    BY <1>2, <1>11 DEF Columns, KeysOf, RowOf
  <2>2. ASSUME NEW t \in Tasks
        PROVE  /\ task[t].status # Absent => \E e \in Emitted : e.key = t
               /\ task[t].status \in TASK_SETTLED => \E e \in Emitted : e.kind = "task" /\ e.key = t /\ e.type \in Ends
               /\ ProvInv(task[t])
    BY <1>2, <1>11 DEF Columns, KeysOf, RowOf
  <2> QED BY <2>1, <2>2 DEF RowInv, SrcInv
<1>16. ColInv
  <2> SUFFICES ASSUME NEW c \in Columns, NEW j \in KeysOf(c), ~(c = "task" /\ Restarted(j, Emitted))
               PROVE  Agrees(c, j)
    BY DEF ColInv
  <2>1. Orderly(c, Mine(c, j, log))
    BY <1>2, <1>5, <1>6 DEF Orderly, Mine, Restarted, KindOf
  <2> QED BY <1>11, <2>1
<1> QED BY <1>12, <1>13, <1>14, <1>15, <1>16 DEF Inv

LEMMA InvNext ==
    ASSUME Inv, [Next]_vars
    PROVE  Inv'
<1> USE DEF Inv
<1>1. ASSUME NEW p \in Procs, Command(p) PROVE Inv'
  <2>1. PICK c : Begins(p, c)
    BY <1>1, CommandBegins
  <2> QED BY <2>1, TypeBegins, FlightBegins, InvBegins
<1>2. ASSUME NEW p \in Procs, Run(p) \/ Die(p) PROVE Inv'
  <2>1. PICK c : Turns(p, c) /\ (Still(p, c) \/ Emits(p, c) \/ \E e : Creates(p, c, e))
    BY <1>2, RunIs DEF FlightInv
  <2>2. PICK N : Adds(p, c, N)
    BY <2>1, TurnsAdd
  <2>3. TypeInv' /\ FlightInv' /\ EngineInv'
    BY <1>2, <2>1, <2>2, TypeTurns, FlightAdds, EngineTurns
  <2>4. RowInv' /\ SrcInv' /\ ColInv'
    BY <1>2, <2>1, <2>2, RowTurns, ColTurns
  <2> QED BY <2>3, <2>4
<1>3. CASE Project
  BY <1>3, TypeProject, FlightProject, EngineProject, RowProject, ColProject
<1>4. CASE UNCHANGED vars
  <2>1. /\ UNCHANGED <<wo, task, ms, spool, log, cursor, todo, retry, carried, clock, cmd, budget, faults, disturbed>>
        /\ Emitted' = Emitted /\ Pending' = Pending
    BY <1>4 DEF vars, rows, engine, bounds, Emitted, Pending
  <2>2. TypeInv'
    BY <2>1 DEF TypeInv
  <2>3. FlightInv'
    BY <2>1 DEF FlightInv, CmdInv, IdInv, ClaimInv, LatestInv, BornInv, Owes, Claims, Busy
  <2>4. EngineInv' /\ RowInv' /\ SrcInv'
    BY <2>1 DEF EngineInv, RowInv, SrcInv, ProvInv
  <2>5. ColInv'
    <3> SUFFICES ASSUME NEW c \in Columns, NEW k \in KeysOf(c), k \notin disturbed',
                        ~(c = "task" /\ Restarted(k, Emitted)'), ~Mirrored(c, k)'
                 PROVE  Agrees(c, k)'
      BY DEF ColInv, KeysOf
    <3>1. /\ Setters(c, k, Emitted)' = Setters(c, k, Emitted) /\ RowOf(c, k)' = RowOf(c, k)
          /\ Col(c, RowOf(c, k))' = Col(c, RowOf(c, k))
      BY <2>1 DEF Setters, Sets, KindOf, RowOf, Col
    <3>2. \A x : Outstanding(x, RowOf(c, k)) => x \in (spool \cup todo \cup retry \cup Pending)'
      BY <2>1 DEF Outstanding
    <3>3. ~Mirrored(c, k)
      BY <2>1 DEF Mirrored, At, Busy, Sets, KindOf
    <3>4. ~(c = "task" /\ Restarted(k, Emitted))
      BY <2>1 DEF Restarted
    <3>5. Agrees(c, k)
      BY <2>1, <3>3, <3>4 DEF ColInv
    <3> QED BY <3>1, <3>2, <3>5, StillAgrees
  <2> QED BY <2>2, <2>3, <2>4, <2>5
<1> QED BY <1>1, <1>2, <1>3, <1>4 DEF Next

LEMMA InvAlways == Spec => []Inv
<1>1. Init => Inv
  BY InvInit
<1>2. Inv /\ [Next]_vars => Inv'
  BY InvNext
<1> QED BY <1>1, <1>2, PTL DEF Spec

(* Every status is one of the vocabulary, every cursor a timestamp, and an
   event is in the spool or in the log and never in both: what the commands
   (mutations.py, close_main.py, carry_over.py) and the projections write.   *)
THEOREM WorkOrdersTypeCorrect == Spec => []TypeOK
<1>1. Inv => TypeOK
  <2> SUFFICES ASSUME Inv PROVE TypeOK
    OBVIOUS
  <2>1. /\ \A w \in WorkOrderIds : wo[w].status \in WorkOrderStatuses \cup {Absent} /\ wo[w].from \in BLOCKABLE \cup {None}
        /\ \A t \in Tasks : task[t].status \in TaskStatuses \cup {Absent}
    BY DEF Inv, TypeInv, WoRows, TaskRows
  <2>2. ASSUME NEW p \in Procs, NEW i \in DOMAIN cmd[p].plan PROVE cmd[p].plan[i] \in Labels
    <3>1. cmd[p].plan \in Plans
      BY DEF Inv, TypeInv, Commands
    <3> QED BY <3>1, PlanLabels
  <2>3. \A e \in spool \cup log : e.id \in 1..clock
    BY DEF Inv, TypeInv, Emitted
  <2> QED BY <2>1, <2>2, <2>3 DEF Inv, TypeInv, TypeOK
<1> QED BY <1>1, InvAlways, PTL

(* An event that announces a close comes from a step that holds the phase. *)
LEMMA ClosesHeld ==
    ASSUME Inv, [Next]_vars, NEW e \in spool' \ spool, e.kind = "wo", e.type = "closed"
    PROVE  wo[e.key].status \in CLOSEABLE
<1>0. TypeInv /\ CmdInv
  BY DEF Inv, FlightInv
<1>1. ASSUME NEW p \in Procs, Command(p) PROVE FALSE
  <2>1. PICK c : Begins(p, c)
    BY <1>1, CommandBegins DEF Inv
  <2> QED BY <2>1 DEF Begins
<1>2. ASSUME Project PROVE FALSE
  <2>1. spool' \subseteq spool
    BY <1>0, <1>2, ProjectIs DEF Ingest, Select, Applies
  <2> QED BY <2>1
<1>3. ASSUME NEW p \in Procs, e = cmd[p].ev, At(p, "hold"), HoldsPhase(cmd[p].ev) PROVE wo[e.key].status \in CLOSEABLE
  BY <1>3 DEF HoldsPhase
<1>4. ASSUME NEW p \in Procs, Emit(p) PROVE FALSE
  <2>1. e = cmd[p].ev /\ At(p, "emit")
    BY <1>4 DEF Emit
  <2>2. cmd[p].plan \in {ES, EI, EW, Em, C5}
    BY <1>0, <2>1, PlanCases DEF At, Busy, TypeInv, Commands
  <2>3. CmdOK(cmd[p], clock)
    BY <1>0 DEF CmdInv
  <2> QED BY <2>1, <2>2, <2>3, PlansDiffer DEF CmdOK, PlanOK
<1>5. ASSUME NEW p \in Procs, CarryCreate(p) PROVE FALSE
  <2>1. PICK c, x : Turns(p, c) /\ Creates(p, c, x)
    BY <1>0, <1>5, CreatesIs DEF CmdInv
  <2>2. e = x /\ x.type = "created"
    BY <2>1 DEF Creates
  <2> QED BY <2>2
<1>6. ASSUME NEW p \in Procs, Run(p) \/ Die(p) PROVE wo[e.key].status \in CLOSEABLE
  <2>1. CASE Hold(p) \/ Die(p)
    BY <1>3, <2>1 DEF Hold, Die
  <2>2. CASE Write(p) \/ Insert(p) \/ Gates(p) \/ EndSync(p) \/ CarryRecord(p)
    BY <2>2 DEF Write, Insert, Gates, EndSync, CarryRecord
  <2> QED BY <1>4, <1>5, <1>6, <2>1, <2>2 DEF Run
<1>7. CASE UNCHANGED vars
  BY <1>7 DEF vars
<1> QED BY <1>1, <1>2, <1>6, <1>7 DEF Next

(* A work order is announced closed only by a step that finds it pushed or with
   CI issues, whatever happened while it was verified (close_main.py, the
   conditional UPDATE).                                                      *)
THEOREM WorkOrdersCloseFromHeldPhase == Spec => ClosesFromHeldPhase
<1>1. Inv /\ [Next]_vars =>
        [\A e \in (spool' \ spool) : e.kind = "wo" /\ e.type = "closed" => wo[e.key].status \in CLOSEABLE]_vars
  BY ClosesHeld
<1> QED BY <1>1, InvAlways, PTL DEF Spec, ClosesFromHeldPhase

(* When nothing is in flight a column shows what a rebuild makes of it. *)
LEMMA QuietAgrees ==
    ASSUME Inv, Quiet, NEW c \in Columns, NEW k \in KeysOf(c), k \notin disturbed,
           ~(c = "task" /\ Restarted(k, log))
    PROVE  Col(c, RowOf(c, k)) = Col(c, Replay(c, k, log))
<1>0. /\ Emitted = log /\ spool \cup todo \cup retry \cup Pending = {}
      /\ clock \in Nat /\ \A e \in log : IsEvent(e) /\ e.id \in 1..clock /\ e.id \in Nat
      /\ \A d, e \in log : d.id = e.id => d = e
  BY DEF Inv, TypeInv, FlightInv, IdInv, Quiet, Emitted
<1>1. ~Mirrored(c, k)
  BY DEF Mirrored, Quiet, At
<1>2. Agrees(c, k)
  BY <1>0, <1>1 DEF Inv, ColInv
<1>3. \/ Setters(c, k, log) = {} /\ Col(c, RowOf(c, k)) = Blank(c)
      \/ \E x : IsLatest(x, Setters(c, k, log)) /\ Col(c, RowOf(c, k)) = Val(c, x)
  BY <1>0, <1>2 DEF Agrees, Outstanding
<1>4. Orderly(c, Mine(c, k, log))
  BY <1>0 DEF Orderly, Mine, Restarted, KindOf, Inv, FlightInv, BornInv
<1>5. \/ Setters(c, k, log) = {} /\ Col(c, Replay(c, k, log)) = Blank(c)
      \/ \E x : IsLatest(x, Setters(c, k, log)) /\ Col(c, Replay(c, k, log)) = Val(c, x)
  BY <1>0, <1>4, ReplayRow
<1>6. \A x, y : IsLatest(x, Setters(c, k, log)) /\ IsLatest(y, Setters(c, k, log)) => x = y
  <2> SUFFICES ASSUME NEW x, NEW y, IsLatest(x, Setters(c, k, log)), IsLatest(y, Setters(c, k, log)) PROVE x = y
    OBVIOUS
  <2>1. x \in log /\ y \in log /\ x.id <= y.id /\ y.id <= x.id
    BY DEF IsLatest, Setters
  <2>2. x.id \in Nat /\ y.id \in Nat
    BY <1>0, <2>1
  <2> QED BY <1>0, <2>1, <2>2
<1> QED BY <1>3, <1>5, <1>6 DEF IsLatest

(* The mirror and the log agree: once nothing is in flight, a row whose commands
   did not cross shows what a rebuild of its events would make of it.        *)
THEOREM WorkOrdersRowsReplay == Spec => []RowsReplay
<1>1. Inv => RowsReplay
  <2> SUFFICES ASSUME Inv, Quiet
               PROVE  /\ \A w \in WorkOrderIds \ disturbed : State(wo[w]) = State(ReplayWorkOrder(log, w))
                      /\ \A t \in Tasks \ disturbed :
                            StartedAfterEnd(t) \/ task[t].status = ReplayTask(log, t).status
    BY DEF RowsReplay
  <2>1. ASSUME NEW w \in WorkOrderIds \ disturbed PROVE State(wo[w]) = State(ReplayWorkOrder(log, w))
    <3>1. \A c \in WoColumns : Col(c, wo[w]) = Col(c, ReplayWorkOrder(log, w))
      <4> SUFFICES ASSUME NEW c \in WoColumns PROVE Col(c, wo[w]) = Col(c, ReplayWorkOrder(log, w))
        OBVIOUS
      <4>1. /\ c \in Columns /\ w \in KeysOf(c) /\ c # "task"
            /\ RowOf(c, w) = wo[w] /\ Replay(c, w, log) = ReplayWorkOrder(log, w)
        BY DEF WoColumns, Columns, KeysOf, RowOf, Replay
      <4> QED BY <4>1, QuietAgrees
    <3>2. /\ wo[w].status = ReplayWorkOrder(log, w).status
          /\ wo[w].from = ReplayWorkOrder(log, w).from
          /\ wo[w].closed = ReplayWorkOrder(log, w).closed
      BY <3>1 DEF WoColumns, Col
    <3> QED BY <3>2 DEF State
  <2>2. ASSUME NEW t \in Tasks \ disturbed, ~StartedAfterEnd(t) PROVE task[t].status = ReplayTask(log, t).status
    <3>1. ~Restarted(t, log)
      BY <2>2 DEF Restarted, StartedAfterEnd, Ends
    <3>2. /\ "task" \in Columns /\ t \in KeysOf("task")
          /\ RowOf("task", t) = task[t] /\ Replay("task", t, log) = ReplayTask(log, t)
      BY DEF Columns, KeysOf, RowOf, Replay
    <3>3. Col("task", task[t]) = Col("task", ReplayTask(log, t))
      BY <3>1, <3>2, QuietAgrees
    <3> QED BY <3>3 DEF Col
  <2> QED BY <2>1, <2>2
<1> QED BY <1>1, InvAlways, PTL
=============================================================================
