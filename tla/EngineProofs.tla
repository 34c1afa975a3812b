---------------------------- MODULE EngineProofs ----------------------------
(***************************************************************************)
(* Proofs about ProjectionEngine, for any events, any number of engines,   *)
(* any retry policy and any size of the retry queue.                       *)
(***************************************************************************)
EXTENDS ProjectionEngine, FiniteSetTheorems, WellFoundedInduction, TLAPS

-----------------------------------------------------------------------------
(* The invariants.                                                          *)

RetryPCs == {"retried", "retry_advance", "reschedule", "retry_dead", "retry_drop"}
ApplyPCs == {"advance", "count", "schedule", "dead_letter", "drop"}
FreePCs  == {"idle", "retry", "read_cursor", "select", "dispatch", "truncate", "reselect"}

(* What an engine has in hand at each point of its cycle: a stored row in the
   retry half, a fetched event (id 0) in the second half, nothing in between;
   and which side of the retry limit its count is on.                        *)
CurInv ==
    \A g \in Engines :
        /\ pc[g] \in RetryPCs => cur[g] \in Rows /\ cur[g].id > 0
        /\ pc[g] \in ApplyPCs => cur[g] \in Rows /\ cur[g].id = 0
        /\ pc[g] \in FreePCs => cur[g] = NoRow
        /\ pc[g] \in {"reschedule", "schedule"} => cur[g].n < MaxRetries
        /\ pc[g] \in {"retry_dead", "dead_letter"} => cur[g].n >= MaxRetries

(* Only events of the canonical table are queued, fetched, in hand, dead or
   under the cursor, and stored rows have ids from 1.                        *)
KnownInv ==
    /\ \A r \in queue : r.ev \in canonical /\ r.id \in 1..MaxRows
    /\ cursor \in canonical \cup {NoEvent}
    /\ \A e \in Events : dead[e] # "none" => e \in canonical
    /\ \A g \in Engines :
        /\ todo[g] \subseteq canonical
        /\ \A r \in due[g] : r.ev \in canonical /\ r.id > 0
        /\ cur[g] \in Rows => cur[g].ev \in canonical

TypeInv == TypeOK /\ CurInv /\ KnownInv

(* A row id, stored or read, names one event: a DELETE or an UPDATE by id
   touches the rows of the event the engine has in hand and no other's.      *)
Held(r) ==
    \/ r \in queue
    \/ \E g \in Engines : r \in due[g] \/ r = cur[g]

IdInv ==
    \A r, s : Held(r) /\ Held(s) /\ r.id = s.id /\ r.id > 0 => r.ev = s.ev

(* The engines that have counted a failed attempt at e and not yet read how
   many there were before.                                                   *)
Counting(e) == {g \in Engines : pc[g] = "count" /\ cur[g].ev = e}

(* A retry count that stands, or is about to stand, for attempts at e. *)
Claimed(e, k) ==
    \/ k = 0
    \/ \E r \in queue : r.ev = e /\ r.n = k
    \/ \E g \in Engines :
        \/ \E r \in due[g] : r.ev = e /\ r.n = k
        \/ /\ pc[g] \in {"retried", "retry_advance"}
           /\ cur[g].ev = e /\ k = cur[g].n
        \/ /\ pc[g] \in {"reschedule", "retry_dead", "schedule", "dead_letter"}
           /\ cur[g].ev = e /\ k = cur[g].n + 1

(* The count k is backed by attempts, and every engine that is about to count
   one more has made one more.                                               *)
Earned(e, k) == attempts[e] > MaxRetries \/ k + Cardinality(Counting(e)) <= attempts[e]

EarnedInv ==
    /\ \A e \in Events, k \in 0..(MaxRetries + 1) : Claimed(e, k) => Earned(e, k)
    /\ DeadLetterIsEarned

(* e is about to be applied by a rebuild. *)
Pending(e) ==
    \E g \in Engines :
        \/ pc[g] \in {"truncate", "reselect"}
        \/ pc[g] = "replay" /\ e \in todo[g]

Covered(e) == e \in projected \/ dead[e] # "none" \/ Pending(e)

Queued(e) == \E r \in queue : r.ev = e

(* e is applied or some record keeps it from being forgotten. *)
Safe(e) == Covered(e) \/ Queued(e)

(* A fetched event whose handle() has raised, before anything is recorded. *)
InHand(e) ==
    \E g \in Engines : pc[g] \in {"count", "schedule", "dead_letter"} /\ cur[g].ev = e

(* Timestamps order the canonical table strictly. *)
OrderInv == \A d, e \in canonical : Ts[d] = Ts[e] => d = e

(* Whatever has been reached, everything older is safe. *)
PrefixInv ==
    \A e \in canonical : Safe(e) \/ InHand(e) =>
        \A d \in canonical : Ts[d] < Ts[e] => Safe(d)

(* What each engine relies on: the timestamp it fetches from belongs to a safe
   event; what it has not fetched is safe or newer than all it has fetched;
   the event it will move the cursor to, or whose rows it will delete, is
   applied or dead-lettered.                                                 *)
ReachAt(g) ==
    /\ \A r \in due[g] : Safe(r.ev)
    /\ pc[g] = "select" =>
         base[g] = 0 \/ \E c \in canonical : Ts[c] = base[g] /\ Safe(c)
    /\ pc[g] \in {"dispatch"} \cup ApplyPCs =>
         \A d \in canonical :
            \/ d \in todo[g] \/ Safe(d) \/ d = cur[g].ev
            \/ \A t \in todo[g] : Ts[t] < Ts[d]
    /\ pc[g] \in {"retried", "retry_advance", "advance"} => Covered(cur[g].ev)
    /\ pc[g] = "replay" /\ cur[g] # NoRow => Covered(cur[g].ev)
    /\ pc[g] \in {"reschedule", "retry_dead"} => Safe(cur[g].ev)
    /\ pc[g] \in {"drop", "retry_drop"} => dead[cur[g].ev] # "none"
    /\ pc[g] \in {"truncate", "reselect", "replay"} => Rebuilds

ReachInv ==
    /\ cursor # NoEvent => Safe(cursor)
    /\ \A g \in Engines : ReachAt(g)

SkipInv == OrderInv /\ PrefixInv /\ ReachInv

-----------------------------------------------------------------------------
(* Type correctness.                                                        *)

(* The initial state satisfies the typing invariant. *)
LEMMA InitTypeInv == Init => TypeInv
<1> SUFFICES ASSUME Init PROVE TypeInv
  OBVIOUS
<1>1. TypeOK
  BY EngineAssumption DEF Init, TypeOK, PCs
<1>2. CurInv
  BY DEF Init, CurInv, RetryPCs, ApplyPCs, FreePCs
<1>3. NoRow \notin Rows
  BY EngineAssumption DEF NoRow, Rows
<1>4. KnownInv
  BY <1>3 DEF Init, KnownInv
<1> QED BY <1>1, <1>2, <1>4 DEF TypeInv

(* Every non-empty set of naturals has a least element. *)
LEMMA LeastElement ==
    ASSUME NEW S \in SUBSET Nat, S # {}
    PROVE  \E m \in S : \A k \in S : m <= k
<1>1. PICK m \in S : \A k \in S : ~ <<k, m>> \in OpToRel(<, Nat)
  BY NatLessThanWellFounded, WFMin
<1>2. \A k \in S : ~ (k < m)
  BY <1>1 DEF OpToRel
<1> QED BY <1>2

(* An id that NewId hands out is that of no row, stored or read. *)
LEMMA NewIdFresh ==
    ASSUME NEW e, NewId(e) <= MaxRows
    PROVE  /\ NewId(e) \in 1..MaxRows
           /\ \A r : Held(r) => r.id # NewId(e)
<1> DEFINE used == {r.id : r \in queue} \cup {cur[g].id : g \in Engines}
                   \cup UNION {{r.id : r \in due[g]} : g \in Engines}
           free == {k \in 1..MaxRows : k \notin used /\ \A r \in queue : r.ev = e => r.id < k}
           least == CHOOSE k \in free : \A j \in free : k <= j
<1>1. NewId(e) = IF free = {} THEN MaxRows + 1 ELSE least
  BY DEF NewId
<1>2. free # {}
  BY <1>1, EngineAssumption
<1>3. free \subseteq Nat
  OBVIOUS
<1>4. least \in free
  BY <1>2, <1>3, LeastElement
<1>5. \A r : Held(r) => r.id \in used
  BY DEF Held
<1> QED BY <1>1, <1>2, <1>4, <1>5

(* _schedule_retry reads 0 or the count of one of the event's rows. *)
LEMMA CountRead ==
    ASSUME NEW g \in Engines, TypeInv, ReadRetryCount(g)
    PROVE  \E c \in 0..MaxRetries :
              /\ c = 0 \/ \E r \in queue : r.ev = cur[g].ev /\ r.n = c
              /\ cur' = [cur EXCEPT ![g].n = c]
              /\ Goto(g, IF Exhausted(c) THEN "dead_letter" ELSE "schedule")
<1> DEFINE mine == {r \in queue : r.ev = cur[g].ev}
           last == CHOOSE r \in mine : \A s \in mine : s.id <= r.id
           count == IF mine = {} THEN 0 ELSE last.n
<1>1. /\ cur' = [cur EXCEPT ![g].n = count]
      /\ Goto(g, IF Exhausted(count) THEN "dead_letter" ELSE "schedule")
  BY DEF ReadRetryCount
<1>2. CASE mine = {}
  <2>1. count = 0 /\ 0 \in 0..MaxRetries
    BY <1>2, EngineAssumption
  <2> HIDE DEF count
  <2> QED BY <1>1, <2>1
<1>3. CASE mine # {}
  <2> DEFINE gaps == {MaxRows - r.id : r \in mine}
  <2>1. \A r \in mine : r \in Rows /\ r.id \in 1..MaxRows
    BY DEF TypeInv, TypeOK, KnownInv
  <2>2. gaps \subseteq Nat /\ gaps # {}
    BY <1>3, <2>1, EngineAssumption
  <2> HIDE DEF mine
  <2>3. PICK m \in gaps : \A k \in gaps : m <= k
    BY <2>2, LeastElement
  <2>4. PICK r \in mine : m = MaxRows - r.id
    BY <2>3
  <2>5. ASSUME NEW s \in mine PROVE s.id <= r.id
    <3>1. MaxRows - s.id \in gaps
      OBVIOUS
    <3>2. MaxRows - r.id <= MaxRows - s.id
      BY <2>3, <2>4, <3>1
    <3> QED BY <2>1, <3>2, EngineAssumption
  <2>6. last \in mine
    BY <2>4, <2>5
  <2>7. last \in queue /\ last.ev = cur[g].ev
    BY <2>6 DEF mine
  <2>8. count = last.n /\ last.n \in 0..MaxRetries
    BY <1>3, <2>1, <2>6 DEF Rows
  <2> HIDE DEF last, count
  <2> QED BY <1>1, <2>7, <2>8
<1> QED BY <1>2, <1>3

(* Every step of the system preserves the typing invariant. *)
LEMMA NextTypeInv == TypeInv /\ [Next]_vars => TypeInv'
<1> SUFFICES ASSUME TypeInv, [Next]_vars PROVE TypeInv'
  OBVIOUS
<1> USE EngineAssumption DEF TypeInv
<1>0. NoRow \notin Rows
  BY DEF NoRow, Rows
<1>00. ASSUME NEW e \in Events, Attempted(e) PROVE attempts' \in [Events -> 0..(MaxRetries + 1)]
  BY <1>00 DEF Attempted, TypeOK
<1>1. ASSUME NEW e \in Events, Arrive(e) PROVE TypeInv'
  BY <1>1 DEF Arrive, TypeOK, CurInv, KnownInv, local
<1>2. ASSUME NEW e \in Events, DeadLetterRetry(e) PROVE TypeInv'
  <2>1. [id |-> NewId(e), ev |-> e, n |-> MaxRetries] \in Rows /\ NewId(e) \in 1..MaxRows
    BY <1>2, NewIdFresh DEF DeadLetterRetry, Rows
  <2> QED BY <1>2, <2>1 DEF DeadLetterRetry, TypeOK, CurInv, KnownInv, local
<1>3. ASSUME NEW e \in Events, DeadLetterResolve(e) PROVE TypeInv'
  BY <1>3 DEF DeadLetterResolve, TypeOK, CurInv, KnownInv, local
<1>4. ASSUME NEW g \in Engines, StartCycle(g) PROVE TypeInv'
  <2>1. PICK rows \in SUBSET queue : due' = [due EXCEPT ![g] = rows]
    BY <1>4 DEF StartCycle
  <2> QED BY <1>4, <2>1
          DEF StartCycle, Goto, TypeOK, CurInv, KnownInv, state, PCs, RetryPCs, ApplyPCs, FreePCs
<1>5. ASSUME NEW g \in Engines, RetryHandle(g) PROVE TypeInv'
  <2>1. PICK r \in due[g] :
        /\ due' = [due EXCEPT ![g] = @ \ {r}]
        /\ cur' = [cur EXCEPT ![g] = r]
        /\ \/ /\ MaySucceed(r.ev)
              /\ projected' = projected \cup {r.ev}
              /\ Goto(g, "retried") /\ UNCHANGED attempts
           \/ /\ MayFail(r.ev)
              /\ Attempted(r.ev)
              /\ Goto(g, IF Exhausted(r.n) THEN "retry_dead" ELSE "reschedule")
              /\ UNCHANGED projected
    BY <1>5 DEF RetryHandle
  <2>2. /\ r \in Rows /\ r.ev \in canonical /\ r.id > 0
        /\ r.ev \in Events /\ r.n \in 0..MaxRetries
    BY DEF TypeOK, KnownInv, Rows
  <2>3. UNCHANGED <<canonical, cursor, queue, dead, base, todo>>
    BY <1>5 DEF RetryHandle
  <2>4. attempts' \in [Events -> 0..(MaxRetries + 1)]
    BY <2>1, <2>2, <1>00 DEF TypeOK
  <2>5. TypeOK'
    BY <2>1, <2>2, <2>3, <2>4 DEF TypeOK, Goto, PCs
  <2>6. CurInv'
    BY <2>1, <2>2 DEF TypeOK, CurInv, Goto, Exhausted, RetryPCs, ApplyPCs, FreePCs
  <2>7. KnownInv'
    BY <2>1, <2>2, <2>3 DEF TypeOK, KnownInv
  <2> QED BY <2>5, <2>6, <2>7
<1>6. ASSUME NEW g \in Engines, RetryDelete(g) PROVE TypeInv'
  BY <1>6 DEF RetryDelete, Goto, TypeOK, CurInv, KnownInv, PCs, RetryPCs, ApplyPCs, FreePCs
<1>7. ASSUME NEW g \in Engines, RetryAdvance(g) \/ AdvanceCursor(g) PROVE TypeInv'
  <2>1. cur[g] \in Rows /\ cur[g].ev \in canonical
    BY <1>7 DEF RetryAdvance, AdvanceCursor, CurInv, KnownInv, RetryPCs, ApplyPCs
  <2> QED BY <1>0, <1>7, <2>1 DEF RetryAdvance, AdvanceCursor, Goto, TypeOK, CurInv, KnownInv,
          PCs, RetryPCs, ApplyPCs, FreePCs
<1>8. ASSUME NEW g \in Engines, RetryBookkeepingFault(g) PROVE TypeInv'
  <2>1. cur[g] \in Rows /\ cur[g].ev \in Events /\ cur[g].n \in 0..MaxRetries
    BY <1>8 DEF RetryBookkeepingFault, CurInv, RetryPCs, Rows
  <2>2. attempts' \in [Events -> 0..(MaxRetries + 1)]
    BY <1>8, <2>1, <1>00 DEF RetryBookkeepingFault
  <2> QED BY <1>8, <2>1, <2>2 DEF RetryBookkeepingFault, Goto, Exhausted, TypeOK, CurInv, KnownInv,
          state, PCs, RetryPCs, ApplyPCs, FreePCs
<1>9. ASSUME NEW g \in Engines, RetryReschedule(g) PROVE TypeInv'
  <2>1. cur[g] \in Rows /\ cur[g].n + 1 \in 0..MaxRetries
    BY <1>9 DEF RetryReschedule, CurInv, RetryPCs, Rows
  <2>2. \A r \in queue' : r \in Rows /\ r.ev \in canonical /\ r.id \in 1..MaxRows
    <3> SUFFICES ASSUME NEW r \in queue
                 PROVE  LET s == [r EXCEPT !.n = cur[g].n + 1]
                        IN  s \in Rows /\ s.ev \in canonical /\ s.id \in 1..MaxRows
      BY <1>9 DEF RetryReschedule, TypeOK, KnownInv
    <3> QED BY <2>1 DEF TypeOK, KnownInv, Rows
  <2> QED BY <1>0, <1>9, <2>2
          DEF RetryReschedule, Goto, TypeOK, CurInv, KnownInv, PCs, RetryPCs, ApplyPCs, FreePCs
<1>10. ASSUME NEW g \in Engines, RetryDeadLetter(g) \/ DeadLetter(g) PROVE TypeInv'
  <2>1. cur[g] \in Rows /\ cur[g].ev \in canonical
    BY <1>10 DEF RetryDeadLetter, DeadLetter, CurInv, KnownInv, RetryPCs, ApplyPCs
  <2> QED BY <1>10, <2>1 DEF RetryDeadLetter, DeadLetter, Goto, TypeOK, CurInv, KnownInv,
          PCs, RetryPCs, ApplyPCs, FreePCs
<1>11. ASSUME NEW g \in Engines, RetryDrop(g) \/ DropRows(g) PROVE TypeInv'
  BY <1>0, <1>11 DEF RetryDrop, DropRows, Goto, TypeOK, CurInv, KnownInv, PCs, RetryPCs, ApplyPCs, FreePCs
<1>12. ASSUME NEW g \in Engines, EndRetries(g) \/ EndCycle(g) \/ StartRebuild(g) PROVE TypeInv'
  BY <1>12 DEF EndRetries, EndCycle, StartRebuild, Goto, TypeOK, CurInv, KnownInv, state,
          PCs, RetryPCs, ApplyPCs, FreePCs
<1>13. ASSUME NEW g \in Engines, ReadCursor(g) PROVE TypeInv'
  <2>1. CursorTs \in Nat
    BY DEF CursorTs, TypeOK
  <2> QED BY <1>13, <2>1 DEF ReadCursor, Goto, TypeOK, CurInv, KnownInv, state,
          PCs, RetryPCs, ApplyPCs, FreePCs
<1>14. ASSUME NEW g \in Engines, Select(g) \/ Reselect(g) PROVE TypeInv'
  BY <1>14 DEF Select, Reselect, Goto, TypeOK, CurInv, KnownInv, state, PCs, RetryPCs, ApplyPCs, FreePCs
<1>15. ASSUME NEW g \in Engines, Dispatch(g) PROVE TypeInv'
  <2>1. PICK e \in todo[g] :
        /\ todo' = [todo EXCEPT ![g] = @ \ {e}]
        /\ cur' = [cur EXCEPT ![g] = [id |-> 0, ev |-> e, n |-> 0]]
        /\ \/ /\ MaySucceed(e)
              /\ projected' = projected \cup {e}
              /\ Goto(g, "advance") /\ UNCHANGED attempts
           \/ /\ MayFail(e)
              /\ Attempted(e)
              /\ Goto(g, "count") /\ UNCHANGED projected
    BY <1>15 DEF Dispatch, Oldest
  <2>2. e \in canonical /\ e \in Events /\ [id |-> 0, ev |-> e, n |-> 0] \in Rows
    BY DEF TypeOK, KnownInv, Rows
  <2>3. UNCHANGED <<canonical, cursor, queue, dead, due, base>>
    BY <1>15 DEF Dispatch
  <2>4. attempts' \in [Events -> 0..(MaxRetries + 1)]
    BY <2>1, <2>2, <1>00 DEF TypeOK
  <2>5. TypeOK'
    BY <2>1, <2>2, <2>3, <2>4 DEF TypeOK, Goto, PCs
  <2>6. CurInv'
    BY <2>1, <2>2 DEF TypeOK, CurInv, Goto, RetryPCs, ApplyPCs, FreePCs
  <2>7. KnownInv'
    BY <2>1, <2>2, <2>3 DEF TypeOK, KnownInv
  <2> QED BY <2>5, <2>6, <2>7
<1>16. ASSUME NEW g \in Engines, AdvanceFault(g) PROVE TypeInv'
  <2>1. cur[g] \in Rows /\ cur[g].ev \in canonical /\ cur[g].ev \in Events
    BY <1>16 DEF AdvanceFault, CurInv, KnownInv, ApplyPCs, TypeOK
  <2>2. attempts' \in [Events -> 0..(MaxRetries + 1)]
    BY <1>16, <2>1, <1>00 DEF AdvanceFault
  <2> QED BY <1>16, <2>1, <2>2 DEF AdvanceFault, Goto, TypeOK, CurInv, KnownInv,
          PCs, RetryPCs, ApplyPCs, FreePCs
<1>17. ASSUME NEW g \in Engines, ReadRetryCount(g) PROVE TypeInv'
  <2>1. PICK c \in 0..MaxRetries :
            /\ cur' = [cur EXCEPT ![g].n = c]
            /\ Goto(g, IF Exhausted(c) THEN "dead_letter" ELSE "schedule")
    BY <1>17, CountRead
  <2>2. cur[g] \in Rows /\ cur[g].id = 0 /\ cur[g].ev \in canonical
    BY <1>17 DEF ReadRetryCount, CurInv, KnownInv, ApplyPCs
  <2>3. /\ cur'[g] \in Rows /\ cur'[g].id = 0 /\ cur'[g].ev \in canonical /\ cur'[g].n = c
        /\ \A h \in Engines : h # g => cur'[h] = cur[h]
    BY <2>1, <2>2 DEF TypeOK, Rows
  <2>4. UNCHANGED <<state, due, base, todo, attempts>>
    BY <1>17 DEF ReadRetryCount
  <2>5. cur' \in [Engines -> Rows \cup {NoRow}]
    BY <2>1, <2>3 DEF TypeOK
  <2>6. TypeOK'
    BY <2>1, <2>4, <2>5 DEF TypeOK, Goto, PCs, state
  <2>7. CurInv'
    BY <2>1, <2>3 DEF TypeOK, CurInv, Goto, Exhausted, RetryPCs, ApplyPCs, FreePCs
  <2>8. KnownInv'
    BY <2>3, <2>4 DEF KnownInv, state
  <2> QED BY <2>6, <2>7, <2>8
<1>18. ASSUME NEW g \in Engines, ScheduleRetry(g) PROVE TypeInv'
  <2>1. cur[g] \in Rows /\ cur[g].ev \in canonical /\ cur[g].ev \in Events /\ cur[g].n + 1 \in 0..MaxRetries
    BY <1>18 DEF ScheduleRetry, CurInv, KnownInv, ApplyPCs, Rows
  <2>2. NewId(cur[g].ev) \in 1..MaxRows
    BY <1>18, NewIdFresh DEF ScheduleRetry
  <2>3. [id |-> NewId(cur[g].ev), ev |-> cur[g].ev, n |-> cur[g].n + 1] \in Rows
    BY <2>1, <2>2 DEF Rows
  <2> QED BY <1>0, <1>18, <2>1, <2>2, <2>3 DEF ScheduleRetry, Goto, TypeOK, CurInv, KnownInv,
          PCs, RetryPCs, ApplyPCs, FreePCs
<1>19. ASSUME NEW g \in Engines, Truncate(g) PROVE TypeInv'
  BY <1>19 DEF Truncate, Goto, TypeOK, CurInv, KnownInv, PCs, RetryPCs, ApplyPCs, FreePCs
<1>20. ASSUME NEW g \in Engines, Replay(g) PROVE TypeInv'
  <2>1. PICK e \in todo[g] :
        /\ todo' = [todo EXCEPT ![g] = @ \ {e}]
        /\ \/ /\ projected' = projected \cup {e}
              /\ cur' = [cur EXCEPT ![g] = [id |-> 0, ev |-> e, n |-> 0]]
              /\ UNCHANGED attempts
           \/ /\ Attempted(e)
              /\ UNCHANGED <<projected, cur>>
    BY <1>20 DEF Replay, Oldest
  <2>2. e \in canonical /\ e \in Events /\ [id |-> 0, ev |-> e, n |-> 0] \in Rows
    BY DEF TypeOK, KnownInv, Rows
  <2>3. pc[g] = "replay" /\ UNCHANGED <<canonical, cursor, queue, dead, pc, due, base>>
    BY <1>20 DEF Replay
  <2>4. attempts' \in [Events -> 0..(MaxRetries + 1)]
    BY <2>1, <2>2, <1>00 DEF TypeOK
  <2>5. TypeOK'
    BY <2>1, <2>2, <2>3, <2>4 DEF TypeOK
  <2>6. CurInv'
    BY <2>1, <2>2, <2>3 DEF TypeOK, CurInv, RetryPCs, ApplyPCs, FreePCs
  <2>7. KnownInv'
    BY <2>1, <2>2, <2>3 DEF TypeOK, KnownInv
  <2> QED BY <2>5, <2>6, <2>7
<1>21. ASSUME NEW g \in Engines, EndRebuild(g) PROVE TypeInv'
  <2>1. cur[g] = NoRow \/ (cur[g] \in Rows /\ cur[g].ev \in canonical)
    BY DEF TypeOK, KnownInv
  <2> QED BY <1>0, <1>21, <2>1 DEF EndRebuild, Goto, TypeOK, CurInv, KnownInv,
          PCs, RetryPCs, ApplyPCs, FreePCs
<1>22. ASSUME NEW g \in Engines, Crash(g) PROVE TypeInv'
  BY <1>0, <1>22 DEF Crash, Goto, TypeOK, CurInv, KnownInv, state, PCs, RetryPCs, ApplyPCs, FreePCs
<1>23. CASE UNCHANGED vars
  BY <1>23 DEF vars, state, local, TypeOK, CurInv, KnownInv
<1> QED BY <1>1, <1>2, <1>3, <1>4, <1>5, <1>6, <1>7, <1>8, <1>9, <1>10, <1>11, <1>12, <1>13,
           <1>14, <1>15, <1>16, <1>17, <1>18, <1>19, <1>20, <1>21, <1>22, <1>23
        DEF Next, Cycle, Rebuild

(* The engine's tables, and what every engine has read and has in hand, stay
   well typed.                                                               *)
THEOREM EngineTypeCorrect == Spec => []TypeOK
<1>1. Spec => []TypeInv
  BY InitTypeInv, NextTypeInv, PTL DEF Spec
<1>2. TypeInv => TypeOK
  BY DEF TypeInv
<1> QED BY <1>1, <1>2, PTL

-----------------------------------------------------------------------------
(* Row ids.                                                                 *)

(* Every step of the system keeps a row id from naming two events. *)
LEMMA NextIdInv == TypeInv /\ IdInv /\ [Next]_vars => IdInv'
<1> SUFFICES ASSUME TypeInv, IdInv, [Next]_vars PROVE IdInv'
  OBVIOUS
<1> USE EngineAssumption
<1> DEFINE Known(r) == \E q : Held(q) /\ q.id = r.id /\ q.ev = r.ev
           Quiet == \A r : Held(r)' /\ r.id > 0 => Known(r)
<1>0. ASSUME Quiet PROVE IdInv'
  BY <1>0 DEF IdInv
<1>1. ASSUME NEW e \in Events, NEW n, NewId(e) <= MaxRows,
             queue' = queue \cup {[id |-> NewId(e), ev |-> e, n |-> n]}, due' = due,
             \A g \in Engines : cur'[g] = cur[g] \/ cur'[g].id = 0
      PROVE  IdInv'
  <2>1. \A r : Held(r)' /\ r.id > 0 => Held(r) \/ r = [id |-> NewId(e), ev |-> e, n |-> n]
    BY <1>1 DEF Held
  <2>2. \A r : Held(r) => r.id # NewId(e)
    BY <1>1, NewIdFresh
  <2> QED BY <2>1, <2>2 DEF IdInv
<1>2. ASSUME NEW e \in Events, Arrive(e) \/ DeadLetterResolve(e) PROVE IdInv'
  <2>1. Quiet
    BY <1>2 DEF Arrive, DeadLetterResolve, Held, local
  <2> QED BY <1>0, <2>1
<1>3. ASSUME NEW e \in Events, DeadLetterRetry(e) PROVE IdInv'
  BY <1>1, <1>3 DEF DeadLetterRetry, local
<1>4. ASSUME NEW g \in Engines, StartCycle(g) PROVE IdInv'
  <2>1. PICK rows \in SUBSET queue : due' = [due EXCEPT ![g] = rows]
    BY <1>4 DEF StartCycle
  <2>2. Quiet
    BY <1>4, <2>1 DEF StartCycle, Held, state, TypeInv, TypeOK
  <2> QED BY <1>0, <2>2
<1>5. ASSUME NEW g \in Engines, RetryHandle(g) PROVE IdInv'
  <2>1. PICK r \in due[g] : due' = [due EXCEPT ![g] = @ \ {r}] /\ cur' = [cur EXCEPT ![g] = r]
    BY <1>5 DEF RetryHandle
  <2>2. Quiet
    BY <1>5, <2>1 DEF RetryHandle, Held, TypeInv, TypeOK
  <2> QED BY <1>0, <2>2
<1>6. ASSUME NEW g \in Engines, RetryReschedule(g) PROVE IdInv'
  <2>1. ASSUME NEW q \in queue' PROVE Known(q)
    <3>1. PICK r \in queue : q = IF r.id = cur[g].id THEN [r EXCEPT !.n = cur[g].n + 1] ELSE r
      BY <1>6, <2>1 DEF RetryReschedule
    <3>2. q.id = r.id /\ q.ev = r.ev
      BY <3>1 DEF TypeInv, TypeOK, Rows
    <3>3. Held(r)
      BY DEF Held
    <3> QED BY <3>2, <3>3
  <2>2. \A r : Held(r)' /\ r.id > 0 => r \in queue' \/ Held(r)
    BY <1>6 DEF RetryReschedule, Held, NoRow, TypeInv, TypeOK
  <2>3. Quiet
    BY <2>1, <2>2
  <2> QED BY <1>0, <2>3
<1>7. ASSUME NEW g \in Engines, Dispatch(g) \/ ReadRetryCount(g) \/ Replay(g) PROVE IdInv'
  <2>1. \A h \in Engines : cur'[h] = cur[h] \/ cur'[h].id = 0
    <3>1. CASE ReadRetryCount(g)
      <4>1. PICK c \in 0..MaxRetries : cur' = [cur EXCEPT ![g].n = c]
        BY <3>1, CountRead
      <4>2. cur[g] \in Rows /\ cur[g].id = 0
        BY <3>1 DEF ReadRetryCount, TypeInv, CurInv, ApplyPCs
      <4> QED BY <4>1, <4>2 DEF TypeInv, TypeOK, Rows
    <3> QED BY <1>7, <3>1 DEF Dispatch, Replay, TypeInv, TypeOK
  <2>2. queue' = queue /\ due' = due
    BY <1>7 DEF Dispatch, ReadRetryCount, Replay, state
  <2>3. Quiet
    BY <2>1, <2>2 DEF Held
  <2> QED BY <1>0, <2>3
<1>8. ASSUME NEW g \in Engines, ScheduleRetry(g) PROVE IdInv'
  <2>1. \A h \in Engines : cur'[h] = cur[h] \/ cur'[h].id = 0
    BY <1>8 DEF ScheduleRetry, NoRow, TypeInv, TypeOK
  <2>2. cur[g].ev \in Events
    BY <1>8 DEF ScheduleRetry, TypeInv, CurInv, ApplyPCs, Rows
  <2> QED BY <1>1, <1>8, <2>1, <2>2 DEF ScheduleRetry
<1>9. ASSUME NEW g \in Engines,
             RetryDelete(g) \/ RetryAdvance(g) \/ RetryBookkeepingFault(g) \/ RetryDeadLetter(g)
             \/ RetryDrop(g) \/ EndRetries(g) \/ ReadCursor(g) \/ Select(g) \/ AdvanceCursor(g)
             \/ AdvanceFault(g) \/ DeadLetter(g) \/ DropRows(g) \/ EndCycle(g) \/ StartRebuild(g)
             \/ Truncate(g) \/ Reselect(g) \/ EndRebuild(g) \/ Crash(g)
      PROVE  IdInv'
  <2>1. queue' \subseteq queue
    BY <1>9 DEF RetryDelete, RetryAdvance, RetryBookkeepingFault, RetryDeadLetter, RetryDrop,
       EndRetries, ReadCursor, Select, AdvanceCursor, AdvanceFault, DeadLetter, DropRows, EndCycle,
       StartRebuild, Truncate, Reselect, EndRebuild, Crash, state
  <2>2. \A h \in Engines : due'[h] \subseteq due[h]
    BY <1>9 DEF RetryDelete, RetryAdvance, RetryBookkeepingFault, RetryDeadLetter, RetryDrop,
       EndRetries, ReadCursor, Select, AdvanceCursor, AdvanceFault, DeadLetter, DropRows, EndCycle,
       StartRebuild, Truncate, Reselect, EndRebuild, Crash, TypeInv, TypeOK
  <2>3. \A h \in Engines : cur'[h] = cur[h] \/ cur'[h].id = 0
    BY <1>9 DEF RetryDelete, RetryAdvance, RetryBookkeepingFault, RetryDeadLetter, RetryDrop,
       EndRetries, ReadCursor, Select, AdvanceCursor, AdvanceFault, DeadLetter, DropRows, EndCycle,
       StartRebuild, Truncate, Reselect, EndRebuild, Crash, TypeInv, TypeOK, NoRow
  <2>4. Quiet
    BY <2>1, <2>2, <2>3 DEF Held
  <2> QED BY <1>0, <2>4
<1>10. CASE UNCHANGED vars
  <2>1. Quiet
    BY <1>10 DEF vars, state, local, Held
  <2> QED BY <1>0, <2>1
<1> QED BY <1>2, <1>3, <1>4, <1>5, <1>6, <1>7, <1>8, <1>9, <1>10 DEF Next, Cycle, Rebuild

(* The typing invariant and the one on row ids hold in every state. *)
LEMMA EngineInvariant == Spec => [](TypeInv /\ IdInv)
<1>1. Init => IdInv
  BY DEF Init, IdInv, Held, NoRow
<1> QED BY <1>1, InitTypeInv, NextTypeInv, NextIdInv, PTL DEF Spec

-----------------------------------------------------------------------------
(* Dead letters are earned.                                                 *)

(* The engines that are counting an attempt are finitely many, and one engine
   more or less changes their number by at most one.                         *)
LEMMA CountingSize ==
    ASSUME NEW e
    PROVE  /\ IsFiniteSet(Counting(e)) /\ Cardinality(Counting(e)) \in Nat
           /\ Cardinality(Counting(e)') \in Nat
           /\ Counting(e)' \subseteq Counting(e)
                => Cardinality(Counting(e)') <= Cardinality(Counting(e))
           /\ \A g \in Engines : Counting(e)' \subseteq Counting(e) \cup {g}
                => Cardinality(Counting(e)') <= Cardinality(Counting(e)) + 1
           /\ \A g \in Counting(e) : Counting(e)' \subseteq Counting(e) \ {g}
                => Cardinality(Counting(e)') + 1 <= Cardinality(Counting(e))
<1>1. Counting(e) \subseteq Engines /\ Counting(e)' \subseteq Engines
  BY DEF Counting
<1>2. IsFiniteSet(Counting(e)) /\ IsFiniteSet(Counting(e)')
  BY <1>1, FS_Subset, EngineAssumption
<1>3. Cardinality(Counting(e)) \in Nat /\ Cardinality(Counting(e)') \in Nat
  BY <1>2, FS_CardinalityType
<1>4. ASSUME Counting(e)' \subseteq Counting(e)
      PROVE  Cardinality(Counting(e)') <= Cardinality(Counting(e))
  BY <1>2, <1>4, FS_Subset
<1>5. ASSUME NEW g \in Engines, Counting(e)' \subseteq Counting(e) \cup {g}
      PROVE  Cardinality(Counting(e)') <= Cardinality(Counting(e)) + 1
  <2>0. PICK C : C = Counting(e)
    OBVIOUS
  <2>1. /\ IsFiniteSet(Counting(e) \cup {g})
        /\ Cardinality(Counting(e) \cup {g}) <= Cardinality(Counting(e)) + 1
    <3>1. /\ IsFiniteSet(C \cup {g})
          /\ Cardinality(C \cup {g}) = IF g \in C THEN Cardinality(C) ELSE Cardinality(C) + 1
      BY <1>2, <2>0, FS_AddElement
    <3>2. Cardinality(C) \in Nat
      BY <1>3, <2>0
    <3>3. Cardinality(C \cup {g}) <= Cardinality(C) + 1
      BY <3>1, <3>2
    <3> QED BY <2>0, <3>1, <3>3
  <2>2. /\ Cardinality(Counting(e)') <= Cardinality(Counting(e) \cup {g})
        /\ Cardinality(Counting(e) \cup {g}) \in Nat
    BY <1>5, <2>1, FS_Subset, FS_CardinalityType
  <2> QED BY <1>3, <2>1, <2>2
<1>6. ASSUME NEW g \in Counting(e), Counting(e)' \subseteq Counting(e) \ {g}
      PROVE  Cardinality(Counting(e)') + 1 <= Cardinality(Counting(e))
  <2>1. /\ IsFiniteSet(Counting(e) \ {g})
        /\ Cardinality(Counting(e) \ {g}) = Cardinality(Counting(e)) - 1
    BY <1>2, FS_RemoveElement
  <2>2. /\ Cardinality(Counting(e)') <= Cardinality(Counting(e) \ {g})
        /\ Cardinality(Counting(e) \ {g}) \in Nat
    BY <1>6, <2>1, FS_Subset, FS_CardinalityType
  <2> QED BY <1>3, <2>1, <2>2
<1> QED BY <1>2, <1>3, <1>4, <1>5, <1>6

(* A step that neither counts an attempt nor raises a claim keeps what is
   earned.                                                                   *)
LEMMA EarnedQuiet ==
    ASSUME NEW e \in Events, NEW k \in 0..(MaxRetries + 1), TypeInv, EarnedInv,
           Claimed(e, k), Counting(e)' \subseteq Counting(e), attempts'[e] = attempts[e]
    PROVE  Earned(e, k)'
<1>1. Earned(e, k)
  BY DEF EarnedInv
<1>2. attempts[e] \in Nat
  BY DEF TypeInv, TypeOK
<1> QED BY <1>1, <1>2, CountingSize, EngineAssumption DEF Earned

(* An attempt that is counted pays for one claim more, or for one engine more
   that is counting.                                                         *)
LEMMA EarnedAttempt ==
    ASSUME NEW e \in Events, NEW k \in 0..(MaxRetries + 1), NEW g \in Engines,
           TypeInv, EarnedInv, Attempted(e),
           \/ Claimed(e, k) /\ Counting(e)' \subseteq Counting(e) \cup {g}
           \/ k > 0 /\ Claimed(e, k - 1) /\ Counting(e)' \subseteq Counting(e)
    PROVE  Earned(e, k)'
<1>1. attempts[e] \in 0..(MaxRetries + 1) /\ MaxRetries \in Nat
  BY EngineAssumption DEF TypeInv, TypeOK
<1>2. attempts'[e] = IF attempts[e] <= MaxRetries THEN attempts[e] + 1 ELSE attempts[e]
  BY DEF Attempted, TypeInv, TypeOK
<1>3. CASE Claimed(e, k) /\ Counting(e)' \subseteq Counting(e) \cup {g}
  <2>1. Earned(e, k)
    BY <1>3 DEF EarnedInv
  <2> QED BY <1>1, <1>2, <1>3, <2>1, CountingSize DEF Earned
<1>4. CASE k > 0 /\ Claimed(e, k - 1) /\ Counting(e)' \subseteq Counting(e)
  <2>1. k - 1 \in 0..(MaxRetries + 1) /\ Earned(e, k - 1)
    BY <1>1, <1>4 DEF EarnedInv
  <2> QED BY <1>1, <1>2, <1>4, <2>1, CountingSize DEF Earned
<1> QED BY <1>3, <1>4

(* Every step of the system keeps counts backed by attempts. *)
LEMMA NextEarned == TypeInv /\ TypeInv' /\ IdInv /\ EarnedInv /\ [Next]_vars => EarnedInv'
<1> SUFFICES ASSUME TypeInv, TypeInv', IdInv, EarnedInv, [Next]_vars PROVE EarnedInv'
  OBVIOUS
<1> USE EngineAssumption
<1> DEFINE Counts == 0..(MaxRetries + 1)
<1>0. ASSUME attempts' = attempts, \A e \in Events : Counting(e)' \subseteq Counting(e),
             \A e \in Events : dead'[e] # "none" => dead[e] # "none",
             \A e \in Events, k \in Counts :
                Claimed(e, k)' => Claimed(e, k) \/ dead[e] # "none"
      PROVE  EarnedInv'
  <2>1. DeadLetterIsEarned'
    BY <1>0 DEF DeadLetterIsEarned, EarnedInv
  <2>2. ASSUME NEW e \in Events, NEW k \in Counts, Claimed(e, k)' PROVE Earned(e, k)'
    <3>1. CASE dead[e] # "none"
      BY <1>0, <3>1 DEF DeadLetterIsEarned, EarnedInv, Earned
    <3>2. CASE Claimed(e, k)
      BY <1>0, <3>2, EarnedQuiet
    <3> QED BY <1>0, <2>2, <3>1, <3>2
  <2> QED BY <2>1, <2>2 DEF EarnedInv
<1>1. ASSUME NEW x \in Events, NEW g \in Engines, Attempted(x), dead' = dead,
             \A e \in Events : Counting(e)' \subseteq Counting(e) \cup {g},
             \A e \in Events \ {x} : Counting(e)' \subseteq Counting(e),
             \A e \in Events \ {x}, k \in Counts : Claimed(e, k)' => Claimed(e, k),
             \A k \in Counts : Claimed(x, k)' =>
                \/ Claimed(x, k)
                \/ k > 0 /\ Claimed(x, k - 1) /\ Counting(x)' \subseteq Counting(x)
      PROVE  EarnedInv'
  <2>1. \A e \in Events \ {x} : attempts'[e] = attempts[e]
    BY <1>1 DEF Attempted, TypeInv, TypeOK
  <2>2. attempts'[x] >= attempts[x]
    BY <1>1 DEF Attempted, TypeInv, TypeOK
  <2>3. DeadLetterIsEarned'
    <3>1. \A e \in Events : attempts[e] \in Nat /\ attempts'[e] \in Nat /\ attempts'[e] >= attempts[e]
      BY <2>1, <2>2 DEF TypeInv, TypeOK
    <3> QED BY <1>1, <3>1 DEF DeadLetterIsEarned, EarnedInv
  <2>4. ASSUME NEW e \in Events, NEW k \in Counts, Claimed(e, k)' PROVE Earned(e, k)'
    <3>1. CASE e = x
      BY <1>1, <2>4, <3>1, EarnedAttempt
    <3>2. CASE e # x
      BY <1>1, <2>1, <2>4, <3>2, EarnedQuiet
    <3> QED BY <3>1, <3>2
  <2> QED BY <2>3, <2>4 DEF EarnedInv
<1>2. ASSUME NEW e \in Events, Arrive(e) \/ DeadLetterResolve(e) PROVE EarnedInv'
  BY <1>0, <1>2 DEF Arrive, DeadLetterResolve, Claimed, Counting, local, TypeInv, TypeOK
<1>3. ASSUME NEW x \in Events, DeadLetterRetry(x) PROVE EarnedInv'
  <2>1. \A e \in Events, k \in Counts : Claimed(e, k)' => Claimed(e, k) \/ e = x
    BY <1>3 DEF DeadLetterRetry, Claimed, local
  <2>2. \A e \in Events : dead'[e] # "none" => dead[e] # "none"
    BY <1>3 DEF DeadLetterRetry, TypeInv, TypeOK
  <2> QED BY <1>0, <1>3, <2>1, <2>2 DEF DeadLetterRetry, Counting, local
<1>4. ASSUME NEW g \in Engines, StartCycle(g) PROVE EarnedInv'
  <2>1. PICK rows \in SUBSET queue : due' = [due EXCEPT ![g] = rows]
    BY <1>4 DEF StartCycle
  <2>2. \A e \in Events, k \in Counts : Claimed(e, k)' => Claimed(e, k)
    BY <1>4, <2>1 DEF StartCycle, Goto, Claimed, state, TypeInv, TypeOK
  <2>3. \A e \in Events : Counting(e)' \subseteq Counting(e)
    BY <1>4 DEF StartCycle, Goto, Counting, TypeInv, TypeOK
  <2> QED BY <1>0, <1>4, <2>2, <2>3 DEF StartCycle, state
<1>5. ASSUME NEW g \in Engines, RetryHandle(g) PROVE EarnedInv'
  <2>1. PICK r \in due[g] :
        /\ due' = [due EXCEPT ![g] = @ \ {r}]
        /\ cur' = [cur EXCEPT ![g] = r]
        /\ \/ /\ MaySucceed(r.ev)
              /\ projected' = projected \cup {r.ev}
              /\ Goto(g, "retried") /\ UNCHANGED attempts
           \/ /\ MayFail(r.ev)
              /\ Attempted(r.ev)
              /\ Goto(g, IF Exhausted(r.n) THEN "retry_dead" ELSE "reschedule")
              /\ UNCHANGED projected
    BY <1>5 DEF RetryHandle
  <2>2. /\ r \in Rows /\ r.ev \in Events /\ r.n \in 0..MaxRetries
        /\ UNCHANGED <<queue, dead>> /\ pc[g] = "retry"
    BY <1>5 DEF RetryHandle, TypeInv, TypeOK, Rows
  <2>3. \A e \in Events : Counting(e)' \subseteq Counting(e)
    BY <2>1, <2>2 DEF Goto, Counting, TypeInv, TypeOK
  <2>4. CASE Goto(g, "retried") /\ UNCHANGED attempts
    <3>1. \A e \in Events, k \in Counts : Claimed(e, k)' => Claimed(e, k)
      BY <2>1, <2>2, <2>4 DEF Goto, Claimed, TypeInv, TypeOK
    <3> QED BY <1>0, <2>2, <2>3, <2>4, <3>1
  <2>5. CASE Attempted(r.ev) /\ Goto(g, IF Exhausted(r.n) THEN "retry_dead" ELSE "reschedule")
    <3>1. \A e \in Events, k \in Counts :
             Claimed(e, k)' => Claimed(e, k) \/ (e = r.ev /\ k = r.n + 1)
      BY <2>1, <2>2, <2>5 DEF Goto, Claimed, TypeInv, TypeOK
    <3>2. Claimed(r.ev, r.n)
      BY DEF Claimed
    <3>3. \A k \in Counts : k = r.n + 1 => k > 0 /\ k - 1 = r.n
      BY <2>2
    <3>4. \A k \in Counts : Claimed(r.ev, k)' =>
             \/ Claimed(r.ev, k)
             \/ k > 0 /\ Claimed(r.ev, k - 1) /\ Counting(r.ev)' \subseteq Counting(r.ev)
      BY <2>2, <2>3, <3>1, <3>2, <3>3
    <3> QED BY <1>1, <2>2, <2>3, <2>5, <3>1, <3>4
  <2> QED BY <2>1, <2>4, <2>5
<1>6. ASSUME NEW g \in Engines, RetryBookkeepingFault(g) PROVE EarnedInv'
  <2>1. PICK x \in Events : x = cur[g].ev /\ cur[g] \in Rows /\ cur[g].n \in 0..MaxRetries
    BY <1>6 DEF RetryBookkeepingFault, TypeInv, CurInv, RetryPCs, Rows
  <2>2. \A e \in Events : Counting(e)' \subseteq Counting(e)
    BY <1>6 DEF RetryBookkeepingFault, Goto, Counting, TypeInv, TypeOK
  <2>3. \A e \in Events, k \in Counts :
           Claimed(e, k)' => Claimed(e, k) \/ (e = x /\ k = cur[g].n + 1)
    BY <1>6, <2>1 DEF RetryBookkeepingFault, Goto, Claimed, state, TypeInv, TypeOK
  <2>4. Claimed(x, cur[g].n)
    BY <1>6, <2>1 DEF RetryBookkeepingFault, Claimed
  <2>5. \A k \in Counts : k = cur[g].n + 1 => k > 0 /\ k - 1 = cur[g].n
    BY <2>1
  <2>6. \A k \in Counts : Claimed(x, k)' =>
           \/ Claimed(x, k)
           \/ /\ k > 0 /\ Claimed(x, k - 1)
              /\ Counting(x)' \subseteq Counting(x)
    BY <2>1, <2>2, <2>3, <2>4, <2>5
  <2>7. Attempted(x) /\ dead' = dead
    BY <1>6, <2>1 DEF RetryBookkeepingFault, state
  <2> QED BY <1>1, <2>1, <2>2, <2>3, <2>6, <2>7
<1>7. ASSUME NEW g \in Engines, RetryReschedule(g) PROVE EarnedInv'
  <2>1. cur[g] \in Rows /\ cur[g].id > 0 /\ cur[g].n + 1 \in Counts
    BY <1>7 DEF RetryReschedule, TypeInv, CurInv, RetryPCs, Rows
  <2>2. Claimed(cur[g].ev, cur[g].n + 1)
    BY <1>7 DEF RetryReschedule, Claimed
  <2>3. ASSUME NEW q \in queue' PROVE Claimed(q.ev, q.n)
    <3>1. PICK r \in queue : q = IF r.id = cur[g].id THEN [r EXCEPT !.n = cur[g].n + 1] ELSE r
      BY <1>7, <2>3 DEF RetryReschedule
    <3>2. CASE r.id # cur[g].id
      BY <3>1, <3>2 DEF Claimed
    <3>3. CASE r.id = cur[g].id
      <4>1. r.ev = cur[g].ev
        BY <2>1, <3>3 DEF IdInv, Held
      <4>2. q.ev = cur[g].ev /\ q.n = cur[g].n + 1
        BY <3>1, <3>3, <4>1 DEF TypeInv, TypeOK, Rows
      <4> QED BY <2>2, <4>2
    <3> QED BY <3>2, <3>3
  <2>4. \A e \in Events, k \in Counts : Claimed(e, k)' =>
           Claimed(e, k) \/ \E q \in queue' : q.ev = e /\ q.n = k
    BY <1>7 DEF RetryReschedule, Goto, Claimed, TypeInv, TypeOK
  <2>5. \A e \in Events : Counting(e)' \subseteq Counting(e)
    BY <1>7 DEF RetryReschedule, Goto, Counting, TypeInv, TypeOK
  <2> QED BY <1>0, <1>7, <2>3, <2>4, <2>5 DEF RetryReschedule
<1>8. ASSUME NEW g \in Engines, RetryDeadLetter(g) \/ DeadLetter(g) PROVE EarnedInv'
  <2> DEFINE x == cur[g].ev
  <2>1. cur[g] \in Rows /\ x \in Events /\ cur[g].n = MaxRetries
    BY <1>8 DEF RetryDeadLetter, DeadLetter, TypeInv, CurInv, RetryPCs, ApplyPCs, Rows
  <2>2. Claimed(x, MaxRetries + 1)
    BY <1>8, <2>1 DEF RetryDeadLetter, DeadLetter, Claimed
  <2>3. Earned(x, MaxRetries + 1)
    BY <2>1, <2>2 DEF EarnedInv
  <2>4. attempts[x] > MaxRetries
    BY <2>1, <2>3, CountingSize DEF Earned, TypeInv, TypeOK
  <2>5. DeadLetterIsEarned'
    BY <1>8, <2>1, <2>4 DEF RetryDeadLetter, DeadLetter, DeadLetterIsEarned, EarnedInv, TypeInv, TypeOK
  <2>6. \A e \in Events, k \in Counts : Claimed(e, k)' => Claimed(e, k)
    BY <1>8 DEF RetryDeadLetter, DeadLetter, Goto, Claimed, TypeInv, TypeOK
  <2>7. \A e \in Events : Counting(e)' \subseteq Counting(e)
    BY <1>8 DEF RetryDeadLetter, DeadLetter, Goto, Counting, TypeInv, TypeOK
  <2>8. attempts' = attempts
    BY <1>8 DEF RetryDeadLetter, DeadLetter
  <2>9. \A e \in Events, k \in Counts : Claimed(e, k)' => Earned(e, k)'
    BY <2>6, <2>7, <2>8, EarnedQuiet
  <2> QED BY <2>5, <2>9 DEF EarnedInv
<1>9. ASSUME NEW g \in Engines, Dispatch(g) PROVE EarnedInv'
  <2>1. PICK x \in todo[g] :
        /\ cur' = [cur EXCEPT ![g] = [id |-> 0, ev |-> x, n |-> 0]]
        /\ \/ Goto(g, "advance") /\ UNCHANGED attempts
           \/ Attempted(x) /\ Goto(g, "count")
    BY <1>9 DEF Dispatch, Oldest
  <2>2. x \in Events /\ pc[g] = "dispatch" /\ UNCHANGED <<queue, dead, due>>
    BY <1>9 DEF Dispatch, TypeInv, TypeOK
  <2>3. \A e \in Events, k \in Counts : Claimed(e, k)' => Claimed(e, k)
    BY <2>1, <2>2 DEF Goto, Claimed, TypeInv, TypeOK
  <2>4. CASE Goto(g, "advance") /\ UNCHANGED attempts
    <3>1. \A e \in Events : Counting(e)' \subseteq Counting(e)
      BY <2>1, <2>2, <2>4 DEF Goto, Counting, TypeInv, TypeOK
    <3> QED BY <1>0, <2>2, <2>3, <2>4, <3>1
  <2>5. CASE Attempted(x) /\ Goto(g, "count")
    <3>1. /\ \A e \in Events : Counting(e)' \subseteq Counting(e) \cup {g}
          /\ \A e \in Events \ {x} : Counting(e)' \subseteq Counting(e)
      BY <2>1, <2>2, <2>5 DEF Goto, Counting, TypeInv, TypeOK
    <3> QED BY <1>1, <2>2, <2>3, <2>5, <3>1
  <2> QED BY <2>1, <2>4, <2>5
<1>10. ASSUME NEW g \in Engines, AdvanceFault(g) PROVE EarnedInv'
  <2>1. cur[g].ev \in Events /\ Attempted(cur[g].ev) /\ dead' = dead
    BY <1>10 DEF AdvanceFault, TypeInv, CurInv, ApplyPCs, Rows
  <2>2. \A e \in Events, k \in Counts : Claimed(e, k)' => Claimed(e, k)
    BY <1>10 DEF AdvanceFault, Goto, Claimed, TypeInv, TypeOK
  <2>3. /\ \A e \in Events : Counting(e)' \subseteq Counting(e) \cup {g}
        /\ \A e \in Events \ {cur[g].ev} : Counting(e)' \subseteq Counting(e)
    BY <1>10 DEF AdvanceFault, Goto, Counting, TypeInv, TypeOK
  <2> QED BY <1>1, <2>1, <2>2, <2>3
<1>11. ASSUME NEW g \in Engines, ReadRetryCount(g) PROVE EarnedInv'
  <2>0. PICK x \in Events : x = cur[g].ev
    BY <1>11 DEF ReadRetryCount, TypeInv, CurInv, ApplyPCs, Rows
  <2>1. PICK c \in 0..MaxRetries :
           /\ c = 0 \/ \E r \in queue : r.ev = x /\ r.n = c
           /\ cur' = [cur EXCEPT ![g].n = c]
           /\ Goto(g, IF Exhausted(c) THEN "dead_letter" ELSE "schedule")
    BY <1>11, <2>0, CountRead
  <2>2. /\ cur[g] \in Rows /\ cur[g].ev = x /\ pc[g] = "count"
        /\ UNCHANGED <<queue, dead, due, attempts>>
    BY <1>11, <2>0 DEF ReadRetryCount, TypeInv, CurInv, ApplyPCs, Rows, state
  <2>3. /\ cur'[g].ev = x /\ cur'[g].n = c
        /\ \A h \in Engines \ {g} : cur'[h] = cur[h] /\ pc'[h] = pc[h]
        /\ pc'[g] \in {"dead_letter", "schedule"}
    BY <2>1, <2>2 DEF Goto, TypeInv, TypeOK, Rows
  <2>4. \A e \in Events, k \in Counts : Claimed(e, k)' => Claimed(e, k) \/ (e = x /\ k = c + 1)
    BY <2>2, <2>3 DEF Claimed
  <2>5. Claimed(x, c)
    BY <2>1 DEF Claimed
  <2>6. /\ g \in Counting(x) /\ Counting(x)' \subseteq Counting(x) \ {g}
        /\ \A e \in Events : Counting(e)' \subseteq Counting(e)
    BY <2>2, <2>3 DEF Counting
  <2>7. Earned(x, c)
    BY <2>2, <2>5 DEF EarnedInv
  <2>8. Earned(x, c + 1)'
    BY <2>2, <2>6, <2>7, CountingSize DEF Earned, TypeInv, TypeOK
  <2>9. ASSUME NEW e \in Events, NEW k \in Counts, Claimed(e, k)' PROVE Earned(e, k)'
    <3>1. CASE Claimed(e, k)
      BY <2>2, <2>6, <3>1, EarnedQuiet
    <3>2. CASE e = x /\ k = c + 1
      BY <2>8, <3>2
    <3> QED BY <2>4, <2>9, <3>1, <3>2
  <2>10. DeadLetterIsEarned'
    BY <2>2 DEF DeadLetterIsEarned, EarnedInv
  <2> QED BY <2>9, <2>10 DEF EarnedInv
<1>12. ASSUME NEW g \in Engines, ScheduleRetry(g) PROVE EarnedInv'
  <2>1. \A e \in Events, k \in Counts : Claimed(e, k)' => Claimed(e, k)
    <3>1. Claimed(cur[g].ev, cur[g].n + 1)
      BY <1>12 DEF ScheduleRetry, Claimed
    <3>2. \A e \in Events, k \in Counts : Claimed(e, k)' =>
             Claimed(e, k) \/ (e = cur[g].ev /\ k = cur[g].n + 1)
      BY <1>12 DEF ScheduleRetry, Goto, Claimed, TypeInv, TypeOK
    <3> QED BY <3>1, <3>2
  <2>2. \A e \in Events : Counting(e)' \subseteq Counting(e)
    BY <1>12 DEF ScheduleRetry, Goto, Counting, TypeInv, TypeOK
  <2> QED BY <1>0, <1>12, <2>1, <2>2 DEF ScheduleRetry
<1>13. ASSUME NEW g \in Engines, Replay(g) PROVE EarnedInv'
  <2>1. PICK x \in todo[g] :
           \/ /\ cur' = [cur EXCEPT ![g] = [id |-> 0, ev |-> x, n |-> 0]]
              /\ UNCHANGED attempts
           \/ Attempted(x) /\ UNCHANGED cur
    BY <1>13 DEF Replay, Oldest
  <2>2. x \in Events /\ pc[g] = "replay" /\ UNCHANGED <<queue, dead, due, pc>>
    BY <1>13 DEF Replay, TypeInv, TypeOK
  <2>3. \A e \in Events, k \in Counts : Claimed(e, k)' => Claimed(e, k)
    BY <2>1, <2>2 DEF Claimed, TypeInv, TypeOK
  <2>4. \A e \in Events : Counting(e)' \subseteq Counting(e)
    BY <2>1, <2>2 DEF Counting, TypeInv, TypeOK
  <2> QED BY <1>0, <1>1, <2>1, <2>2, <2>3, <2>4
<1>14. ASSUME NEW g \in Engines,
              RetryDelete(g) \/ RetryAdvance(g) \/ RetryDrop(g) \/ EndRetries(g) \/ ReadCursor(g)
              \/ Select(g) \/ AdvanceCursor(g) \/ DropRows(g) \/ EndCycle(g)
              \/ StartRebuild(g) \/ Truncate(g) \/ Reselect(g) \/ EndRebuild(g) \/ Crash(g)
       PROVE  EarnedInv'
  <2> USE <1>14 DEF RetryDelete, RetryAdvance, RetryDrop, EndRetries, ReadCursor, Select,
          AdvanceCursor, DropRows, EndCycle, StartRebuild, Truncate, Reselect, EndRebuild, Crash, Goto
  <2>1. queue' \subseteq queue /\ UNCHANGED <<attempts, dead>>
    BY DEF state
  <2>2. \A h \in Engines : due'[h] \subseteq due[h]
    BY DEF TypeInv, TypeOK
  <2>3. \A h \in Engines \ {g} : pc'[h] = pc[h] /\ cur'[h] = cur[h]
    BY DEF TypeInv, TypeOK
  <2>4. \/ pc'[g] \in FreePCs \cup {"replay"}
        \/ pc[g] = "retried" /\ pc'[g] = "retry_advance" /\ cur' = cur
    BY DEF TypeInv, TypeOK, FreePCs
  <2>5. \A e \in Events, k \in Counts : Claimed(e, k)' => Claimed(e, k)
    BY <2>1, <2>2, <2>3, <2>4 DEF Claimed, FreePCs
  <2>6. \A e \in Events : Counting(e)' \subseteq Counting(e)
    BY <2>3, <2>4 DEF Counting, FreePCs
  <2> QED BY <1>0, <2>1, <2>5, <2>6
<1>15. CASE UNCHANGED vars
  BY <1>0, <1>15 DEF vars, state, local, Claimed, Counting
<1> QED BY <1>2, <1>3, <1>4, <1>5, <1>6, <1>7, <1>8, <1>9, <1>10, <1>11, <1>12, <1>13, <1>14, <1>15
        DEF Next, Cycle, Rebuild

(* However many engines count attempts, and however many rows an event has in
   the retry queue, it is dead-lettered only after the first attempt and
   MaxRetries retries.                                                       *)
THEOREM DeadLettersAreEarned == Spec => []DeadLetterIsEarned
<1>1. Init => EarnedInv
  <2> SUFFICES ASSUME Init, NEW e \in Events, NEW k \in 0..(MaxRetries + 1), Claimed(e, k)
               PROVE  Earned(e, k)
    BY DEF EarnedInv, Init, DeadLetterIsEarned
  <2>1. k = 0 /\ Counting(e) = {}
    BY DEF Init, Claimed, Counting
  <2> QED BY <2>1, FS_EmptySet, EngineAssumption DEF Init, Earned
<1>2. EarnedInv => DeadLetterIsEarned
  BY DEF EarnedInv
<1> QED BY <1>1, <1>2, EngineInvariant, NextTypeInv, NextEarned, PTL DEF Spec

-----------------------------------------------------------------------------
(* No event is skipped.                                                     *)

(* Events arrive in timestamp order; and where rebuilds are used, no engine
   dies and no handler fails.  What the code does without these is shown by
   Engine_late.cfg and Engine_rebuild_failure.cfg.                           *)
Orderly ==
    /\ InOrder
    /\ Rebuilds => ~ Crashes /\ Poison \cup Flaky = {}

(* What an engine does not do to the others. *)
Others(g) ==
    \A h \in Engines \ {g} :
        /\ pc'[h] = pc[h] /\ due'[h] = due[h] /\ base'[h] = base[h]
        /\ todo'[h] = todo[h] /\ cur'[h] = cur[h]

(* A step of an engine leaves what the other engines have read alone. *)
LEMMA StepOthers ==
    ASSUME TypeInv, NEW g \in Engines, Cycle(g) \/ StartRebuild(g) \/ Rebuild(g) \/ Crash(g)
    PROVE  Others(g)
<1> SUFFICES ASSUME NEW h \in Engines \ {g}
             PROVE  /\ pc'[h] = pc[h] /\ due'[h] = due[h] /\ base'[h] = base[h]
                    /\ todo'[h] = todo[h] /\ cur'[h] = cur[h]
  BY DEF Others
<1> USE DEF TypeInv, TypeOK, Goto
<1>1. CASE StartCycle(g) \/ RetryHandle(g) \/ RetryDelete(g) \/ RetryAdvance(g)
           \/ RetryBookkeepingFault(g)
  BY <1>1 DEF StartCycle, RetryHandle, RetryDelete, RetryAdvance, RetryBookkeepingFault
<1>2. CASE RetryReschedule(g) \/ RetryDeadLetter(g) \/ RetryDrop(g) \/ EndRetries(g) \/ ReadCursor(g)
  BY <1>2 DEF RetryReschedule, RetryDeadLetter, RetryDrop, EndRetries, ReadCursor
<1>3. CASE Select(g) \/ Dispatch(g) \/ AdvanceCursor(g) \/ AdvanceFault(g) \/ ReadRetryCount(g)
  BY <1>3 DEF Select, Dispatch, AdvanceCursor, AdvanceFault, ReadRetryCount
<1>4. CASE ScheduleRetry(g) \/ DeadLetter(g) \/ DropRows(g) \/ EndCycle(g)
  BY <1>4 DEF ScheduleRetry, DeadLetter, DropRows, EndCycle
<1>5. CASE StartRebuild(g) \/ Rebuild(g) \/ Crash(g)
  BY <1>5 DEF StartRebuild, Rebuild, Truncate, Reselect, Replay, EndRebuild, Crash
<1> QED BY <1>1, <1>2, <1>3, <1>4, <1>5 DEF Cycle

(* What is dead-lettered stays so. *)
LEMMA DeadStable ==
    ASSUME TypeInv, [Next]_vars, NEW e \in Events, dead[e] # "none"
    PROVE  dead'[e] # "none"
BY DEF Next, Cycle, Rebuild, TypeInv, TypeOK, vars, state, Arrive, DeadLetterRetry,
     DeadLetterResolve, StartCycle, RetryHandle, RetryDelete, RetryAdvance, RetryBookkeepingFault,
     RetryReschedule, RetryDeadLetter, RetryDrop, EndRetries, ReadCursor, Select, Dispatch,
     AdvanceCursor, AdvanceFault, ReadRetryCount, ScheduleRetry, DeadLetter, DropRows, EndCycle,
     StartRebuild, Truncate, Reselect, Replay, EndRebuild, Crash

(* What is covered stays covered and what is safe stays safe: a row is deleted
   only when its event is applied or dead-lettered, the target tables are
   truncated only by a rebuild that will apply every event again.            *)
LEMMA SafeStable ==
    ASSUME Orderly, TypeInv, IdInv, ReachInv, [Next]_vars, NEW e \in canonical
    PROVE  (Covered(e) => Covered(e)') /\ (Safe(e) => Safe(e)')
<1> USE EngineAssumption
<1>0. e \in Events
  BY DEF TypeInv, TypeOK
<1>1. ASSUME dead[e] # "none" PROVE dead'[e] # "none"
  BY <1>0, <1>1, DeadStable
<1>2. ASSUME e \in projected PROVE Covered(e)'
  <2>1. ASSUME NEW g \in Engines, Truncate(g) PROVE Pending(e)'
    BY <2>1 DEF Truncate, Goto, Pending, TypeInv, TypeOK
  <2>2. e \in projected' \/ \E g \in Engines : Truncate(g)
    BY <1>2 DEF Next, Cycle, Rebuild, vars, state, Arrive, DeadLetterRetry,
     DeadLetterResolve, StartCycle, RetryHandle, RetryDelete, RetryAdvance, RetryBookkeepingFault,
     RetryReschedule, RetryDeadLetter, RetryDrop, EndRetries, ReadCursor, Select, Dispatch,
     AdvanceCursor, AdvanceFault, ReadRetryCount, ScheduleRetry, DeadLetter, DropRows, EndCycle,
     StartRebuild, Reselect, Replay, EndRebuild, Crash
  <2> QED BY <2>1, <2>2 DEF Covered
<1>3. ASSUME Pending(e) PROVE Covered(e)'
  <2>1. PICK g \in Engines : \/ pc[g] \in {"truncate", "reselect"}
                             \/ pc[g] = "replay" /\ e \in todo[g]
    BY <1>3 DEF Pending
  <2>2. ASSUME pc'[g] = pc[g], todo'[g] = todo[g] PROVE Covered(e)'
    BY <2>1, <2>2 DEF Covered, Pending
  <2>3. CASE \E x \in Events : Arrive(x) \/ DeadLetterRetry(x) \/ DeadLetterResolve(x)
    BY <2>2, <2>3 DEF Arrive, DeadLetterRetry, DeadLetterResolve, local
  <2>4. ASSUME NEW h \in Engines, h # g, Cycle(h) \/ StartRebuild(h) \/ Rebuild(h) \/ Crash(h)
        PROVE  Covered(e)'
    BY <2>2, <2>4, StepOthers DEF Others
  <2>5. CASE Truncate(g) \/ Reselect(g)
    BY <2>5 DEF Truncate, Reselect, Goto, Covered, Pending, TypeInv, TypeOK
  <2>6. CASE Replay(g)
    <3>1. PICK x \in todo[g] :
            /\ todo' = [todo EXCEPT ![g] = @ \ {x}]
            /\ \/ projected' = projected \cup {x}
               \/ MayFail(x)
      BY <2>6 DEF Replay, Oldest
    <3>2. projected' = projected \cup {x}
      BY <2>1, <3>1 DEF ReachInv, ReachAt, Orderly, MayFail
    <3>3. pc' = pc
      BY <2>6 DEF Replay
    <3> QED BY <2>1, <2>6, <3>1, <3>2, <3>3 DEF Replay, Covered, Pending, TypeInv, TypeOK
  <2>7. CASE Cycle(g) \/ StartRebuild(g) \/ EndRebuild(g)
    BY <2>1, <2>7 DEF Cycle, StartCycle, RetryHandle, RetryDelete, RetryAdvance,
       RetryBookkeepingFault, RetryReschedule, RetryDeadLetter, RetryDrop, EndRetries, ReadCursor,
       Select, Dispatch, AdvanceCursor, AdvanceFault, ReadRetryCount, ScheduleRetry, DeadLetter,
       DropRows, EndCycle, StartRebuild, EndRebuild
  <2>8. ~ Crash(g)
    BY <2>1 DEF Crash, Orderly, ReachInv, ReachAt
  <2>9. CASE UNCHANGED vars
    BY <2>2, <2>9 DEF vars, local
  <2> QED BY <2>3, <2>4, <2>5, <2>6, <2>7, <2>8, <2>9 DEF Next, Rebuild
<1>4. Covered(e) => Covered(e)'
  BY <1>1, <1>2, <1>3 DEF Covered
<1>5. ASSUME NEW r \in queue, r.ev = e PROVE Safe(e)'
  <2>1. ASSUME r \in queue' PROVE Safe(e)'
    BY <1>5, <2>1 DEF Safe, Queued
  <2>2. ASSUME NEW g \in Engines, RetryDelete(g) \/ RetryDrop(g) \/ DropRows(g), r \notin queue'
        PROVE  Covered(e)
    <3>1. CASE RetryDelete(g) \/ RetryDrop(g)
      <4>1. r.id = cur[g].id /\ r.id > 0 /\ pc[g] \in {"retried", "retry_drop"}
        BY <2>2, <3>1 DEF RetryDelete, RetryDrop, TypeInv, KnownInv
      <4>2. cur[g].ev = e
        BY <1>5, <4>1 DEF IdInv, Held
      <4> QED BY <4>1, <4>2 DEF ReachInv, ReachAt, Covered
    <3>2. CASE DropRows(g)
      <4>1. cur[g].ev = e
        BY <1>5, <2>2, <3>2 DEF DropRows
      <4> QED BY <3>2, <4>1 DEF DropRows, ReachInv, ReachAt, Covered
    <3> QED BY <2>2, <3>1, <3>2
  <2>3. ASSUME NEW g \in Engines, RetryReschedule(g) PROVE Safe(e)'
    <3>1. PICK q \in queue' : q = IF r.id = cur[g].id THEN [r EXCEPT !.n = cur[g].n + 1] ELSE r
      BY <2>3 DEF RetryReschedule
    <3>2. q.ev = e
      BY <1>5, <3>1 DEF TypeInv, TypeOK, Rows
    <3> QED BY <3>2 DEF Safe, Queued
  <2>4. \/ r \in queue'
        \/ \E g \in Engines : RetryDelete(g) \/ RetryDrop(g) \/ DropRows(g) \/ RetryReschedule(g)
    BY DEF Next, Cycle, Rebuild, vars, state, Arrive, DeadLetterRetry,
     DeadLetterResolve, StartCycle, RetryHandle, RetryAdvance, RetryBookkeepingFault,
     RetryDeadLetter, EndRetries, ReadCursor, Select, Dispatch,
     AdvanceCursor, AdvanceFault, ReadRetryCount, ScheduleRetry, DeadLetter, EndCycle,
     StartRebuild, Truncate, Reselect, Replay, EndRebuild, Crash
  <2> QED BY <1>4, <2>1, <2>2, <2>3, <2>4 DEF Safe
<1> QED BY <1>4, <1>5 DEF Safe, Queued

(* Only ingestion adds canonical rows. *)
LEMMA CanonicalStep ==
    ASSUME NEW g \in Engines, Cycle(g) \/ StartRebuild(g) \/ Rebuild(g) \/ Crash(g)
    PROVE  canonical' = canonical
BY DEF Cycle, Rebuild, state, StartCycle, RetryHandle, RetryDelete, RetryAdvance,
     RetryBookkeepingFault, RetryReschedule, RetryDeadLetter, RetryDrop, EndRetries, ReadCursor,
     Select, Dispatch, AdvanceCursor, AdvanceFault, ReadRetryCount, ScheduleRetry, DeadLetter,
     DropRows, EndCycle, StartRebuild, Truncate, Reselect, Replay, EndRebuild, Crash

(* A step that adds no canonical row and leaves what an engine has read alone
   keeps what that engine relies on.                                         *)
LEMMA ReachStable ==
    ASSUME Orderly, TypeInv, IdInv, ReachInv, [Next]_vars, NEW h \in Engines,
           canonical' = canonical, pc'[h] = pc[h], due'[h] = due[h], base'[h] = base[h],
           todo'[h] = todo[h], cur'[h] = cur[h]
    PROVE  ReachAt(h)'
<1>1. \A e \in canonical : (Covered(e) => Covered(e)') /\ (Safe(e) => Safe(e)')
  BY SafeStable
<1>2. \A e \in Events : dead[e] # "none" => dead'[e] # "none"
  BY DeadStable
<1>3. \A r \in due[h] : r.ev \in canonical
  BY DEF TypeInv, KnownInv
<1>4. /\ pc[h] \in RetryPCs \cup ApplyPCs => cur[h].ev \in canonical
      /\ cur[h] # NoRow => cur[h].ev \in canonical
  BY DEF TypeInv, TypeOK, CurInv, KnownInv
<1>5. ReachAt(h)
  BY DEF ReachInv
<1>6. canonical \subseteq Events
  BY DEF TypeInv, TypeOK
<1> QED BY <1>1, <1>2, <1>3, <1>4, <1>5, <1>6 DEF ReachAt, RetryPCs, ApplyPCs

(* Every step keeps, for every engine, what it relies on. *)
LEMMA NextReach ==
    Orderly /\ TypeInv /\ TypeInv' /\ IdInv /\ SkipInv /\ [Next]_vars => ReachInv'
<1> SUFFICES ASSUME Orderly, TypeInv, TypeInv', IdInv, SkipInv, [Next]_vars PROVE ReachInv'
  OBVIOUS
<1> USE EngineAssumption
<1>a. ReachInv /\ PrefixInv /\ OrderInv /\ canonical \subseteq Events
  BY DEF SkipInv, TypeInv, TypeOK
<1>b. \A e \in canonical : (Covered(e) => Covered(e)') /\ (Safe(e) => Safe(e)')
  BY <1>a, SafeStable
<1>c. \A e \in Events : dead[e] # "none" => dead'[e] # "none"
  BY DeadStable
<1>d. ASSUME cursor' = cursor PROVE cursor' # NoEvent => Safe(cursor)'
  BY <1>a, <1>b, <1>d DEF ReachInv, TypeInv, KnownInv
<1>e. \A e \in canonical : Covered(e)' => Safe(e)'
  BY DEF Safe
<1>f. ASSUME NEW g \in Engines, Cycle(g) \/ StartRebuild(g) \/ Rebuild(g) \/ Crash(g)
      PROVE  canonical' = canonical /\ \A h \in Engines \ {g} : ReachAt(h)'
  BY <1>a, <1>f, StepOthers, CanonicalStep, ReachStable DEF Others
<1>g. ASSUME NEW g \in Engines PROVE ReachAt(g)
  BY <1>a DEF ReachInv
<1>1. ASSUME NEW x \in Events, Arrive(x) PROVE ReachInv'
  <2>1. /\ canonical' = canonical \cup {x} /\ \A d \in canonical : Ts[d] < Ts[x]
        /\ UNCHANGED <<projected, cursor, queue, dead, pc, due, base, todo, cur>>
    BY <1>1 DEF Arrive, Orderly, local
  <2>2. \A e : (Safe(e)' <=> Safe(e)) /\ (Covered(e)' <=> Covered(e))
    BY <2>1 DEF Safe, Covered, Pending, Queued
  <2>3. ASSUME NEW g \in Engines PROVE ReachAt(g)'
    <3>1. \A t \in todo[g] : Ts[t] < Ts[x]
      BY <2>1 DEF TypeInv, KnownInv
    <3> QED BY <1>g, <2>1, <2>2, <3>1 DEF ReachAt
  <2> QED BY <1>d, <2>1, <2>3 DEF ReachInv
<1>2. ASSUME NEW x \in Events, DeadLetterRetry(x) \/ DeadLetterResolve(x) PROVE ReachInv'
  <2>1. UNCHANGED <<canonical, cursor, pc, due, base, todo, cur>>
    BY <1>2 DEF DeadLetterRetry, DeadLetterResolve, local
  <2> QED BY <1>a, <1>d, <2>1, ReachStable DEF ReachInv
<1>3. ASSUME NEW g \in Engines, StartCycle(g) PROVE ReachInv'
  <2>1. PICK rows \in SUBSET queue : due' = [due EXCEPT ![g] = rows]
    BY <1>3 DEF StartCycle
  <2>2. \A r \in rows : Safe(r.ev) /\ r.ev \in canonical
    BY DEF Safe, Queued, TypeInv, KnownInv
  <2>3. ReachAt(g)'
    BY <1>3, <1>b, <2>1, <2>2 DEF StartCycle, Goto, ReachAt, ApplyPCs, TypeInv, TypeOK
  <2>4. cursor' = cursor
    BY <1>3 DEF StartCycle, state
  <2> QED BY <1>3, <1>d, <1>f, <2>3, <2>4 DEF ReachInv, Cycle
<1>4. ASSUME NEW g \in Engines, RetryHandle(g) PROVE ReachInv'
  <2>1. PICK r \in due[g] :
        /\ due' = [due EXCEPT ![g] = @ \ {r}]
        /\ cur' = [cur EXCEPT ![g] = r]
        /\ \/ /\ MaySucceed(r.ev)
              /\ projected' = projected \cup {r.ev}
              /\ Goto(g, "retried") /\ UNCHANGED attempts
           \/ /\ MayFail(r.ev)
              /\ Attempted(r.ev)
              /\ Goto(g, IF Exhausted(r.n) THEN "retry_dead" ELSE "reschedule")
              /\ UNCHANGED projected
    BY <1>4 DEF RetryHandle
  <2>2. \A q \in due[g] : Safe(q.ev) /\ q.ev \in canonical
    BY <1>g DEF ReachAt, TypeInv, KnownInv
  <2>3. due'[g] \subseteq due[g] /\ cur'[g] = r
    BY <2>1 DEF TypeInv, TypeOK
  <2>4. \/ pc'[g] = "retried" /\ r.ev \in projected'
        \/ pc'[g] \in {"retry_dead", "reschedule"}
    BY <2>1 DEF Goto, TypeInv, TypeOK
  <2>5. ReachAt(g)'
    BY <1>b, <2>2, <2>3, <2>4 DEF ReachAt, Covered, ApplyPCs
  <2>6. cursor' = cursor
    BY <1>4 DEF RetryHandle
  <2> QED BY <1>4, <1>d, <1>f, <2>5, <2>6 DEF ReachInv, Cycle
<1>5. ASSUME NEW g \in Engines, RetryDelete(g) \/ RetryBookkeepingFault(g) PROVE ReachInv'
  <2>1. /\ UNCHANGED <<cursor, due, cur>> /\ cur[g].ev \in canonical /\ Covered(cur[g].ev)
        /\ pc'[g] \in {"retry_advance", "retry_dead", "reschedule"}
    BY <1>5, <1>g DEF RetryDelete, RetryBookkeepingFault, Goto, state, ReachAt,
                TypeInv, TypeOK, CurInv, KnownInv, RetryPCs
  <2>2. \A q \in due[g] : Safe(q.ev) /\ q.ev \in canonical
    BY <1>g DEF ReachAt, TypeInv, KnownInv
  <2>3. ReachAt(g)'
    BY <1>b, <1>e, <2>1, <2>2 DEF ReachAt, ApplyPCs
  <2> QED BY <1>5, <1>d, <1>f, <2>1, <2>3 DEF ReachInv, Cycle
<1>6. ASSUME NEW g \in Engines, RetryAdvance(g) PROVE ReachInv'
  <2>1. cur[g].ev \in canonical /\ Covered(cur[g].ev) /\ cursor' = cur[g].ev
    BY <1>6, <1>g DEF RetryAdvance, ReachAt, TypeInv, CurInv, KnownInv, RetryPCs
  <2>2. \A q \in due[g] : Safe(q.ev) /\ q.ev \in canonical
    BY <1>g DEF ReachAt, TypeInv, KnownInv
  <2>3. pc'[g] = "retry" /\ due' = due
    BY <1>6 DEF RetryAdvance, Goto, TypeInv, TypeOK
  <2>4. ReachAt(g)'
    BY <1>b, <2>2, <2>3 DEF ReachAt, ApplyPCs
  <2>5. Safe(cursor)'
    BY <1>b, <1>e, <2>1 DEF Safe, Covered, Queued, Pending
  <2> QED BY <1>6, <1>f, <2>4, <2>5 DEF ReachInv, Cycle
<1>7. ASSUME NEW g \in Engines,
             RetryReschedule(g) \/ RetryDeadLetter(g) \/ RetryDrop(g) \/ EndRetries(g) \/ EndCycle(g)
      PROVE  ReachInv'
  <2>1. /\ UNCHANGED <<cursor, due>>
        /\ \/ pc'[g] \in {"retry", "read_cursor", "idle"}
           \/ RetryDeadLetter(g) /\ pc'[g] = "retry_drop" /\ dead'[cur'[g].ev] # "none"
    BY <1>7 DEF RetryReschedule, RetryDeadLetter, RetryDrop, EndRetries, EndCycle, Goto, state,
                TypeInv, TypeOK, CurInv, RetryPCs, Rows
  <2>2. \A q \in due[g] : Safe(q.ev) /\ q.ev \in canonical
    BY <1>g DEF ReachAt, TypeInv, KnownInv
  <2>3. ReachAt(g)'
    BY <1>b, <2>1, <2>2 DEF ReachAt, ApplyPCs
  <2> QED BY <1>7, <1>d, <1>f, <2>1, <2>3 DEF ReachInv, Cycle
<1>8. ASSUME NEW g \in Engines, ReadCursor(g) PROVE ReachInv'
  <2>1. /\ UNCHANGED <<cursor, due>> /\ pc'[g] = "select"
        /\ base'[g] = IF cursor = NoEvent THEN 0 ELSE Ts[cursor]
    BY <1>8 DEF ReadCursor, CursorTs, Goto, state, TypeInv, TypeOK
  <2>2. cursor = NoEvent \/ (cursor \in canonical /\ Safe(cursor))
    BY <1>a DEF ReachInv, TypeInv, KnownInv
  <2>3. \A q \in due[g] : Safe(q.ev) /\ q.ev \in canonical
    BY <1>g DEF ReachAt, TypeInv, KnownInv
  <2>4. canonical' = canonical
    BY <1>8 DEF ReadCursor, state
  <2>5. base'[g] = 0 \/ \E c \in canonical : Ts[c] = base'[g] /\ Safe(c)'
    BY <1>b, <2>1, <2>2
  <2>6. ReachAt(g)'
    BY <1>b, <2>1, <2>3, <2>4, <2>5 DEF ReachAt, ApplyPCs
  <2> QED BY <1>8, <1>d, <1>f, <2>1, <2>6 DEF ReachInv, Cycle
<1>9. ASSUME NEW g \in Engines, Select(g) PROVE ReachInv'
  <2>1. /\ UNCHANGED <<canonical, cursor, due>> /\ pc'[g] = "dispatch" /\ pc[g] = "select"
        /\ todo'[g] = {e \in canonical : Ts[e] > base[g]}
    BY <1>9 DEF Select, Goto, state, TypeInv, TypeOK
  <2>2. ASSUME NEW d \in canonical, d \notin todo'[g] PROVE Safe(d)
    <3>1. Ts[d] \in Nat \ {0} /\ base[g] \in Nat /\ Ts[d] <= base[g]
      BY <2>1, <2>2, <1>a DEF TypeInv, TypeOK
    <3>2. PICK c \in canonical : Ts[c] = base[g] /\ Safe(c)
      BY <1>g, <2>1, <3>1 DEF ReachAt
    <3>3. CASE Ts[d] < Ts[c]
      BY <1>a, <3>2, <3>3 DEF PrefixInv
    <3>4. CASE Ts[d] = Ts[c]
      BY <1>a, <3>2, <3>4 DEF OrderInv
    <3> QED BY <3>1, <3>2, <3>3, <3>4
  <2>3. \A q \in due[g] : Safe(q.ev) /\ q.ev \in canonical
    BY <1>g DEF ReachAt, TypeInv, KnownInv
  <2>4. ReachAt(g)'
    BY <1>b, <2>1, <2>2, <2>3 DEF ReachAt
  <2> QED BY <1>9, <1>d, <1>f, <2>1, <2>4 DEF ReachInv, Cycle
<1>10. ASSUME NEW g \in Engines, Dispatch(g) PROVE ReachInv'
  <2>1. PICK x \in todo[g] :
        /\ todo' = [todo EXCEPT ![g] = @ \ {x}]
        /\ cur' = [cur EXCEPT ![g] = [id |-> 0, ev |-> x, n |-> 0]]
        /\ \/ /\ projected' = projected \cup {x}
              /\ Goto(g, "advance")
           \/ Goto(g, "count")
    BY <1>10 DEF Dispatch, Oldest
  <2>2. /\ UNCHANGED <<canonical, cursor, due>> /\ pc[g] = "dispatch" /\ cur[g].ev = NoEvent
        /\ todo'[g] = todo[g] \ {x} /\ cur'[g].ev = x
        /\ pc'[g] = "count" \/ (pc'[g] = "advance" /\ x \in projected')
    BY <1>10, <2>1 DEF Dispatch, Goto, TypeInv, TypeOK, CurInv, FreePCs, NoRow
  <2>3. \A d \in canonical : d \in todo[g] \/ Safe(d) \/ \A t \in todo[g] : Ts[t] < Ts[d]
    BY <1>a, <1>g, <2>2 DEF ReachAt
  <2>4. \A q \in due[g] : Safe(q.ev) /\ q.ev \in canonical
    BY <1>g DEF ReachAt, TypeInv, KnownInv
  <2>5. ReachAt(g)'
    BY <1>b, <2>2, <2>3, <2>4 DEF ReachAt, Covered
  <2> QED BY <1>10, <1>d, <1>f, <2>2, <2>5 DEF ReachInv, Cycle
<1>11. ASSUME NEW g \in Engines,
              AdvanceCursor(g) \/ AdvanceFault(g) \/ ReadRetryCount(g) \/ ScheduleRetry(g)
              \/ DeadLetter(g) \/ DropRows(g)
       PROVE  ReachInv'
  <2>1. PICK x \in canonical : x = cur[g].ev
    BY <1>11 DEF AdvanceCursor, AdvanceFault, ReadRetryCount, ScheduleRetry, DeadLetter, DropRows,
                 TypeInv, CurInv, KnownInv, ApplyPCs
  <2>2. /\ UNCHANGED <<canonical, due, todo>> /\ pc[g] \in ApplyPCs
        /\ pc'[g] \in {"dispatch", "count", "schedule", "dead_letter", "drop"}
    BY <1>11 DEF AdvanceCursor, AdvanceFault, ReadRetryCount, ScheduleRetry, DeadLetter, DropRows,
                 Goto, state, TypeInv, TypeOK, ApplyPCs
  <2>3. pc'[g] = "dispatch" => Safe(x)'
    <3>1. CASE AdvanceCursor(g)
      <4>1. Covered(x)
        BY <1>g, <2>1, <3>1 DEF AdvanceCursor, ReachAt
      <4> QED BY <1>b, <1>e, <2>1, <4>1
    <3>2. CASE ScheduleRetry(g)
      <4>1. [id |-> NewId(x), ev |-> x, n |-> cur[g].n + 1] \in queue'
        BY <2>1, <3>2 DEF ScheduleRetry
      <4> QED BY <4>1 DEF Safe, Queued
    <3>3. CASE DropRows(g)
      <4>1. dead[x] # "none"
        BY <1>g, <2>1, <3>3 DEF DropRows, ReachAt
      <4> QED BY <1>a, <1>c, <2>1, <4>1 DEF Safe, Covered
    <3> QED BY <1>11, <3>1, <3>2, <3>3
            DEF AdvanceFault, ReadRetryCount, DeadLetter, Goto, TypeInv, TypeOK
  <2>4. pc'[g] # "dispatch" => cur'[g].ev = x
    <3>1. CASE ReadRetryCount(g)
      <4>1. PICK c \in 0..MaxRetries : cur' = [cur EXCEPT ![g].n = c]
        BY <3>1, CountRead
      <4>2. cur[g] \in Rows
        BY <3>1 DEF ReadRetryCount, TypeInv, CurInv, ApplyPCs
      <4> QED BY <2>1, <4>1, <4>2 DEF TypeInv, TypeOK, Rows
    <3> QED BY <1>11, <2>1, <3>1
            DEF AdvanceCursor, AdvanceFault, ScheduleRetry, DeadLetter, DropRows, Goto, TypeInv, TypeOK
  <2>5. pc'[g] = "drop" => dead'[x] # "none"
    BY <1>a, <1>11, <2>1 DEF AdvanceCursor, AdvanceFault, ReadRetryCount, ScheduleRetry, DeadLetter,
                 DropRows, Goto, TypeInv, TypeOK
  <2>6. \A d \in canonical : \/ d \in todo[g] \/ Safe(d) \/ d = x
                             \/ \A t \in todo[g] : Ts[t] < Ts[d]
    BY <1>g, <2>1, <2>2 DEF ReachAt
  <2>7. \A q \in due[g] : Safe(q.ev) /\ q.ev \in canonical
    BY <1>g DEF ReachAt, TypeInv, KnownInv
  <2>8. ReachAt(g)'
    BY <1>b, <2>1, <2>2, <2>3, <2>4, <2>5, <2>6, <2>7 DEF ReachAt, ApplyPCs
  <2>9. cursor' # NoEvent => Safe(cursor)'
    <3>1. cursor' = cursor \/ (cursor' = x /\ Covered(x))
      BY <1>11, <1>g, <2>1 DEF AdvanceCursor, AdvanceFault, ReadRetryCount, ScheduleRetry, DeadLetter,
                   DropRows, state, ReachAt
    <3>2. CASE cursor' = x /\ Covered(x)
      <4>1. Safe(x)'
        BY <1>b, <1>e, <2>1, <3>2
      <4> QED BY <3>2, <4>1 DEF Safe, Covered, Queued, Pending
    <3> QED BY <1>d, <3>1, <3>2
  <2> QED BY <1>11, <1>f, <2>8, <2>9 DEF ReachInv, Cycle
<1>12. ASSUME NEW g \in Engines, StartRebuild(g) \/ Truncate(g) \/ Reselect(g) PROVE ReachInv'
  <2>1. /\ UNCHANGED <<cursor, due, cur>> /\ cur[g] = NoRow /\ Rebuilds
        /\ pc'[g] \in {"truncate", "reselect", "replay"}
    BY <1>12, <1>g DEF StartRebuild, Truncate, Reselect, Goto, state, ReachAt,
                 TypeInv, TypeOK, CurInv, FreePCs
  <2>2. \A q \in due[g] : Safe(q.ev) /\ q.ev \in canonical
    BY <1>g DEF ReachAt, TypeInv, KnownInv
  <2>3. ReachAt(g)'
    BY <1>b, <2>1, <2>2 DEF ReachAt, ApplyPCs
  <2> QED BY <1>12, <1>d, <1>f, <2>1, <2>3 DEF ReachInv, Rebuild
<1>13. ASSUME NEW g \in Engines, Replay(g) PROVE ReachInv'
  <2>1. PICK x \in todo[g] :
           \/ projected' = projected \cup {x} /\ cur' = [cur EXCEPT ![g] = [id |-> 0, ev |-> x, n |-> 0]]
           \/ cur' = cur
    BY <1>13 DEF Replay, Oldest
  <2>2. /\ UNCHANGED <<cursor, due, pc>> /\ pc[g] = "replay" /\ Rebuilds
        /\ cur'[g] = cur[g] \/ (cur'[g].ev = x /\ x \in projected')
    BY <1>13, <1>g, <2>1 DEF Replay, ReachAt, TypeInv, TypeOK
  <2>3. cur[g] # NoRow => cur[g].ev \in canonical /\ Covered(cur[g].ev)
    BY <1>g, <2>2 DEF ReachAt, TypeInv, TypeOK, KnownInv
  <2>4. \A q \in due[g] : Safe(q.ev) /\ q.ev \in canonical
    BY <1>g DEF ReachAt, TypeInv, KnownInv
  <2>5. cur'[g] # NoRow => Covered(cur[g].ev)'
    <3>1. CASE cur'[g] = cur[g]
      <4>1. cur[g] # NoRow => Covered(cur[g].ev)'
        <5> SUFFICES ASSUME cur[g] # NoRow PROVE Covered(cur[g].ev)'
          OBVIOUS
        <5>1. PICK y \in canonical : y = cur[g].ev /\ Covered(y)
          BY <2>3
        <5>2. Covered(y)'
          BY <1>b, <5>1
        <5> QED BY <3>1, <5>1, <5>2
      <4> QED BY <3>1, <4>1
    <3>2. CASE cur'[g].ev = x /\ x \in projected'
      BY <3>2 DEF Covered
    <3> QED BY <2>2, <3>1, <3>2
  <2>6. ReachAt(g)'
    BY <1>b, <2>2, <2>4, <2>5 DEF ReachAt, ApplyPCs
  <2> QED BY <1>13, <1>d, <1>f, <2>2, <2>6 DEF ReachInv, Rebuild
<1>14. ASSUME NEW g \in Engines, EndRebuild(g) PROVE ReachInv'
  <2>1. cursor' = cursor \/ (cursor' \in canonical /\ Covered(cursor'))
    BY <1>14, <1>g DEF EndRebuild, ReachAt, TypeInv, TypeOK, KnownInv
  <2>2. cursor' # NoEvent => Safe(cursor)'
    <3>1. CASE cursor' \in canonical /\ Covered(cursor')
      <4>1. PICK y \in canonical : y = cursor' /\ Covered(y)
        BY <3>1
      <4>2. Safe(y)'
        BY <1>b, <1>e, <4>1
      <4> QED BY <4>1, <4>2 DEF Safe, Covered, Queued, Pending
    <3> QED BY <1>d, <2>1, <3>1
  <2>3. \A q \in due[g] : Safe(q.ev) /\ q.ev \in canonical
    BY <1>g DEF ReachAt, TypeInv, KnownInv
  <2>4. pc'[g] = "idle" /\ due' = due
    BY <1>14 DEF EndRebuild, Goto, TypeInv, TypeOK
  <2>5. ReachAt(g)'
    BY <1>b, <2>3, <2>4 DEF ReachAt, ApplyPCs
  <2> QED BY <1>14, <1>f, <2>2, <2>5 DEF ReachInv, Rebuild
<1>15. ASSUME NEW g \in Engines, Crash(g) PROVE ReachInv'
  <2>1. ReachAt(g)' /\ cursor' = cursor
    BY <1>15 DEF Crash, Goto, state, ReachAt, ApplyPCs, TypeInv, TypeOK
  <2> QED BY <1>15, <1>d, <1>f, <2>1 DEF ReachInv
<1>16. CASE UNCHANGED vars
  BY <1>16, <1>a, <1>d, ReachStable DEF vars, state, local, ReachInv
<1> QED BY <1>1, <1>2, <1>3, <1>4, <1>5, <1>6, <1>7, <1>8, <1>9, <1>10, <1>11, <1>12, <1>13, <1>14,
           <1>15, <1>16 DEF Next, Cycle, Rebuild

(* Every step of an engine reaches only events whose elders are safe. *)
LEMMA NextPrefix ==
    Orderly /\ TypeInv /\ TypeInv' /\ IdInv /\ SkipInv /\ [Next]_vars => PrefixInv'
<1> SUFFICES ASSUME Orderly, TypeInv, TypeInv', IdInv, SkipInv, [Next]_vars PROVE PrefixInv'
  OBVIOUS
<1> USE EngineAssumption
<1> DEFINE Reached(e) == Safe(e) \/ InHand(e)
<1>a. ReachInv /\ PrefixInv /\ OrderInv /\ canonical \subseteq Events
  BY DEF SkipInv, TypeInv, TypeOK
<1>b. \A e \in canonical : Safe(e) => Safe(e)'
  BY <1>a, SafeStable
<1>c. ASSUME canonical' = canonical, \A e \in canonical : Reached(e)' => Reached(e)
      PROVE  PrefixInv'
  BY <1>a, <1>b, <1>c DEF PrefixInv
<1>g. ASSUME NEW g \in Engines PROVE ReachAt(g)
  BY <1>a DEF ReachInv
<1>1. ASSUME NEW x \in Events, Arrive(x) PROVE PrefixInv'
  <2>1. /\ canonical' = canonical \cup {x} /\ x \notin canonical /\ \A d \in canonical : Ts[d] < Ts[x]
        /\ UNCHANGED <<projected, cursor, queue, dead, pc, due, base, todo, cur>>
    BY <1>1 DEF Arrive, Orderly, local
  <2>2. \A e : (Safe(e)' <=> Safe(e)) /\ (InHand(e)' <=> InHand(e))
    BY <2>1 DEF Safe, Covered, Pending, Queued, InHand
  <2>3. ~ InHand(x)
    BY <2>1 DEF InHand, TypeInv, CurInv, KnownInv, ApplyPCs
  <2>4. Safe(x) => \E g \in Engines : pc[g] \in {"truncate", "reselect"}
    BY <2>1 DEF Safe, Covered, Pending, Queued, TypeInv, TypeOK, KnownInv
  <2>5. Safe(x) => \A d \in canonical : Safe(d)
    BY <2>4 DEF Safe, Covered, Pending
  <2>6. \A d \in canonical : Ts[d] \in Nat /\ Ts[x] \in Nat /\ ~ (Ts[x] < Ts[d])
    BY <1>a, <2>1
  <2> QED BY <1>a, <2>1, <2>2, <2>3, <2>5, <2>6 DEF PrefixInv
<1>2. ASSUME NEW x \in Events, DeadLetterRetry(x) \/ DeadLetterResolve(x) PROVE PrefixInv'
  <2>1. \A e \in canonical : Reached(e)' => Reached(e)
    BY <1>2, <1>a DEF DeadLetterRetry, DeadLetterResolve, local, Safe, Covered, Queued, Pending, InHand,
                TypeInv, TypeOK
  <2>2. canonical' = canonical
    BY <1>2 DEF DeadLetterRetry, DeadLetterResolve
  <2> QED BY <1>c, <2>1, <2>2
<1>3. ASSUME NEW g \in Engines, StartRebuild(g) PROVE PrefixInv'
  <2>1. pc'[g] = "truncate"
    BY <1>3 DEF StartRebuild, Goto, TypeInv, TypeOK
  <2> QED BY <2>1 DEF PrefixInv, Safe, Covered, Pending
<1>4. ASSUME NEW g \in Engines, Truncate(g) \/ Reselect(g) PROVE PrefixInv'
  <2>1. \A e : Safe(e)
    BY <1>4 DEF Truncate, Reselect, Safe, Covered, Pending
  <2> QED BY <1>4, <1>c, <2>1, CanonicalStep DEF Rebuild
<1>5. ASSUME NEW g \in Engines, Dispatch(g) PROVE PrefixInv'
  <2>1. PICK x \in todo[g] :
        /\ \A d \in todo[g] : Ts[x] <= Ts[d]
        /\ todo' = [todo EXCEPT ![g] = @ \ {x}]
        /\ cur' = [cur EXCEPT ![g] = [id |-> 0, ev |-> x, n |-> 0]]
        /\ \/ projected' = projected \cup {x} /\ Goto(g, "advance")
           \/ projected' = projected /\ Goto(g, "count")
    BY <1>5 DEF Dispatch, Oldest
  <2>2. /\ UNCHANGED <<canonical, queue, dead>> /\ pc[g] = "dispatch" /\ cur[g].ev = NoEvent
        /\ x \in canonical
    BY <1>5 DEF Dispatch, TypeInv, CurInv, KnownInv, FreePCs, NoRow
  <2>3. \A e \in canonical \ {x} : Reached(e)' => Reached(e)
    BY <2>1, <2>2 DEF Goto, Safe, Covered, Queued, Pending, InHand, TypeInv, TypeOK
  <2>4. ASSUME NEW d \in canonical, Ts[d] < Ts[x] PROVE Safe(d)
    <3>1. Ts[d] \in Nat /\ Ts[x] \in Nat
      BY <1>a, <2>2
    <3>2. d \notin todo[g] /\ ~ (Ts[x] < Ts[d])
      BY <2>1, <2>4, <3>1
    <3> QED BY <1>a, <1>g, <2>2, <3>2 DEF ReachAt
  <2> QED BY <1>a, <1>b, <2>2, <2>3, <2>4 DEF PrefixInv
<1>6. ASSUME NEW g \in Engines, Replay(g) PROVE PrefixInv'
  <2>1. PICK x \in todo[g] :
        /\ todo' = [todo EXCEPT ![g] = @ \ {x}]
        /\ projected' \subseteq projected \cup {x}
    BY <1>6 DEF Replay, Oldest
  <2>2. /\ pc[g] = "replay" /\ UNCHANGED <<canonical, queue, dead, pc>>
        /\ \A h \in Engines : pc[h] \in {"count", "schedule", "dead_letter"} => cur'[h] = cur[h]
    BY <1>6 DEF Replay, TypeInv, TypeOK
  <2>3. Safe(x)
    BY <2>2 DEF Safe, Covered, Pending
  <2>4. \A e \in canonical : Reached(e)' => Reached(e)
    BY <2>1, <2>2, <2>3 DEF Safe, Covered, Queued, Pending, InHand, TypeInv, TypeOK
  <2> QED BY <1>c, <2>2, <2>4
<1>7. ASSUME NEW g \in Engines, RetryHandle(g) PROVE PrefixInv'
  <2>1. PICK r \in due[g] :
        /\ cur' = [cur EXCEPT ![g] = r]
        /\ projected' \subseteq projected \cup {r.ev}
        /\ pc'[g] \in RetryPCs
    BY <1>7 DEF RetryHandle, Goto, RetryPCs, TypeInv, TypeOK
  <2>2. Safe(r.ev)
    BY <1>g DEF ReachAt
  <2>3. /\ UNCHANGED <<canonical, queue, dead, todo>> /\ pc[g] = "retry"
        /\ \A h \in Engines \ {g} : pc'[h] = pc[h] /\ cur'[h] = cur[h]
    BY <1>7, <2>1 DEF RetryHandle, Goto, TypeInv, TypeOK
  <2>4. \A e \in canonical : Reached(e)' => Reached(e)
    BY <2>1, <2>2, <2>3 DEF Safe, Covered, Queued, Pending, InHand, RetryPCs
  <2> QED BY <1>c, <2>3, <2>4
<1>8. ASSUME NEW g \in Engines, RetryReschedule(g) PROVE PrefixInv'
  <2>1. ASSUME NEW q \in queue' PROVE Queued(q.ev)
    <3>1. PICK r \in queue : q = IF r.id = cur[g].id THEN [r EXCEPT !.n = cur[g].n + 1] ELSE r
      BY <1>8, <2>1 DEF RetryReschedule
    <3>2. q.ev = r.ev
      BY <3>1 DEF TypeInv, TypeOK, Rows
    <3> QED BY <3>2 DEF Queued
  <2>2. /\ UNCHANGED <<canonical, projected, dead, todo>> /\ pc'[g] = "retry"
        /\ \A h \in Engines \ {g} : pc'[h] = pc[h] /\ cur'[h] = cur[h]
    BY <1>8 DEF RetryReschedule, Goto, TypeInv, TypeOK
  <2>3. \A e : Queued(e)' => Queued(e)
    BY <2>1 DEF Queued
  <2>4. \A e \in canonical : Reached(e)' => Reached(e)
    BY <2>2, <2>3 DEF Safe, Covered, Pending, InHand
  <2> QED BY <1>c, <2>2, <2>4
<1>9. ASSUME NEW g \in Engines, RetryDeadLetter(g) \/ DeadLetter(g) PROVE PrefixInv'
  <2>1. Reached(cur[g].ev)
    BY <1>9, <1>g DEF RetryDeadLetter, DeadLetter, ReachAt, InHand
  <2>2. /\ UNCHANGED <<canonical, projected, queue, todo, cur>> /\ pc'[g] \in {"retry_drop", "drop"}
        /\ \A h \in Engines \ {g} : pc'[h] = pc[h]
        /\ \A e \in canonical : dead'[e] # "none" => dead[e] # "none" \/ e = cur[g].ev
    BY <1>9, <1>a DEF RetryDeadLetter, DeadLetter, Goto, TypeInv, TypeOK
  <2>3. \A e : (Pending(e)' => Pending(e)) /\ (InHand(e)' => InHand(e)) /\ (Queued(e)' => Queued(e))
    BY <2>2 DEF Queued, Pending, InHand
  <2>4. \A e \in canonical : Reached(e)' => Reached(e)
    BY <2>1, <2>2, <2>3 DEF Safe, Covered
  <2> QED BY <1>c, <2>2, <2>4
<1>10. ASSUME NEW g \in Engines, AdvanceFault(g) \/ ReadRetryCount(g) PROVE PrefixInv'
  <2>1. Reached(cur[g].ev)
    BY <1>10, <1>g DEF AdvanceFault, ReadRetryCount, ReachAt, Safe, InHand
  <2>2. cur'[g].ev = cur[g].ev
    <3>1. CASE ReadRetryCount(g)
      <4>1. PICK c \in 0..MaxRetries : cur' = [cur EXCEPT ![g].n = c]
        BY <3>1, CountRead
      <4>2. cur[g] \in Rows
        BY <3>1 DEF ReadRetryCount, TypeInv, CurInv, ApplyPCs
      <4> QED BY <4>1, <4>2 DEF TypeInv, TypeOK, Rows
    <3> QED BY <1>10, <3>1 DEF AdvanceFault
  <2>3. /\ UNCHANGED <<canonical, projected, queue, dead, todo>>
        /\ pc'[g] \in {"count", "schedule", "dead_letter"}
        /\ \A h \in Engines \ {g} : pc'[h] = pc[h] /\ cur'[h] = cur[h]
    BY <1>10 DEF AdvanceFault, ReadRetryCount, Goto, state, TypeInv, TypeOK
  <2>4. \A e \in canonical : Reached(e)' => Reached(e)
    BY <2>1, <2>2, <2>3 DEF Safe, Covered, Queued, Pending, InHand
  <2> QED BY <1>c, <2>3, <2>4
<1>11. ASSUME NEW g \in Engines, ScheduleRetry(g) PROVE PrefixInv'
  <2>1. InHand(cur[g].ev)
    BY <1>11 DEF ScheduleRetry, InHand
  <2>2. /\ UNCHANGED <<canonical, projected, dead, todo>> /\ pc'[g] = "dispatch"
        /\ \A h \in Engines \ {g} : pc'[h] = pc[h] /\ cur'[h] = cur[h]
        /\ \A q \in queue' : q \in queue \/ q.ev = cur[g].ev
    BY <1>11 DEF ScheduleRetry, Goto, TypeInv, TypeOK
  <2>3. \A e : /\ (Pending(e)' => Pending(e)) /\ (InHand(e)' => InHand(e))
              /\ (Queued(e)' => Queued(e) \/ e = cur[g].ev)
    BY <2>2 DEF Queued, Pending, InHand
  <2>4. \A e \in canonical : Reached(e)' => Reached(e)
    BY <2>1, <2>2, <2>3 DEF Safe, Covered
  <2> QED BY <1>c, <2>2, <2>4
<1>12. ASSUME NEW g \in Engines,
              StartCycle(g) \/ RetryDelete(g) \/ RetryAdvance(g) \/ RetryBookkeepingFault(g)
              \/ RetryDrop(g) \/ EndRetries(g) \/ ReadCursor(g) \/ Select(g) \/ AdvanceCursor(g)
              \/ DropRows(g) \/ EndCycle(g) \/ EndRebuild(g) \/ Crash(g)
       PROVE  PrefixInv'
  <2> USE <1>12 DEF StartCycle, RetryDelete, RetryAdvance, RetryBookkeepingFault, RetryDrop,
          EndRetries, ReadCursor, Select, AdvanceCursor, DropRows, EndCycle, EndRebuild, Crash
  <2>1. queue' \subseteq queue /\ UNCHANGED <<canonical, projected, dead>>
    BY DEF state
  <2>2. \A h \in Engines \ {g} : pc'[h] = pc[h] /\ todo'[h] = todo[h] /\ cur'[h] = cur[h]
    BY DEF Goto, TypeInv, TypeOK
  <2>3. pc'[g] \in {"idle", "retry", "retry_advance", "retry_dead", "reschedule", "read_cursor",
                    "select", "dispatch"}
    BY DEF Goto, TypeInv, TypeOK
  <2>4. \A e \in canonical : Reached(e)' => Reached(e)
    BY <2>1, <2>2, <2>3 DEF Safe, Covered, Queued, Pending, InHand
  <2> QED BY <1>c, <2>1, <2>4
<1>13. CASE UNCHANGED vars
  BY <1>13, <1>c DEF vars, state, local, Safe, Covered, Queued, Pending, InHand
<1> QED BY <1>1, <1>2, <1>3, <1>4, <1>5, <1>6, <1>7, <1>8, <1>9, <1>10, <1>11, <1>12, <1>13
        DEF Next, Cycle, Rebuild

(* When events arrive in timestamp order, and no rebuild is cut short or drops
   an event, the cursor never passes by an event that is neither applied,
   queued for retry nor dead-lettered: for any number of engines, whatever
   they have read, in any interleaving, with failing handlers, failing
   bookkeeping and crashes.                                                  *)
THEOREM NoEventIsSkipped ==
    ASSUME Orderly
    PROVE  Spec => []NoSkippedEvent
<1>1. Init => SkipInv
  BY EngineAssumption DEF Init, SkipInv, OrderInv, PrefixInv, ReachInv, ReachAt, ApplyPCs
<1>2. TypeInv /\ TypeInv' /\ IdInv /\ SkipInv /\ [Next]_vars => OrderInv'
  <2> SUFFICES ASSUME TypeInv, SkipInv, [Next]_vars PROVE OrderInv'
    OBVIOUS
  <2>1. canonical \subseteq Events /\ OrderInv
    BY DEF TypeInv, TypeOK, SkipInv
  <2>2. ASSUME NEW x \in Events, Arrive(x) PROVE OrderInv'
    BY <2>1, <2>2, EngineAssumption DEF Arrive, Orderly, OrderInv
  <2>3. ASSUME canonical' = canonical PROVE OrderInv'
    BY <2>1, <2>3 DEF OrderInv
  <2> QED BY <2>2, <2>3, CanonicalStep
          DEF Next, vars, state, DeadLetterRetry, DeadLetterResolve
<1>3. TypeInv /\ TypeInv' /\ IdInv /\ SkipInv /\ [Next]_vars => SkipInv'
  BY <1>2, NextPrefix, NextReach DEF SkipInv
<1>4. TypeInv /\ SkipInv => NoSkippedEvent
  <2> SUFFICES ASSUME TypeInv, SkipInv, NEW e \in canonical, ~ Safe(e)
               PROVE  Ts[e] > CursorTs
    BY DEF NoSkippedEvent, Safe, Covered, Queued, Pending, Rebuilding
  <2>1. e \in Events /\ Ts[e] \in Nat \ {0}
    BY EngineAssumption DEF TypeInv, TypeOK
  <2>2. CASE cursor = NoEvent
    BY <2>1, <2>2 DEF CursorTs
  <2>3. CASE cursor # NoEvent
    <3>1. cursor \in canonical /\ Safe(cursor) /\ Ts[cursor] \in Nat
      BY <2>3, EngineAssumption DEF SkipInv, ReachInv, TypeInv, TypeOK, KnownInv
    <3>2. Ts[e] # Ts[cursor]
      BY <3>1 DEF SkipInv, OrderInv
    <3>3. ~ (Ts[e] < Ts[cursor])
      BY <3>1 DEF SkipInv, PrefixInv
    <3> QED BY <2>1, <2>3, <3>1, <3>2, <3>3 DEF CursorTs
  <2> QED BY <2>2, <2>3
<1> QED BY <1>1, <1>3, <1>4, EngineInvariant, NextTypeInv, PTL DEF Spec
=============================================================================
