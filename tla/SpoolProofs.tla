----------------------------- MODULE SpoolProofs -----------------------------
(***************************************************************************)
(* Proofs about Spool, for any set of events, any set of concurrent ingest *)
(* runs and any combination of faults.                                     *)
(***************************************************************************)
EXTENDS Spool, FiniteSetTheorems, TLAPS

-----------------------------------------------------------------------------
(* Type correctness.                                                        *)

(* The directory listing is finite: spool/ holds finitely many files, so the
   length ingest() counts against is a natural number.                       *)
FiniteInv ==
    /\ IsFiniteSet(spool)
    /\ \A i \in Ingestors : IsFiniteSet(batch[i])

(* A run past its claim and before its settlement has an event in hand, and
   a run between two files has none.                                         *)
HandInv ==
    \A i \in Ingestors :
        IF pc[i] \in {"idle", "scan"} THEN cur[i] = NoEvent ELSE cur[i] \in Events

TypeInv == TypeOK /\ FiniteInv /\ HandInv

(* Settling a file leaves every component of a run well typed. *)
LEMMA SettleType ==
    ASSUME NEW i \in Ingestors, NEW o \in {"processed", "failed", "skipped"},
           TypeInv, Settle(i, o)
    PROVE  /\ pc' \in [Ingestors -> PCs]
           /\ cur' \in [Ingestors -> Events \cup {NoEvent}]
           /\ batch' \in [Ingestors -> SUBSET Events]
           /\ tally' \in [Ingestors -> [processed : Nat, failed : Nat, skipped : Nat]]
           /\ listed' \in [Ingestors -> Nat]
           /\ HandInv'
           /\ \A j \in Ingestors : IsFiniteSet(batch'[j])
<1> USE DEF TypeInv
<1>1. [tally[i] EXCEPT ![o] = @ + 1] \in [processed : Nat, failed : Nat, skipped : Nat]
  BY DEF TypeOK
<1>2. tally' \in [Ingestors -> [processed : Nat, failed : Nat, skipped : Nat]]
  BY <1>1 DEF TypeOK, Settle
<1>3. HandInv'
  BY DEF TypeOK, Settle, HandInv
<1> QED BY <1>2, <1>3 DEF TypeOK, FiniteInv, Settle, PCs

(* Moving one file into the inbox keeps it finite. *)
LEMMA TryReplaceFinite ==
    ASSUME NEW e, IsFiniteSet(spool), TryReplace(e, processing, spool)
    PROVE  IsFiniteSet(spool')
<1>1. IsFiniteSet(spool \cup {e})
  BY FS_AddElement
<1>2. spool' = spool \/ spool' = spool \cup {e}
  BY DEF TryReplace
<1> QED BY <1>1, <1>2

(* The initial state satisfies the typing invariant. *)
LEMMA InitTypeInv == Init => TypeInv
<1> SUFFICES ASSUME Init PROVE TypeInv
  OBVIOUS
<1>1. TypeOK /\ HandInv
  BY DEF Init, TypeOK, HandInv, PCs, ZeroTally
<1>2. FiniteInv
  BY FS_EmptySet DEF Init, FiniteInv
<1> QED BY <1>1, <1>2 DEF TypeInv

(* Every step of the system preserves the typing invariant. *)
LEMMA NextTypeInv == TypeInv /\ [Next]_vars => TypeInv'
<1> SUFFICES ASSUME TypeInv, [Next]_vars PROVE TypeInv'
  OBVIOUS
<1> USE SpoolAssumption DEF TypeInv
<1>1. ASSUME NEW e \in Events, WriteEvent(e) PROVE TypeInv'
  <2>1. IsFiniteSet(spool')
    BY <1>1, FS_AddElement DEF WriteEvent, FiniteInv
  <2> QED BY <1>1, <2>1 DEF WriteEvent, TypeOK, FiniteInv, HandInv, tables, runs
<1>2. ASSUME NEW i \in Ingestors, StartIngest(i) PROVE TypeInv'
  <2>1. Cardinality(spool) \in Nat
    BY FS_CardinalityType DEF FiniteInv
  <2>2. FiniteInv'
    BY <1>2 DEF StartIngest, FiniteInv, TypeOK, files
  <2> QED BY <1>2, <2>1, <2>2
          DEF StartIngest, Goto, TypeOK, HandInv, ZeroTally, PCs, files, tables
<1>3. ASSUME NEW i \in Ingestors, EndIngest(i) PROVE TypeInv'
  BY <1>3 DEF EndIngest, Goto, TypeOK, FiniteInv, HandInv, ZeroTally, PCs, files, tables
<1>4. ASSUME NEW i \in Ingestors, Claim(i) PROVE TypeInv'
  <2>1. PICK e \in batch[i] \cap spool :
            /\ spool' = spool \ {e}
            /\ processing' = processing \cup {e}
            /\ cur' = [cur EXCEPT ![i] = e]
            /\ batch' = [batch EXCEPT ![i] = @ \ {e}]
    BY <1>4 DEF Claim
  <2>2. FiniteInv'
    BY <2>1, FS_RemoveElement DEF FiniteInv, TypeOK
  <2>3. e \in Events
    BY <2>1 DEF TypeOK
  <2> QED BY <1>4, <2>1, <2>2, <2>3 DEF Claim, Goto, TypeOK, HandInv, PCs, tables
<1>5. ASSUME NEW i \in Ingestors, LoseClaim(i) PROVE TypeInv'
  <2>1. PICK e \in batch[i] \ spool :
            /\ batch' = [batch EXCEPT ![i] = @ \ {e}]
            /\ tally' = [tally EXCEPT ![i]["skipped"] = @ + 1]
    BY <1>5 DEF LoseClaim
  <2>2. FiniteInv'
    BY <1>5, <2>1, FS_RemoveElement DEF LoseClaim, FiniteInv, TypeOK, files
  <2>3. tally' \in [Ingestors -> [processed : Nat, failed : Nat, skipped : Nat]]
    BY <2>1 DEF TypeOK
  <2> QED BY <1>5, <2>1, <2>2, <2>3 DEF LoseClaim, TypeOK, HandInv, files, tables
<1>6. ASSUME NEW i \in Ingestors, ReadFile(i) PROVE TypeInv'
  BY <1>6 DEF ReadFile, Goto, TypeOK, FiniteInv, HandInv, PCs, files, tables
<1>7. ASSUME NEW i \in Ingestors, Reject(i) PROVE TypeInv'
  <2>1. cur[i] \in Events
    BY <1>7 DEF Reject, HandInv
  <2> QED BY <1>7, <2>1, SettleType DEF Reject, MoveToFailed, TryReplace, TypeOK, FiniteInv, tables
<1>8. ASSUME NEW i \in Ingestors, WriteRaw(i) PROVE TypeInv'
  BY <1>8 DEF WriteRaw, Goto, TypeOK, FiniteInv, HandInv, PCs, files
<1>9. ASSUME NEW i \in Ingestors, RawFault(i) PROVE TypeInv'
  BY <1>9 DEF RawFault, Goto, TypeOK, FiniteInv, HandInv, PCs, files, tables
<1>10. ASSUME NEW i \in Ingestors, RestoreLocked(i) PROVE TypeInv'
  <2>1. cur[i] \in Events
    BY <1>10 DEF RestoreLocked, HandInv
  <2>2. IsFiniteSet(spool')
    BY <1>10, TryReplaceFinite DEF RestoreLocked, ReturnToInbox, FiniteInv
  <2> QED BY <1>10, <2>1, <2>2, SettleType
          DEF RestoreLocked, ReturnToInbox, TryReplace, TypeOK, FiniteInv, tables
<1>11. ASSUME NEW i \in Ingestors, RestoreFailed(i) PROVE TypeInv'
  <2>1. cur[i] \in Events
    BY <1>11 DEF RestoreFailed, HandInv
  <2>2. IsFiniteSet(spool')
    BY <1>11, TryReplaceFinite DEF RestoreFailed, ReturnToInbox, FiniteInv
  <2> QED BY <1>11, <2>1, <2>2
          DEF RestoreFailed, ReturnToInbox, TryReplace, Goto, TypeOK, FiniteInv, HandInv, PCs, tables
<1>12. ASSUME NEW i \in Ingestors, FailEventFile(i) PROVE TypeInv'
  <2>1. cur[i] \in Events
    BY <1>12 DEF FailEventFile, HandInv
  <2>2. IsFiniteSet(spool')
    BY <1>12, FS_RemoveElement DEF FailEventFile, MoveToFailed, TryReplace, FiniteInv
  <2> QED BY <1>12, <2>1, <2>2, SettleType
          DEF FailEventFile, MoveToFailed, TryReplace, TypeOK, FiniteInv, tables
<1>13. ASSUME NEW i \in Ingestors, WriteDual(i) PROVE TypeInv'
  BY <1>13 DEF WriteDual, Goto, TypeOK, FiniteInv, HandInv, PCs, files
<1>14. ASSUME NEW i \in Ingestors, DualLocked(i) PROVE TypeInv'
  BY <1>14, SettleType DEF DualLocked, TypeOK, FiniteInv, files, tables
<1>15. ASSUME NEW i \in Ingestors, DualError(i) PROVE TypeInv'
  BY <1>15 DEF DualError, Goto, TypeOK, FiniteInv, HandInv, PCs, files, tables
<1>16. ASSUME NEW i \in Ingestors, ProjectLookup(i) PROVE TypeInv'
  BY <1>16 DEF ProjectLookup, Goto, TypeOK, FiniteInv, HandInv, PCs, files, tables
<1>17. ASSUME NEW i \in Ingestors, ProjectInsert(i) PROVE TypeInv'
  BY <1>17 DEF ProjectInsert, Goto, TypeOK, FiniteInv, HandInv, PCs, files
<1>18. ASSUME NEW i \in Ingestors, Finish(i) PROVE TypeInv'
  <2>1. cur[i] \in Events
    BY <1>18 DEF Finish, HandInv
  <2> QED BY <1>18, <2>1, SettleType DEF Finish, TypeOK, FiniteInv, tables
<1>19. ASSUME NEW i \in Ingestors, Crash(i) PROVE TypeInv'
  <2>1. FiniteInv'
    BY <1>19, FS_EmptySet DEF Crash, FiniteInv, TypeOK, files
  <2> QED BY <1>19, <2>1 DEF Crash, Goto, TypeOK, HandInv, ZeroTally, PCs, files, tables
<1>20. CASE UNCHANGED vars
  BY <1>20 DEF vars, files, tables, runs, TypeOK, FiniteInv, HandInv
<1>21. ASSUME NEW i \in Ingestors, ClaimFault(i) PROVE TypeInv'
  <2>1. PICK e \in batch[i] :
            /\ cur' = [cur EXCEPT ![i] = e]
            /\ batch' = [batch EXCEPT ![i] = @ \ {e}]
    BY <1>21 DEF ClaimFault
  <2>2. FiniteInv'
    BY <1>21, <2>1, FS_RemoveElement DEF ClaimFault, FiniteInv, TypeOK, files
  <2>3. e \in Events
    BY <2>1 DEF TypeOK
  <2> QED BY <1>21, <2>1, <2>2, <2>3 DEF ClaimFault, Goto, TypeOK, HandInv, PCs, files, tables
<1>22. ASSUME NEW i \in Ingestors, FinishFault(i) PROVE TypeInv'
  BY <1>22 DEF FinishFault, Goto, TypeOK, FiniteInv, HandInv, PCs, files, tables
<1> QED BY <1>1, <1>2, <1>3, <1>4, <1>5, <1>6, <1>7, <1>8, <1>9, <1>10, <1>11, <1>12,
           <1>13, <1>14, <1>15, <1>16, <1>17, <1>18, <1>19, <1>20, <1>21, <1>22
        DEF Next, IngestStep

(* The spool's type invariant holds in every reachable state: every file,
   row and hand of every run is a known event, and every tally a number.     *)
THEOREM SpoolTypeCorrect == Spec => []TypeOK
<1>1. Spec => []TypeInv
  BY InitTypeInv, NextTypeInv, PTL DEF Spec
<1>2. TypeInv => TypeOK
  BY DEF TypeInv
<1> QED BY <1>1, <1>2, PTL

-----------------------------------------------------------------------------
(* Durability.                                                              *)

(* What a run has already written for the file in hand, at each label; this
   is what makes the durability invariants inductive.                        *)
HeldInv ==
    \A i \in Ingestors :
        /\ pc[i] \in {"rawed", "dualed", "insert", "finish"} => cur[i] \in raw
        /\ pc[i] \in {"dualed", "insert", "finish"} => Recorded(cur[i])

(* Only published events are in a directory, in a listing or in hand. *)
KnownInv ==
    /\ spool \cup processing \subseteq emitted
    /\ \A i \in Ingestors : batch[i] \subseteq emitted
    /\ \A i \in Ingestors : cur[i] # NoEvent => cur[i] \in emitted

SafeInv ==
    /\ HeldInv
    /\ KnownInv
    /\ NoLostEvent
    /\ ProcessedIsRecorded
    /\ RawFirst

(* The initial state satisfies the durability invariant. *)
LEMMA InitSafeInv == Init => SafeInv
BY DEF Init, SafeInv, HeldInv, KnownInv, NoLostEvent, ProcessedIsRecorded, RawFirst

(* Every step of the system preserves the durability invariant. *)
LEMMA NextSafeInv == TypeInv /\ SafeInv /\ [Next]_vars => SafeInv'
<1> SUFFICES ASSUME TypeInv, SafeInv, [Next]_vars PROVE SafeInv'
  OBVIOUS
<1> USE SpoolAssumption DEF SafeInv
<1>1. ASSUME NEW e \in Events, WriteEvent(e) PROVE SafeInv'
  BY <1>1 DEF WriteEvent, HeldInv, KnownInv, NoLostEvent, ProcessedIsRecorded, RawFirst, Recorded, tables, runs
<1>2. ASSUME NEW i \in Ingestors, StartIngest(i) PROVE SafeInv'
  BY <1>2 DEF StartIngest, Goto, HeldInv, KnownInv, NoLostEvent,
       ProcessedIsRecorded, RawFirst, Recorded, TypeInv, TypeOK,
       files, tables
<1>3. ASSUME NEW i \in Ingestors, EndIngest(i) PROVE SafeInv'
  BY <1>3 DEF EndIngest, Goto, HeldInv, KnownInv, NoLostEvent,
       ProcessedIsRecorded, RawFirst, Recorded, TypeInv, TypeOK,
       files, tables
<1>4. ASSUME NEW i \in Ingestors, Claim(i) PROVE SafeInv'
  <2>1. HeldInv' /\ KnownInv'
    BY <1>4 DEF Claim, Goto, HeldInv, KnownInv, Recorded, TypeInv, TypeOK, tables
  <2>2. NoLostEvent'
    BY <1>4 DEF Claim, NoLostEvent
  <2> QED BY <1>4, <2>1, <2>2
          DEF Claim, ProcessedIsRecorded, RawFirst, Recorded, tables
<1>5. ASSUME NEW i \in Ingestors, LoseClaim(i) PROVE SafeInv'
  BY <1>5 DEF LoseClaim, HeldInv, KnownInv, NoLostEvent, ProcessedIsRecorded,
       RawFirst, Recorded, TypeInv, TypeOK, files, tables
<1>6. ASSUME NEW i \in Ingestors, ReadFile(i) PROVE SafeInv'
  BY <1>6 DEF ReadFile, Goto, HeldInv, KnownInv, NoLostEvent, ProcessedIsRecorded,
       RawFirst, Recorded, TypeInv, TypeOK, files, tables
<1>7. ASSUME NEW i \in Ingestors, Reject(i) PROVE SafeInv'
  <2>1. HeldInv' /\ KnownInv'
    BY <1>7 DEF Reject, MoveToFailed, TryReplace, Settle, HeldInv, KnownInv, Recorded, TypeInv, TypeOK, HandInv, tables
  <2>2. NoLostEvent'
    BY <1>7 DEF Reject, MoveToFailed, TryReplace, NoLostEvent
  <2>3. ProcessedIsRecorded' /\ RawFirst'
    BY <1>7 DEF Reject, HeldInv, ProcessedIsRecorded, RawFirst, Recorded, tables
  <2> QED BY <2>1, <2>2, <2>3
<1>8. ASSUME NEW i \in Ingestors, WriteRaw(i) PROVE SafeInv'
  <2>1. HeldInv' /\ KnownInv'
    BY <1>8 DEF WriteRaw, Goto, HeldInv, KnownInv, Recorded, TypeInv, TypeOK, files
  <2>2. ProcessedIsRecorded' /\ RawFirst'
    BY <1>8 DEF WriteRaw, HeldInv, ProcessedIsRecorded, RawFirst, Recorded, TypeInv, TypeOK, HandInv, files
  <2> QED BY <1>8, <2>1, <2>2 DEF WriteRaw, NoLostEvent, files
<1>9. ASSUME NEW i \in Ingestors, RawFault(i) PROVE SafeInv'
  BY <1>9 DEF RawFault, Goto, HeldInv, KnownInv, NoLostEvent, ProcessedIsRecorded,
       RawFirst, Recorded, TypeInv, TypeOK, files, tables
<1>10. ASSUME NEW i \in Ingestors, RestoreLocked(i) PROVE SafeInv'
  <2>1. HeldInv' /\ KnownInv'
    BY <1>10 DEF RestoreLocked, ReturnToInbox, TryReplace, Settle, HeldInv, KnownInv, Recorded, TypeInv, TypeOK, HandInv, tables
  <2>2. NoLostEvent'
    BY <1>10 DEF RestoreLocked, ReturnToInbox, TryReplace, NoLostEvent
  <2>3. ProcessedIsRecorded' /\ RawFirst'
    BY <1>10 DEF RestoreLocked, HeldInv, ProcessedIsRecorded, RawFirst, Recorded, tables
  <2> QED BY <2>1, <2>2, <2>3
<1>11. ASSUME NEW i \in Ingestors, RestoreFailed(i) PROVE SafeInv'
  <2>1. HeldInv' /\ KnownInv'
    BY <1>11 DEF RestoreFailed, ReturnToInbox, TryReplace, Goto, HeldInv, KnownInv, Recorded, TypeInv, TypeOK, HandInv, tables
  <2>2. NoLostEvent'
    BY <1>11 DEF RestoreFailed, ReturnToInbox, TryReplace, NoLostEvent
  <2>3. ProcessedIsRecorded' /\ RawFirst'
    BY <1>11 DEF RestoreFailed, HeldInv, ProcessedIsRecorded, RawFirst, Recorded, tables
  <2> QED BY <2>1, <2>2, <2>3
<1>12. ASSUME NEW i \in Ingestors, FailEventFile(i) PROVE SafeInv'
  <2>1. HeldInv' /\ KnownInv'
    BY <1>12 DEF FailEventFile, MoveToFailed, TryReplace, Settle, HeldInv, KnownInv, Recorded, TypeInv, TypeOK, HandInv, tables
  <2>2. NoLostEvent'
    BY <1>12 DEF FailEventFile, MoveToFailed, TryReplace, NoLostEvent
  <2>3. ProcessedIsRecorded' /\ RawFirst'
    BY <1>12 DEF FailEventFile, HeldInv, ProcessedIsRecorded, RawFirst, Recorded, tables
  <2> QED BY <2>1, <2>2, <2>3
<1>13. ASSUME NEW i \in Ingestors, WriteDual(i) PROVE SafeInv'
  <2>1. HeldInv' /\ KnownInv'
    BY <1>13 DEF WriteDual, Goto, HeldInv, KnownInv, Recorded, TypeInv, TypeOK, files
  <2>2. ProcessedIsRecorded' /\ RawFirst'
    BY <1>13 DEF WriteDual, HeldInv, ProcessedIsRecorded, RawFirst, Recorded, TypeInv, TypeOK, HandInv, files
  <2> QED BY <1>13, <2>1, <2>2 DEF WriteDual, NoLostEvent, files
<1>14. ASSUME NEW i \in Ingestors, DualLocked(i) PROVE SafeInv'
  BY <1>14 DEF DualLocked, Settle, HeldInv, KnownInv, NoLostEvent,
       ProcessedIsRecorded, RawFirst, Recorded, TypeInv, TypeOK,
       files, tables
<1>15. ASSUME NEW i \in Ingestors, DualError(i) PROVE SafeInv'
  BY <1>15 DEF DualError, Goto, HeldInv, KnownInv, NoLostEvent,
       ProcessedIsRecorded, RawFirst, Recorded, TypeInv, TypeOK,
       files, tables
<1>16. ASSUME NEW i \in Ingestors, ProjectLookup(i) PROVE SafeInv'
  BY <1>16 DEF ProjectLookup, Goto, HeldInv, KnownInv, NoLostEvent,
       ProcessedIsRecorded, RawFirst, Recorded, TypeInv, TypeOK,
       files, tables
<1>17. ASSUME NEW i \in Ingestors, ProjectInsert(i) PROVE SafeInv'
  <2>1. HeldInv' /\ KnownInv'
    BY <1>17 DEF ProjectInsert, Goto, HeldInv, KnownInv, Recorded, TypeInv, TypeOK, files
  <2>2. ProcessedIsRecorded' /\ RawFirst'
    BY <1>17 DEF ProjectInsert, HeldInv, ProcessedIsRecorded, RawFirst, Recorded, TypeInv, TypeOK, HandInv, files
  <2> QED BY <1>17, <2>1, <2>2 DEF ProjectInsert, NoLostEvent, files
<1>18. ASSUME NEW i \in Ingestors, Finish(i) PROVE SafeInv'
  <2>1. HeldInv' /\ KnownInv'
    BY <1>18 DEF Finish, Settle, HeldInv, KnownInv, Recorded, TypeInv, TypeOK, HandInv, tables
  <2>2. NoLostEvent'
    BY <1>18 DEF Finish, NoLostEvent
  <2>3. ProcessedIsRecorded' /\ RawFirst'
    BY <1>18 DEF Finish, HeldInv, ProcessedIsRecorded, RawFirst, Recorded, tables
  <2> QED BY <2>1, <2>2, <2>3
<1>19. ASSUME NEW i \in Ingestors, Crash(i) PROVE SafeInv'
  BY <1>19 DEF Crash, Goto, HeldInv, KnownInv, NoLostEvent, ProcessedIsRecorded,
       RawFirst, Recorded, TypeInv, TypeOK, files, tables
<1>20. CASE UNCHANGED vars
  BY <1>20 DEF vars, files, tables, runs, HeldInv, KnownInv, NoLostEvent,
              ProcessedIsRecorded, RawFirst, Recorded
<1>21. ASSUME NEW i \in Ingestors, ClaimFault(i) PROVE SafeInv'
  <2>1. HeldInv' /\ KnownInv'
    <3>1. PICK e \in batch[i] : cur' = [cur EXCEPT ![i] = e]
      BY <1>21 DEF ClaimFault
    <3>2. e \in emitted
      BY <3>1 DEF KnownInv, TypeInv, TypeOK
    <3> QED BY <1>21, <3>1, <3>2
            DEF ClaimFault, Goto, HeldInv, KnownInv, Recorded, TypeInv, TypeOK, files, tables
  <2> QED BY <1>21, <2>1
          DEF ClaimFault, NoLostEvent, ProcessedIsRecorded, RawFirst, Recorded, files, tables
<1>22. ASSUME NEW i \in Ingestors, FinishFault(i) PROVE SafeInv'
  BY <1>22 DEF FinishFault, Goto, HeldInv, KnownInv, NoLostEvent, ProcessedIsRecorded,
       RawFirst, Recorded, TypeInv, TypeOK, files, tables
<1> QED BY <1>1, <1>2, <1>3, <1>4, <1>5, <1>6, <1>7, <1>8, <1>9, <1>10,
           <1>11, <1>12, <1>13, <1>14, <1>15, <1>16, <1>17, <1>18, <1>19, <1>20,
           <1>21, <1>22
        DEF Next, IngestStep

(* Both invariants together are inductive. *)
LEMMA SpoolInvariant == Spec => [](TypeInv /\ SafeInv)
<1>1. Init => TypeInv /\ SafeInv
  BY InitTypeInv, InitSafeInv
<1>2. TypeInv /\ SafeInv /\ [Next]_vars => (TypeInv /\ SafeInv)'
  BY NextTypeInv, NextSafeInv
<1> QED BY <1>1, <1>2, PTL DEF Spec

(* No published event's file is ever lost, whatever the number of runs and
   wherever they fail or die.                                                *)
THEOREM NoEventIsLost == Spec => []NoLostEvent
<1>1. SafeInv => NoLostEvent
  BY DEF SafeInv
<1> QED BY SpoolInvariant, <1>1, PTL

(* processed/ holds only events that are in all of their tables. *)
THEOREM ProcessedMeansRecorded == Spec => []ProcessedIsRecorded
<1>1. SafeInv => ProcessedIsRecorded
  BY DEF SafeInv
<1> QED BY SpoolInvariant, <1>1, PTL

(* The raw row of an event is written before any canonical or execution row. *)
THEOREM RawBeforeCanonical == Spec => []RawFirst
<1>1. SafeInv => RawFirst
  BY DEF SafeInv
<1> QED BY SpoolInvariant, <1>1, PTL

-----------------------------------------------------------------------------
(* Stranded files.                                                          *)

(* The faults that leave any file in processing/ with no run to move it on: a
   rename that fails, a death.                                               *)
Strands == {"file_error", "crash"}

(* A file in processing/ is abandoned or held by a run that has yet to move it.
   A run at fail_event_file holds one too, but will look for it in spool/; were
   it the only holder, the file would stay.                                  *)
HolderInv ==
    \A e \in processing \ Abandoned : \E i \in Ingestors : cur[i] = e /\ pc[i] # "fail_event_file"

(* A run that goes on with the file in hand keeps holding it. *)
LEMMA HolderGoesOn ==
    ASSUME TypeOK, HolderInv, processing' = processing, NEW i \in Ingestors, NEW l,
           Goto(i, l), l # "fail_event_file", cur' = cur, raw \subseteq raw'
    PROVE  HolderInv'
BY DEF TypeOK, HolderInv, Abandoned, Goto

(* A run that gives its file up to the paths of Abandoned leaves the others'. *)
LEMMA HolderAbandons ==
    ASSUME TypeOK, HolderInv, NEW i \in Ingestors, cur[i] \in Abandoned,
           UNCHANGED <<processing, raw>>,
           \A j \in Ingestors \ {i} : cur'[j] = cur[j] /\ pc'[j] = pc[j]
    PROVE  HolderInv'
BY DEF TypeOK, HolderInv, Abandoned

(* A run that has moved its file out of processing/ holds nothing there. *)
LEMMA HolderSettles ==
    ASSUME TypeOK, HolderInv, NEW i \in Ingestors, NEW o, Settle(i, o),
           processing' = processing \ {cur[i]}, raw' = raw
    PROVE  HolderInv'
BY DEF TypeOK, HolderInv, Abandoned, Settle

(* Without those faults every step leaves a holder with every claimed file. *)
LEMMA NextHolder ==
    ASSUME Faults \cap Strands = {}
    PROVE  TypeInv /\ HeldInv /\ HolderInv /\ [Next]_vars => HolderInv'
<1> SUFFICES ASSUME TypeInv, HeldInv, HolderInv, [Next]_vars PROVE HolderInv'
  OBVIOUS
<1>a. "file_error" \notin Faults /\ "crash" \notin Faults
  BY DEF Strands
<1> USE <1>a, SpoolAssumption DEF TypeInv
<1>1. ASSUME NEW e \in Events, WriteEvent(e) PROVE HolderInv'
  BY <1>1 DEF WriteEvent, HolderInv, Abandoned, tables, runs
<1>2. ASSUME NEW i \in Ingestors, StartIngest(i) PROVE HolderInv'
  BY <1>2, HolderGoesOn DEF StartIngest, files, tables
<1>3. ASSUME NEW i \in Ingestors, EndIngest(i) PROVE HolderInv'
  BY <1>3, HolderGoesOn DEF EndIngest, files, tables
<1>4. ASSUME NEW i \in Ingestors, Claim(i) PROVE HolderInv'
  <2>1. PICK e \in batch[i] \cap spool :
            processing' = processing \cup {e} /\ cur' = [cur EXCEPT ![i] = e]
    BY <1>4 DEF Claim
  <2>2. cur[i] = NoEvent /\ processing \subseteq Events
    BY <1>4 DEF Claim, HandInv, TypeOK
  <2>3. cur'[i] = e /\ pc'[i] = "claimed" /\ \A j \in Ingestors \ {i} : cur'[j] = cur[j] /\ pc'[j] = pc[j]
    BY <1>4, <2>1 DEF Claim, Goto, TypeOK
  <2>4. raw' = raw
    BY <1>4 DEF Claim, tables
  <2> QED BY <2>1, <2>2, <2>3, <2>4 DEF HolderInv, Abandoned
<1>5. ASSUME NEW i \in Ingestors, LoseClaim(i) PROVE HolderInv'
  BY <1>5 DEF LoseClaim, HolderInv, Abandoned, files, tables
<1>6. ASSUME NEW i \in Ingestors, ReadFile(i) PROVE HolderInv'
  <2>1. CASE cur[i] \in Raising
    <3>1. cur[i] \in Abandoned
      BY <2>1 DEF Abandoned
    <3>2. /\ UNCHANGED <<processing, raw>>
          /\ \A j \in Ingestors \ {i} : cur'[j] = cur[j] /\ pc'[j] = pc[j]
      BY <1>6 DEF ReadFile, Goto, TypeOK, files, tables
    <3> QED BY <3>1, <3>2, HolderAbandons
  <2>2. CASE cur[i] \notin Raising
    BY <1>6, <2>2, HolderGoesOn DEF ReadFile, files, tables
  <2> QED BY <2>1, <2>2
<1>7. ASSUME NEW i \in Ingestors, Reject(i) PROVE HolderInv'
  BY <1>7, HolderSettles DEF Reject, MoveToFailed, TryReplace, tables
<1>8. ASSUME NEW i \in Ingestors, WriteRaw(i) PROVE HolderInv'
  BY <1>8, HolderGoesOn DEF WriteRaw, files
<1>9. ASSUME NEW i \in Ingestors, RawFault(i) PROVE HolderInv'
  BY <1>9, HolderGoesOn DEF RawFault, files, tables
<1>10. ASSUME NEW i \in Ingestors, RestoreLocked(i) PROVE HolderInv'
  BY <1>10, HolderSettles DEF RestoreLocked, ReturnToInbox, TryReplace, tables
<1>11. ASSUME NEW i \in Ingestors, RestoreFailed(i) PROVE HolderInv'
  BY <1>11 DEF RestoreFailed, ReturnToInbox, TryReplace, Goto, HolderInv, Abandoned, TypeOK, tables
<1>12. ASSUME NEW i \in Ingestors, FailEventFile(i) PROVE HolderInv'
  BY <1>12 DEF FailEventFile, Settle, HolderInv, Abandoned, TypeOK, tables
<1>13. ASSUME NEW i \in Ingestors, WriteDual(i) PROVE HolderInv'
  BY <1>13, HolderGoesOn DEF WriteDual, files
<1>14. ASSUME NEW i \in Ingestors, ProjectLookup(i) PROVE HolderInv'
  BY <1>14, HolderGoesOn DEF ProjectLookup, files, tables
<1>15. ASSUME NEW i \in Ingestors, ProjectInsert(i) PROVE HolderInv'
  BY <1>15, HolderGoesOn DEF ProjectInsert, files
<1>16. ASSUME NEW i \in Ingestors, Finish(i) PROVE HolderInv'
  BY <1>16, HolderSettles DEF Finish, tables
<1>17. CASE UNCHANGED vars
  BY <1>17 DEF vars, files, tables, runs, HolderInv, Abandoned
<1>18. ASSUME NEW i \in Ingestors, ClaimFault(i) \/ FinishFault(i) \/ Crash(i)
       PROVE  FALSE
  BY <1>18 DEF ClaimFault, FinishFault, Crash
<1>19. ASSUME NEW i \in Ingestors, DualLocked(i) \/ DualError(i) PROVE HolderInv'
  <2>1. cur[i] \in Abandoned
    BY <1>19 DEF DualLocked, DualError, HeldInv, Abandoned
  <2>2. /\ UNCHANGED <<processing, raw>>
        /\ \A j \in Ingestors \ {i} : cur'[j] = cur[j] /\ pc'[j] = pc[j]
    BY <1>19 DEF DualLocked, DualError, Goto, Settle, TypeOK, files, tables
  <2> QED BY <2>1, <2>2, HolderAbandons
<1> QED BY <1>1, <1>2, <1>3, <1>4, <1>5, <1>6, <1>7, <1>8, <1>9, <1>10, <1>11, <1>12,
           <1>13, <1>14, <1>15, <1>16, <1>17, <1>18, <1>19
        DEF Next, IngestStep

(* Where no rename and no process fails, a file in processing/ is in the hands
   of a run, or is one ingest() itself has abandoned: its content raised, or its
   canonical write failed.  However many runs share the directory and however
   often raw writes and projections fail, no other file stays there.         *)
THEOREM NoFileIsStranded ==
    ASSUME Faults \cap Strands = {}
    PROVE  Spec => []NoStrandedFile
<1>1. Init => HolderInv
  BY DEF Init, HolderInv
<1>2. HolderInv => NoStrandedFile
  BY DEF HolderInv, NoStrandedFile
<1>3. SafeInv => HeldInv
  BY DEF SafeInv
<1>4. TypeInv /\ HeldInv /\ HolderInv /\ [Next]_vars => HolderInv'
  BY NextHolder
<1> QED BY <1>1, <1>2, <1>3, <1>4, SpoolInvariant, PTL DEF Spec

-----------------------------------------------------------------------------
(* Refinement of EventLog.                                                  *)

(* Every step of the spool is a step of the event log, or invisible there. *)
LEMMA NextRefines ==
    TypeInv /\ SafeInv /\ [Next]_vars => [Log!Next]_(Log!vars)
<1> SUFFICES ASSUME TypeInv, SafeInv, [Next]_vars PROVE [Log!Next]_(Log!vars)
  OBVIOUS
<1> DEFINE quiet == UNCHANGED <<emitted, failed, raw, business, ai>>
<1>0. ASSUME quiet PROVE UNCHANGED Log!vars
  BY <1>0 DEF Log!vars, Recorded
<1>1. ASSUME NEW e \in Events, WriteEvent(e) PROVE Log!Next
  <2>1. Log!Publish(e)
    BY <1>1 DEF WriteEvent, Log!Publish, Recorded, tables
  <2> QED BY <2>1 DEF Log!Next
<1>2. ASSUME NEW i \in Ingestors, Reject(i) \/ FailEventFile(i)
      PROVE  Log!Next \/ UNCHANGED Log!vars
  <2>1. cur[i] \in Events /\ cur[i] \in emitted
    BY <1>2, SpoolAssumption
       DEF Reject, FailEventFile, TypeInv, HandInv, SafeInv, KnownInv
  <2>2. UNCHANGED <<emitted, raw, business, ai>>
    BY <1>2 DEF Reject, FailEventFile, tables
  <2>0. failed' = failed \cup {cur[i]} \/ failed' = failed
    BY <1>2 DEF Reject, FailEventFile, MoveToFailed, TryReplace
  <2>3. CASE failed' = failed \cup {cur[i]}
    <3>1. Log!Refuse(cur[i])
      BY <2>1, <2>2, <2>3 DEF Log!Refuse, Recorded
    <3> QED BY <3>1, <2>1 DEF Log!Next
  <2>4. CASE failed' = failed
    BY <1>0, <2>2, <2>4
  <2> QED BY <2>0, <2>3, <2>4
<1>3. ASSUME NEW i \in Ingestors, WriteRaw(i) \/ WriteDual(i)
      PROVE  Log!Next \/ UNCHANGED Log!vars
  <2>1. PICK x \in Events : x = cur[i] /\ x \in emitted
    BY <1>3, SpoolAssumption
       DEF WriteRaw, WriteDual, TypeInv, HandInv, SafeInv, KnownInv
  <2>2. UNCHANGED <<emitted, failed>>
    BY <1>3 DEF WriteRaw, WriteDual, files
  <2>3. \A e \in Events : e # x => (Recorded(e)' <=> Recorded(e))
    BY <1>3, <2>1 DEF WriteRaw, WriteDual, Recorded
  <2>4. Recorded(x) => Recorded(x)'
    BY <1>3, <2>1 DEF WriteRaw, WriteDual, Recorded
  <2>5. CASE Recorded(x)' /\ ~ Recorded(x)
    <3> DEFINE rec == {e \in Events : Recorded(e)}
    <3>1. rec' = rec \cup {x}
      <4>1. \A e \in Events : Recorded(e)' <=> Recorded(e) \/ e = x
        BY <2>3, <2>5
      <4> QED BY <4>1, <2>1
    <3>2. Log!Record(x)
      BY <2>1, <2>2, <3>1 DEF Log!Record
    <3> QED BY <3>2, <2>1 DEF Log!Next
  <2>6. CASE Recorded(x)' <=> Recorded(x)
    <3>1. \A e \in Events : Recorded(e)' <=> Recorded(e)
      BY <2>3, <2>6
    <3> QED BY <2>2, <3>1 DEF Log!vars
  <2> QED BY <2>4, <2>5, <2>6
<1>4. ASSUME NEW i \in Ingestors,
             StartIngest(i) \/ EndIngest(i) \/ Claim(i) \/ ClaimFault(i) \/ LoseClaim(i) \/
             ReadFile(i) \/ FinishFault(i) \/
             RawFault(i) \/ RestoreLocked(i) \/ RestoreFailed(i) \/ DualLocked(i) \/ DualError(i) \/
             ProjectLookup(i) \/ ProjectInsert(i) \/ Finish(i) \/ Crash(i)
      PROVE  UNCHANGED Log!vars
  <2>1. quiet
    BY <1>4 DEF StartIngest, EndIngest, Claim, ClaimFault, FinishFault, LoseClaim, ReadFile, RawFault,
       RestoreLocked, RestoreFailed, DualLocked, DualError, ProjectLookup,
       ProjectInsert, Finish, Crash, files, tables
  <2> QED BY <1>0, <2>1
<1>5. CASE UNCHANGED vars
  BY <1>0, <1>5 DEF vars, files, tables
<1> QED BY <1>1, <1>2, <1>3, <1>4, <1>5 DEF Next, IngestStep

(* The spool implements the event log: for a caller, ingestion records or
   refuses one published event at a time and never takes it back.            *)
THEOREM SpoolImplementsLog == Spec => ImplementsLog
<1>1. Init => Log!Init
  BY DEF Init, Log!Init, Recorded
<1>2. TypeInv /\ SafeInv /\ [Next]_vars => [Log!Next]_(Log!vars)
  BY NextRefines
<1> QED BY <1>1, <1>2, SpoolInvariant, PTL DEF Spec, ImplementsLog, Log!Spec

-----------------------------------------------------------------------------
(* Accounting.                                                              *)

(* Settling the file in hand moves one from "in hand" to one counter. *)
LEMMA SettleListing ==
    ASSUME NEW i \in Ingestors, NEW o \in {"processed", "failed", "skipped"},
           TypeInv, ListingAccounted, pc[i] \notin {"idle", "scan"}, Settle(i, o)
    PROVE  ListingAccounted'
<1> SUFFICES ASSUME NEW j \in Ingestors, pc'[j] # "idle"
             PROVE  tally'[j].processed + tally'[j].failed + tally'[j].skipped
                      + Cardinality(batch'[j]) + (IF cur'[j] = NoEvent THEN 0 ELSE 1)
                    = listed'[j]
  BY DEF ListingAccounted
<1>1. Cardinality(batch[j]) \in Nat
  BY FS_CardinalityType DEF TypeInv, FiniteInv
<1>2. CASE j # i
  BY <1>2 DEF Settle, TypeInv, TypeOK, ListingAccounted
<1>3. CASE j = i
  <2>1. cur[i] # NoEvent
    BY SpoolAssumption DEF TypeInv, HandInv
  <2>2. tally[i].processed + tally[i].failed + tally[i].skipped + Cardinality(batch[i]) + 1
        = listed[i]
    BY <2>1 DEF ListingAccounted
  <2>3. cur'[i] = NoEvent /\ batch'[i] = batch[i] /\ listed'[i] = listed[i]
    BY DEF Settle, TypeInv, TypeOK
  <2>4. tally'[i] = [tally[i] EXCEPT ![o] = @ + 1]
    BY DEF Settle, TypeInv, TypeOK
  <2>5. tally[i] \in [processed : Nat, failed : Nat, skipped : Nat]
    BY DEF TypeInv, TypeOK
  <2>6. tally'[i].processed + tally'[i].failed + tally'[i].skipped
        = tally[i].processed + tally[i].failed + tally[i].skipped + 1
    BY <2>4, <2>5
  <2>7. tally[i].processed \in Nat /\ tally[i].failed \in Nat /\ tally[i].skipped \in Nat
    BY <2>5
  <2> QED BY <1>1, <1>3, <2>2, <2>3, <2>6, <2>7
<1> QED BY <1>2, <1>3

(* Every step of the system keeps the accounting. *)
LEMMA NextListing ==
    TypeInv /\ ListingAccounted /\ [Next]_vars => ListingAccounted'
<1> SUFFICES ASSUME TypeInv, ListingAccounted, [Next]_vars PROVE ListingAccounted'
  OBVIOUS
<1>1. ASSUME NEW e \in Events, WriteEvent(e) PROVE ListingAccounted'
  BY <1>1 DEF WriteEvent, ListingAccounted, runs
<1>2. ASSUME NEW i \in Ingestors, StartIngest(i) PROVE ListingAccounted'
  <2>1. Cardinality(spool) \in Nat
    BY FS_CardinalityType DEF TypeInv, FiniteInv
  <2>2. cur[i] = NoEvent
    BY <1>2 DEF StartIngest, TypeInv, HandInv
  <2> QED BY <1>2, <2>1, <2>2
          DEF StartIngest, Goto, ZeroTally, ListingAccounted, TypeInv, TypeOK
<1>3. ASSUME NEW i \in Ingestors, Claim(i) PROVE ListingAccounted'
  <2>1. PICK e \in batch[i] \cap spool :
            /\ cur' = [cur EXCEPT ![i] = e]
            /\ batch' = [batch EXCEPT ![i] = @ \ {e}]
    BY <1>3 DEF Claim
  <2>2. cur[i] = NoEvent /\ e # NoEvent
    BY <1>3, SpoolAssumption DEF Claim, TypeInv, TypeOK, HandInv
  <2>3. /\ Cardinality(batch[i] \ {e}) = Cardinality(batch[i]) - 1
        /\ Cardinality(batch[i]) \in Nat
    BY FS_RemoveElement, FS_CardinalityType DEF TypeInv, FiniteInv
  <2> QED BY <1>3, <2>1, <2>2, <2>3
          DEF Claim, Goto, ListingAccounted, TypeInv, TypeOK
<1>9. ASSUME NEW i \in Ingestors, ClaimFault(i) PROVE ListingAccounted'
  <2>1. PICK e \in batch[i] :
            /\ cur' = [cur EXCEPT ![i] = e]
            /\ batch' = [batch EXCEPT ![i] = @ \ {e}]
    BY <1>9 DEF ClaimFault
  <2>2. cur[i] = NoEvent /\ e # NoEvent
    BY <1>9, SpoolAssumption DEF ClaimFault, TypeInv, TypeOK, HandInv
  <2>3. /\ Cardinality(batch[i] \ {e}) = Cardinality(batch[i]) - 1
        /\ Cardinality(batch[i]) \in Nat
    BY FS_RemoveElement, FS_CardinalityType DEF TypeInv, FiniteInv
  <2> QED BY <1>9, <2>1, <2>2, <2>3
          DEF ClaimFault, Goto, ListingAccounted, TypeInv, TypeOK
<1>4. ASSUME NEW i \in Ingestors, LoseClaim(i) PROVE ListingAccounted'
  <2>1. PICK e \in batch[i] \ spool :
            /\ batch' = [batch EXCEPT ![i] = @ \ {e}]
            /\ tally' = [tally EXCEPT ![i]["skipped"] = @ + 1]
    BY <1>4 DEF LoseClaim
  <2>2. /\ Cardinality(batch[i] \ {e}) = Cardinality(batch[i]) - 1
        /\ Cardinality(batch[i]) \in Nat
    BY FS_RemoveElement, FS_CardinalityType DEF TypeInv, FiniteInv
  <2>3. tally[i] \in [processed : Nat, failed : Nat, skipped : Nat]
    BY DEF TypeInv, TypeOK
  <2>4. tally'[i] = [tally[i] EXCEPT !["skipped"] = @ + 1]
    BY <2>1 DEF TypeInv, TypeOK
  <2>5. tally'[i].processed + tally'[i].failed + tally'[i].skipped
        = tally[i].processed + tally[i].failed + tally[i].skipped + 1
    BY <2>3, <2>4
  <2>6. tally[i].processed \in Nat /\ tally[i].failed \in Nat /\ tally[i].skipped \in Nat
    BY <2>3
  <2>7. UNCHANGED <<pc, cur, listed>> /\ cur[i] = NoEvent /\ pc[i] # "idle"
    BY <1>4 DEF LoseClaim, TypeInv, HandInv
  <2>8. batch'[i] = batch[i] \ {e}
    BY <2>1 DEF TypeInv, TypeOK
  <2>9. \A j \in Ingestors : j # i => tally'[j] = tally[j] /\ batch'[j] = batch[j]
    BY <2>1 DEF TypeInv, TypeOK
  <2>10. tally[i].processed + tally[i].failed + tally[i].skipped + Cardinality(batch[i]) + 0
         = listed[i]
    BY <2>7 DEF ListingAccounted
  <2>11. tally'[i].processed + tally'[i].failed + tally'[i].skipped
           + Cardinality(batch'[i]) + 0 = listed[i]
    BY <2>2, <2>5, <2>6, <2>8, <2>10
  <2>12. ASSUME NEW j \in Ingestors, pc'[j] # "idle"
         PROVE  tally'[j].processed + tally'[j].failed + tally'[j].skipped
                  + Cardinality(batch'[j]) + (IF cur'[j] = NoEvent THEN 0 ELSE 1)
                = listed'[j]
    <3>1. CASE j = i
      BY <3>1, <2>7, <2>11
    <3>2. CASE j # i
      BY <3>2, <2>7, <2>9, <2>12 DEF ListingAccounted
    <3> QED BY <3>1, <3>2
  <2> QED BY <2>12 DEF ListingAccounted
<1>5. ASSUME NEW i \in Ingestors, EndIngest(i) \/ Crash(i) PROVE ListingAccounted'
  BY <1>5 DEF EndIngest, Crash, Goto, ListingAccounted, TypeInv, TypeOK
<1>6. ASSUME NEW i \in Ingestors,
             Reject(i) \/ RestoreLocked(i) \/ FailEventFile(i) \/ DualLocked(i) \/ Finish(i)
      PROVE  ListingAccounted'
  <2>1. /\ pc[i] \notin {"idle", "scan"}
        /\ \E o \in {"processed", "failed", "skipped"} : Settle(i, o)
    BY <1>6 DEF Reject, RestoreLocked, FailEventFile, DualLocked, Finish
  <2> QED BY <2>1, SettleListing
<1>7. ASSUME NEW i \in Ingestors,
             ReadFile(i) \/ FinishFault(i) \/ WriteRaw(i) \/ RawFault(i) \/ RestoreFailed(i)
               \/ WriteDual(i) \/ DualError(i) \/ ProjectLookup(i) \/ ProjectInsert(i)
      PROVE  ListingAccounted'
  <2>1. /\ UNCHANGED <<cur, batch, tally, listed>>
        /\ pc[i] # "idle"
        /\ \E l \in PCs : Goto(i, l)
    BY <1>7 DEF ReadFile, FinishFault, WriteRaw, RawFault, RestoreFailed, WriteDual,
                DualError, ProjectLookup, ProjectInsert, PCs
  <2> QED BY <2>1 DEF Goto, ListingAccounted, TypeInv, TypeOK
<1>8. CASE UNCHANGED vars
  BY <1>8 DEF vars, runs, ListingAccounted
<1> QED BY <1>1, <1>2, <1>3, <1>4, <1>5, <1>6, <1>7, <1>8, <1>9
        DEF Next, IngestStep

(* IngestResult accounts for every listed file exactly once. *)
THEOREM EveryListedFileCounted == Spec => []ListingAccounted
<1>1. Init => ListingAccounted
  BY DEF Init, ListingAccounted
<1>2. Spec => []TypeInv
  BY InitTypeInv, NextTypeInv, PTL DEF Spec
<1> QED BY <1>1, <1>2, NextListing, PTL DEF Spec
=============================================================================
