------------------------------- MODULE Spool -------------------------------
(***************************************************************************)
(* The event spool (spool/writer.py, spool/ingestor.py): hooks publish one *)
(* JSON file per event into spool/; any number of ingest runs move each    *)
(* file through processing/ while they write it to the raw table, to the   *)
(* canonical tables its type routes to, and to execution_events, and leave *)
(* it in processed/ or failed/.                                            *)
(*                                                                         *)
(* A file is named after its event_id, so a directory is a set of events   *)
(* and os.replace onto an existing name is set union.  The same event_id   *)
(* may be published again (deterministic ids, restored archives).          *)
(* Between any two file-system or database calls of one run any step of    *)
(* another run may happen, and a run may die.                              *)
(***************************************************************************)
EXTENDS Naturals, FiniteSets

CONSTANTS
    Events,        \* event ids
    Ingestors,     \* concurrent ingest() runs: Stop hook, pulse, CLI, sync_tick
    Malformed,     \* events that fail parsing, REQUIRED_FIELDS or the skill_id check
    Raising,       \* events one of those checks raises on: not UTF-8, JSON that is no
                   \* object, a skill_id or trace of another type
    Executions,    \* events whose type is in PROJECTED_EVENT_TYPES
    BusinessTypes, \* events routed to business_canonical_events
    AITypes,       \* events routed to ai_canonical_events
    Faults,        \* the faults the environment of this instance produces
    NoEvent        \* no file in hand

FaultKinds == {"raw_locked", "raw_error", "dual_locked", "dual_error",
               "projection_error", "file_error", "crash"}

ASSUME SpoolAssumption ==
    /\ NoEvent \notin Events
    /\ Malformed \subseteq Events
    /\ Raising \subseteq Events \ Malformed
    /\ Executions \subseteq Events
    /\ BusinessTypes \subseteq Events
    /\ AITypes \subseteq Events
    /\ Faults \subseteq FaultKinds

VARIABLES
    spool, processing, processed, failed,  \* SpoolState directories
    reasons,    \* failed/reasons/<stem>.reason.json sidecars
    raw,        \* raw_claude_code_events
    business,   \* business_canonical_events
    ai,         \* ai_canonical_events
    execRows,   \* execution_events: rows per _built_from_event_id
    pc,         \* where each run is
    cur,        \* the file each run has in hand
    batch,      \* files of the run's directory listing not yet visited
    tally,      \* IngestResult of the run
    listed,     \* length of the run's directory listing
    emitted     \* history: events ever published

files    == <<spool, processing, processed, failed, reasons>>
tables   == <<raw, business, ai, execRows>>
runs     == <<pc, cur, batch, tally, listed>>
vars     == <<files, tables, runs, emitted>>

PCs == {"idle", "scan", "claimed", "reject", "parsed", "restore_locked",
        "restore_failed", "fail_event_file", "rawed", "dualed", "insert", "finish"}

ZeroTally == [processed |-> 0, failed |-> 0, skipped |-> 0]

TypeOK ==
    /\ spool \subseteq Events /\ processing \subseteq Events
    /\ processed \subseteq Events /\ failed \subseteq Events
    /\ reasons \subseteq Events
    /\ raw \subseteq Events /\ business \subseteq Events /\ ai \subseteq Events
    /\ execRows \in [Events -> Nat]
    /\ pc \in [Ingestors -> PCs]
    /\ cur \in [Ingestors -> Events \cup {NoEvent}]
    /\ batch \in [Ingestors -> SUBSET Events]
    /\ tally \in [Ingestors -> [processed : Nat, failed : Nat, skipped : Nat]]
    /\ listed \in [Ingestors -> Nat]
    /\ emitted \subseteq Events

Init ==
    /\ spool = {} /\ processing = {} /\ processed = {} /\ failed = {}
    /\ reasons = {} /\ raw = {} /\ business = {} /\ ai = {}
    /\ execRows = [e \in Events |-> 0]
    /\ pc = [i \in Ingestors |-> "idle"]
    /\ cur = [i \in Ingestors |-> NoEvent]
    /\ batch = [i \in Ingestors |-> {}]
    /\ tally = [i \in Ingestors |-> ZeroTally]
    /\ listed = [i \in Ingestors |-> 0]
    /\ emitted = {}

-----------------------------------------------------------------------------
(* Publishing.                                                             *)

(* write_event: the envelope goes to a .tmp file the *.json listing does not
   match and one os.replace publishes it, over an unread earlier copy too. *)
WriteEvent(e) ==
    /\ spool' = spool \cup {e}
    /\ emitted' = emitted \cup {e}
    /\ UNCHANGED <<processing, processed, failed, reasons, tables, runs>>

-----------------------------------------------------------------------------
(* One ingest run.                                                         *)

Goto(i, label) == pc' = [pc EXCEPT ![i] = label]

(* The file in hand is settled: count it and go on with the listing. *)
Settle(i, outcome) ==
    /\ pc' = [pc EXCEPT ![i] = "scan"]
    /\ cur' = [cur EXCEPT ![i] = NoEvent]
    /\ tally' = [tally EXCEPT ![i][outcome] = @ + 1]
    /\ UNCHANGED <<batch, listed>>

(* Mutant: the listing leaves out events that already have a reason sidecar. *)
StartIngest_SkipsExplained(i) ==
    /\ pc[i] = "idle"
    /\ Goto(i, "scan")
    /\ batch' = [batch EXCEPT ![i] = spool \ reasons]
    /\ listed' = [listed EXCEPT ![i] = Cardinality(spool \ reasons)]
    /\ tally' = [tally EXCEPT ![i] = ZeroTally]
    /\ UNCHANGED <<files, tables, cur, emitted>>

(* ingest: sorted(spool_dir.glob("*.json")) is read once, before any claim.  *)
StartIngest(i) ==
    /\ pc[i] = "idle"
    /\ Goto(i, "scan")
    /\ batch' = [batch EXCEPT ![i] = spool]
    /\ listed' = [listed EXCEPT ![i] = Cardinality(spool)]
    /\ tally' = [tally EXCEPT ![i] = ZeroTally]
    /\ UNCHANGED <<files, tables, cur, emitted>>

(* ingest returns its IngestResult, which the run is done with. *)
EndIngest(i) ==
    /\ pc[i] = "scan" /\ batch[i] = {}
    /\ Goto(i, "idle")
    /\ tally' = [tally EXCEPT ![i] = ZeroTally]
    /\ listed' = [listed EXCEPT ![i] = 0]
    /\ UNCHANGED <<files, tables, cur, batch, emitted>>

(* _process_one's os.replace(spool -> processing).  Event ids are uuids, so
   the sorted listing visits them in an arbitrary order.                     *)
Claim(i) ==
    /\ pc[i] = "scan"
    /\ \E e \in batch[i] \cap spool :
        /\ spool' = spool \ {e}
        /\ processing' = processing \cup {e}
        /\ cur' = [cur EXCEPT ![i] = e]
        /\ batch' = [batch EXCEPT ![i] = @ \ {e}]
    /\ Goto(i, "claimed")
    /\ UNCHANGED <<processed, failed, reasons, tables, tally, listed, emitted>>

(* It fails otherwise (a sharing violation, say): ingest()'s catch-all handler
   fails the file where it is.                                               *)
ClaimFault(i) ==
    /\ "file_error" \in Faults
    /\ pc[i] = "scan"
    /\ \E e \in batch[i] :
        /\ cur' = [cur EXCEPT ![i] = e]
        /\ batch' = [batch EXCEPT ![i] = @ \ {e}]
    /\ Goto(i, "fail_event_file")
    /\ UNCHANGED <<files, tables, tally, listed, emitted>>

(* Mutant: a lost claim is dropped without being counted as skipped. *)
LoseClaim_Uncounted(i) ==
    /\ pc[i] = "scan"
    /\ \E e \in batch[i] \ spool : batch' = [batch EXCEPT ![i] = @ \ {e}]
    /\ UNCHANGED <<files, tables, pc, cur, tally, listed, emitted>>

(* The same call when another run has taken the file: FileNotFoundError.     *)
LoseClaim(i) ==
    /\ pc[i] = "scan"
    /\ \E e \in batch[i] \ spool :
        /\ batch' = [batch EXCEPT ![i] = @ \ {e}]
        /\ tally' = [tally EXCEPT ![i]["skipped"] = @ + 1]
    /\ UNCHANGED <<files, tables, pc, cur, listed, emitted>>

(* Read and validate.  A file another run has moved away meanwhile is an
   OSError of read_text, handled as a parse error.  Any other exception leaves
   _process_one with the file claimed and reaches ingest()'s catch-all.       *)
ReadFile(i) ==
    /\ pc[i] = "claimed"
    /\ \/ cur[i] \in processing \ (Malformed \cup Raising) /\ Goto(i, "parsed")
       \/ cur[i] \in processing \cap Raising /\ Goto(i, "fail_event_file")
       \/ /\ cur[i] \notin processing \/ cur[i] \in Malformed \/ "file_error" \in Faults
          /\ Goto(i, "reject")
    /\ UNCHANGED <<files, tables, cur, batch, tally, listed, emitted>>

(* Mutant: unlink, then write: a failure in between loses the file. *)
TryReplace_UnlinksFirst(e, src, dst) ==
    \/ src' = src \ {e} /\ dst' = dst \cup (src \cap {e})
    \/ "file_error" \in Faults /\ src' = src \ {e} /\ UNCHANGED dst

(* os.replace(src -> dst) of e in a handler that swallows every OSError. *)
TryReplace(e, src, dst) ==
    \/ src' = src \ {e} /\ dst' = dst \cup (src \cap {e})
    \/ "file_error" \in Faults /\ UNCHANGED <<src, dst>>

(* _move_to_failed(src): the sidecar is written whether or not src is there,
   the file is moved whether or not the sidecar was written.                 *)
MoveToFailed(e, src) ==
    /\ \/ reasons' = reasons \cup {e}
       \/ "file_error" \in Faults /\ reasons' = reasons
    /\ TryReplace(e, src, failed)

Reject(i) ==
    /\ pc[i] = "reject"
    /\ MoveToFailed(cur[i], processing)
    /\ Settle(i, "failed")
    /\ UNCHANGED <<spool, processed, tables, emitted>>

(* _write_to_raw_sqlite: INSERT OR IGNORE, its own transaction.              *)
WriteRaw(i) ==
    /\ pc[i] = "parsed"
    /\ raw' = raw \cup {cur[i]}
    /\ Goto(i, "rawed")
    /\ UNCHANGED <<files, business, ai, execRows, cur, batch, tally, listed, emitted>>

(* Mutant: a failed raw write is swallowed and the dual write goes ahead. *)
RawFault_Swallowed(i) ==
    /\ pc[i] = "parsed"
    /\ Faults \cap {"raw_locked", "raw_error"} # {} /\ Goto(i, "rawed")
    /\ UNCHANGED <<files, tables, cur, batch, tally, listed, emitted>>

RawFault(i) ==
    /\ pc[i] = "parsed"
    /\ \/ "raw_locked" \in Faults /\ Goto(i, "restore_locked")
       \/ "raw_error" \in Faults /\ Goto(i, "restore_failed")
    /\ UNCHANGED <<files, tables, cur, batch, tally, listed, emitted>>

(* os.replace(processing -> spool), its OSError swallowed. *)
ReturnToInbox(e) == TryReplace(e, processing, spool)

(* Mutant: a locked raw write leaves the file where it is. *)
RestoreLocked_LeavesFile(i) ==
    /\ pc[i] = "restore_locked"
    /\ Settle(i, "skipped")
    /\ UNCHANGED <<files, tables, emitted>>

(* The raw write failed: back to the inbox, then ingest()'s handler skips a
   locked database and fails anything else.                                  *)
RestoreLocked(i) ==
    /\ pc[i] = "restore_locked"
    /\ ReturnToInbox(cur[i])
    /\ Settle(i, "skipped")
    /\ UNCHANGED <<processed, failed, reasons, tables, emitted>>

(* Mutant: the handler has lost track of the file it failed on. *)
RestoreFailed_DropsHand(i) ==
    /\ pc[i] = "restore_failed"
    /\ ReturnToInbox(cur[i])
    /\ Goto(i, "fail_event_file")
    /\ cur' = [cur EXCEPT ![i] = NoEvent]
    /\ UNCHANGED <<processed, failed, reasons, tables, batch, tally, listed, emitted>>

RestoreFailed(i) ==
    /\ pc[i] = "restore_failed"
    /\ ReturnToInbox(cur[i])
    /\ Goto(i, "fail_event_file")
    /\ UNCHANGED <<processed, failed, reasons, tables, cur, batch, tally, listed, emitted>>

(* ingest()'s handlers call _move_to_failed(event_file): the path in spool/. *)
FailEventFile(i) ==
    /\ pc[i] = "fail_event_file"
    /\ MoveToFailed(cur[i], spool)
    /\ Settle(i, "failed")
    /\ UNCHANGED <<processing, processed, tables, emitted>>

(* _write_to_dual_canonical: both inserts commit together.                   *)
WriteDual(i) ==
    /\ pc[i] = "rawed"
    /\ business' = business \cup ({cur[i]} \cap BusinessTypes)
    /\ ai' = ai \cup ({cur[i]} \cap AITypes)
    /\ Goto(i, "dualed")
    /\ UNCHANGED <<files, raw, execRows, cur, batch, tally, listed, emitted>>

(* Mutant: a locked canonical write is treated as best-effort. *)
DualLocked_BestEffort(i) ==
    /\ pc[i] = "rawed"
    /\ "dual_locked" \in Faults /\ cur[i] \in BusinessTypes \cup AITypes
    /\ Goto(i, "dualed")
    /\ UNCHANGED <<files, tables, cur, batch, tally, listed, emitted>>

(* The second transaction meets a locked database: ingest() counts a skip
   and goes on; nothing moves the file out of processing/.                   *)
DualLocked(i) ==
    /\ pc[i] = "rawed"
    /\ "dual_locked" \in Faults /\ cur[i] \in BusinessTypes \cup AITypes
    /\ Settle(i, "skipped")
    /\ UNCHANGED <<files, tables, emitted>>

(* Mutant: a failed canonical write deletes the event's raw row. *)
DualError_DeletesRaw(i) ==
    /\ pc[i] = "rawed"
    /\ "dual_error" \in Faults /\ cur[i] \in BusinessTypes \cup AITypes
    /\ raw' = raw \ {cur[i]}
    /\ Goto(i, "fail_event_file")
    /\ UNCHANGED <<files, business, ai, execRows, cur, batch, tally, listed, emitted>>

DualError(i) ==
    /\ pc[i] = "rawed"
    /\ "dual_error" \in Faults /\ cur[i] \in BusinessTypes \cup AITypes
    /\ Goto(i, "fail_event_file")
    /\ UNCHANGED <<files, tables, cur, batch, tally, listed, emitted>>

(* execution_events_projection.apply: SELECT, then INSERT in a transaction of
   its own; every failure is swallowed.                                      *)
ProjectLookup(i) ==
    /\ pc[i] = "dualed"
    /\ \/ /\ cur[i] \in Executions /\ execRows[cur[i]] = 0
          /\ Goto(i, "insert")
       \/ /\ cur[i] \notin Executions \/ execRows[cur[i]] > 0 \/ "projection_error" \in Faults
          /\ Goto(i, "finish")
    /\ UNCHANGED <<files, tables, cur, batch, tally, listed, emitted>>

ProjectInsert(i) ==
    /\ pc[i] = "insert"
    /\ execRows' = [execRows EXCEPT ![cur[i]] = @ + 1]
    /\ Goto(i, "finish")
    /\ UNCHANGED <<files, raw, business, ai, cur, batch, tally, listed, emitted>>

(* os.replace(processing -> processed); a missing file is a skip. *)
Finish(i) ==
    /\ pc[i] = "finish"
    /\ processing' = processing \ {cur[i]}
    /\ processed' = IF cur[i] \in processing THEN processed \cup {cur[i]} ELSE processed
    /\ Settle(i, IF cur[i] \in processing THEN "processed" ELSE "skipped")
    /\ UNCHANGED <<spool, failed, reasons, tables, emitted>>

(* Any other OSError of that call reaches the catch-all handler. *)
FinishFault(i) ==
    /\ "file_error" \in Faults
    /\ pc[i] = "finish"
    /\ Goto(i, "fail_event_file")
    /\ UNCHANGED <<files, tables, cur, batch, tally, listed, emitted>>

(* The run's process dies; what it wrote stays, what it held stays put. *)
Crash(i) ==
    /\ "crash" \in Faults
    /\ pc[i] # "idle"
    /\ Goto(i, "idle")
    /\ cur' = [cur EXCEPT ![i] = NoEvent]
    /\ batch' = [batch EXCEPT ![i] = {}]
    /\ tally' = [tally EXCEPT ![i] = ZeroTally]
    /\ listed' = [listed EXCEPT ![i] = 0]
    /\ UNCHANGED <<files, tables, emitted>>

IngestStep(i) ==
    \/ StartIngest(i) \/ EndIngest(i) \/ Claim(i) \/ ClaimFault(i)
    \/ LoseClaim(i) \/ ReadFile(i)
    \/ Reject(i) \/ WriteRaw(i) \/ RawFault(i) \/ RestoreLocked(i) \/ RestoreFailed(i)
    \/ FailEventFile(i) \/ WriteDual(i) \/ DualLocked(i) \/ DualError(i)
    \/ ProjectLookup(i) \/ ProjectInsert(i) \/ Finish(i) \/ FinishFault(i)

Next ==
    \/ \E e \in Events : WriteEvent(e)
    \/ \E i \in Ingestors : IngestStep(i) \/ Crash(i)

Spec == Init /\ [][Next]_vars

-----------------------------------------------------------------------------
(* Fairness.  Ingest runs keep being started (Stop hook, pulse, daemon tick)
   and a started run keeps going; a locked database is released again, so an
   event that can be written and whose raw or canonical write is retried for
   ever is written at some retry.                                            *)
Fairness ==
    /\ \A i \in Ingestors : WF_vars(IngestStep(i))
    /\ \A e \in Events \ (Malformed \cup Raising) :
        /\ SF_vars(\E i \in Ingestors : cur[i] = e /\ WriteRaw(i))
        /\ SF_vars(\E i \in Ingestors : cur[i] = e /\ WriteDual(i))

FairSpec == Spec /\ Fairness

-----------------------------------------------------------------------------
(* Properties.                                                             *)

(* The event is in every table its type routes it to. *)
Recorded(e) ==
    /\ e \in raw
    /\ e \in BusinessTypes => e \in business
    /\ e \in AITypes => e \in ai

(* The abstract event log the spool implements. *)
Log == INSTANCE EventLog WITH
    published <- emitted,
    recorded  <- {e \in Events : Recorded(e)},
    refused   <- failed

(* ingest() implements the event log: every call it makes records or refuses
   at most one published event, or changes nothing a caller can observe; no
   row of a recorded event and no file of failed/ is ever taken back.        *)
ImplementsLog == Log!Spec

(* No interleaving of runs, failed write or crash makes a published event's
   file vanish: os.replace chains in _process_one and _move_to_failed always
   leave it in one of the four directories.                                  *)
NoLostEvent == emitted \subseteq spool \cup processing \cup processed \cup failed

(* A file in processed/ (which archiving and the retention sweep may delete) belongs to
   an event that is in the raw table and in every canonical table of its
   route, whichever run moved it and whatever the other runs did.            *)
ProcessedIsRecorded == \A e \in processed : Recorded(e)

(* "raw before canonical": no canonical or execution row exists for an event
   the raw table does not hold, crashes between the writes included.         *)
RawFirst ==
    /\ business \cup ai \subseteq raw
    /\ \A e \in Events : execRows[e] > 0 => e \in raw

(* IngestResult counts each listed file exactly once, lost claims, lost
   files and swallowed moves included.                                       *)
ListingAccounted ==
    \A i \in Ingestors :
        pc[i] # "idle" =>
            tally[i].processed + tally[i].failed + tally[i].skipped + Cardinality(batch[i])
              + (IF cur[i] = NoEvent THEN 0 ELSE 1) = listed[i]

(* The events whose files ingest() itself may leave in processing/: it raised on
   their content after the claim, or their canonical write failed after the
   raw write.                                                                *)
Abandoned ==
    Raising \cup
    {e \in raw \cap (BusinessTypes \cup AITypes) : Faults \cap {"dual_locked", "dual_error"} # {}}

(* A file in processing/ is in the hands of a live run: nothing else ever takes
   a file out of that directory.  Failed raw writes, lost claims, refusals and
   runs that move each other's copies leave none behind; only the two paths of
   Abandoned do (and a failing rename or a crash, outside this property).    *)
NoStrandedFile == \A e \in processing \ Abandoned : \E i \in Ingestors : cur[i] = e

(* "the event remains in spool/ for retry on next run"
   (spool/ingestor.py:20-21): once ingest() has skipped an event for a locked
   database, its file is in spool/.                                          *)
LockedStaysForRetry ==
    [][\A i \in Ingestors :
          pc[i] \in {"restore_locked", "rawed"} /\ pc'[i] = "scan" => cur[i] \in spool']_vars

(* "the event is moved to failed/ for retry triage" (spool/ingestor.py:183):
   when ingest() has failed an event, its file is in failed/.                *)
FailureIsTriaged ==
    [][\A i \in Ingestors :
          pc[i] = "fail_event_file" /\ pc'[i] = "scan" => cur[i] \in failed']_vars

(* "a refusal raises and the event returns to the inbox for retry"
   (spool/ingestor.py:491): once ingest() has handled a raw write that raised,
   the file is in spool/.                                                    *)
RefusedReturnsToInbox ==
    [][\A i \in Ingestors :
          pc[i] = "fail_event_file" /\ pc'[i] = "scan" => cur[i] \in spool']_vars

(* The event stays in processing/ for good, with a reason sidecar or with no
   run that holds it. *)
LeftBehind(e) ==
    /\ e \in processing \cap Abandoned
    /\ e \in reasons \/ \A i \in Ingestors : cur[i] # e

(* Every published event is eventually recorded or in failed/, through any
   number of locked raw writes and lost claims, unless ingest() has left it in
   processing/ by one of the two paths of Abandoned.                         *)
EventuallySettled ==
    \A e \in Events : e \in emitted ~> (Recorded(e) \/ e \in failed \/ LeftBehind(e))

=============================================================================
