------------------------------ MODULE HookQueue ------------------------------
(***************************************************************************)
(* The append-only hook queue.  Hook processes append one record each to   *)
(* hookq.jsonl (runtime/hooks/enqueue.py, runtime/lib/enforcement.py) and  *)
(* take no lock.  A prompt or a stop drains the queue                      *)
(* (core/config/hookq.py, called by runtime/dispatch/hooks.py): it renames *)
(* the live file aside, feeds every record of every rotated file to the    *)
(* handlers and unlinks each file when it is through with it.  An OSError  *)
(* of a rename, a read or an unlink is swallowed.                          *)
(*                                                                         *)
(* A file is an inode, numbered as files are created: a process that has   *)
(* it open keeps reading or writing it after it was renamed or unlinked.   *)
(* Rotated names are nanosecond timestamps, so the oldest file has the     *)
(* smallest number.  Payloads and event names are left out.                *)
(***************************************************************************)
EXTENDS Naturals, Sequences, FiniteSets, Functions

CONSTANTS
    Records,      \* one per hook process
    Drainers,     \* processes that may drain at the same time
    MaxPerDrain,  \* MAX_RECORDS_PER_DRAIN
    MaxFaults     \* bound: processes that die, renames, reads and unlinks that fail

ASSUME QueueAssumption ==
    /\ IsFiniteSet(Records)
    /\ MaxPerDrain \in Nat \ {0} /\ MaxFaults \in Nat

NoFile == 0
Files  == 1..Cardinality(Records)

VARIABLES
    live,     \* the inode hookq.jsonl names, or NoFile
    made,     \* files created so far
    content,  \* the lines of each file
    linked,   \* the rotated files that have a name
    writer,   \* each hook process
    drainer,  \* each draining process
    count,    \* how often each record was handled, up to 2 (history)
    late,     \* records written after their file was renamed (history)
    crossed,  \* two drains overlapped or one died (history)
    unread,   \* records of lines that a failed read left behind (history)
    stuck,    \* files whose unlink failed (history)
    faults    \* faults left (bound)

vars == <<live, made, content, linked, writer, drainer, count, late, crossed, unread, stuck,
          faults>>

(* A line, and whether its newline was written. *)
Line == [record : Records, whole : BOOLEAN]
Idle == [pc |-> "idle", paths |-> <<>>, pos |-> 0, processed |-> 0]

TypeOK ==
    /\ live \in Files \cup {NoFile} /\ made \in 0..Cardinality(Records)
    /\ content \in [Files -> Seq(Line)]
    /\ linked \subseteq 1..made /\ live \notin linked
    /\ \A r \in Records : /\ writer[r].pc \in {"new", "open", "done"}
                          /\ writer[r].file \in 0..made
    /\ \A d \in Drainers :
        /\ drainer[d].pc \in {"idle", "rename", "next", "read", "unlink"}
        /\ drainer[d].paths \in Seq(1..made)
        /\ IsInjective(drainer[d].paths)
        /\ drainer[d].pc = "read" => drainer[d].pos \in 0..Len(content[Head(drainer[d].paths)])
    /\ count \in [Records -> 0..2] /\ late \subseteq Records
    /\ crossed \in BOOLEAN /\ unread \subseteq Records /\ stuck \subseteq 1..made
    /\ faults \in 0..MaxFaults

Init ==
    /\ live = NoFile /\ made = 0 /\ content = [f \in Files |-> <<>>] /\ linked = {}
    /\ writer = [r \in Records |-> [pc |-> "new", file |-> NoFile]]
    /\ drainer = [d \in Drainers |-> Idle]
    /\ count = [r \in Records |-> 0] /\ late = {} /\ crossed = FALSE
    /\ unread = {} /\ stuck = {} /\ faults = MaxFaults

-----------------------------------------------------------------------------
(* enqueue.main, _enqueue_hook_execution.                                  *)

(* open(path, "a") creates the file when there is none. *)
Open(r) ==
    /\ writer[r].pc = "new"
    /\ made' = IF live = NoFile THEN made + 1 ELSE made
    /\ live' = IF live = NoFile THEN made + 1 ELSE live
    /\ writer' = [writer EXCEPT ![r] = [pc |-> "open", file |-> live']]
    /\ UNCHANGED <<content, linked, drainer, count, late, crossed, unread, stuck, faults>>

(* One write of one line, or the part of it written before the process died. *)
Write(r) ==
    /\ writer[r].pc = "open"
    /\ LET f == writer[r].file
       IN  /\ \E whole \in BOOLEAN :
                /\ ~whole => faults > 0
                /\ faults' = IF whole THEN faults ELSE faults - 1
                /\ content' = [content EXCEPT ![f] = Append(@, [record |-> r, whole |-> whole])]
           /\ late' = IF f = live THEN late ELSE late \cup {r}
    /\ writer' = [writer EXCEPT ![r].pc = "done"]
    /\ UNCHANGED <<live, made, linked, drainer, count, crossed, unread, stuck>>

-----------------------------------------------------------------------------
(* drain.                                                                  *)

(* The files of S, oldest first. *)
Sorted(S) ==
    LET one(f) == IF f \in S THEN <<f>> ELSE <<>>
        upto[f \in 0..made] == IF f = 0 THEN <<>> ELSE upto[f - 1] \o one(f)
    IN  upto[made]

(* Mutant: a drain takes the live queue only. *)
StartDrain_NoRecovery(d) ==
    /\ drainer[d].pc = "idle"
    /\ linked # {} \/ live # NoFile
    /\ drainer' = [drainer EXCEPT ![d] =
            [Idle EXCEPT !.pc = IF live = NoFile \/ content[live] = <<>> THEN "next" ELSE "rename"]]
    /\ crossed' = (crossed \/ \E e \in Drainers \ {d} : drainer[e].pc # "idle")
    /\ UNCHANGED <<live, made, content, linked, writer, count, late, unread, stuck, faults>>

(* The glob of rotated files, oldest first; _rotate leaves an absent or an
   empty queue alone.  (Between the two reads another drain can only rename
   the queue, which the rename below meets as well.)                         *)
StartDrain(d) ==
    /\ drainer[d].pc = "idle"
    /\ linked # {} \/ live # NoFile
    /\ drainer' = [drainer EXCEPT ![d] =
            [Idle EXCEPT !.pc = IF live = NoFile \/ content[live] = <<>> THEN "next" ELSE "rename",
                         !.paths = Sorted(linked)]]
    /\ crossed' = (crossed \/ \E e \in Drainers \ {d} : drainer[e].pc # "idle")
    /\ UNCHANGED <<live, made, content, linked, writer, count, late, unread, stuck, faults>>

(* Mutant: the queue is copied aside and goes on. *)
Rename_Copies(d) ==
    /\ drainer[d].pc = "rename"
    /\ linked' = linked \cup ({live} \ {NoFile})
    /\ drainer' = [drainer EXCEPT ![d].pc = "next",
                                  ![d].paths = IF live = NoFile THEN @ ELSE Append(@, live)]
    /\ UNCHANGED <<live, made, content, writer, count, late, crossed, unread, stuck, faults>>

(* rename moves whatever the name stands for by now, and fails on nothing. *)
Rename(d) ==
    /\ drainer[d].pc = "rename"
    /\ live' = NoFile
    /\ linked' = linked \cup ({live} \ {NoFile})
    /\ drainer' = [drainer EXCEPT ![d].pc = "next",
                                  ![d].paths = IF live = NoFile THEN @ ELSE Append(@, live)]
    /\ UNCHANGED <<made, content, writer, count, late, crossed, unread, stuck, faults>>

(* Mutant: the file is unlinked as soon as it is open. *)
NextFile_UnlinksOpen(d) ==
    LET me == drainer[d]
    IN  /\ me.pc = "next"
        /\ drainer' = [drainer EXCEPT ![d] =
            IF me.paths = <<>> \/ me.processed >= MaxPerDrain THEN Idle
            ELSE IF Head(me.paths) \in linked THEN [me EXCEPT !.pc = "read", !.pos = 0]
            ELSE [me EXCEPT !.paths = Tail(@)]]
        /\ linked' = IF drainer'[d].pc = "read" THEN linked \ {Head(me.paths)} ELSE linked
        /\ UNCHANGED <<live, made, content, writer, count, late, crossed, unread, stuck, faults>>

(* The cap is checked between files; a file another drain has unlinked cannot
   be opened and counts as read.                                             *)
NextFile(d) ==
    LET me == drainer[d]
    IN  /\ me.pc = "next"
        /\ drainer' = [drainer EXCEPT ![d] =
            IF me.paths = <<>> \/ me.processed >= MaxPerDrain THEN Idle
            ELSE IF Head(me.paths) \in linked THEN [me EXCEPT !.pc = "read", !.pos = 0]
            ELSE [me EXCEPT !.paths = Tail(@)]]
        /\ UNCHANGED <<live, made, content, linked, writer, count, late, crossed, unread, stuck, faults>>

(* A line parses if it is whole and does not continue a torn one. *)
Parses(f, i) == content[f][i].whole /\ (i > 1 => content[f][i - 1].whole)

(* The record of line i reaches its handlers, which may raise. *)
Handled(f, i) ==
    IF Parses(f, i) /\ count[content[f][i].record] < 2
    THEN [count EXCEPT ![content[f][i].record] = @ + 1] ELSE count

(* Mutant: the cap is checked at every record. *)
HandleRecord_CapInFile(d) ==
    LET me == drainer[d]
        f  == Head(me.paths)
    IN  /\ me.pc = "read" /\ me.pos < Len(content[f])
        /\ IF me.processed >= MaxPerDrain
           THEN drainer' = [drainer EXCEPT ![d] = Idle] /\ UNCHANGED count
           ELSE /\ count' = Handled(f, me.pos + 1)
                /\ drainer' = [drainer EXCEPT ![d].pos = @ + 1, ![d].processed = @ + 1]
        /\ UNCHANGED <<live, made, content, linked, writer, late, crossed, unread, stuck, faults>>

(* _read_records yields the next record, or passes over a torn line. *)
HandleRecord(d) ==
    LET me == drainer[d]
        f  == Head(me.paths)
    IN  /\ me.pc = "read" /\ me.pos < Len(content[f])
        /\ count' = Handled(f, me.pos + 1)
        /\ drainer' = [drainer EXCEPT
                ![d].pos = @ + 1,
                ![d].processed = IF Parses(f, me.pos + 1) /\ @ < MaxPerDrain THEN @ + 1 ELSE @]
        /\ UNCHANGED <<live, made, content, linked, writer, late, crossed, unread, stuck, faults>>

(* The end of the file was read and the file is closed. *)
EndOfFile(d) ==
    LET me == drainer[d]
    IN  /\ me.pc = "read" /\ me.pos = Len(content[Head(me.paths)])
        /\ drainer' = [drainer EXCEPT ![d].pc = "unlink", ![d].pos = 0]
        /\ UNCHANGED <<live, made, content, linked, writer, count, late, crossed, unread, stuck, faults>>

Unlink(d) ==
    LET me == drainer[d]
    IN  /\ me.pc = "unlink"
        /\ linked' = linked \ {Head(me.paths)}
        /\ drainer' = [drainer EXCEPT ![d].pc = "next", ![d].paths = Tail(@)]
        /\ UNCHANGED <<live, made, content, writer, count, late, crossed, unread, stuck, faults>>

(* The rename fails: the queue stays where it is until the next drain. *)
RenameFault(d) ==
    /\ drainer[d].pc = "rename" /\ faults > 0
    /\ faults' = faults - 1
    /\ drainer' = [drainer EXCEPT ![d].pc = "next"]
    /\ UNCHANGED <<live, made, content, linked, writer, count, late, crossed, unread, stuck>>

(* A file that is there cannot be opened, or not be read on: _read_records ends
   as at the end of the file, and drain unlinks the file.                    *)
ReadFault(d) ==
    LET me   == drainer[d]
        f    == Head(me.paths)
        read == IF me.pc = "read" THEN me.pos ELSE 0
    IN  /\ me.paths # <<>> /\ faults > 0
        /\ \/ me.pc = "read"
           \/ me.pc = "next" /\ me.processed < MaxPerDrain /\ f \in linked
        /\ faults' = faults - 1
        /\ unread' = unread \cup {content[f][i].record : i \in (read + 1)..Len(content[f])}
        /\ drainer' = [drainer EXCEPT ![d].pc = "unlink", ![d].pos = 0]
        /\ UNCHANGED <<live, made, content, linked, writer, count, late, crossed, stuck>>

(* The unlink fails: the drain goes on, and the next one finds the file again. *)
UnlinkFault(d) ==
    LET me == drainer[d]
    IN  /\ me.pc = "unlink" /\ faults > 0
        /\ faults' = faults - 1
        /\ stuck' = stuck \cup {Head(me.paths)}
        /\ drainer' = [drainer EXCEPT ![d].pc = "next", ![d].paths = Tail(@)]
        /\ UNCHANGED <<live, made, content, linked, writer, count, late, crossed, unread>>

(* The process dies; what it rotated stays on disk. *)
Die(d) ==
    /\ drainer[d].pc # "idle" /\ faults > 0
    /\ faults' = faults - 1
    /\ drainer' = [drainer EXCEPT ![d] = Idle]
    /\ crossed' = TRUE
    /\ UNCHANGED <<live, made, content, linked, writer, count, late, unread, stuck>>

-----------------------------------------------------------------------------
Hook(r) == Open(r) \/ Write(r)
Drain(d) == StartDrain(d) \/ Rename(d) \/ NextFile(d) \/ HandleRecord(d)
            \/ EndOfFile(d) \/ Unlink(d)
Fault(d) == RenameFault(d) \/ ReadFault(d) \/ UnlinkFault(d) \/ Die(d)
Next == \/ \E r \in Records : Hook(r)
        \/ \E d \in Drainers : Drain(d) \/ Fault(d)

Spec == Init /\ [][Next]_vars

(* A hook finishes, and prompts and stops keep draining. *)
FairSpec ==
    /\ Spec
    /\ \A r \in Records : WF_vars(Hook(r))
    /\ \A d \in Drainers : WF_vars(Drain(d))

-----------------------------------------------------------------------------
(* Properties.                                                             *)

Queued(r) == \E f \in linked \cup ({live} \ {NoFile}) :
                \E i \in DOMAIN content[f] : content[f][i].record = r /\ Parses(f, i)

(* The record's line, and the one before it, were written whole, and before
   the file was renamed.                                                     *)
Sound(r) ==
    /\ writer[r].pc = "done" /\ r \notin late
    /\ \E f \in Files : \E i \in DOMAIN content[f] : content[f][i].record = r /\ Parses(f, i)

(* A record that was written to the live queue is never lost, unless the read
   of its file failed before it: whatever drains list, rename, read and unlink
   at the same time and wherever they fail or die, it is in a file the next
   drain will find, or its handlers have run (hookq.py, "Crash safety").     *)
NoRecordLost == \A r \in Records : Sound(r) => count[r] > 0 \/ Queued(r) \/ r \in unread

(* A record is handled once: only drains that overlap, one that died in the
   middle of a file, or an unlink that failed deliver a record again (hookq.py,
   the cap is checked between files).                                        *)
Stuck(r) == \E f \in stuck : \E i \in DOMAIN content[f] : content[f][i].record = r
HandledOnce == crossed \/ \A r \in Records : count[r] < 2 \/ Stuck(r)

(* Every record written to the live queue is handled in the end, or met a read
   that failed: again and again no record waits, although each drain stops at
   its cap and may fail or die.                                              *)
EventuallyHandled == []<>(\A r \in Records : Sound(r) => count[r] > 0 \/ r \in unread)

(* What hookq.py says of the cap: nothing is ever processed twice. *)
NothingTwice == \A r \in Records : count[r] < 2

(* What hookq.py says of a writer that is mid-append during the rename: its
   record is picked up next time.                                            *)
LateIsPickedUp ==
    \A r \in Records : (\E f \in Files : \E i \in DOMAIN content[f] :
                            content[f][i].record = r /\ Parses(f, i))
                       => count[r] > 0 \/ Queued(r)

(* What hookq.py says of the rename: "Nothing is read in place, so nothing is lost
   to a truncate"; nor, then, to a read that fails.                          *)
NothingIsDropped == \A r \in Records : Sound(r) => count[r] > 0 \/ Queued(r)
=============================================================================
