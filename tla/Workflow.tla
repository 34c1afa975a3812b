------------------------------ MODULE Workflow ------------------------------
(***************************************************************************)
(* One workflow in workflows.json, the runner that executes it in waves    *)
(* (control/execution/workflow/runner.py, engine.py) and the commands of   *)
(* `workflow_state` that other processes run beside it                     *)
(* (state_commands.py, state_io.py, state_telemetry.py).                   *)
(*                                                                         *)
(* Commands read, change and rewrite the file under a lock file            *)
(* (_file_lock), but the runner's loads and `next` read without it, a      *)
(* `start` of a new workflow writes the whole file once more after its     *)
(* unlock, and write_text truncates the file before it fills it.  A        *)
(* process works off a plan, a sequence of items:                          *)
(*   [op |-> "set", ns |-> S, to |-> s]   a node update                    *)
(*   [op |-> "skip", ...]                 the skips of `next`              *)
(*   "pause", "resume", "abort", "start"  the other commands               *)
(*   "load", "judge", "invoke"            steps of the runner              *)
(*                                                                         *)
(* Conditions, the context budget, the evidence of a node and the success  *)
(* of the completion event are arbitrary.  Outputs, durations, gates'      *)
(* names, templates and the checkpoint file are left out; of the other     *)
(* workflows of the file there are only the starts, which carry this one's *)
(* entry along in their copy of the file.                                  *)
(***************************************************************************)
EXTENDS Naturals, Sequences, FiniteSets, Functions

CONSTANTS
    Order,        \* the nodes in the order of the YAML file
    DependsOn,    \* depends_on of each node
    TriggerRule,  \* trigger_rule of each node
    Conditional,  \* nodes with a condition
    Empty,        \* nodes with neither skill nor command
    Checked,      \* nodes with a completion_check
    Runner,       \* the process that runs the workflow
    Users,        \* processes that run commands
    Updates,      \* bound: the updates <<node, status>> users make
    MaxCommands,  \* bound: commands, runs and single waves started
    MaxDeaths,    \* bound: processes that die
    MaxSlow       \* bound: waits that outlast a live holder of the lock

Nodes == Range(Order)
Procs == Users \cup {Runner}

ASSUME GraphAssumption ==
    /\ Order \in Seq(Nodes)
    /\ DependsOn \in [Nodes -> SUBSET Nodes]
    /\ TriggerRule \in [Nodes -> {"all_success", "all_done", "one_success"}]
    /\ {Conditional, Empty, Checked} \subseteq SUBSET Nodes
    /\ Updates \subseteq Nodes \X {"pending", "running", "completed", "failed", "skipped"}
    /\ Runner \notin Users
    /\ {MaxCommands, MaxDeaths, MaxSlow} \subseteq Nat

TERMINAL     == {"completed", "completed_with_failures", "aborted"}
Gone         == "gone"
NodeStatuses == {"pending", "running", "completed", "failed", "skipped", "unverified", "blocked"}
Verdicts     == TERMINAL \cup
                {"none", "paused", "running", "completed_with_unverified", "blocked", "error"}

VARIABLES
    file,     \* the workflow's entry in workflows.json; torn: the file is no JSON
    lock,     \* workflows.json.lock exists
    proc,     \* each process: its plan, where it is in an update, what it read
    dead,     \* processes that died
    archived, \* the completion events of the workflow are in the spool
    verdict,  \* what run() returned last
    budget,   \* commands left (bound)
    slow,     \* slow waits left (bound)
    robbed,   \* a live holder's lock was removed (history)
    spilled,  \* an unlocked write met a holder or a changed file (history)
    touched   \* nodes written by update or next (history)

vars == <<file, lock, proc, dead, archived, verdict, budget, slow, robbed, spilled, touched>>

Nothing == [torn |-> FALSE, status |-> Gone, nodes |-> [n \in Nodes |-> "pending"]]
Torn    == [Nothing EXCEPT !.torn = TRUE]
Started == [Nothing EXCEPT !.status = "running"]
Resting == [plan |-> <<>>, at |-> "out", got |-> Nothing]

(* Where a process is in an update: out of the lock, overdue or reopening it,
   or holding it; or in the part of a start after its unlock ("release").    *)
Inside == {"read", "truncate", "fill", "archive", "unlock", "release"}

TypeOK ==
    /\ file \in [torn : BOOLEAN, nodes : [Nodes -> NodeStatuses],
                 status : TERMINAL \cup {"running", "paused", Gone}]
    /\ lock \in BOOLEAN /\ archived \in BOOLEAN /\ verdict \in Verdicts
    /\ \A p \in Procs : proc[p].at \in Inside \cup {"out", "overdue", "reopen", "snapshot", "context"}
    /\ \A p \in Procs : proc[p].at # "out" => proc[p].plan # <<>>
    /\ \A p \in dead : proc[p] = Resting
    /\ budget \in 0..MaxCommands /\ slow \in 0..MaxSlow

Init ==
    /\ file = Started /\ lock = FALSE /\ proc = [p \in Procs |-> Resting] /\ dead = {}
    /\ archived = FALSE /\ verdict = "none" /\ robbed = FALSE /\ spilled = FALSE /\ touched = {}
    /\ budget = MaxCommands /\ slow = MaxSlow

-----------------------------------------------------------------------------
(* _compute_ready_nodes.                                                   *)

DepsMet(nodes, n) ==
    LET deps == {nodes[d] : d \in DependsOn[n]}
    IN  \/ deps = {}
        \/ TriggerRule[n] = "all_success" /\ deps \subseteq {"completed", "unverified"}
        \/ TriggerRule[n] = "all_done" /\ deps \subseteq {"completed", "failed", "skipped", "unverified"}
        \/ TriggerRule[n] = "one_success" /\ "completed" \in deps

(* Mutant: a node is ready although its dependencies are not done. *)
Eligible_IgnoresDeps(nodes) == {n \in Nodes : nodes[n] = "pending"}

(* Pending nodes whose dependencies are met; those whose condition is false are
   skipped, the others are ready.                                            *)
Eligible(nodes) == {n \in Nodes : nodes[n] = "pending" /\ DepsMet(nodes, n)}

(* The nodes of S in the order of the file. *)
Ready(S) ==
    LET one(n) == IF n \in S THEN <<n>> ELSE <<>>
        upto[i \in 0..Len(Order)] == IF i = 0 THEN <<>> ELSE upto[i - 1] \o one(Order[i])
    IN  upto[Len(Order)]

-----------------------------------------------------------------------------
(* Plans.                                                                  *)

Do(op)      == [op |-> op, ns |-> {}, to |-> "none"]
Set(n, s)   == [op |-> "set", ns |-> {n}, to |-> s]
Skip(S)     == [op |-> "skip", ns |-> S, to |-> "skipped"]
Invoke(n)   == [op |-> "invoke", ns |-> {n}, to |-> "none"]

Busy(p)     == proc[p].plan # <<>>
Item(p)     == Head(proc[p].plan)
At(p, op)   == Busy(p) /\ proc[p].at = "out" /\ Item(p).op = op

Follow(p, plan) == proc' = [proc EXCEPT ![p] = [Resting EXCEPT !.plan = plan]]
Done(p)         == Follow(p, Tail(proc[p].plan))

(* _mark_skipped. *)
MarkSkipped(ns) == [i \in DOMAIN ns |-> Set(ns[i], "skipped")]

(* Mutant: a node with nothing to run is passed over and stays pending. *)
Wave_PassesOverEmpty(ns) ==
    LET steps(n) == IF n \in Empty THEN <<>> ELSE <<Set(n, "running"), Invoke(n)>>
        upto[i \in 0..Len(ns)] == IF i = 0 THEN <<>> ELSE upto[i - 1] \o steps(ns[i])
    IN  upto[Len(ns)]

(* _execute_wave: node after node. *)
Wave(ns) ==
    LET steps(n) == IF n \in Empty THEN <<Set(n, "skipped")>>
                    ELSE <<Set(n, "running"), Invoke(n)>>
        upto[i \in 0..Len(ns)] == IF i = 0 THEN <<>> ELSE upto[i - 1] \o steps(ns[i])
    IN  upto[Len(ns)]

(* run() and advance() start with a load of the state. *)
StartRun ==
    /\ Runner \notin dead /\ ~Busy(Runner) /\ budget > 0
    /\ budget' = budget - 1
    /\ \E op \in {"load", "load_once"} : Follow(Runner, <<Do(op)>>)
    /\ verdict' = "none"
    /\ UNCHANGED <<file, lock, dead, archived, slow, robbed, spilled, touched>>

Return(v) == verdict' = v /\ Follow(Runner, <<>>)

(* The end of run(), when nothing is ready. *)
Verdict(all) ==
    CASE "running" \in all -> "running"
      [] all \subseteq {"completed", "skipped"} -> "completed"
      [] all \subseteq {"completed", "skipped", "unverified"} -> "completed_with_unverified"
      [] all \subseteq {"completed", "skipped", "failed", "unverified"} -> "completed_with_failures"
      [] OTHER -> "blocked"

(* The loop of run(): an unlocked read, then an early return, or the next wave
   with the skips before it, or, if the context budget blocks a wave of several
   nodes, more skips.  With nothing ready the run ends; if it skipped nodes, it
   reads the state again first.                                              *)
Load ==
    /\ At(Runner, "load")
    /\ \/ /\ file.torn \/ file.status = Gone
          /\ Return("error")
       \/ /\ ~file.torn /\ file.status \in TERMINAL \cup {"paused"}
          /\ Return(file.status)
       \/ /\ ~file.torn /\ file.status = "running"
          /\ \E false \in SUBSET (Eligible(file.nodes) \cap Conditional) :
                LET ready == Ready(Eligible(file.nodes) \ false)
                    skips == MarkSkipped(Ready(false))
                IN  \/ /\ ready = <<>> /\ false = {}
                       /\ Return(Verdict(Range(file.nodes)))
                    \/ /\ ready = <<>> /\ false # {}
                       /\ Follow(Runner, skips \o <<Do("judge")>>)
                       /\ UNCHANGED verdict
                    \/ /\ ready # <<>>
                       /\ Follow(Runner, skips \o Wave(ready) \o <<Do("load")>>)
                       /\ UNCHANGED verdict
                    \/ /\ Len(ready) > 1
                       /\ Follow(Runner, skips \o MarkSkipped(ready) \o <<Do("load")>>)
                       /\ UNCHANGED verdict
    /\ UNCHANGED <<file, lock, dead, archived, budget, slow, robbed, spilled, touched>>

(* The second read of run(): a file it cannot read has no nodes. *)
Judge ==
    /\ At(Runner, "judge")
    /\ Return(Verdict(IF file.torn \/ file.status = Gone THEN {} ELSE Range(file.nodes)))
    /\ UNCHANGED <<file, lock, dead, archived, budget, slow, robbed, spilled, touched>>

(* advance(): one wave, no budget, no verdict. *)
LoadOnce ==
    /\ At(Runner, "load_once")
    /\ IF file.torn \/ file.status # "running" THEN Follow(Runner, <<>>)
       ELSE \E false \in SUBSET (Eligible(file.nodes) \cap Conditional) :
                Follow(Runner, MarkSkipped(Ready(false)) \o Wave(Ready(Eligible(file.nodes) \ false)))
    /\ UNCHANGED <<file, lock, dead, archived, verdict, budget, slow, robbed, spilled, touched>>

(* _verify_completion of a node whose skill was loaded. *)
Outcomes(n) == IF n \in Checked THEN {"completed", "blocked"} ELSE {"unverified"}

(* _invoke_skill may fail; no dry run. *)
InvokeNode ==
    /\ At(Runner, "invoke")
    /\ \E n \in Item(Runner).ns : \E s \in Outcomes(n) \cup {"failed"} :
            Follow(Runner, <<Set(n, s)>> \o Tail(proc[Runner].plan))
    /\ UNCHANGED <<file, lock, dead, archived, verdict, budget, slow, robbed, spilled, touched>>

(* cmd_update, cmd_pause, cmd_resume, cmd_abort and cmd_start.  `start` finds the
   workflow in progress, or adds an entry for a new one: either way it writes
   this entry back as it read it.                                            *)
Command(p) ==
    /\ p \notin dead /\ ~Busy(p) /\ budget > 0
    /\ budget' = budget - 1
    /\ \/ \E u \in Updates : Follow(p, <<Set(u[1], u[2])>>)
       \/ \E op \in {"pause", "resume", "abort", "start"} : Follow(p, <<Do(op)>>)
    /\ UNCHANGED <<file, lock, dead, archived, verdict, slow, robbed, spilled, touched>>

(* cmd_next: the nodes to skip, for their condition or for the budget, are
   chosen from an unlocked read and written under the lock afterwards.       *)
NextCommand(p) ==
    /\ p \notin dead /\ ~Busy(p) /\ budget > 0
    /\ ~file.torn /\ file.status = "running"
    /\ budget' = budget - 1
    /\ \E false \in SUBSET (Eligible(file.nodes) \cap Conditional) :
        LET ready == Eligible(file.nodes) \ false
            skips == IF false = {} THEN <<>> ELSE <<Skip(false)>>
        IN  \/ skips # <<>> /\ Follow(p, skips)
            \/ Cardinality(ready) > 1 /\ Follow(p, Append(skips, Skip(ready)))
    /\ UNCHANGED <<file, lock, dead, archived, verdict, slow, robbed, spilled, touched>>

-----------------------------------------------------------------------------
(* _file_lock.                                                             *)

Locked     == {"set", "skip", "pause", "resume", "abort", "start"}
WantsLock(p) == Busy(p) /\ proc[p].at = "out" /\ Item(p).op \in Locked
Holders    == {p \in Procs : proc[p].at \in Inside}
Move(p, at) == proc' = [proc EXCEPT ![p].at = at]

(* Mutant: the lock file is opened without O_EXCL. *)
Acquire_NotExclusive(p) ==
    /\ WantsLock(p)
    /\ lock' = TRUE
    /\ Move(p, "read")
    /\ UNCHANGED <<file, dead, archived, verdict, budget, slow, robbed, spilled, touched>>

Acquire(p) ==
    /\ WantsLock(p) /\ ~lock
    /\ lock' = TRUE
    /\ Move(p, "read")
    /\ UNCHANGED <<file, dead, archived, verdict, budget, slow, robbed, spilled, touched>>

(* Five seconds have passed: the holder has died, or it is slow. *)
Overdue(p) ==
    /\ WantsLock(p) /\ lock
    /\ \/ Holders = {} /\ UNCHANGED slow
       \/ Holders # {} /\ slow > 0 /\ slow' = slow - 1
    /\ Move(p, "overdue")
    /\ UNCHANGED <<file, lock, dead, archived, verdict, budget, robbed, spilled, touched>>

(* The lock is removed, whosever it is by now ... *)
Steal(p) ==
    /\ proc[p].at = "overdue"
    /\ lock' = FALSE
    /\ robbed' = (robbed \/ (lock /\ Holders # {}))
    /\ Move(p, "reopen")
    /\ UNCHANGED <<file, dead, archived, verdict, budget, slow, spilled, touched>>

(* ... and created again; another process may have been faster, and then the
   FileExistsError ends the command or the run.                              *)
Reopen(p) ==
    /\ proc[p].at = "reopen"
    /\ \/ /\ ~lock
          /\ lock' = TRUE
          /\ Move(p, "read")
          /\ UNCHANGED verdict
       \/ /\ lock
          /\ Follow(p, <<>>)
          /\ verdict' = IF p = Runner THEN "error" ELSE verdict
          /\ UNCHANGED lock
    /\ UNCHANGED <<file, dead, archived, budget, slow, robbed, spilled, touched>>

(* The lock is unlinked, whosever it is by now. *)
Unlock(p) ==
    /\ proc[p].at = "unlock"
    /\ lock' = FALSE
    /\ Done(p)
    /\ UNCHANGED <<file, dead, archived, verdict, budget, slow, robbed, spilled, touched>>

-----------------------------------------------------------------------------
(* The update, under the lock.                                             *)

Rewrite(f, S, s) == [n \in Nodes |-> IF n \in S THEN s ELSE f.nodes[n]]

(* The workflow's own status after a node update. *)
Overall(f) ==
    IF Range(f.nodes) \subseteq {"completed", "skipped"} THEN "completed"
    ELSE IF Range(f.nodes) \subseteq {"completed", "skipped", "failed"} THEN "completed_with_failures"
    ELSE f.status

(* Mutant: an abort leaves its own status on the nodes. *)
Apply_AbortsNodes(i, f) ==
    IF i.op = "abort" THEN [f EXCEPT !.status = "aborted", !.nodes = [n \in Nodes |-> "aborted"]]
    ELSE f

(* What the item makes of the entry it read. *)
Apply(i, f) ==
    LET set == [f EXCEPT !.nodes = Rewrite(f, i.ns, i.to)]
    IN  CASE i.op = "set"    -> [set EXCEPT !.status = Overall(set)]
          [] i.op = "skip"   -> IF f.status = Gone THEN f ELSE set
          [] i.op = "pause"  -> [f EXCEPT !.status = "paused"]
          [] i.op = "resume" -> [f EXCEPT !.status = "running"]
          [] i.op = "abort"  ->
                [f EXCEPT !.status = "aborted",
                          !.nodes = Rewrite(f, {n \in Nodes : f.nodes[n] \in {"pending", "running"}}, "skipped")]
          [] i.op = "start"  -> f
          [] i.op = "prune"  -> Nothing

(* A file that is no JSON, or without the workflow, ends a command; the runner's
   _update_node just returns.                                                *)
Read(p) ==
    /\ proc[p].at = "read"
    /\ \/ /\ file.torn \/ (file.status = Gone /\ Item(p).op \notin {"skip", "start"})
          /\ proc' = [proc EXCEPT ![p].at = "unlock",
                                  ![p].plan = IF p = Runner THEN @ ELSE <<Item(p)>>]
       \/ /\ ~file.torn /\ (file.status = Gone => Item(p).op \in {"skip", "start"})
          /\ proc' = [proc EXCEPT ![p].at = "truncate", ![p].got = file]
    /\ UNCHANGED <<file, lock, dead, archived, verdict, budget, slow, robbed, spilled, touched>>

(* write_text empties the file ... *)
Truncate(p) ==
    /\ proc[p].at = "truncate"
    /\ file' = Torn
    /\ Move(p, "fill")
    /\ UNCHANGED <<lock, dead, archived, verdict, budget, slow, robbed, spilled, touched>>

(* A command that ended the workflow archives it; the runner never does. *)
Archives(p, f) ==
    p # Runner /\ (Item(p).op = "abort" \/ (Item(p).op = "set" /\ f.status \in TERMINAL))

AfterFill(p, f) ==
    IF Archives(p, f) THEN "archive" ELSE IF Item(p).op = "start" THEN "release" ELSE "unlock"

(* ... and fills it. *)
Fill(p) ==
    LET f == Apply(Item(p), proc[p].got)
    IN  /\ proc[p].at = "fill"
        /\ file' = f
        /\ proc' = [proc EXCEPT ![p].got = IF AfterFill(p, f) = "unlock" THEN Nothing ELSE f,
                                ![p].at = AfterFill(p, f)]
        /\ touched' = IF p = Runner THEN touched ELSE touched \cup Item(p).ns
        /\ UNCHANGED <<lock, dead, archived, verdict, budget, slow, robbed, spilled>>

(* Mutant: the entry is pruned whether or not its events were written. *)
Archive_PrunesAnyway(p) ==
    /\ proc[p].at = "archive"
    /\ archived' \in {archived, TRUE}
    /\ proc' = [proc EXCEPT ![p].at = "truncate", ![p].plan = <<Do("prune")>>]
    /\ UNCHANGED <<file, lock, dead, verdict, budget, slow, robbed, spilled, touched>>

(* _try_archive_and_prune: once the completion events are in the spool, the
   entry is removed by a second write.                                       *)
Archive(p) ==
    /\ proc[p].at = "archive"
    /\ \/ /\ archived' = TRUE
          /\ proc' = [proc EXCEPT ![p].at = "truncate", ![p].plan = <<Do("prune")>>]
       \/ /\ proc' = [proc EXCEPT ![p].at = "unlock", ![p].got = Nothing]
          /\ UNCHANGED archived
    /\ UNCHANGED <<file, lock, dead, verdict, budget, slow, robbed, spilled, touched>>

(* cmd_start leaves the lock and keeps its copy of the file. *)
Release(p) ==
    /\ proc[p].at = "release"
    /\ lock' = FALSE
    /\ Move(p, "snapshot")
    /\ UNCHANGED <<file, dead, archived, verdict, budget, slow, robbed, spilled, touched>>

(* _generate_repo_context writes nothing when its snapshot fails, nor is it called
   for a workflow that was resumed ...                                       *)
SkipContext(p) ==
    /\ proc[p].at = "snapshot"
    /\ Done(p)
    /\ UNCHANGED <<file, lock, dead, archived, verdict, budget, slow, robbed, spilled, touched>>

(* ... otherwise it writes the whole file from that copy, without the lock. *)
TruncateAgain(p) ==
    /\ proc[p].at = "snapshot"
    /\ file' = Torn
    /\ spilled' = (spilled \/ Holders # {} \/ file # proc[p].got)
    /\ Move(p, "context")
    /\ UNCHANGED <<lock, dead, archived, verdict, budget, slow, robbed, touched>>

FillAgain(p) ==
    /\ proc[p].at = "context"
    /\ file' = proc[p].got
    /\ Done(p)
    /\ UNCHANGED <<lock, dead, archived, verdict, budget, slow, robbed, spilled, touched>>

(* The process is killed; the lock and a half-written file stay. *)
Die(p) ==
    /\ Busy(p) /\ Cardinality(dead) < MaxDeaths
    /\ dead' = dead \cup {p}
    /\ Follow(p, <<>>)
    /\ UNCHANGED <<file, lock, archived, verdict, budget, slow, robbed, spilled, touched>>

-----------------------------------------------------------------------------
Update(p) ==
    \/ Acquire(p) \/ Overdue(p) \/ Steal(p) \/ Reopen(p)
    \/ Read(p) \/ Truncate(p) \/ Fill(p) \/ Archive(p) \/ Unlock(p)
    \/ Release(p) \/ SkipContext(p) \/ TruncateAgain(p) \/ FillAgain(p)

Step(p) == Update(p) \/ (p = Runner /\ (Load \/ LoadOnce \/ Judge \/ InvokeNode))

Next ==
    \/ StartRun
    \/ \E p \in Users : Command(p) \/ NextCommand(p)
    \/ \E p \in Procs : Step(p) \/ Die(p)

Spec == Init /\ [][Next]_vars

(* A process that is not killed goes on. *)
FairSpec == Spec /\ \A p \in Procs : WF_vars(Step(p))

-----------------------------------------------------------------------------
(* Properties.                                                             *)

(* No update is lost: a process that is about to write the file back has read
   what is in it, as long as no waiter removed the lock of a live process
   (_file_lock, _state_lock) and no start wrote its copy of the file beside a
   holder of the lock or after a change (_generate_repo_context).            *)
NoLostUpdate ==
    robbed \/ spilled \/ \A p \in Procs : proc[p].at = "truncate" => proc[p].got = file

(* The runner starts a node only while its dependencies satisfy its trigger
   rule, although it chose the wave from an unlocked read and the file changes
   under it by aborts, pauses and restarts.  Excepted are dependencies that a
   user's update or `next` has rewritten, or a start's copy of the file.     *)
StartsReady ==
    proc[Runner].at = "fill" /\ Item(Runner).to = "running" =>
        \A n \in Item(Runner).ns :
            robbed \/ spilled \/ touched \cap DependsOn[n] # {} \/ DepsMet(proc[Runner].got.nodes, n)

(* A workflow leaves the file only after its completion events are in the
   spool (_try_archive_and_prune), wherever a process dies.                  *)
PrunedIsArchived == file.status = Gone /\ ~file.torn => archived

(* A run ends: every pass of its loop settles a node or is the last, and a lock
   that a dead process left is taken over.                                   *)
RunEnds == Busy(Runner) ~> ~Busy(Runner)

(* "Lock for atomic read-modify-write on workflows.json" (state_io.py:35): the
   file changes only under the lock.                                         *)
WritesAreLocked == [][file' # file => Holders # {}]_vars

(* What _file_lock is called: an atomic lock, one holder at a time. *)
MutualExclusion == Cardinality(Holders) <= 1

(* What run() says of its verdict: completed means that every node was seen to
   be completed or skipped.                                                  *)
VerdictIsObserved ==
    [][At(Runner, "judge") /\ verdict' = "completed" =>
        ~file.torn /\ Range(file.nodes) \subseteq {"completed", "skipped"}]_vars

(* What run() says of its end: nothing is ready and nothing is running. *)
BlockedIsStuck ==
    [][At(Runner, "judge") /\ verdict' = "blocked" => Eligible(file.nodes) = {}]_vars
=============================================================================
