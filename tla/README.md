# Formal models of Dream Studio

Dream Studio keeps the state of an AI-assisted software process in one SQLite
"authority" database.  Everything that happens is first an *event*: hooks and
commands write it as a JSON file into a spool, an ingestor records it in a raw
table and in two canonical tables, and projections fold the canonical events
into the read models (work orders, tasks, milestones, projects) that commands
and dashboards query.  Beside the pipeline, a workflow runner keeps its state in
a JSON file, hooks talk to each other through an append-only queue, and the
program installs, upgrades, rolls back and restores itself, and installs itself
into the configuration of Claude Code.  No process owns any of this: hooks,
one-shot commands, sessions and a daemon run the same code against the same
directories, files and tables, mostly without locks, and any of them may be
killed.  That is what these TLA+ modules are about.

## 1. Inventory

| Part (source) | State it keeps | Operations | Interacts with | What is hard |
|---|---|---|---|---|
| Spool writer and ingestor (`spool/writer.py`, `spool/ingestor.py`) | directories `spool/`, `processing/`, `processed/`, `failed/`, reason sidecars; tables raw, business, ai, `execution_events` | `write_event`, `ingest`, `_process_one`, `_move_to_failed` | every emitter; the engine through the canonical tables; the archiver through `processed/` | concurrent runs, duplicate ids, three transactions and four renames per event, crashes |
| Spool lifecycle (`spool/lifecycle.py`, `scripts/spool_restore.py`) | weekly and yearly zips | `archive_week`, `consolidate_year`, restore | `processed/`, `spool/`; called by daemon and CLI | check-then-act, delete after verify, calendar edges |
| Projection engine (`core/projections/framework_engine*.py`) | cursor, retry queue, dead letters, target tables | `run_cycle`, `rebuild`, dead-letter commands | canonical tables; read models | many engines on one cursor, retries, rebuild racing cycles |
| Projection runner (`core/projections/runner.py`) | pid file, timers | `run`, `tick`, `sync_tick` | spool, engine, archiver | scheduling |
| SDLC read models (`core/projections/*_projection.py`) | `business_work_orders`, `business_tasks`, milestones | `handle` per event type | engine; read and written by work-order commands | replay, reordering, idempotence |
| Work orders, milestones (`core/work_orders/`, `core/milestones/`) | rows they update themselves before the projection does | create, start, advance, block, reopen, close, tasks, carry over, review fan-out, milestone close | spool, `sync_tick`, read models | every status written twice, gates on lagging rows |
| Workflow runner (`control/execution/workflow/`) | `workflows.json`, its lock file | run in waves, next, update, pause, resume, abort, archive | spool | lock takeover, unlocked reads, torn file |
| Hook queue (`core/config/hookq.py`, `runtime/hooks/enqueue.py`) | `hookq.jsonl`, rotated files | append, rename, drain, unlink | dispatcher | append against rename, overlapping drains, cap |
| Self-install, rollback, restore (`core/self_install.py`, `core/config/sqlite_bootstrap.py`, `core/health/authority_data.py`, `core/installed_productization_backup.py`, `core/config/state.py`) | app directories, `current`/`previous`, authority and its `-wal`, activation mark, row-count baseline, backups | install, rollback, migrate, activate, record counts, restore, rolling backup | hooks of the live app | no lock, death between calls, database lost or emptied |
| Claude Code integration (`integrations/installer/`, `integrations/manifest.py`, `integrations/targets/claude_code/`, `core/installed_productization_uninstall.py`) | files of a config root, manifest, backups | install (two modes), purge, uninstall | operator's own text, running sessions | plan made before the writes, manifest last |
| Event store, other enforcement, emitters, harvester, guardrails, core services, dashboards, CLI, canonical content | see `PROJECT.json` | – | – | mostly stateless or single-statement |

Properties that make the parts correct: *spool* – no event file vanishes,
`processed/` implies recorded everywhere, raw before canonical, everything
settles; *lifecycle* – no ingested file is lost; *engine* – the cursor never
passes an event by, dead letters are earned, every event is projected or
surfaced; *work orders* – the rows that commands and projections write agree
with a replay of the log, and closing happens from a phase that allows it;
*workflow* – no update lost, no node before its dependencies, no workflow removed
before it is archived, every run ends; *hook queue* – no record lost, none
handled twice by a single drain at a time, all handled in the end; *self-install*
– the live app is complete and can open the authority, a lost authority is not
silently replaced or its loss recorded; *integration* – the operator's text
survives, running sessions keep working hooks, an install delivers.

## 2. Modules

| Module | Models | Checked by | Proved in |
|---|---|---|---|
| `EventLog` | what the spool promises: publish, record, refuse, one event at a time, never taken back | as a property of `Spool` | `SpoolProofs` |
| `Spool`, `MCSpool` | `spool/writer.py`, `spool/ingestor.py`, `execution_events_projection.py` | `spool_*` | `SpoolProofs` |
| `SpoolArchive` | `spool/lifecycle.py`, `scripts/spool_restore.py` | `archive_safety` | `ArchiveProofs` |
| `ProjectionEngine`, `MCProjectionEngine` | `framework_engine*.py`, dead-letter and rebuild commands | `engine_*` | `EngineProofs` |
| `ReadModels` | status tables of `task_status.py`; work-order, task and milestone projections as functions of a row and an event; replay | through `WorkOrders` | `WorkOrdersProofs` |
| `WorkOrders`, `MCWorkOrders` | the lifecycle commands, composed with spool, engine and `ReadModels` | `work_orders` | `WorkOrdersProofs` |
| `Workflow`, `MCWorkflow` | runner, state commands, lock | `workflow` | `WorkflowProofs` |
| `HookQueue` | queue, writers and drains | `hook_queue` | `HookProofs` |
| `Authority`, `MCAuthority` | a home: apps, authority, copies, baseline | `authority*` | `AuthorityProofs` |
| `Integration`, `MCIntegration` | a config root: install, uninstall, operator, sessions | `integration` | `IntegrationProofs` |

### Spool

A file is named after its event id, so a directory is a set of event ids and
`os.replace` onto an existing name is set union; two copies of one event (ids
may be deterministic, archives may be restored) share a name.  Each run has a
label (`pc`), the listing it took (`batch`), the file in hand (`cur`) and its
`IngestResult` (`tally`).  One action is one file-system call or one committed
transaction of `_process_one`; any other run may act in between, and `Crash` may
happen at any label.

| Code | Action |
|---|---|
| `write_event` (temporary file, one `os.replace`) | `WriteEvent` |
| `sorted(glob("*.json"))` | `StartIngest` |
| claim `os.replace(spool → processing)`: done / `FileNotFoundError` / another error | `Claim` / `LoseClaim` / `ClaimFault` |
| read, parse, `REQUIRED_FIELDS`, `skill_id`: valid / refused / another exception | `ReadFile`, then – / `Reject` / `FailEventFile` |
| `_write_to_raw_sqlite`: done / raised | `WriteRaw` / `RawFault`, then `RestoreLocked` or `RestoreFailed` + `FailEventFile` |
| `_write_to_dual_canonical`: done / locked / raised | `WriteDual` / `DualLocked` / `DualError` + `FailEventFile` |
| `execution_events_projection.apply` | `ProjectLookup`, `ProjectInsert` |
| final `os.replace`: done or gone / another error | `Finish` / `FinishFault` + `FailEventFile` |

`Faults` says which faults an instance produces.  Abstracted: row contents,
correlation ids, wording of reasons, `.sessions` cleanup, Windows console
signals.  The content of a `Raising` event (JSON that is no object, text that is
not UTF-8, a `skill_id` that is no string) raises past `_process_one` after the
claim.  The catch-all handler of `ingest` then moves the path in `spool/`, which
is gone: the event is counted as failed and gets its sidecar, and the file stays
in `processing/`.

### SpoolArchive

Time is counted in weeks; a directory maps each file to the week of its mtime.
A zip is the set of its members, built under one temporary name, renamed,
verified by member count and readability, and only then are the originals
unlinked, one per step.  `Restore` puts members back into the inbox.  One
calendar year is modelled, `LastWeek` being the week into which 1 January falls.
Two archivers that write bytes into the same temporary file at the same time are
represented by the last one's content.

### ProjectionEngine

One projection over one canonical table (a projection of both tables has two
independent cursors).  Engines are processes; each `with transaction()` block is
a step: fetch due retries, handle, delete the row, move the cursor; read the
cursor, fetch newer events, handle, move the cursor, schedule or dead-letter.
`handle()` is idempotent by contract, so the target tables are the set of events
applied since the last truncation.  Which queued rows are due is
nondeterministic (elapsed time).  `Poison` events always fail, `Flaky` ones may.
`DbErrors` lets the bookkeeping transactions raise inside the `try` blocks;
`Crashes` covers a killed process and errors that abort a cycle.  Left out:
metric counters, the DuckDB mirror (fail-open, never read here), the legacy
`canonical_events` path.

### ReadModels and WorkOrders

`ReadModels` holds the transition table and, per projection, the function from a
row and an event to the next row (`HandleWorkOrder`, `HandleTask`): skeleton
rows, `COALESCE` of a late `created`, the remembered phase of a block, the
idempotency test that knows only a row's first and latest event, a start that
does not revive a finished task.  `ReplayWorkOrder` and `ReplayTask` fold a row's
events from nothing in timestamp order, which is what a rebuild computes.

In `WorkOrders` a command reads the rows, checks its guard and takes a *plan* of
steps, carried out one at a time while other commands and the engine act:

| Step | Code |
|---|---|
| `write` | the command's own UPDATE, committed |
| `emit` | `write_event` into the spool |
| `hold` | UPDATE and `write_event` in one transaction (close, block, advance, …) |
| `insert` | the INSERT of a row whose event was emitted before (review fan-out) |
| `gates` | the gates of a close |
| `create`, `create_task`, `record` | the nested creations of `carry_over` and its artifact |
| `sync` | `sync_tick` |

The commands are `CreateWorkOrder`, `SpawnWorkOrder`, `StartWorkOrder`,
`AdvanceWorkOrder`, `BlockWorkOrder`, `UnblockWorkOrder`, `ReopenWorkOrder`,
`DrainWorkOrder`, `CloseWorkOrder`, `CreateTask`, `AttachTask`, `StartTask`,
`MarkTaskDone`, `DrainTask`, `CarryOver` and `CloseMilestone`.  A verification
inside a close reaches the rows only through the work orders and tasks it spawns,
which are commands of their own here.  The engine is `Ingest`, `Select`,
`Deliver`, `RetryDelivery`: one cycle at a time (several engines are
`ProjectionEngine`'s subject), with failures fewer than the retries an event has.
Events are identified by their timestamp; events that share one `now`, failing
spool writes inside commands and the IntegrityError path of an INSERT whose row
exists already beyond its effect on the row are left out.

### Workflow

`file` is the workflow's entry in `workflows.json` (`torn` when the file holds no
JSON), `lock` the lock file.  A process works off a plan of items; an item that
changes the file goes through `Acquire` (`O_CREAT|O_EXCL`), `Read`, `Truncate`,
`Fill` (the two halves of `write_text`), `Archive` when the workflow has ended,
and `Unlock`.  A start leaves the lock by `Release` with its copy of the file in
hand; `_generate_repo_context` then writes that copy back without the lock
(`TruncateAgain`, `FillAgain`), unless its snapshot failed or the workflow was
only resumed (`SkipContext`).  A start of any workflow of the file carries this
entry along, so it is one command whatever it starts.  A waiter that has waited five seconds removes the lock (`Overdue`,
`Steal`) and opens it again (`Reopen`), whoever holds it.  The runner's `Load`,
`LoadOnce` and `Judge` read without the lock, choose a wave with `Ready` and
execute it node by node (`InvokeNode`); `NextCommand` is `workflow_state next`,
whose skips come from an unlocked read.  Conditions, the context budget, a node's
evidence and the success of the emission are arbitrary; outputs, durations,
gates' names, templates, the checkpoint file, the entries of other workflows and
the `aborted` verdict for a missing YAML file are left out.

### HookQueue

A file is an inode with a sequence of lines.  `Open` and `Write` are the two
calls of a hook process, `StartDrain` (list), `Rename`, `NextFile`,
`HandleRecord`, `EndOfFile` and `Unlink` those of a drain; a process that has a
file open keeps it across rename and unlink.  A drain swallows every `OSError`:
after a `RenameFault` the queue stays where it is, after a `ReadFault` the file is
unlinked with what was not read (`unread`), after an `UnlinkFault` the next drain
finds it again (`stuck`); `Die` leaves the file too.  A writer that dies leaves a line without its
newline, which swallows the next record of the file (`Parses`).

### Authority

| State | Variable |
|---|---|
| `app/<id>/` (venv none, some, full) and its `app.json` | `app` |
| `app/current`, `app/previous`; the home's mark, `state/installed-version` or a manifest under `integrations/` | `current`, `previous`, `marked` |
| `state/studio.db`: absent, without tables, or an authority with a schema version, rows in the file and rows in the `-wal` | `db` |
| `state/migrations-activated-version`, `state/authority-counts.json` | `activated`, `baseline` (`Nulls`: counts that are not numbers) |
| self-install backups, copies nothing removes, `studio.db.bak` | `backups`, `kept`, `bak` |

Install: `StartInstall`, `ClearApp`, `MakeVenv`, `Pip`, `RecordApp`, `Smoke`,
`BackupAuthority`, `Guard`, `Open`, `Migrate` (one migration per step, the first
after `BackupLive`, which may fail or leave an empty file: the migration goes on
all the same), `Carry`, `WritePrevious`, `SwitchCurrent`, `WriteVersion`,
`CheckCounts`/`ReadCounts`/`WriteCounts`, `Prune`.  Rollback adds
`StartRollback` and `Probe`; `StartActivate`, `StartDoctor`,
`StartRestore`/`Unlink`/`CopyBack` and `StartRolling`/`Roll` are the other
commands.  `Work` is the live app's hooks, which migrate what they open after the
same copy; `Integrate` is an integration's manifest, which marks the home; the
environment may checkpoint the log, delete rows, lose the file or leave an empty
one where it was.  What a command reads at its start is one step.  Left out: dry
runs, launchers, the integration installs that follow, deliberate creation through
the environment variable, two `.bak.<stamp>` names within one second, a migration
interrupted between two statements.

### Integration

One config root at user scope.  A file's content is a record: absent, a copy of
some version, a stub, or the operator's; `settings.json` and `CLAUDE.md` hold
Dream Studio's part (`ours`) and the operator's tokens (`own`), and are
`foreign` when they are no JSON or have no markers.  `StartInstall` computes
`Plan` from disk and manifest; each operation is then passed over, or backed up
(`Backup`) and written (`Write`), and the manifest is truncated and filled last.
`LoadSettings`, `TruncateSettings`, `FillSettings` are the uninstall.  `Edit` is
the operator or Claude Code, `StartSession` a session that captures the
registered command.  One install at a time (two would share temporary names).
Left out: rendering, project scope, the git pre-push hook, the regenerated
sidecars, launchers, `--purge-state`, a manifest shared by several roots.

## 3. Runs

| Run | Instance | Shows |
|---|---|---|
| `spool_safety` | 2 runs (symmetric), a valid execution event routed to both tables and a malformed one, republished at will; all kinds of fault but a locked raw write, a failing projection and raising content, which the next run and the proofs cover | type correctness, `NoLostEvent`, `ProcessedIsRecorded`, `RawFirst`, `ListingAccounted`, `ImplementsLog` (1.5 M states) |
| `spool_live` | 2 fair runs, raw and canonical writes that meet locks and errors, one event whose content raises (0.4 M states) | `NoStrandedFile`, `EventuallySettled` |
| `archive_safety` | 1 archiver, 2 files, 3 weeks, all faults | `NoFileLost` |
| `engine_safety` | 2 engines, 1 poison and 1 flaky event, 1 retry, crashes, database errors, operator | `NoSkippedEvent`, `DeadLetterIsEarned` |
| `engine_rebuild` | 2 engines, 3 events, rebuilds racing cycles, handlers that succeed | `NoSkippedEvent` |
| `engine_live` | 1 fair engine, 2 retries, poison and flaky events, database errors | `EventuallyProjected` |
| `work_orders` | 2 processes, any two commands after any prefix of a work order's life up to `pushed`, one death or handler failure (1.1 M states) | `RowsReplay`, `ClosesFromHeldPhase`, `Converges` |
| `workflow` | the runner and one user, 3 nodes with an empty, a checked and a conditional one, 3 commands, one death, one slow wait (1.0 M states) | `NoLostUpdate`, `StartsReady`, `PrunedIsArchived`, `RunEnds` |
| `hook_queue` | 3 hook processes, 2 drainers, a cap of one record, one death or one rename, read or unlink that fails (1.2 M states) | `NoRecordLost`, `HandledOnce`, `EventuallyHandled` |
| `authority` | 2 processes (symmetric), any two commands, 2 apps, one failure (also of the copy before a migration), death, lost file or deleted row (2.0 M states) | `CurrentIsComplete`, `AppsHaveData`, `NeverReplaced`, `LossIsNotBuried`, `RichestSurvives` |
| `authority_baseline` | one process, one lost file | counterexample to `RecordRefusesDrop` (section 5) |
| `integration` | a new root or one a checkout has installed into, 2 installs of 2 versions in either mode, one uninstall, one edit, one session, one death (2.5 M states) | `NothingLost`, `OwnedIsRecorded`, `SessionsKeepHooks`, `InstallDelivers` |

*Bounds.*  Two ingest runs and two events suffice for every interference in the
spool: runs meet only through one file name or one row, and a run handles one
file at a time; the third repeats a role, and the proofs remove these bounds.
`MaxWeek = 3` has an archived week, a week being archived and the current one,
with the year's end in the middle.  `MaxRows` bounds retry rows: a schedule
beyond it is disabled; the values leave room for duplicate rows of one event.
`engine_live` uses `MaxRows = 6`, more than two events with two retries can fill
there, so the bound never blocks a fair step.  `WorkOrders` bounds commands and
faults; the history before them is not explored step by step but any prefix of
`Past`, a realistic life, so two commands interleave in every phase.  In
`Workflow` the statuses users set are limited to `Updates`: a node that
another depends on is reset or completed by hand.  `HookQueue`'s cap of one
makes every drain with two records stop at it.  `Authority` keeps one backup
instead of five, so two installs already prune, and has one business row, so a
count is full, reduced or not a number.  `Integration` has one edit: tokens are
independent, and one suffices to be lost.

*Excepted windows.*  The code takes few locks, and some windows are simply open.
A property that is meant to hold outside them says so with a history variable
that only such a window sets:

| Variable | Set when |
|---|---|
| `disturbed` | commands about one key overlapped or died, an event reached the log behind the cursor, or a second retry passed it over |
| `robbed`, `spilled`, `touched` | a live holder's lock was removed; a start wrote its copy of the file beside a holder of the lock or after a change; nodes that `update` or `next` wrote |
| `late`, `crossed` (hook queue) | a writer wrote behind the rename; two drains overlapped or one died inside a file |
| `unread`, `stuck` | records of a file whose read failed before them; files whose unlink failed |
| `clash` | two installs of one commit overlapped |
| `crossed` (authority) | two commands were in flight together |
| `behind` | an install ended between migration and switch, a newer copy was restored, the live app migrated while another was being installed, a migration's copy failed, or there was no authority when an app was switched to or migrations began under a live app |
| `slipped` | the file a command had looked at changed before it acted |
| `risked`, `unknown` | an edit came after the backup or before a write without one; an install died before it was recorded |

The spool needs no such variable: `Abandoned` names the events whose files `ingest`
itself may leave in `processing/`, those that raise on their content and, where
canonical writes fail, those with a raw row.

Section 5 lists what happens inside the windows.

*Symmetry* is used only for interchangeable processes in runs without liveness
properties.

*Fairness.*  Ingest runs are started for ever by the Stop hook, pulse and every
`sync_tick`, and a started run continues: weak fairness of a run's steps.  A
SQLite lock is released within its holder's transaction, so a raw or canonical
write that is tried again and again succeeds at some try: strong fairness of
`WriteRaw` and `WriteDual` per event that gets so far.  The daemon starts a cycle every five seconds and back-off delays are bounded: weak fairness
of cycle steps, strong fairness of a cycle that finds every queued row due (in
`WorkOrders`, of the retry of a queued event).  A begun command, a runner's or
user's step, a hook process's call and a drain are steps of running processes:
weak fairness of each; prompts and stops keep starting drains.  Nothing is assumed
about handlers, about operators or about dead processes.

*Deadlock* is checked in the spool, archive and engine runs, whose models cannot
stop.  In the others commands are counted, and a system in which every command
has been used up has nothing left to do: `CHECK_DEADLOCK FALSE`.

## 4. Proofs

Every invariant and every safety action property that a run checks is also a
theorem, for every value of the constants: any number of processes, events,
files, commands and faults, not only the instance of the run.  Only what is about
fairness stays with TLC.

| Module | Theorems (property) | Under |
|---|---|---|
| `SpoolProofs` | `SpoolTypeCorrect`, `NoEventIsLost`, `ProcessedMeansRecorded`, `RawBeforeCanonical`, `EveryListedFileCounted`, `SpoolImplementsLog`, `NoFileIsStranded` | `SpoolAssumption`; `NoFileIsStranded` needs no fault of `Strands` |
| `ArchiveProofs` | `ArchiveTypeCorrect`, `NoIngestedFileIsLost` | `ArchiveAssumption`; the second needs `OneArchiver` |
| `EngineProofs` | `EngineTypeCorrect`, `DeadLettersAreEarned`, `NoEventIsSkipped` | `EngineAssumption`; the last needs `Orderly` |
| `WorkOrdersProofs` | `WorkOrdersTypeCorrect`, `WorkOrdersCloseFromHeldPhase`, `WorkOrdersRowsReplay` | `PastAssumption`, `WoOfAssumption`, `KeysAssumption`, `BoundsAssumption` |
| `WorkflowProofs` | `WorkflowTypeCorrect`, `UpdatesAreNotLost`, `PrunedWorkflowsAreArchived`, `WavesStartReadyNodes` | `GraphAssumption` |
| `HookProofs` | `HookTypeCorrect`, `RecordsAreNotLost`, `RecordsAreHandledOnce` | `QueueAssumption` |
| `AuthorityProofs` | `AuthorityTypeCorrect`, `CurrentAppIsComplete`, `AuthorityIsNeverReplaced`, `LossesAreNotBuried`, `RichestCopySurvives`, `AppsHaveTheirData` | `AuthorityAssumption` |
| `IntegrationProofs` | `IntegrationTypeCorrect`, `RunningHooksSurvive`, `OperatorTextSurvives`, `OwnedFilesAreRecorded`, `InstallsDeliver` | `ShipsAssumption`, `FilesAssumption`, `BoundsAssumption` |

The assumptions on constants say what the code's data are (subsets of the events,
positive timestamps and retry limits, a released migration is one the app ships,
directories do not overlap, the history before a run is one) and that sets the
code counts are finite.  Three theorems have a hypothesis because the property is
false without it, which a configuration of section 5 replays: a single archiver;
events committed in timestamp order and no failing handler or death where rebuilds
are used (`Orderly`); no crash and no failing rename (`Strands`).

Hardly any property is inductive.  What had to be found:

* *Spool.*  `TypeInv` adds that listings are finite and that a run has an event in
  hand exactly between claim and settlement (`HandInv`).  `SafeInv` adds `HeldInv`
  (which tables already hold the event in hand, label by label) and `KnownInv`.
  In the refinement, rejecting and failing are `Refuse`, the write that completes
  an event's tables is `Record`, and every other step is invisible.  `HolderInv`
  says that every file in `processing/` but those of `Abandoned` is in the hand of
  a run at a label from which the code moves it.
* *Archive.*  `WeekInv` and `YearInv`: until it publishes there is no archive; what
  is zipped is still in place; what is yet to be deleted is in the archive.
* *Engine.*  `IdInv` (two rows are never taken for one), `EarnedInv` (a count, plus
  one for every engine about to count, is backed by attempts), and `SkipInv`:
  events below the cursor, below any engine's snapshot of it and below anything
  fetched are projected, queued, dead or in the hands of an engine that will make
  them so.  The prefix must be stated for every engine's *stale* snapshot, since
  each may still write it.
* *Workflow.*  `LockInv`: until a live holder is robbed or a start spills its copy,
  one process is inside, and what it is about to write back is what the file
  holds (`HistoryStays`: once robbed or spilled, always).  `ReadyInv`: every node
  the runner has yet to start may be started by what the file holds *and* by
  everything any process is about to write.
* *Hook queue.*  `LineInv` (a record has one line), `LossInv` (a line that is due
  and was not left unread was handled, or its file has a name; a drain has handled
  what it passed), `OnceInv` (one drain at a time, and a line that was handled lies
  behind it, in a file that has no name any more, or in a stuck one).
* *Authority.*  `BuildInv` (an app that is switched to was completed and nobody is
  rebuilding it), `GuardInv`, `AloneInv`, `CountInv` and `RollInv` (what the only
  command in flight looked at still holds), and `DataInv`: whatever schema is held
  anywhere, in the authority, a copy or the hands of a restore, and is older than
  another one held, has a copy at least as old among those nothing removes
  (`ChainInv`), and the live and the previous app reach all that is held or such a
  copy (`ReachInv`).  A backup that pruning may remove never counts.
* *Integration.*  `PlanInv` (one operation per file, of the kinds the version and
  mode allow), `TokenInv` (what is about to be overwritten is in a backup, or in
  the hands of an uninstall that will write it), `OwnInv`, `DeliverInv`.
* *Work orders.*  `FlightInv` (timestamps are unique, a key that is being created
  has one creator, an undisturbed command's event is the latest of its key),
  `EngineInv` (a cycle has fetched everything its cursors have not passed),
  `SrcInv` (a row's provenance ids name events of the log), and `ColInv`: each
  column of a row shows the value of the latest event that sets it, or that event
  is still to be applied.  A replay computes the same latest events, so rows and
  replay agree when nothing is outstanding.

The order of rotated files (`HookQueue`) and the fold of a replay (`ReadModels`)
are recursive local functions.  Facts about every element of their result are
proved without an induction principle: the set of positions at which the fact
fails would have a least element, and one unfolding shows there is none
(`LeastElement`, from the well-foundedness of the naturals).

Trying to prove them corrected the models twice.  `RowsReplay` needed the second
of two due retries to be seen moving the cursor over events in between
(`Passed`).  `AppsHaveData` had held in the run only because it allows one fault:
with two, an install into an unmarked home begins an authority anew beneath a
previous app that has no copy (`Anew`); the exception is now part of `behind`.

Only model-checked: the liveness properties `EventuallySettled`,
`EventuallyProjected`, `EventuallyHandled`, `RunEnds` and `Converges`, because
fairness and ENABLED are out of the prover's reach, and the counterexamples of
section 5.

## 5. Where code and comments disagree

`authority_baseline` is a listed counterexample, quoted in `PROJECT.json`: in an
installed home whose `studio.db` has become a file without tables, the doctor's
`--record-counts` writes a baseline of nulls over real numbers, because a count
that is no number has not "dropped".

The following were found while modelling.  Where a property is named, it is
defined in the module and fails; the configuration in brackets replays it.

Spool, archive, engine:

* a lock in the canonical write strands the file in `processing/` (`Spool_dual_locked.cfg`, `LockedStaysForRetry`), and a failed one is counted without moving the file to `failed/` (`Spool_dual_error.cfg`, `FailureIsTriaged`);
* a refused raw write ends in `failed/`, not in the inbox (`Spool_refused.cfg`);
* the week of 1 January is never consolidated (`SpoolArchive_year.cfg`);
* an event committed after a later-stamped one is never projected (`Engine_late.cfg`), and events that share one timestamp can be skipped by the cursor;
* a handler failing during a rebuild loses its event silently (`Engine_rebuild_failure.cfg`);
* content that raises after the claim is counted as failed and gets a sidecar in `failed/`, but its file stays in `processing/` for good (`ingestor.py:126-128` against 145, 151 and 165);
* `execution_events` can receive two rows for one event: `apply` selects and then inserts without a unique index;
* two archivers that both pass the existence check overwrite each other's zip, and when the second zip is corrupt its removal takes files whose originals the first has unlinked (`SpoolArchive_two.cfg`, `NoFileLost`); the retry "upsert" always inserts; a successful retry moves the cursor back; `_save_checkpoint` of the legacy engine binds six values to seven placeholders;
* `sync_tick` says that the daemon picks an event up when its own ingestion fails; the daemon projects but does not ingest, the next hook or pulse does;
* `rolling_window_prune`, which a pulse runs, deletes promoted raw rows after ninety days, so `RawFirst` speaks of ingestion and not of rows that old.

Work orders:

* a task carried over reads as open again: `carry_over` stamps its `deleted` event with a time taken before it emitted others, and the cursor has passed it (`WorkOrders_carry.cfg`, `CarriedTaskIsDeleted`);
* `task_status.py:198` says nothing is skipped and nothing steps back; two commands that read the same phase and both write can do that, only a close holds its phase (`WorkOrders_steps_back.cfg`, `NothingStepsBack`);
* a milestone can be announced complete although a reopened work order is open: any `closed` event ever recorded counts (`WorkOrders_milestone.cfg`, `MilestoneCoversClosed`);
* when two retries are due they are applied in the order of their due times, and a success moves the cursor to its event: the second can move it forward over events that the first had moved it back before, whose second application then never happens (`framework_engine_retry.py:153`);
* `start_task` accepts cancelled and deleted tasks; the gates of a close are read before its held write; a command killed between UPDATE and `write_event` leaves a status no event explains.

Workflow:

* the verdict `completed` can be the reading of an empty file (`Workflow_verdict.cfg`, `VerdictIsObserved`; `runner.py:609` against 622–624), and `blocked` can be stale (`BlockedIsStuck`);
* a start writes the whole file a second time, from its copy and without the lock (`state_commands.py:109`, `state_telemetry.py:182`): updates made in between are lost, running nodes are set back and pruned entries return, although the lock is for "atomic read-modify-write" (`state_io.py:35`; `Workflow_context.cfg`, `WritesAreLocked`);
* the lock is not exclusive once a waiter has removed a slow holder's (`MutualExclusion`, `engine.py:36`);
* a death during `write_text` leaves a file no command can read; `next` sets a node that was started meanwhile to skipped; an abort whose archive failed lets the wave go on; a workflow completed by the runner alone is archived only by a later command.

Hook queue:

* overlapping drains, or one after a drain that died or could not unlink the file, deliver records twice (`HookQueue_twice.cfg`, `NothingTwice`, `hookq.py:124`);
* a file that cannot be opened or read to its end is unlinked all the same, and its records are lost (`HookQueue_unread.cfg`, `NothingIsDropped`, `hookq.py:97` and 135 against 22–28);
* a writer caught between open and write by a rename and a whole drain appends to an unlinked file (`LateIsPickedUp`, `hookq.py:22-24`); a line cut short swallows the record after it.

Self-install and restore:

* "reversible" restore copies `studio.db` without its `-wal` and then deletes the `-wal` (`Authority_restore.cfg`, `RestoreIsReversible`);
* the copy before the first migration may fail and the migration goes on, although `sqlite_bootstrap.py:664` says the database is copied first: the way back from an upgrade is then a self-install backup that retention may prune, or none (`Authority_uncopied.cfg`, `MigrationsAreCopied`);
* two installs of one commit can remove the live app, although `self_install.py:876` says never to;
* an install that ends between migration and switch leaves the old app unable to open the authority; "restore, then roll back" races with the live app's hooks, which migrate again; a restore does not compare schemas;
* a first install that dies between the switch and `installed-version` leaves an unmarked home, which the creation guard does not protect; retention can prune the self-install backup made before an upgrade, leaving only the `studio-pre-*` copy;
* after a loss, an install into an unmarked home or a restored copy without tables begins the authority anew, and the previous app is left without a copy it can open; a rollback in a home without an authority skips the probe.

Integration:

* settings.json is written before the hook files it names: a session that starts in between, or after an install that died there, has hooks that fail;
* a file created between plan and write is overwritten without a backup, and the uninstall rewrites settings.json in place without one; killed inside that write it leaves an empty file, which the next install takes for no settings;
* files of an install that died are pruned by no later version that does not ship them; in files mode, dropped hook files and agents stay and leave the manifest;
* at project scope the whole `hooks` section is removed, the operator's hooks included, while the plan says "Additive only".

## 6. Not modelled, and the plan

The plan for models and for safety proofs is carried out: every part of section 1
that keeps state between calls has its module, and every safety property its
theorem.  Worth adding next: the proof that `WorkOrders`' single engine cycle is
what one engine of `ProjectionEngine` does, a refinement TLC could check first; the
event store's write buffer, if it gains a second importer; and project scope of
the integration.

Not modelled: the other enforcement hooks and gates, which decide from one read
and keep no state between calls; the write buffer's import (one transaction keyed
by a hash) and the ninety-day prune; the session harvester; emitters and
formatting; stateless guardrail scanners; findings, decisions, memory, telemetry
and document stores, whose operations are single statements with no protocol
between them; dashboards and the API, which read; content under `canonical/`; and
`retention.sweep_daily`, which has no caller.  These are by far the larger part of
the repository's lines (some 214 000): views, argument parsing, rendering,
scanners, scripts and data.  The modules cover the code in which the order of
steps and the failures between them decide what is true.
