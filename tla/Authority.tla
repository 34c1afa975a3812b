----------------------------- MODULE Authority -----------------------------
(***************************************************************************)
(* A Dream Studio home: its versioned apps, its authority database and the *)
(* copies of it.  `ds self-install` builds an app, backs the authority up, *)
(* migrates it and only then moves app/current; `--rollback` moves it back *)
(* (core/self_install.py).  A guard refuses to create an authority where   *)
(* one was lost, migrations wait for their release                         *)
(* (core/config/sqlite_bootstrap.py), a baseline of row counts makes a     *)
(* loss visible (core/health/authority_data.py), `ds restore` copies a     *)
(* backup back (core/installed_productization_backup.py) and every pulse   *)
(* may renew studio.db.bak (core/config/state.py).  Nothing takes a lock:  *)
(* commands interleave, and each may die between two calls.                *)
(***************************************************************************)
EXTENDS Integers, Sequences, FiniteSets, FiniteSetsExt

CONSTANTS
    Apps, NoApp,  \* app ids, one per commit
    Latest,       \* the last migration each app ships
    Released,     \* its .released_version
    Rows,         \* business rows: projects, work orders, tasks, events
    Procs,
    BackupsKept,  \* BACKUPS_KEPT
    MaxCommands, MaxFaults  \* bounds

ASSUME AuthorityAssumption ==
    /\ IsFiniteSet(Apps) /\ Apps # {} /\ NoApp \notin Apps
    /\ IsFiniteSet(Rows)
    /\ MaxCommands \in Nat /\ MaxFaults \in Nat
    /\ BackupsKept \in Nat \ {0}
    /\ \A a \in Apps : Latest[a] \in Nat /\ Released[a] \in 1..Latest[a]

VARIABLES
    app,        \* each app directory: its venv and whether app.json is there
    current, previous,  \* app/current, app/previous
    marked,     \* state/installed-version, or the manifest of an integration, is there
    db,         \* state/studio.db with its -wal
    activated,  \* state/migrations-activated-version, 0 when absent
    baseline,   \* state/authority-counts.json
    backups,    \* the self-install backups, oldest first
    kept,       \* copies nothing removes: studio-pre-*, pre-restore, renamed .bak
    bak,        \* studio.db.bak
    proc,       \* the command each process runs
    commands, faults,   \* what is left of the bounds
    crossed,    \* two commands were in flight together (history)
    clash,      \* ... two installs of one app (history)
    behind,     \* the authority was left ahead of the live app, or there was none to go
                \* by when an app was switched to, or no copy when it migrated (history)
    slipped     \* what a command had looked at changed before it acted (history)

home  == <<app, current, previous, marked>>
data  == <<db, activated, baseline>>
saved == <<backups, kept, bak>>
hist  == <<crossed, clash, behind, slipped>>
vars  == <<home, data, saved, proc, commands, faults, hist>>

Versions == 0..Max({Latest[a] : a \in Apps})
Nulls == -1       \* counts of a file without the tables
NoBaseline == -2
NoCopy == [kind |-> "absent", schema |-> 0, rows |-> {}]
EmptyCopy == [NoCopy EXCEPT !.kind = "empty"]
Absent == [kind |-> "absent", schema |-> 0, main |-> {}, wal |-> {}]
Empty  == [Absent EXCEPT !.kind = "empty"]
Idle   == [pc |-> "idle", cmd |-> "none", app |-> NoApp, current |-> NoApp,
           existed |-> FALSE, next |-> 0, limit |-> 0, taken |-> FALSE,
           count |-> Nulls, accept |-> FALSE, copy |-> NoCopy]

Copies == [kind : {"absent", "empty", "authority"}, schema : Versions, rows : SUBSET Rows]

TypeOK ==
    /\ app \in [Apps -> [venv : {"none", "some", "full"}, record : BOOLEAN]]
    /\ {current, previous} \subseteq Apps \cup {NoApp} /\ marked \in BOOLEAN
    /\ db \in [kind : {"absent", "empty", "authority"}, schema : Versions,
               main : SUBSET Rows, wal : SUBSET Rows]
    /\ db.kind # "authority" => db.schema = 0 /\ db.main \cup db.wal = {}
    /\ activated \in Versions /\ baseline \in {NoBaseline, Nulls} \cup 0..Cardinality(Rows)
    /\ backups \in Seq(Copies) /\ kept \subseteq Copies /\ bak \in Copies
    /\ \A p \in Procs : proc[p].pc = "idle" <=> proc[p] = Idle
    /\ commands \in 0..MaxCommands /\ faults \in 0..MaxFaults
    /\ {crossed, clash, behind, slipped} \subseteq BOOLEAN

(* A new home, or one in which an install has finished, the first or an
   upgrade, which has left a copy of what it found.                          *)
Init ==
    /\ \/ /\ current = NoApp /\ previous = NoApp /\ db = Absent /\ baseline = NoBaseline
          /\ kept = {}
       \/ \E a \in Apps, R \in SUBSET Rows :
            /\ current = a /\ baseline = Cardinality(R)
            /\ db = [kind |-> "authority", schema |-> Released[a], main |-> R, wal |-> {}]
            /\ \/ previous = NoApp /\ kept = {}
               \/ \E b \in Apps : /\ Released[b] < Released[a] /\ previous = b
                                  /\ kept = {[kind |-> "authority", schema |-> Released[b], rows |-> R]}
    /\ marked = (current # NoApp) /\ activated = 0
    /\ app = [a \in Apps |-> IF a \in {current, previous}
                             THEN [venv |-> "full", record |-> TRUE]
                             ELSE [venv |-> "none", record |-> FALSE]]
    /\ backups = <<>> /\ bak = NoCopy
    /\ proc = [p \in Procs |-> Idle]
    /\ commands = MaxCommands /\ faults = MaxFaults
    /\ crossed = FALSE /\ clash = FALSE /\ behind = FALSE /\ slipped = FALSE

-----------------------------------------------------------------------------
(* What the code reads.                                                    *)

DbRows == db.main \cup db.wal

(* VACUUM INTO, the backup API: what a reader of the database sees. *)
Snapshot == [kind |-> db.kind, schema |-> db.schema, rows |-> DbRows]

(* read_counts: a file without the tables has counts that are not numbers. *)
Counts == IF db.kind = "authority" /\ db.schema > 0 THEN Cardinality(DbRows) ELSE Nulls

(* drops: a count below the recorded one. *)
Dropped == Counts # Nulls /\ Counts < baseline

(* What a replaced authority looks like (empty_without_baseline). *)
EmptyWithoutBaseline == baseline = NoBaseline /\ marked /\ Counts = 0

(* Mutant: the guard asks only whether the file exists. *)
MayCreate_ExistingFile == db.kind # "absent" \/ ~marked

(* assert_may_create_database: in a marked home a missing or a schema-less
   file is a lost authority.                                                 *)
MayCreate == db.kind = "authority" \/ ~marked

(* released_migration_version, for the app that asks. *)
ReleasedFor(a) == Max({Released[a], activated})

(* Mutant: a directory that exists is an app. *)
Complete_Directory(a) == app[a].venv # "none"

(* app_record: app.json and the interpreter are both there. *)
Complete(a) == app[a].record /\ app[a].venv # "none"

-----------------------------------------------------------------------------
(* How commands begin and end.                                             *)

Busy == {p \in Procs : proc[p].pc # "idle"}

Begin(p, me) ==
    /\ proc[p].pc = "idle" /\ commands > 0
    /\ commands' = commands - 1
    /\ proc' = [proc EXCEPT ![p] = me]
    /\ crossed' = (crossed \/ Busy # {})
    /\ clash' = (clash \/ \E q \in Busy : me.cmd = "install" /\ proc[q].cmd = "install"
                                          /\ proc[q].app = me.app)
    /\ UNCHANGED <<faults, behind, slipped>>

Goto(p, pc) == proc' = [proc EXCEPT ![p].pc = pc]
Quit(p) == proc' = [proc EXCEPT ![p] = Idle]

(* The authority may be ahead of the live app if an install ends here. *)
Migrating(me) == me.cmd = "install" /\ me.pc \in {"migrate", "carry", "previous", "switch"}
Left(p) == behind' = (behind \/ Migrating(proc[p]))

(* Under a live app migrations begin where there is no schema: its data is gone. *)
Anew == db.schema = 0 /\ current # NoApp

(* What a command has looked at changes before it acts on it. *)
Slip == slipped' = (slipped \/ \E p \in Procs : proc[p].pc \in {"open", "read", "roll"})

(* Steps of p at label pc that touch none of the bounds. *)
At(p, pc) == proc[p].pc = pc /\ UNCHANGED <<commands, faults, crossed, clash, slipped>>

-----------------------------------------------------------------------------
(* self_install.                                                           *)

(* The refusals come first and change nothing. *)
StartInstall(p, a) ==
    /\ MayCreate /\ ~Dropped
    /\ db.kind # "absent" => ~EmptyWithoutBaseline
    /\ Complete(a) \/ current # a \/ app[a].venv = "none"
    /\ Begin(p, [Idle EXCEPT !.pc = IF Complete(a) THEN "smoke" ELSE "build",
                             !.cmd = "install", !.app = a, !.current = current,
                             !.existed = db.kind # "absent"])
    /\ UNCHANGED <<home, data, saved>>

(* _build_app: the live app is not removed, anything incomplete is. *)
ClearApp(p) ==
    LET a == proc[p].app
    IN  /\ At(p, "build")
        /\ IF current = a /\ app[a].venv # "none"
           THEN Quit(p) /\ UNCHANGED app
           ELSE /\ Goto(p, "venv")
                /\ app' = [app EXCEPT ![a] = [venv |-> "none", record |-> FALSE]]
        /\ UNCHANGED <<current, previous, marked, data, saved, behind>>

(* python -m venv, before anything is installed into it. *)
MakeVenv(p) ==
    /\ At(p, "venv")
    /\ app' = [app EXCEPT ![proc[p].app].venv = "some"]
    /\ Goto(p, "pip")
    /\ UNCHANGED <<current, previous, marked, data, saved, behind>>

(* pip install fills the venv, unless another process has removed it. *)
Pip(p) ==
    /\ At(p, "pip")
    /\ app[proc[p].app].venv # "none"
    /\ app' = [app EXCEPT ![proc[p].app].venv = "full"]
    /\ Goto(p, "record")
    /\ UNCHANGED <<current, previous, marked, data, saved, behind>>

(* app.json is written last. *)
RecordApp(p) ==
    /\ At(p, "record")
    /\ app[proc[p].app].venv # "none"
    /\ app' = [app EXCEPT ![proc[p].app].record = TRUE]
    /\ Goto(p, "smoke")
    /\ UNCHANGED <<current, previous, marked, data, saved, behind>>

(* `ds --help` may well run in a venv that was only filled in part. *)
Smoke(p) ==
    /\ At(p, "smoke")
    /\ app[proc[p].app].venv # "none"
    /\ Goto(p, IF proc[p].existed THEN "backup" ELSE "guard")
    /\ UNCHANGED <<home, data, saved, behind>>

(* backup_authority: a read-only VACUUM INTO, of an emptied file as well. *)
BackupAuthority(p) ==
    /\ At(p, "backup")
    /\ db.kind # "absent"
    /\ backups' = Append(backups, Snapshot)
    /\ Goto(p, IF proc[p].cmd = "install" THEN "guard" ELSE "previous")
    /\ UNCHANGED <<home, data, kept, bak, behind>>

(* bootstrap_database asks the guard again ... *)
Guard(p) ==
    /\ At(p, "guard")
    /\ MayCreate
    /\ Goto(p, "open")
    /\ UNCHANGED <<home, data, saved, behind>>

(* ... and connects, which creates a missing file.  run_migrations adds the
   version table, refuses a schema newer than the app and reads what it will
   apply: every migration up to the release, or to the last for `activate`. *)
Open(p) ==
    LET a  == proc[p].app
        me == [proc[p] EXCEPT !.pc = "migrate", !.next = db.schema + 1,
                              !.limit = IF proc[p].cmd = "activate" THEN Latest[a]
                                        ELSE Min({Latest[a], ReleasedFor(a)})]
    IN  /\ At(p, "open")
        /\ db' = IF db.kind = "authority" THEN db ELSE [Absent EXCEPT !.kind = "authority"]
        /\ proc' = [proc EXCEPT ![p] = IF db.schema > Latest[a] THEN Idle ELSE me]
        /\ UNCHANGED <<home, activated, baseline, saved, behind>>

(* _backup_live_db to studio-pre-N before the first migration.  When it fails the
   migrations go on all the same, beside an empty file at best.              *)
BackupLive(first) ==
    \/ ~first /\ UNCHANGED <<kept, faults>>
    \/ first /\ kept' = kept \cup {Snapshot} /\ UNCHANGED faults
    \/ /\ first /\ faults > 0
       /\ faults' = faults - 1
       /\ kept' \in {kept, kept \cup {EmptyCopy}}

(* The authority migrates without a copy of what it was. *)
Uncopied(first) == first /\ Snapshot \notin kept'

(* Mutant: nothing is copied before a migration. *)
Migrate_NoSnapshot(p) ==
    LET me == proc[p]
    IN  /\ At(p, "migrate")
        /\ IF me.next > me.limit THEN Goto(p, "carry") /\ UNCHANGED <<db, behind>>
           ELSE /\ db.kind = "authority" /\ db.schema = me.next - 1
                /\ db' = [db EXCEPT !.schema = me.next]
                /\ proc' = [proc EXCEPT ![p].next = @ + 1]
                /\ behind' = (behind \/ Anew)
        /\ UNCHANGED <<home, activated, baseline, saved>>

(* One migration per commit, the first after a copy.  If another process has
   applied it meanwhile, or has copied a backup over the file, the insert of its
   version fails.                                                            *)
Migrate(p) ==
    LET me == proc[p]
    IN  /\ me.pc = "migrate" /\ UNCHANGED <<commands, crossed, clash, slipped>>
        /\ IF me.next > me.limit THEN Goto(p, "carry") /\ UNCHANGED <<db, kept, faults, behind>>
           ELSE /\ db.kind = "authority" /\ db.schema = me.next - 1
                /\ BackupLive(~me.taken)
                /\ db' = [db EXCEPT !.schema = me.next]
                /\ proc' = [proc EXCEPT ![p].next = @ + 1, ![p].taken = TRUE]
                /\ behind' = (behind \/ Anew \/ Uncopied(~me.taken))
        /\ UNCHANGED <<home, activated, baseline, backups, bak>>

(* carry_over_activation records an activation the home has no record of;
   activate_pending_migrations records its own.                              *)
Carry(p) ==
    LET a == proc[p].app
    IN  /\ At(p, "carry")
        /\ IF proc[p].cmd = "activate"
           THEN activated' = Latest[a] /\ Quit(p)
           ELSE /\ activated' = IF activated = 0 /\ db.schema > Released[a]
                                THEN db.schema ELSE activated
                /\ Goto(p, "previous")
        /\ UNCHANGED <<home, db, baseline, saved, behind>>

-----------------------------------------------------------------------------
(* _activate, shared by install and rollback.                              *)

WritePrevious(p) ==
    LET me == proc[p]
    IN  /\ At(p, "previous")
        /\ previous' = IF me.current \notin {NoApp, me.app} THEN me.current ELSE previous
        /\ Goto(p, "switch")
        /\ UNCHANGED <<app, current, marked, data, saved, behind>>

(* switch_current: the new link is renamed over the old one. *)
SwitchCurrent(p) ==
    /\ At(p, "switch")
    /\ current' = proc[p].app
    /\ behind' = (behind \/ db.schema = 0)
    /\ Goto(p, "version")
    /\ UNCHANGED <<app, previous, marked, data, saved>>

(* installed-version, and a launcher that names app/current and never changes. *)
WriteVersion(p) ==
    /\ proc[p].pc = "version" /\ Slip
    /\ marked' = TRUE
    /\ Goto(p, IF proc[p].cmd = "install" THEN "check" ELSE "prune")
    /\ UNCHANGED <<app, current, previous, data, saved, commands, faults, crossed, clash, behind>>

(* Mutant: the install relies on the check it made before it began. *)
CheckCounts_Earlier(p) ==
    /\ At(p, "check")
    /\ Goto(p, IF db.kind # "absent" THEN "read" ELSE "prune")
    /\ UNCHANGED <<home, data, saved, behind>>

(* authority_data_check before the counts are recorded. *)
CheckCounts(p) ==
    /\ At(p, "check")
    /\ Goto(p, IF db.kind # "absent" /\ (~Dropped \/ proc[p].accept) THEN "read" ELSE "prune")
    /\ UNCHANGED <<home, data, saved, behind>>

(* record_counts reads the counts again ... *)
ReadCounts(p) ==
    /\ At(p, "read")
    /\ db.kind # "absent"
    /\ proc' = [proc EXCEPT ![p].pc = "write", ![p].count = Counts]
    /\ UNCHANGED <<home, data, saved, behind>>

(* ... and writes them. *)
WriteCounts(p) ==
    /\ At(p, "write")
    /\ baseline' = proc[p].count
    /\ Goto(p, "prune")
    /\ UNCHANGED <<home, db, activated, saved, behind>>

(* prune_self_install_backups; the doctor only records. *)
Prune(p) ==
    LET n == Len(backups)
    IN  /\ At(p, "prune")
        /\ backups' = IF proc[p].cmd # "doctor" /\ n > BackupsKept
                      THEN SubSeq(backups, n - BackupsKept + 1, n) ELSE backups
        /\ Quit(p)
        /\ UNCHANGED <<home, data, kept, bak, behind>>

-----------------------------------------------------------------------------
(* rollback.                                                               *)

StartRollback(p) ==
    /\ previous # NoApp
    /\ Complete(previous)
    /\ Begin(p, [Idle EXCEPT !.pc = IF db.kind = "absent" THEN "previous" ELSE "probe",
                             !.cmd = "rollback", !.app = previous, !.current = current])
    /\ UNCHANGED <<home, data, saved>>

(* The previous app must ship every migration the authority has. *)
Probe(p) ==
    /\ At(p, "probe")
    /\ db.kind = "authority" /\ app[proc[p].app].venv # "none"
    /\ IF db.schema > Latest[proc[p].app] THEN Quit(p) ELSE Goto(p, "backup")
    /\ UNCHANGED <<home, data, saved, behind>>

-----------------------------------------------------------------------------
(* `ds migrate activate`, `ds doctor --record-counts`, `ds restore`.        *)

StartActivate(p) ==
    /\ current # NoApp
    /\ ReleasedFor(current) < Latest[current]
    /\ MayCreate
    /\ Begin(p, [Idle EXCEPT !.pc = "guard", !.cmd = "activate", !.app = current])
    /\ UNCHANGED <<home, data, saved>>

StartDoctor(p, accept) ==
    /\ Begin(p, [Idle EXCEPT !.pc = "check", !.cmd = "doctor", !.accept = accept])
    /\ UNCHANGED <<home, data, saved>>

(* The operator names a copy; the first step copies studio.db, without its
   -wal, outside the home.                                                   *)
StartRestore(p, c) ==
    /\ c.kind # "absent"
    /\ Begin(p, [Idle EXCEPT !.pc = "unlink", !.cmd = "restore", !.copy = c])
    /\ kept' = IF db.kind = "absent" THEN kept
               ELSE kept \cup {[kind |-> db.kind, schema |-> db.schema, rows |-> db.main]}
    /\ UNCHANGED <<home, data, backups, bak>>

(* A command that has the file open goes on with a file that has no name. *)
Detached == [p \in Procs |-> IF proc[p].pc = "migrate" THEN [proc[p] EXCEPT !.limit = 0] ELSE proc[p]]

(* Mutant: the -wal of the replaced database stays. *)
Unlink_KeepsWal(p) ==
    /\ proc[p].pc = "unlink" /\ Slip
    /\ db' = [Absent EXCEPT !.wal = db.wal]
    /\ proc' = [Detached EXCEPT ![p].pc = "copy"]
    /\ UNCHANGED <<home, activated, baseline, saved, commands, faults, crossed, clash, behind>>

(* Database and sidecars are removed ... *)
Unlink(p) ==
    /\ proc[p].pc = "unlink" /\ Slip
    /\ db' = Absent
    /\ proc' = [Detached EXCEPT ![p].pc = "copy"]
    /\ UNCHANGED <<home, activated, baseline, saved, commands, faults, crossed, clash, behind>>

(* ... and the copy takes their place, whatever the live app can open. *)
CopyBack(p) ==
    LET c == proc[p].copy
    IN  /\ proc[p].pc = "copy" /\ Slip
        /\ db' = [kind |-> c.kind, schema |-> c.schema, main |-> c.rows, wal |-> {}]
        /\ behind' = (behind \/ (current # NoApp /\ c.schema > Latest[current]))
        /\ Quit(p)
        /\ UNCHANGED <<home, activated, baseline, saved, commands, faults, crossed, clash>>

-----------------------------------------------------------------------------
(* backup_db, the rolling backup: a file without the schema is not backed up,
   a fresh copy is enough.                                                   *)

(* Mutant: the last backup is always overwritten. *)
StartRolling_Overwrites(p) ==
    /\ db.kind = "authority"
    /\ Begin(p, [Idle EXCEPT !.pc = "roll", !.cmd = "roll"])
    /\ UNCHANGED <<home, data, saved>>

(* _keep_richer_backup: a copy with more rows than the source is renamed. *)
StartRolling(p) ==
    /\ db.kind = "authority"
    /\ Begin(p, [Idle EXCEPT !.pc = "roll", !.cmd = "roll"])
    /\ IF Cardinality(bak.rows) > Cardinality(DbRows)
       THEN kept' = kept \cup {bak} /\ bak' = NoCopy
       ELSE UNCHANGED <<kept, bak>>
    /\ UNCHANGED <<home, data, backups>>

(* Checkpoint and copy; a missing file is not created. *)
Roll(p) ==
    /\ At(p, "roll")
    /\ IF db.kind = "absent" THEN UNCHANGED <<db, bak>>
       ELSE /\ db' = [db EXCEPT !.main = DbRows, !.wal = {}]
            /\ bak' = Snapshot
    /\ Quit(p)
    /\ UNCHANGED <<home, activated, baseline, backups, kept, behind>>

-----------------------------------------------------------------------------
(* The live app at work, and what goes wrong.                              *)

(* A guarded open by the live app: it migrates up to its release, if it ships
   what the authority has, and writes a row.                                 *)
Work(r) ==
    /\ current # NoApp /\ app[current].venv = "full"
    /\ MayCreate /\ db.schema <= Latest[current]
    /\ LET to == Min({Latest[current], ReleasedFor(current)})
       IN  /\ db' = [db EXCEPT !.kind = "authority", !.wal = @ \cup {r},
                               !.schema = Max({@, to})]
           /\ BackupLive(db.schema < to)
           /\ behind' = (behind \/ (db.schema < to /\ (Busy # {} \/ Anew)) \/ Uncopied(db.schema < to))
           /\ IF db.schema = 0 THEN Slip ELSE UNCHANGED slipped
    /\ UNCHANGED <<home, activated, baseline, backups, bak, proc, commands, crossed, clash>>

(* SQLite moves what the -wal holds into the database. *)
Checkpoint ==
    /\ db.wal # {}
    /\ db' = [db EXCEPT !.main = DbRows, !.wal = {}]
    /\ UNCHANGED <<home, activated, baseline, saved, proc, commands, faults, hist>>

(* Rows are deleted, or a rebuild truncates them. *)
Shrink(r) ==
    /\ faults > 0 /\ faults' = faults - 1
    /\ r \in DbRows
    /\ db' = [db EXCEPT !.main = DbRows \ {r}, !.wal = {}]
    /\ Slip
    /\ UNCHANGED <<home, activated, baseline, saved, proc, commands, crossed, clash, behind>>

(* The authority is lost. *)
Lose ==
    /\ faults > 0 /\ faults' = faults - 1
    /\ db.kind = "authority"
    /\ db' = Absent /\ proc' = Detached
    /\ Slip
    /\ UNCHANGED <<home, activated, baseline, saved, commands, crossed, clash, behind>>

(* One of the live app's raw sqlite3.connect sites creates a file without a
   schema.                                                                   *)
RawConnect ==
    /\ db.kind = "absent" /\ current # NoApp
    /\ db' = Empty
    /\ UNCHANGED <<home, activated, baseline, saved, proc, commands, faults, hist>>

(* The manifest of an integration marks a home nothing was installed into. *)
Integrate ==
    /\ ~marked
    /\ marked' = TRUE
    /\ Slip
    /\ UNCHANGED <<app, current, previous, data, saved, proc, commands, faults, crossed, clash, behind>>

(* The step at this label cannot succeed. *)
Stuck(p) ==
    LET me == proc[p]
    IN  \/ me.pc \in {"pip", "record", "smoke"} /\ app[me.app].venv = "none"
        \/ me.pc \in {"backup", "read"} /\ db.kind = "absent"
        \/ me.pc = "probe" /\ (db.kind # "authority" \/ app[me.app].venv = "none")
        \/ me.pc = "guard" /\ ~MayCreate
        \/ /\ me.pc = "migrate" /\ me.next <= me.limit
           /\ db.kind # "authority" \/ db.schema # me.next - 1

MayFail == {"venv", "pip", "record", "smoke", "backup", "guard", "open", "migrate", "carry"}

(* A step raises: a failed build removes its app directory, the command ends. *)
Fail(p) ==
    LET me == proc[p]
    IN  /\ Stuck(p) \/ (me.pc \in MayFail /\ faults > 0)
        /\ faults' = IF Stuck(p) THEN faults ELSE faults - 1
        /\ app' = IF me.pc \in {"venv", "pip", "record"}
                  THEN [app EXCEPT ![me.app] = [venv |-> "none", record |-> FALSE]] ELSE app
        /\ Left(p) /\ Quit(p)
        /\ UNCHANGED <<current, previous, marked, data, saved, commands, crossed, clash, slipped>>

(* The process is killed. *)
Die(p) ==
    /\ proc[p].pc # "idle" /\ faults > 0
    /\ faults' = faults - 1
    /\ Left(p) /\ Quit(p)
    /\ UNCHANGED <<home, data, saved, commands, crossed, clash, slipped>>

-----------------------------------------------------------------------------
Install(p) ==
    \/ \E a \in Apps : StartInstall(p, a)
    \/ ClearApp(p) \/ MakeVenv(p) \/ Pip(p) \/ RecordApp(p) \/ Smoke(p)
    \/ BackupAuthority(p) \/ Guard(p) \/ Open(p) \/ Migrate(p) \/ Carry(p)
    \/ WritePrevious(p) \/ SwitchCurrent(p) \/ WriteVersion(p)
    \/ CheckCounts(p) \/ ReadCounts(p) \/ WriteCounts(p) \/ Prune(p)
Operate(p) ==
    \/ StartRollback(p) \/ Probe(p) \/ StartActivate(p)
    \/ \E accept \in BOOLEAN : StartDoctor(p, accept)
    \/ \E c \in {backups[i] : i \in DOMAIN backups} \cup kept \cup {bak} : StartRestore(p, c)
    \/ Unlink(p) \/ CopyBack(p) \/ StartRolling(p) \/ Roll(p)
Environment ==
    \/ \E r \in Rows : Work(r) \/ Shrink(r)
    \/ Checkpoint \/ Lose \/ RawConnect \/ Integrate

Next ==
    \/ \E p \in Procs : Install(p) \/ Operate(p) \/ Fail(p) \/ Die(p)
    \/ Environment

Spec == Init /\ [][Next]_vars

-----------------------------------------------------------------------------
(* Properties.                                                             *)

(* app/current never names an app whose build was not finished, wherever
   installs of other apps, rollbacks and deaths interleave; only two installs
   of one commit can break it (self_install.py, _build_app and _activate).   *)
CurrentIsComplete == clash \/ current = NoApp \/ (Complete(current) /\ app[current].venv = "full")

(* Every app one can run has data: the live app can open the authority, and the
   previous one can, or finds a copy it can open, however many installs have
   pruned backups since (self_install.py, rollback and its advice).  An install
   that has migrated and not yet switched, or ended there, a restored newer
   copy, a live app that migrates while another one is being installed, a
   migration whose copy failed, an authority that was lost when an app was
   switched to or is begun anew under a live one, and commands that overlap are
   the only exceptions.                                                      *)
AppsHaveData ==
    \/ crossed \/ behind
    \/ /\ \/ current = NoApp \/ db.schema <= Latest[current]
          \/ \E p \in Procs : Migrating(proc[p])
       /\ \/ previous = NoApp \/ db.schema <= Latest[previous]
          \/ \E c \in {backups[i] : i \in DOMAIN backups} \cup kept : c.schema \in 1..Latest[previous]

(* In an installed home nothing but a restore makes an authority of a missing
   or an empty file, unless the file is lost between the guard and the open
   that follows it (sqlite_bootstrap.py, "never silently re-created").       *)
NeverReplaced ==
    [][marked /\ db.kind # "authority" /\ db'.kind = "authority" =>
            slipped \/ \E p \in Procs : proc[p].pc = "copy"]_vars

(* The baseline falls only to --accept-drop: no install and no doctor records
   fewer rows than the baseline says, unless rows vanish, or an authority without
   tables gets them, between its check and its read (self_install.py, "this
   never records over one").                                                 *)
LossIsNotBuried ==
    [][baseline' < baseline /\ baseline' # Nulls =>
            crossed \/ slipped \/ \E p \in Procs : proc[p].accept]_vars

(* The copies the pulse makes never lose the richest one: an emptied or
   truncated authority is not copied over a fuller backup (state.py).        *)
Richest(C) == Max({Cardinality(c.rows) : c \in C \cup {NoCopy}})
RichestSurvives ==
    [][Richest(kept' \cup {bak'}) >= Richest(kept \cup {bak}) \/ slipped \/ crossed]_vars

(* What the doctor says of --record-counts: refused when the counts dropped,
   unless --accept-drop.                                                     *)
RecordRefusesDrop ==
    [][baseline' < baseline => slipped \/ crossed \/ \E p \in Procs : proc[p].accept]_vars

(* What restore_runtime says: it is itself reversible. *)
RestoreIsReversible ==
    [][\A p \in Procs : proc[p].pc = "unlink" /\ proc'[p].pc = "copy" =>
            \E c \in kept : DbRows \subseteq c.rows]_vars

(* What run_migrations says: "The live DB is snapshotted ... before the first new
   migration applies" (sqlite_bootstrap.py).                                 *)
MigrationsAreCopied ==
    [][\A p \in Procs : proc'[p].taken /\ ~proc[p].taken => Snapshot \in kept']_vars
=============================================================================
