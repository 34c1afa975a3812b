---------------------------- MODULE Integration ----------------------------
(***************************************************************************)
(* Installing Dream Studio into one Claude Code config root                *)
(* (integrations/installer/claude_code_installer.py, file_ops.py,          *)
(* integrations/manifest.py, targets/claude_code/settings_merge.py) and    *)
(* taking its hooks out again (core/installed_productization_uninstall.py).*)
(*                                                                         *)
(* plan() reads the root and the last install's manifest and lists file    *)
(* operations; install() executes them one by one, each compared with the  *)
(* disk, backed up and written, and writes the manifest last.  The         *)
(* operator, Claude Code and a `ds uninstall` change the same files        *)
(* meanwhile, sessions run the hook commands they read when they started,  *)
(* and an install may die between any two calls.                           *)
(*                                                                         *)
(* A hook command is the mode of the install that registered it: `files`   *)
(* runs a copy under the root, `module` runs the installed app.  What the  *)
(* operator writes is a token; two of the files, settings.json and         *)
(* CLAUDE.md, hold the operator's text and Dream Studio's side by side.    *)
(***************************************************************************)
EXTENDS Naturals, Sequences, FiniteSets, SequencesExt

CONSTANTS
    Versions,
    Skills,   \* files under skills/
    Agents,   \* agent profiles and AGENTS.md
    Entries,  \* DS_HOOK_FILES: the scripts a files-mode command runs
    Libs,     \* the other copied hook files
    Ships,    \* the files each version produces
    Sessions,
    MaxInstalls, MaxUninstalls, MaxEdits, MaxDeaths  \* bounds

Settings == "settings.json"
ClaudeMd == "CLAUDE.md"
Docs  == {Settings, ClaudeMd}
Hooks == Entries \cup Libs
Plain == Skills \cup Agents \cup Hooks
Files == Plain \cup Docs
Modes == {"files", "module"}
Tokens == 1..MaxEdits

ASSUME ShipsAssumption ==
    /\ Ships \in [Versions -> SUBSET Plain]
    /\ \A v \in Versions : Entries \subseteq Ships[v]

(* The kinds of file live in directories of their own. *)
ASSUME FilesAssumption ==
    /\ IsFiniteSet(Plain) /\ Plain \cap Docs = {}
    /\ Skills \cap (Agents \cup Hooks) = {} /\ Agents \cap Hooks = {}

ASSUME BoundsAssumption == {MaxInstalls, MaxUninstalls, MaxEdits, MaxDeaths} \subseteq Nat

VARIABLES
    disk,      \* the content of each file of the root
    manifest,  \* the content the manifest records for a file; Absent: no entry
    saved,     \* the operator's tokens in the backups
    app,       \* the home has an installed app (app/current)
    session,   \* the hook commands each session runs, and whether they all ran at its start
    inst,      \* the install in flight
    unin,      \* the uninstall in flight
    left,      \* what is left of the bounds
    gone,      \* tokens the operator replaced (history)
    risked,    \* tokens written in a window no backup covers (history)
    unknown,   \* files an install wrote and died before it recorded them (history)
    purged     \* --purge-retired-hooks was given (history)

hist == <<gone, risked, unknown, purged>>
vars == <<disk, manifest, saved, app, session, inst, unin, left, hist>>

Content(kind, ours, own) == [kind |-> kind, ours |-> ours, own |-> own]
Absent   == Content("absent", {}, {})
Stub     == Content("stub", {}, {})
Kept     == Content("kept", {}, {})
Copy(v)  == Content("ds", {v}, {})
Nothing  == [f \in Plain |-> Absent]

IdleInstall   == [at |-> "idle", ver |-> "none", mode |-> "none", plan |-> <<>>,
                  log |-> Nothing, touched |-> {}]
IdleUninstall == [at |-> "idle", own |-> {}]
NoSession     == [cmds |-> {}, sound |-> FALSE]

TypeOK ==
    /\ \A f \in Plain : /\ disk[f].kind \in {"absent", "ds", "stub", "own"}
                        /\ manifest[f].kind \in {"absent", "ds", "stub", "kept"}
    /\ \A d \in Docs : /\ disk[d].kind \in {"absent", "sound", "foreign"}
                       /\ disk[d].kind # "sound" => disk[d].ours = {}
    /\ saved \subseteq Tokens /\ gone \subseteq Tokens /\ risked \subseteq Tokens
    /\ \A s \in Sessions : session[s].cmds \subseteq Modes
    /\ inst.at \in {"idle", "op", "write", "truncate", "fill"}
    /\ inst.at = "write" => inst.plan # <<>>
    /\ unin.at \in {"idle", "loaded", "fill"}
    /\ unknown \subseteq Plain /\ {app, purged} \subseteq BOOLEAN

(* A root nothing was installed into, or one in which a checkout has installed. *)
Init ==
    /\ \/ disk = [f \in Files |-> Absent] /\ manifest = Nothing
       \/ \E v \in Versions :
            /\ manifest = [f \in Plain |-> IF f \in Ships[v] THEN Copy(v) ELSE Absent]
            /\ disk = [f \in Files |-> CASE f \in Plain  -> manifest[f]
                                         [] f = Settings -> Content("sound", {"files"}, {})
                                         [] f = ClaudeMd -> Content("sound", {v}, {})]
    /\ saved = {} /\ app \in BOOLEAN
    /\ session = [s \in Sessions |-> NoSession]
    /\ inst = IdleInstall /\ unin = IdleUninstall
    /\ left = [installs |-> MaxInstalls, uninstalls |-> MaxUninstalls,
               edits |-> MaxEdits, deaths |-> MaxDeaths]
    /\ gone = {} /\ risked = {} /\ unknown = {} /\ purged = FALSE

Exists(f) == disk[f].kind # "absent"
Recorded  == {f \in Plain : manifest[f] # Absent}

-----------------------------------------------------------------------------
(* plan().                                                                 *)

Op(op, f, content, backup) == [op |-> op, file |-> f, content |-> content, backup |-> backup]
ForEach(S, F(_)) == [i \in DOMAIN SetToSeq(S) |-> F(SetToSeq(S)[i])]

(* A file the version produces; only one that exists now is backed up. *)
Create(f, v) == Op("create", f, Copy(v), Exists(f))

(* merge_claude_md: spliced between the markers; a file without them is refused. *)
MergeClaudeMd(v) ==
    IF disk[ClaudeMd].kind = "foreign" THEN <<>>
    ELSE <<Op("create", ClaudeMd, Content("sound", {v}, disk[ClaudeMd].own), Exists(ClaudeMd))>>

(* load_settings reads a file that is no JSON as empty; the hooks that this
   install does not register are purged and its own are merged in.           *)
MergeSettings(mode) ==
    LET own == IF disk[Settings].kind = "sound" THEN disk[Settings].own ELSE {}
    IN  <<Op("merge", Settings, Content("sound", {mode}, own), TRUE)>>

(* Skill files an earlier install recorded and this version does not produce. *)
Orphans(v) == (Skills \cap Recorded) \ Ships[v]

Removal(f) == Op("delete", f, Absent, TRUE)

(* _stale_hook_copy_ops: the recorded hook files, but no entry script that is
   missing ...                                                               *)
Stale == {f \in Hooks \cap Recorded : f \in Entries => Exists(f)}

(* Mutant: a retired entry script is removed. *)
Retire_Deletes(f) == Removal(f)

(* ... of which the entry scripts become stubs and the others are kept. *)
Retire(f) ==
    IF f \in Entries /\ disk[f] # Stub THEN Op("create", f, Stub, TRUE)
    ELSE Op("keep", f, Kept, FALSE)

HookOps(v, mode, purge) ==
    IF mode = "files" THEN ForEach(Hooks \cap Ships[v], LAMBDA f : Create(f, v))
    ELSE IF purge THEN ForEach(Hooks \cap Recorded, Removal)
    ELSE ForEach(Stale, Retire)

Plan(v, mode, purge) ==
    ForEach(Skills \cap Ships[v], LAMBDA f : Create(f, v)) \o ForEach(Orphans(v), Removal)
    \o MergeClaudeMd(v) \o MergeSettings(mode)
    \o ForEach(Agents \cap Ships[v], LAMBDA f : Create(f, v)) \o HookOps(v, mode, purge)

-----------------------------------------------------------------------------
(* install(execute).                                                       *)

(* A checkout does not install into the home of an installed app
   (_refuse_files_mode_into_an_app_home); module mode runs from the app.      *)
StartInstall(v, mode, purge) ==
    /\ inst.at = "idle" /\ left.installs > 0
    /\ mode = "module" <=> app
    /\ inst' = [at |-> "op", ver |-> v, mode |-> mode, plan |-> Plan(v, mode, purge),
                log |-> Nothing, touched |-> {}]
    /\ left' = [left EXCEPT !.installs = @ - 1]
    /\ purged' = (purged \/ (purge /\ mode = "module"))
    /\ UNCHANGED <<disk, manifest, saved, app, session, unin, gone, risked, unknown>>

At(at) == inst.at = at /\ inst.plan # <<>>
O      == Head(inst.plan)

(* The operation is done; what it installed is noted for the manifest. *)
Advance(entry) ==
    inst' = [inst EXCEPT !.at = "op", !.plan = Tail(@),
                         !.log = IF O.file \in Plain THEN [@ EXCEPT ![O.file] = entry] ELSE @]

(* Mutant: a recorded hash that matches is taken for the file's content. *)
AlreadyOnDisk_Manifest(o) ==
    IF o.file \in Plain THEN manifest[o.file] = o.content ELSE disk[o.file] = o.content

(* already_on_disk reads the file, not the manifest. *)
AlreadyOnDisk(o) == disk[o.file] = o.content

(* Mutant: kept files are left out of the manifest. *)
NoteKept_Unrecorded ==
    /\ At("op") /\ O.op = "keep"
    /\ Advance(Absent)
    /\ UNCHANGED <<disk, manifest, saved, app, session, unin, left, hist>>

NoteKept ==
    /\ At("op") /\ O.op = "keep"
    /\ Advance(Kept)
    /\ UNCHANGED <<disk, manifest, saved, app, session, unin, left, hist>>

(* A file that already holds its content, or a deleted one, is passed over. *)
PassOver ==
    /\ At("op")
    /\ \/ O.op \in {"create", "merge"} /\ AlreadyOnDisk(O) /\ Advance(O.content)
       \/ O.op = "delete" /\ ~Exists(O.file) /\ Advance(Absent)
    /\ UNCHANGED <<disk, manifest, saved, app, session, unin, left, hist>>

(* Mutant: what is deleted is not backed up. *)
Backup_NotDeleted ==
    /\ At("op")
    /\ IF O.op = "delete" THEN Exists(O.file) ELSE O.op # "keep" /\ ~AlreadyOnDisk(O)
    /\ saved' = IF O.backup /\ O.op # "delete" THEN saved \cup disk[O.file].own ELSE saved
    /\ inst' = [inst EXCEPT !.at = "write"]
    /\ UNCHANGED <<disk, manifest, app, session, unin, left, hist>>

(* backup_before_write, when the plan asked for it and the file exists. *)
Backup ==
    /\ At("op")
    /\ IF O.op = "delete" THEN Exists(O.file) ELSE O.op # "keep" /\ ~AlreadyOnDisk(O)
    /\ saved' = IF O.backup THEN saved \cup disk[O.file].own ELSE saved
    /\ inst' = [inst EXCEPT !.at = "write"]
    /\ UNCHANGED <<disk, manifest, app, session, unin, left, hist>>

(* atomic_write, atomic_copy or unlink. *)
Write ==
    /\ At("write")
    /\ disk' = [disk EXCEPT ![O.file] = O.content]
    /\ Advance(O.content)
    /\ UNCHANGED <<manifest, saved, app, session, unin, left, hist>>

(* write_manifest: write_text empties the file first. *)
TruncateManifest ==
    /\ inst.at = "op" /\ inst.plan = <<>>
    /\ manifest' = Nothing
    /\ inst' = [inst EXCEPT !.at = "fill"]
    /\ UNCHANGED <<disk, saved, app, session, unin, left, hist>>

FillManifest ==
    /\ inst.at = "fill"
    /\ manifest' = inst.log
    /\ inst' = IdleInstall
    /\ unknown' = {f \in unknown : inst.log[f] = Absent}
    /\ UNCHANGED <<disk, saved, app, session, unin, left, gone, risked, purged>>

(* The install dies: what it wrote is on disk and in no manifest. *)
DieInstall ==
    /\ inst.at # "idle" /\ left.deaths > 0
    /\ left' = [left EXCEPT !.deaths = @ - 1]
    /\ unknown' = unknown \cup (IF inst.at = "fill" THEN Plain
                               ELSE {f \in Plain : inst.log[f] # Absent})
    /\ inst' = IdleInstall
    /\ UNCHANGED <<disk, manifest, saved, app, session, unin, gone, risked, purged>>

-----------------------------------------------------------------------------
(* uninstall_runtime(execute): _deregister_claude_hooks on settings.json.    *)

Touch(f) == IF inst.at = "idle" THEN inst ELSE [inst EXCEPT !.touched = @ \cup {f}]

(* Whether the install in flight has made the only backup of f it will make. *)
BackedUp(f) == At("write") /\ O.file = f

(* A file without Dream Studio hooks is not written. *)
LoadSettings ==
    /\ unin.at = "idle" /\ left.uninstalls > 0
    /\ disk[Settings].ours # {}
    /\ unin' = [at |-> "loaded", own |-> disk[Settings].own]
    /\ left' = [left EXCEPT !.uninstalls = @ - 1]
    /\ UNCHANGED <<disk, manifest, saved, app, session, inst, hist>>

(* Mutant: the file keeps its hooks until the new text is in it. *)
TruncateSettings_KeepsHooks ==
    /\ unin.at = "loaded"
    /\ disk' = [disk EXCEPT ![Settings] = [@ EXCEPT !.kind = "foreign", !.own = {}]]
    /\ unin' = [unin EXCEPT !.at = "fill"]
    /\ inst' = Touch(Settings)
    /\ UNCHANGED <<manifest, saved, app, session, left, hist>>

(* path.write_text: no backup, and the file is empty for a moment. *)
TruncateSettings ==
    /\ unin.at = "loaded"
    /\ disk' = [disk EXCEPT ![Settings] = Content("foreign", {}, {})]
    /\ unin' = [unin EXCEPT !.at = "fill"]
    /\ inst' = Touch(Settings)
    /\ UNCHANGED <<manifest, saved, app, session, left, hist>>

FillSettings ==
    /\ unin.at = "fill"
    /\ disk' = [disk EXCEPT ![Settings] = Content("sound", {}, unin.own)]
    /\ risked' = IF BackedUp(Settings) THEN risked \cup unin.own ELSE risked
    /\ unin' = IdleUninstall
    /\ inst' = Touch(Settings)
    /\ UNCHANGED <<manifest, saved, app, session, left, gone, unknown, purged>>

DieUninstall ==
    /\ unin.at # "idle" /\ left.deaths > 0
    /\ left' = [left EXCEPT !.deaths = @ - 1]
    /\ risked' = IF unin.at = "fill" THEN risked \cup unin.own ELSE risked
    /\ unin' = IdleUninstall
    /\ UNCHANGED <<disk, manifest, saved, app, session, inst, gone, unknown, purged>>

-----------------------------------------------------------------------------
(* The world around it.                                                    *)

(* A write the code does not see: after the backup of the file, before the
   write of a file that the plan found absent, or under an uninstall.        *)
Unseen(f) ==
    \/ BackedUp(f)
    \/ \E o \in ToSet(inst.plan) : o.file = f /\ o.op # "keep" /\ ~o.backup
    \/ f = Settings /\ unin.at # "idle"

(* The operator, or Claude Code, writes a file: a plain file is replaced, text
   is added to the other two, which may then be no JSON or have no markers.  *)
Edit(f) ==
    LET k == MaxEdits - left.edits + 1
    IN  /\ left.edits > 0
        /\ \E kind \in IF f \in Plain THEN {"own"} ELSE {"sound", "foreign"} :
             disk' = [disk EXCEPT ![f] =
                 Content(kind, IF kind = "sound" THEN @.ours ELSE {},
                         IF f \in Plain THEN {k} ELSE @.own \cup {k})]
        /\ gone' = IF f \in Plain THEN gone \cup disk[f].own ELSE gone
        /\ risked' = IF Unseen(f) THEN risked \cup {k} ELSE risked
        /\ left' = [left EXCEPT !.edits = @ - 1]
        /\ inst' = Touch(f)
        /\ UNCHANGED <<manifest, saved, app, session, unin, unknown, purged>>

(* `ds self-install` gives the home an app. *)
GoLive ==
    /\ ~app
    /\ app' = TRUE
    /\ UNCHANGED <<disk, manifest, saved, session, inst, unin, left, hist>>

(* A command runs when the script it names, or the app, is there. *)
Runs(cmd) == IF cmd = "files" THEN \A e \in Entries : Exists(e) ELSE app

(* A session reads settings.json once, when it starts. *)
StartSession(s) ==
    /\ session[s] = NoSession /\ disk[Settings].ours # {}
    /\ session' = [session EXCEPT ![s] = [cmds |-> disk[Settings].ours,
                                          sound |-> \A c \in disk[Settings].ours : Runs(c)]]
    /\ UNCHANGED <<disk, manifest, saved, app, inst, unin, left, hist>>

Install == \/ \E v \in Versions, mode \in Modes, purge \in BOOLEAN : StartInstall(v, mode, purge)
           \/ NoteKept \/ PassOver \/ Backup \/ Write \/ TruncateManifest \/ FillManifest
           \/ DieInstall
Uninstall == LoadSettings \/ TruncateSettings \/ FillSettings \/ DieUninstall

Next == \/ Install \/ Uninstall \/ GoLive
        \/ \E f \in Files : Edit(f)
        \/ \E s \in Sessions : StartSession(s)

Spec == Init /\ [][Next]_vars

-----------------------------------------------------------------------------
(* Properties.                                                             *)

(* On disk, or in the hands of the uninstall that is rewriting settings.json. *)
Tokened == (UNION {disk[f].own : f \in Files}) \cup unin.own

(* Nothing the operator wrote is lost: an install that overwrites, merges over
   or deletes a file has put a copy into the backups, whatever was edited after
   its plan.  Excepted are writes in a window that no backup covers
   (claude_code_installer.install, "backed up before").                      *)
NothingLost ==
    1..MaxEdits - left.edits \subseteq Tokened \cup saved \cup gone \cup risked

(* A skill file or hook entry point on disk that Dream Studio wrote is in the
   manifest, through upgrades, mode changes and uninstalls, so that the install
   that no longer produces it can find it; only an install that died before its
   manifest can leave one behind (claude_code_installer.plan, 1b and 7).     *)
OwnedIsRecorded ==
    inst.at = "idle" =>
        \A f \in Skills \cup Entries :
            disk[f].kind \in {"ds", "stub"} => f \in Recorded \cup unknown

(* A session whose hooks ran when it started has hooks that run until it ends,
   whatever is installed meanwhile, unless retired hooks were purged
   (_stale_hook_copy_ops, "retired, not deleted").                           *)
SessionsKeepHooks ==
    purged \/ \A s \in Sessions : session[s].sound => \A c \in session[s].cmds : Runs(c)

(* An install that is about to record itself has delivered: every file of its
   version holds its content, the recorded orphans are gone, one command is registered
   and no copied entry script is left to run old code; whatever the operator, an
   uninstall or a dead install had done before it began.                     *)
InstallDelivers ==
    inst.at = "fill" =>
        \A f \in Files \ inst.touched :
            /\ f = Settings => disk[f].ours = {inst.mode}
            /\ f = ClaudeMd => disk[f].kind = "foreign" \/ disk[f].ours = {inst.ver}
            /\ f \in Ships[inst.ver] \cap (Skills \cup Agents) => disk[f] = Copy(inst.ver)
            /\ f \in Ships[inst.ver] \cap Hooks /\ inst.mode = "files" => disk[f] = Copy(inst.ver)
            /\ f \in Skills \ Ships[inst.ver] /\ disk[f].kind = "ds" => f \in unknown
            /\ f \in Entries /\ inst.mode = "module" /\ inst.log[f] # Absent => disk[f] = Stub
=============================================================================
