---------------------------- MODULE SpoolArchive ----------------------------
(***************************************************************************)
(* Lifecycle of ingested spool files (spool/lifecycle.py) and their        *)
(* restoration (scripts/spool_restore.py).  archive_week bundles the files *)
(* of processed/ whose mtime lies in the prior week into one zip and       *)
(* unlinks them; consolidate_year bundles the weekly zips of a year into   *)
(* one and unlinks those.  The daemon, a second daemon and `ds spool       *)
(* archive` may run either at any time, and any of them may die between    *)
(* two file-system calls.                                                  *)
(*                                                                         *)
(* Time is counted in weeks.  A directory of event files is a function     *)
(* from file to the week of its mtime, 0 where there is no such file.  A   *)
(* zip is the set of its members; no zip is ever built empty, so the empty *)
(* set stands for a zip that does not exist.  One year is modelled, its    *)
(* weekly archives those of weeks 1..LastWeek.                             *)
(***************************************************************************)
EXTENDS Naturals, FiniteSets

CONSTANTS
    Files,      \* event files
    Archivers,  \* processes that run archive_week or consolidate_year
    MaxWeek,    \* bound: the last week of the calendar
    LastWeek,   \* the last week whose Monday lies in the year; 1 January falls in it
    Faults      \* the faults the environment of this instance produces

FaultKinds == {"io", "corrupt", "crash"}

ASSUME ArchiveAssumption ==
    /\ IsFiniteSet(Files)
    /\ MaxWeek \in Nat \ {0}
    /\ LastWeek \in 1..MaxWeek
    /\ Faults \subseteq FaultKinds

VARIABLES
    now,        \* the current week
    inbox,      \* spool/: mtime week of each file, 0 if absent
    processed,  \* processed/: the same
    weekly,     \* archives/spool-processed-<monday>.zip, per week
    weeklyTmp,  \* the .zip.tmp next to it
    yearly,     \* archives/spool-processed-<year>.zip: pairs of week and content
    yearlyTmp,  \* the .zip.tmp next to it
    pc,         \* where each archiver is
    wk,         \* prior_monday of its archive_week
    cand,       \* its candidates not yet deleted (weeks, in a consolidation)
    count,      \* len(candidates)
    ingested    \* history: files that reached processed/ at least once

zips  == <<weekly, weeklyTmp, yearly, yearlyTmp>>
procs == <<pc, wk, cand, count>>
vars  == <<now, inbox, processed, zips, procs, ingested>>

Weeks == 1..MaxWeek
PCs   == {"idle", "list", "zip", "publish", "verify", "delete",
          "ylist", "yzip", "ypublish", "yverify", "ydelete"}

TypeOK ==
    /\ now \in Weeks
    /\ inbox \in [Files -> 0..MaxWeek] /\ processed \in [Files -> 0..MaxWeek]
    /\ weekly \in [Weeks -> SUBSET Files] /\ weeklyTmp \in [Weeks -> SUBSET Files]
    /\ yearly \subseteq Weeks \X SUBSET Files /\ yearlyTmp \subseteq Weeks \X SUBSET Files
    /\ pc \in [Archivers -> PCs]
    /\ wk \in [Archivers -> 0..MaxWeek]
    /\ cand \in [Archivers -> (SUBSET Files) \cup (SUBSET Weeks)]
    /\ count \in [Archivers -> Nat]
    /\ ingested \subseteq Files

Init ==
    /\ now = 1
    /\ inbox = [f \in Files |-> 0] /\ processed = [f \in Files |-> 0]
    /\ weekly = [w \in Weeks |-> {}] /\ weeklyTmp = [w \in Weeks |-> {}]
    /\ yearly = {} /\ yearlyTmp = {}
    /\ pc = [a \in Archivers |-> "idle"]
    /\ wk = [a \in Archivers |-> 0]
    /\ cand = [a \in Archivers |-> {}]
    /\ count = [a \in Archivers |-> 0]
    /\ ingested = {}

-----------------------------------------------------------------------------
(* The environment: the calendar and the spool.                            *)

Tick ==
    /\ now < MaxWeek
    /\ now' = now + 1
    /\ UNCHANGED <<inbox, processed, zips, procs, ingested>>

(* write_event: a file whose mtime is now. *)
Write(f) ==
    /\ inbox' = [inbox EXCEPT ![f] = now]
    /\ UNCHANGED <<now, processed, zips, procs, ingested>>

(* A successful ingest: os.replace keeps the mtime, however late it happens. *)
Ingest(f) ==
    /\ inbox[f] # 0
    /\ processed' = [processed EXCEPT ![f] = inbox[f]]
    /\ inbox' = [inbox EXCEPT ![f] = 0]
    /\ ingested' = ingested \cup {f}
    /\ UNCHANGED <<now, zips, procs>>

(* Members of all zips, weekly and inside the yearly one. *)
Archived == (UNION {weekly[w] : w \in Weeks}) \cup (UNION {m[2] : m \in yearly})

(* Mutant: the restored file is dated one week ahead. *)
Restore_NextWeek(f) ==
    /\ f \in Archived /\ inbox[f] = 0
    /\ inbox' = [inbox EXCEPT ![f] = now + 1]
    /\ UNCHANGED <<now, processed, zips, procs, ingested>>

(* spool_restore._copy_to_inbox: a member of an archive is written to the
   inbox, with a new mtime, unless a file of its name is waiting there.      *)
Restore(f) ==
    /\ f \in Archived /\ inbox[f] = 0
    /\ inbox' = [inbox EXCEPT ![f] = now]
    /\ UNCHANGED <<now, processed, zips, procs, ingested>>

-----------------------------------------------------------------------------
(* archive_week.                                                           *)

Goto(a, label) == pc' = [pc EXCEPT ![a] = label]

(* archive_path.exists() is looked at once, before anything else. *)
StartWeek(a) ==
    /\ pc[a] = "idle"
    /\ now > 1 /\ weekly[now - 1] = {}
    /\ Goto(a, "list")
    /\ wk' = [wk EXCEPT ![a] = now - 1]
    /\ UNCHANGED <<now, inbox, processed, zips, cand, count, ingested>>

ListWeek(a) ==
    /\ pc[a] = "list"
    /\ LET found == {f \in Files : processed[f] = wk[a]} IN
        /\ cand' = [cand EXCEPT ![a] = found]
        /\ count' = [count EXCEPT ![a] = Cardinality(found)]
        /\ \/ found # {} /\ Goto(a, "zip")
           \/ (found = {} \/ "io" \in Faults) /\ Goto(a, "idle")
    /\ UNCHANGED <<now, inbox, processed, zips, wk, ingested>>

(* The candidates are written to the one temporary name of the week; a
   candidate that is gone raises, and the temporary file is unlinked.        *)
ZipWeek(a) ==
    /\ pc[a] = "zip"
    /\ \/ /\ \A f \in cand[a] : processed[f] # 0
          /\ weeklyTmp' = [weeklyTmp EXCEPT ![wk[a]] = cand[a]]
          /\ Goto(a, "publish")
       \/ /\ "io" \in Faults \/ \E f \in cand[a] : processed[f] = 0
          /\ weeklyTmp' = [weeklyTmp EXCEPT ![wk[a]] = {}]
          /\ Goto(a, "idle")
    /\ UNCHANGED <<now, inbox, processed, weekly, yearly, yearlyTmp, wk, cand, count, ingested>>

(* tmp_path.replace(archive_path). *)
PublishWeek(a) ==
    /\ pc[a] = "publish"
    /\ IF weeklyTmp[wk[a]] = {}
         THEN Goto(a, "idle") /\ UNCHANGED weekly
         ELSE Goto(a, "verify") /\ weekly' = [weekly EXCEPT ![wk[a]] = weeklyTmp[wk[a]]]
    /\ weeklyTmp' = [weeklyTmp EXCEPT ![wk[a]] = {}]
    /\ UNCHANGED <<now, inbox, processed, yearly, yearlyTmp, wk, cand, count, ingested>>

(* Mutant: a zip that fails verification is unlinked, the originals too. *)
VerifyWeek_DeletesAnyway(a) ==
    /\ pc[a] = "verify"
    /\ Goto(a, "delete")
    /\ \/ UNCHANGED weekly
       \/ "corrupt" \in Faults /\ weekly' = [weekly EXCEPT ![wk[a]] = {}]
    /\ UNCHANGED <<now, inbox, processed, weeklyTmp, yearly, yearlyTmp, wk, cand, count, ingested>>

(* _verify_zip: readable and as many members as candidates, or unlinked.     *)
VerifyWeek(a) ==
    /\ pc[a] = "verify"
    /\ \/ /\ weekly[wk[a]] # {} /\ Cardinality(weekly[wk[a]]) = count[a]
          /\ Goto(a, "delete") /\ UNCHANGED weekly
       \/ /\ Cardinality(weekly[wk[a]]) # count[a] \/ "corrupt" \in Faults
          /\ Goto(a, "idle")
          /\ \/ weekly' = [weekly EXCEPT ![wk[a]] = {}]
             \/ "io" \in Faults /\ UNCHANGED weekly
    /\ UNCHANGED <<now, inbox, processed, weeklyTmp, yearly, yearlyTmp, wk, cand, count, ingested>>

(* Unlink the originals one by one; one that cannot be unlinked stays. *)
DeleteFile(a) ==
    /\ pc[a] = "delete"
    /\ \E f \in cand[a] :
        /\ cand' = [cand EXCEPT ![a] = @ \ {f}]
        /\ \/ processed' = [processed EXCEPT ![f] = 0]
           \/ "io" \in Faults /\ UNCHANGED processed
        /\ IF cand[a] = {f} THEN Goto(a, "idle") ELSE UNCHANGED pc
    /\ UNCHANGED <<now, inbox, zips, wk, count, ingested>>

-----------------------------------------------------------------------------
(* consolidate_year.                                                       *)

(* Called on 1 January by check_and_archive, later by the command line. *)
StartYear(a) ==
    /\ pc[a] = "idle"
    /\ now >= LastWeek /\ yearly = {}
    /\ Goto(a, "ylist")
    /\ UNCHANGED <<now, inbox, processed, zips, wk, cand, count, ingested>>

ListYear(a) ==
    /\ pc[a] = "ylist"
    /\ LET found == {w \in 1..LastWeek : weekly[w] # {}} IN
        /\ cand' = [cand EXCEPT ![a] = found]
        /\ count' = [count EXCEPT ![a] = Cardinality(found)]
        /\ \/ found # {} /\ Goto(a, "yzip")
           \/ (found = {} \/ "io" \in Faults) /\ Goto(a, "idle")
    /\ UNCHANGED <<now, inbox, processed, zips, wk, ingested>>

ZipYear(a) ==
    /\ pc[a] = "yzip"
    /\ \/ /\ \A w \in cand[a] : weekly[w] # {}
          /\ yearlyTmp' = {<<w, weekly[w]>> : w \in cand[a]}
          /\ Goto(a, "ypublish")
       \/ /\ "io" \in Faults \/ \E w \in cand[a] : weekly[w] = {}
          /\ yearlyTmp' = {}
          /\ Goto(a, "idle")
    /\ UNCHANGED <<now, inbox, processed, weekly, weeklyTmp, yearly, wk, cand, count, ingested>>

PublishYear(a) ==
    /\ pc[a] = "ypublish"
    /\ IF yearlyTmp = {}
         THEN Goto(a, "idle") /\ UNCHANGED yearly
         ELSE Goto(a, "yverify") /\ yearly' = yearlyTmp
    /\ yearlyTmp' = {}
    /\ UNCHANGED <<now, inbox, processed, weekly, weeklyTmp, wk, cand, count, ingested>>

VerifyYear(a) ==
    /\ pc[a] = "yverify"
    /\ \/ /\ yearly # {} /\ Cardinality(yearly) = count[a]
          /\ Goto(a, "ydelete") /\ UNCHANGED yearly
       \/ /\ Cardinality(yearly) # count[a] \/ "corrupt" \in Faults
          /\ Goto(a, "idle")
          /\ yearly' = {} \/ ("io" \in Faults /\ UNCHANGED yearly)
    /\ UNCHANGED <<now, inbox, processed, weekly, weeklyTmp, yearlyTmp, wk, cand, count, ingested>>

DeleteWeekly(a) ==
    /\ pc[a] = "ydelete"
    /\ \E w \in cand[a] :
        /\ cand' = [cand EXCEPT ![a] = @ \ {w}]
        /\ \/ weekly' = [weekly EXCEPT ![w] = {}]
           \/ "io" \in Faults /\ UNCHANGED weekly
        /\ IF cand[a] = {w} THEN Goto(a, "idle") ELSE UNCHANGED pc
    /\ UNCHANGED <<now, inbox, processed, weeklyTmp, yearly, yearlyTmp, wk, count, ingested>>

(* The process dies; nothing of what it left is ever looked at again. *)
Crash(a) ==
    /\ "crash" \in Faults /\ pc[a] # "idle"
    /\ Goto(a, "idle")
    /\ UNCHANGED <<now, inbox, processed, zips, wk, cand, count, ingested>>

ArchiveStep(a) ==
    \/ StartWeek(a) \/ ListWeek(a) \/ ZipWeek(a) \/ PublishWeek(a) \/ VerifyWeek(a)
    \/ DeleteFile(a) \/ StartYear(a) \/ ListYear(a) \/ ZipYear(a) \/ PublishYear(a)
    \/ VerifyYear(a) \/ DeleteWeekly(a)

Next ==
    \/ Tick
    \/ \E f \in Files : Write(f) \/ Ingest(f) \/ Restore(f)
    \/ \E a \in Archivers : ArchiveStep(a) \/ Crash(a)

Spec == Init /\ [][Next]_vars

-----------------------------------------------------------------------------
(* Properties.                                                             *)

(* Disaster recovery: every file that was ever ingested is still in
   processed/, in an archive, or back in the inbox, whatever failed or died
   between listing, zipping, verifying and unlinking.                        *)
NoFileLost == \A f \in ingested : processed[f] # 0 \/ inbox[f] # 0 \/ f \in Archived

(* "bundles all prior-year weekly archives into spool-processed-YYYY.zip,
   then removes the weekly archives" (spool/lifecycle.py:13): once the year
   is bundled and no archiver is at work, no weekly archive of it is left.   *)
YearBundlesEveryWeek ==
    (yearly # {} /\ \A a \in Archivers : pc[a] = "idle")
        => \A w \in 1..LastWeek : weekly[w] = {}

=============================================================================
