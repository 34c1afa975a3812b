---------------------------- MODULE ArchiveProofs ----------------------------
(***************************************************************************)
(* Proofs about the lifecycle of ingested spool files: the types, and, for *)
(* homes in which a single process archives, that no ingested file is lost *)
(* whatever fails, is corrupt or dies.  With two archivers it is not true: *)
(* the second publishes over the zip of the first (SpoolArchive_two.cfg).  *)
(***************************************************************************)
EXTENDS SpoolArchive, FiniteSetTheorems, TLAPS

-----------------------------------------------------------------------------
(* Types.                                                                  *)

InWeek == {"list", "zip", "publish", "verify", "delete"}
OverFiles == {"zip", "publish", "verify", "delete"}
OverWeeks == {"yzip", "ypublish", "yverify", "ydelete"}

(* What an archiver's variables hold depends on where it is: candidates are
   files in archive_week and weeks in consolidate_year.                      *)
ProcInv ==
    \A a \in Archivers :
        /\ pc[a] \in InWeek => wk[a] \in Weeks
        /\ pc[a] \in OverFiles => cand[a] \in SUBSET Files
        /\ pc[a] \in OverWeeks => cand[a] \in SUBSET Weeks

TypeInv == TypeOK /\ ProcInv

(* The number of candidates a listing finds is a number. *)
LEMMA CountsAreNumbers ==
    /\ \A S \in SUBSET Files : Cardinality(S) \in Nat
    /\ \A S \in SUBSET Weeks : Cardinality(S) \in Nat
<1>1. IsFiniteSet(Weeks)
  BY ArchiveAssumption, FS_Interval DEF Weeks
<1>2. IsFiniteSet(Files)
  BY ArchiveAssumption
<1>3. ASSUME NEW T, IsFiniteSet(T), NEW S \in SUBSET T PROVE Cardinality(S) \in Nat
  BY <1>3, FS_Subset, FS_CardinalityType
<1>4. QED
  BY <1>1, <1>2, <1>3

(* The first state is well typed. *)
LEMMA TypeInit == Init => TypeInv
BY ArchiveAssumption
   DEF Init, TypeInv, TypeOK, ProcInv, Weeks, PCs, InWeek, OverFiles, OverWeeks

(* Every step keeps the types, one case per action. *)
LEMMA TypeStep == TypeInv /\ [Next]_vars => TypeInv'
<1> SUFFICES ASSUME TypeInv, [Next]_vars PROVE TypeInv'
  OBVIOUS
<1> USE ArchiveAssumption DEF TypeInv, TypeOK, ProcInv, Weeks, PCs, InWeek, OverFiles, OverWeeks
<1>1. CASE Tick
  BY <1>1 DEF Tick, zips, procs
<1>2. ASSUME NEW f \in Files, Write(f) PROVE TypeInv'
  <2>1. inbox' \in [Files -> 0..MaxWeek]
    BY <1>2 DEF Write, Goto
  <2>2. TypeOK'
    BY <1>2, <2>1 DEF Write, zips, procs
  <2>3. ProcInv'
    BY <1>2, <2>1 DEF Write, zips, procs
  <2>4. QED
    BY <2>2, <2>3
<1>3. ASSUME NEW f \in Files, Ingest(f) PROVE TypeInv'
  <2>1. inbox' \in [Files -> 0..MaxWeek]
    BY <1>3 DEF Ingest, Goto
  <2>2. processed' \in [Files -> 0..MaxWeek]
    BY <1>3 DEF Ingest, Goto
  <2>3. TypeOK'
    BY <1>3, <2>1, <2>2 DEF Ingest, zips, procs
  <2>4. ProcInv'
    BY <1>3, <2>1, <2>2 DEF Ingest, zips, procs
  <2>5. QED
    BY <2>3, <2>4
<1>4. ASSUME NEW f \in Files, Restore(f) PROVE TypeInv'
  <2>1. inbox' \in [Files -> 0..MaxWeek]
    BY <1>4 DEF Restore, Goto
  <2>2. TypeOK'
    BY <1>4, <2>1 DEF Restore, zips, procs
  <2>3. ProcInv'
    BY <1>4, <2>1 DEF Restore, zips, procs
  <2>4. QED
    BY <2>2, <2>3
<1>5. ASSUME NEW a \in Archivers, StartWeek(a) PROVE TypeInv'
  <2>1. now - 1 \in Weeks
    BY <1>5 DEF StartWeek, Goto
  <2>2. wk' \in [Archivers -> 0..MaxWeek] /\ pc' \in [Archivers -> PCs]
    BY <1>5 DEF StartWeek, Goto
  <2>3. TypeOK'
    BY <1>5, <2>1, <2>2 DEF StartWeek, Goto, zips
  <2>4. ProcInv'
    BY <1>5, <2>1, <2>2 DEF StartWeek, Goto, zips
  <2>5. QED
    BY <2>3, <2>4
<1>6. ASSUME NEW a \in Archivers, ListWeek(a) PROVE TypeInv'
  <2>1. PICK found : found = {f \in Files : processed[f] = wk[a]}
    OBVIOUS
  <2>2. found \in SUBSET Files /\ Cardinality(found) \in Nat
    BY <2>1, CountsAreNumbers
  <2>3. /\ cand' = [cand EXCEPT ![a] = found]
        /\ count' = [count EXCEPT ![a] = Cardinality(found)]
        /\ pc' = [pc EXCEPT ![a] = "zip"] \/ pc' = [pc EXCEPT ![a] = "idle"]
        /\ UNCHANGED <<now, inbox, processed, weekly, weeklyTmp, yearly, yearlyTmp, wk, ingested>>
    BY <1>6, <2>1 DEF ListWeek, Goto, zips
  <2>4. TypeOK'
    BY <2>2, <2>3
  <2>5. pc[a] = "list"
    BY <1>6 DEF ListWeek
  <2>6. QED
    BY <2>2, <2>3, <2>4, <2>5
<1>7. ASSUME NEW a \in Archivers, ZipWeek(a) PROVE TypeInv'
  <2>1. /\ weeklyTmp' \in [Weeks -> SUBSET Files]
        /\ UNCHANGED <<now, inbox, processed, weekly, yearly, yearlyTmp, wk, cand, count, ingested>>
    BY <1>7 DEF ZipWeek
  <2>2. /\ pc[a] = "zip"
        /\ pc' = [pc EXCEPT ![a] = "idle"] \/ pc' = [pc EXCEPT ![a] = "publish"]
    BY <1>7 DEF ZipWeek, Goto
  <2>3. TypeOK'
    BY <2>1, <2>2
  <2>4. ProcInv'
    BY <2>1, <2>2
  <2>5. QED
    BY <2>3, <2>4
<1>8. ASSUME NEW a \in Archivers, PublishWeek(a) PROVE TypeInv'
  <2>1. /\ weekly' \in [Weeks -> SUBSET Files] /\ weeklyTmp' \in [Weeks -> SUBSET Files]
        /\ UNCHANGED <<now, inbox, processed, yearly, yearlyTmp, wk, cand, count, ingested>>
    BY <1>8 DEF PublishWeek
  <2>2. pc[a] = "publish" /\ (pc' = [pc EXCEPT ![a] = "idle"] \/ pc' = [pc EXCEPT ![a] = "verify"])
    BY <1>8 DEF PublishWeek, Goto
  <2>3. TypeOK'
    BY <2>1, <2>2
  <2>4. ProcInv'
    BY <2>1, <2>2
  <2>5. QED
    BY <2>3, <2>4
<1>9. ASSUME NEW a \in Archivers, VerifyWeek(a) PROVE TypeInv'
  BY <1>9 DEF VerifyWeek, Goto
<1>10. ASSUME NEW a \in Archivers, DeleteFile(a) PROVE TypeInv'
  <2>1. PICK f \in cand[a] :
           /\ cand' = [cand EXCEPT ![a] = @ \ {f}]
           /\ \/ processed' = [processed EXCEPT ![f] = 0]
              \/ "io" \in Faults /\ UNCHANGED processed
           /\ IF cand[a] = {f} THEN Goto(a, "idle") ELSE UNCHANGED pc
    BY <1>10 DEF DeleteFile
  <2>2. pc[a] = "delete" /\ UNCHANGED <<now, inbox, zips, wk, count, ingested>>
    BY <1>10 DEF DeleteFile
  <2>3. cand[a] \in SUBSET Files /\ cand[a] \ {f} \in SUBSET Files
    BY <2>2
  <2>4. TypeOK'
    <3>1. cand' \in [Archivers -> (SUBSET Files) \cup (SUBSET Weeks)]
      BY <2>1, <2>3
    <3>2. 0 \in 0..MaxWeek
      OBVIOUS
    <3>3. processed' \in [Files -> 0..MaxWeek]
      <4>1. CASE processed' = [processed EXCEPT ![f] = 0]
        BY <3>2, <4>1
      <4>2. CASE UNCHANGED processed
        BY <4>2
      <4>3. QED
        BY <2>1, <4>1, <4>2
    <3>4. pc' \in [Archivers -> PCs]
      BY <2>1 DEF Goto
    <3>5. QED
      BY <2>2, <3>1, <3>3, <3>4 DEF zips
  <2>5. QED
    BY <2>1, <2>2, <2>3, <2>4 DEF Goto, zips
<1>11. ASSUME NEW a \in Archivers, StartYear(a) PROVE TypeInv'
  BY <1>11 DEF StartYear, Goto, zips
<1>12. ASSUME NEW a \in Archivers, ListYear(a) PROVE TypeInv'
  <2>1. PICK found : found = {w \in 1..LastWeek : weekly[w] # {}}
    OBVIOUS
  <2>2. found \in SUBSET Weeks /\ Cardinality(found) \in Nat
    BY <2>1, CountsAreNumbers
  <2>3. /\ cand' = [cand EXCEPT ![a] = found]
        /\ count' = [count EXCEPT ![a] = Cardinality(found)]
        /\ pc' = [pc EXCEPT ![a] = "yzip"] \/ pc' = [pc EXCEPT ![a] = "idle"]
        /\ UNCHANGED <<now, inbox, processed, weekly, weeklyTmp, yearly, yearlyTmp, wk, ingested>>
    BY <1>12, <2>1 DEF ListYear, Goto, zips
  <2>4. cand' \in [Archivers -> (SUBSET Files) \cup (SUBSET Weeks)] /\ count' \in [Archivers -> Nat]
    BY <2>2, <2>3
  <2>5. TypeOK'
    BY <2>3, <2>4
  <2>6. QED
    BY <2>2, <2>3, <2>5
<1>13. ASSUME NEW a \in Archivers, ZipYear(a) PROVE TypeInv'
  <2>1. cand[a] \in SUBSET Weeks
    BY <1>13 DEF ZipYear
  <2>2. \A w \in cand[a] : weekly[w] \in SUBSET Files
    BY <2>1
  <2>3. {<<w, weekly[w]>> : w \in cand[a]} \subseteq Weeks \X SUBSET Files
    BY <2>1, <2>2
  <2>4. yearlyTmp' \subseteq Weeks \X SUBSET Files
    BY <1>13, <2>3 DEF ZipYear
  <2>5. /\ UNCHANGED <<now, inbox, processed, weekly, weeklyTmp, yearly, wk, cand, count, ingested>>
        /\ pc[a] = "yzip" /\ (pc' = [pc EXCEPT ![a] = "idle"] \/ pc' = [pc EXCEPT ![a] = "ypublish"])
    BY <1>13 DEF ZipYear, Goto
  <2>6. TypeOK'
    BY <2>4, <2>5
  <2>7. ProcInv'
    BY <2>5
  <2>8. QED
    BY <2>6, <2>7
<1>14. ASSUME NEW a \in Archivers, PublishYear(a) PROVE TypeInv'
  <2>1. TypeOK'
    BY <1>14 DEF PublishYear, Goto
  <2>2. ProcInv'
    BY <1>14 DEF PublishYear, Goto
  <2>3. QED
    BY <2>1, <2>2
<1>15. ASSUME NEW a \in Archivers, VerifyYear(a) PROVE TypeInv'
  BY <1>15 DEF VerifyYear, Goto
<1>16. ASSUME NEW a \in Archivers, DeleteWeekly(a) PROVE TypeInv'
  <2>1. PICK w \in cand[a] :
           /\ cand' = [cand EXCEPT ![a] = @ \ {w}]
           /\ \/ weekly' = [weekly EXCEPT ![w] = {}]
              \/ "io" \in Faults /\ UNCHANGED weekly
           /\ IF cand[a] = {w} THEN Goto(a, "idle") ELSE UNCHANGED pc
    BY <1>16 DEF DeleteWeekly
  <2>2. /\ pc[a] = "ydelete"
        /\ UNCHANGED <<now, inbox, processed, weeklyTmp, yearly, yearlyTmp, wk, count, ingested>>
    BY <1>16 DEF DeleteWeekly
  <2>3. cand[a] \in SUBSET Weeks /\ cand[a] \ {w} \in SUBSET Weeks
    BY <2>2
  <2>4. TypeOK'
    BY <2>1, <2>2, <2>3 DEF Goto
  <2>5. QED
    BY <2>1, <2>2, <2>3, <2>4 DEF Goto
<1>17. ASSUME NEW a \in Archivers, Crash(a) PROVE TypeInv'
  BY <1>17 DEF Crash, Goto, zips
<1>18. CASE UNCHANGED vars
  BY <1>18 DEF vars, zips, procs
<1>19. QED
  BY <1>1, <1>2, <1>3, <1>4, <1>5, <1>6, <1>7, <1>8, <1>9, <1>10, <1>11, <1>12, <1>13,
     <1>14, <1>15, <1>16, <1>17, <1>18 DEF Next, ArchiveStep

(* Type correctness, for any number of archivers and every fault: the
   directories, the zips and the archivers' variables keep their types.      *)
THEOREM ArchiveTypeCorrect == Spec => []TypeOK
<1>1. TypeInv => TypeOK
  BY DEF TypeInv
<1>2. QED
  BY <1>1, TypeInit, TypeStep, PTL DEF Spec

-----------------------------------------------------------------------------
(* No file is lost, where one process archives.                            *)

(* At most one process runs archive_week or consolidate_year. *)
OneArchiver == \A a, b \in Archivers : a = b

(* archive_week: until it publishes there is no archive of its week; when it
   has zipped, the zip holds its candidates, all still in processed/; when it
   deletes, what it has yet to delete is in the archive.                     *)
WeekInv(a) ==
    /\ pc[a] \in {"list", "zip", "publish"} => weekly[wk[a]] = {}
    /\ pc[a] \in {"publish", "verify"} => \A f \in cand[a] : processed[f] # 0
    /\ pc[a] = "publish" => weeklyTmp[wk[a]] = cand[a]
    /\ pc[a] = "verify" => weekly[wk[a]] = cand[a]
    /\ pc[a] = "delete" => cand[a] \subseteq weekly[wk[a]]

(* consolidate_year: until it publishes there is no archive of the year; what
   it publishes are weekly archives that are all still there until it has
   verified them, and those it has yet to delete are in it.                  *)
YearInv(a) ==
    /\ pc[a] \in {"ylist", "yzip", "ypublish"} => yearly = {}
    /\ pc[a] = "ypublish" => yearlyTmp = {<<w, weekly[w]>> : w \in cand[a]}
    /\ pc[a] = "yverify" => yearly = {<<w, weekly[w]>> : w \in cand[a]}
    /\ pc[a] = "ydelete" => \A w \in cand[a] : <<w, weekly[w]>> \in yearly

SafeInv == /\ TypeInv
           /\ NoFileLost
           /\ \A a \in Archivers : WeekInv(a) /\ YearInv(a)

(* The members of the zips in y and of the zips w maps weeks to. *)
LEMMA ZipMembers ==
    ASSUME NEW w, NEW y
    PROVE  \A f : f \in (UNION {w[v] : v \in Weeks}) \cup (UNION {m[2] : m \in y})
                   <=> (\E v \in Weeks : f \in w[v]) \/ (\E m \in y : f \in m[2])
<1>1. PICK A : A = UNION {w[v] : v \in Weeks}
  OBVIOUS
<1>2. PICK B : B = UNION {m[2] : m \in y}
  OBVIOUS
<1>3. \A f : f \in A <=> \E v \in Weeks : f \in w[v]
  BY <1>1, Zenon
<1>4. \A f : f \in B <=> \E m \in y : f \in m[2]
  BY <1>2, Zenon
<1>5. \A f : f \in A \cup B <=> f \in A \/ f \in B
  OBVIOUS
<1>6. QED
  BY <1>1, <1>2, <1>3, <1>4, <1>5, Zenon

(* An archived file is a member of a weekly zip, or of one in the yearly zip. *)
LEMMA ArchivedMember ==
    \A f : f \in Archived <=> \/ \E w \in Weeks : f \in weekly[w]
                              \/ \E m \in yearly : f \in m[2]
BY ZipMembers, Zenon DEF Archived

(* The same, after a step. *)
LEMMA ArchivedMemberNext ==
    \A f : f \in Archived' <=> \/ \E w \in Weeks : f \in weekly'[w]
                               \/ \E m \in yearly' : f \in m[2]
BY ZipMembers, Zenon DEF Archived

(* The first state: nothing was ingested. *)
LEMMA SafeInit == Init => SafeInv
BY TypeInit DEF Init, SafeInv, NoFileLost, WeekInv, YearInv

(* Writing, ingesting and restoring take no file away, and none of them
   touches a zip.                                                            *)
LEMMA SpoolSafe ==
    ASSUME SafeInv, TypeInv', UNCHANGED <<zips, procs>>,
           \A f \in Files : processed[f] # 0 => processed'[f] # 0,
           \A f \in Files : inbox[f] # 0 => inbox'[f] # 0 \/ processed'[f] # 0,
           \A f \in ingested' : f \in ingested \/ processed'[f] # 0
    PROVE  SafeInv'
<1>1. Archived' = Archived
  BY DEF Archived, zips
<1>2. ingested \subseteq Files
  BY DEF SafeInv, TypeInv, TypeOK
<1>3. NoFileLost'
  BY <1>1, <1>2 DEF SafeInv, NoFileLost
<1>4. ASSUME NEW a \in Archivers PROVE WeekInv(a)' /\ YearInv(a)'
  <2>1. WeekInv(a) /\ YearInv(a)
    BY DEF SafeInv
  <2>2. pc[a] \in {"publish", "verify"} => cand[a] \subseteq Files
    BY DEF SafeInv, TypeInv, ProcInv, OverFiles
  <2>3. WeekInv(a)'
    BY <2>1, <2>2 DEF WeekInv, zips, procs
  <2>4. YearInv(a)'
    BY <2>1 DEF YearInv, zips, procs
  <2>5. QED
    BY <2>3, <2>4
<1>5. QED
  BY <1>3, <1>4 DEF SafeInv

(* Mapping a file into its directory keeps the files that were there. *)
LEMMA StillThere ==
    ASSUME NEW dir \in [Files -> 0..MaxWeek], NEW f \in Files, NEW v \in 0..MaxWeek, v # 0
    PROVE  \A g \in Files : /\ g = f => [dir EXCEPT ![f] = v][g] # 0
                            /\ dir[g] # 0 => [dir EXCEPT ![f] = v][g] # 0
BY ArchiveAssumption

(* What a step of the one archiver must show. *)
LEMMA OneStep ==
    ASSUME OneArchiver, TypeInv', NoFileLost',
           NEW a \in Archivers, WeekInv(a)', YearInv(a)'
    PROVE  SafeInv'
BY DEF OneArchiver, SafeInv

(* A step that neither empties processed/ nor touches a zip loses no file. *)
LEMMA FilesKept ==
    ASSUME NoFileLost, UNCHANGED <<inbox, processed, weekly, yearly, ingested>>
    PROVE  NoFileLost'
BY DEF NoFileLost, Archived

(* A step of archive_week keeps the invariant, one step per action. *)
LEMMA WeekSafe ==
    ASSUME SafeInv, OneArchiver, TypeInv', NEW a \in Archivers,
           \/ StartWeek(a) \/ ListWeek(a) \/ ZipWeek(a)
           \/ PublishWeek(a) \/ VerifyWeek(a) \/ DeleteFile(a)
    PROVE  SafeInv'
<1>0. /\ WeekInv(a) /\ YearInv(a) /\ NoFileLost /\ ingested \subseteq Files
      /\ weekly \in [Weeks -> SUBSET Files] /\ weeklyTmp \in [Weeks -> SUBSET Files]
      /\ processed \in [Files -> 0..MaxWeek]
      /\ pc \in [Archivers -> PCs] /\ wk \in [Archivers -> 0..MaxWeek]
      /\ cand \in [Archivers -> (SUBSET Files) \cup (SUBSET Weeks)]
  BY DEF SafeInv, TypeInv, TypeOK
<1>1. /\ pc[a] \in InWeek => wk[a] \in Weeks
      /\ pc[a] \in OverFiles => cand[a] \in SUBSET Files
  BY DEF SafeInv, TypeInv, ProcInv
<1>2. CASE StartWeek(a)
  <2>1. NoFileLost'
    BY <1>0, <1>2, FilesKept DEF StartWeek, zips
  <2>2. /\ pc' = [pc EXCEPT ![a] = "list"] /\ wk' = [wk EXCEPT ![a] = now - 1]
        /\ weekly' = weekly /\ weekly[now - 1] = {}
    BY <1>2 DEF StartWeek, Goto, zips
  <2>3. WeekInv(a)' /\ YearInv(a)'
    BY <1>0, <2>2 DEF WeekInv, YearInv
  <2>4. QED
    BY <2>1, <2>3, OneStep
<1>3. CASE ListWeek(a)
  <2>1. NoFileLost'
    BY <1>0, <1>3, FilesKept DEF ListWeek, zips
  <2>2. /\ pc[a] = "list" /\ UNCHANGED <<weekly, wk>>
        /\ pc' = [pc EXCEPT ![a] = "zip"] \/ pc' = [pc EXCEPT ![a] = "idle"]
    BY <1>3 DEF ListWeek, Goto, zips
  <2>3. WeekInv(a)' /\ YearInv(a)'
    BY <1>0, <2>2 DEF WeekInv, YearInv
  <2>4. QED
    BY <2>1, <2>3, OneStep
<1>4. CASE ZipWeek(a)
  <2>1. NoFileLost'
    BY <1>0, <1>4, FilesKept DEF ZipWeek
  <2>2. pc[a] = "zip" /\ UNCHANGED <<processed, weekly, wk, cand>>
    BY <1>4 DEF ZipWeek
  <2>3. CASE /\ pc' = [pc EXCEPT ![a] = "publish"]
             /\ \A f \in cand[a] : processed[f] # 0
             /\ weeklyTmp' = [weeklyTmp EXCEPT ![wk[a]] = cand[a]]
    <3>1. wk[a] \in Weeks
      BY <1>1, <2>2 DEF InWeek
    <3>2. QED
      BY <1>0, <2>1, <2>2, <2>3, <3>1, OneStep DEF WeekInv, YearInv
  <2>4. CASE pc' = [pc EXCEPT ![a] = "idle"]
    BY <1>0, <2>1, <2>4, OneStep DEF WeekInv, YearInv
  <2>5. QED
    BY <1>4, <2>3, <2>4 DEF ZipWeek, Goto
<1>5. CASE PublishWeek(a)
  <2>1. /\ pc[a] = "publish" /\ UNCHANGED <<inbox, processed, yearly, wk, cand, ingested>>
        /\ wk[a] \in Weeks /\ weekly[wk[a]] = {}
        /\ weeklyTmp[wk[a]] = cand[a] /\ \A f \in cand[a] : processed[f] # 0
    BY <1>0, <1>1, <1>5 DEF PublishWeek, WeekInv, InWeek
  <2>2. CASE weekly' = weekly /\ pc' = [pc EXCEPT ![a] = "idle"]
    <3>1. NoFileLost'
      BY <1>0, <2>1, <2>2, FilesKept
    <3>2. QED
      BY <1>0, <2>2, <3>1, OneStep DEF WeekInv, YearInv
  <2>3. CASE /\ weekly' = [weekly EXCEPT ![wk[a]] = weeklyTmp[wk[a]]]
             /\ pc' = [pc EXCEPT ![a] = "verify"]
    <3>1. \A f : f \in Archived => f \in Archived'
      <4>1. \A w \in Weeks : weekly[w] \subseteq weekly'[w]
        BY <1>0, <2>1, <2>3
      <4>2. QED
        BY <2>1, <4>1 DEF Archived
    <3>2. NoFileLost'
      BY <1>0, <2>1, <3>1 DEF NoFileLost
    <3>3. WeekInv(a)' /\ YearInv(a)'
      BY <1>0, <2>1, <2>3 DEF WeekInv, YearInv
    <3>4. QED
      BY <3>2, <3>3, OneStep
  <2>4. QED
    BY <1>5, <2>2, <2>3 DEF PublishWeek, Goto
<1>6. CASE VerifyWeek(a)
  <2>1. /\ pc[a] = "verify" /\ UNCHANGED <<inbox, processed, yearly, wk, cand, ingested>>
        /\ wk[a] \in Weeks /\ weekly[wk[a]] = cand[a]
        /\ \A f \in cand[a] : processed[f] # 0
    BY <1>0, <1>1, <1>6 DEF VerifyWeek, WeekInv, InWeek
  <2>2. CASE weekly' = weekly /\ pc' \in {[pc EXCEPT ![a] = "idle"], [pc EXCEPT ![a] = "delete"]}
    <3>1. NoFileLost'
      BY <1>0, <2>1, <2>2, FilesKept
    <3>2. WeekInv(a)' /\ YearInv(a)'
      BY <1>0, <2>1, <2>2 DEF WeekInv, YearInv
    <3>3. QED
      BY <3>1, <3>2, OneStep
  <2>3. CASE /\ weekly' = [weekly EXCEPT ![wk[a]] = {}]
             /\ pc' = [pc EXCEPT ![a] = "idle"]
    <3>1. ASSUME NEW f \in Archived PROVE f \in Archived' \/ processed'[f] # 0
      <4>1. CASE \E m \in yearly : f \in m[2]
        BY <2>1, <4>1, ArchivedMemberNext
      <4>2. ASSUME NEW w \in Weeks, f \in weekly[w] PROVE f \in Archived' \/ processed'[f] # 0
        <5>1. CASE w = wk[a]
          BY <2>1, <4>2, <5>1
        <5>2. CASE w # wk[a]
          BY <1>0, <2>3, <4>2, <5>2 DEF Archived
        <5>3. QED
          BY <5>1, <5>2
      <4>3. QED
        BY <4>1, <4>2, ArchivedMember
    <3>2. NoFileLost'
      BY <1>0, <2>1, <3>1 DEF NoFileLost
    <3>3. WeekInv(a)' /\ YearInv(a)'
      BY <1>0, <2>3 DEF WeekInv, YearInv
    <3>4. QED
      BY <3>2, <3>3, OneStep
  <2>4. QED
    BY <1>6, <2>2, <2>3 DEF VerifyWeek, Goto
<1>7. CASE DeleteFile(a)
  <2>1. PICK f \in cand[a] :
           /\ cand' = [cand EXCEPT ![a] = @ \ {f}]
           /\ \/ processed' = [processed EXCEPT ![f] = 0]
              \/ "io" \in Faults /\ UNCHANGED processed
           /\ IF cand[a] = {f} THEN Goto(a, "idle") ELSE UNCHANGED pc
    BY <1>7 DEF DeleteFile
  <2>2. /\ pc[a] = "delete" /\ UNCHANGED <<inbox, weekly, yearly, wk, ingested>>
        /\ wk[a] \in Weeks /\ cand[a] \subseteq weekly[wk[a]]
    BY <1>0, <1>1, <1>7 DEF DeleteFile, WeekInv, InWeek, zips
  <2>3. f \in Archived' /\ Archived' = Archived
    BY <2>1, <2>2 DEF Archived
  <2>4. \A g \in Files : g # f => processed'[g] = processed[g]
    BY <1>0, <2>1
  <2>5. NoFileLost'
    BY <1>0, <2>2, <2>3, <2>4 DEF NoFileLost
  <2>6. WeekInv(a)' /\ YearInv(a)'
    <3>1. pc'[a] \in {"idle", "delete"} /\ cand'[a] \subseteq cand[a]
      BY <1>0, <2>1, <2>2 DEF Goto
    <3>2. QED
      BY <2>2, <3>1 DEF WeekInv, YearInv
  <2>7. QED
    BY <2>5, <2>6, OneStep
<1>8. QED
  BY <1>2, <1>3, <1>4, <1>5, <1>6, <1>7


(* A step of consolidate_year keeps the invariant, one step per action. *)
LEMMA YearSafe ==
    ASSUME SafeInv, OneArchiver, TypeInv', NEW a \in Archivers,
           \/ StartYear(a) \/ ListYear(a) \/ ZipYear(a)
           \/ PublishYear(a) \/ VerifyYear(a) \/ DeleteWeekly(a)
    PROVE  SafeInv'
<1>0. /\ WeekInv(a) /\ YearInv(a) /\ NoFileLost /\ ingested \subseteq Files
      /\ weekly \in [Weeks -> SUBSET Files] /\ pc \in [Archivers -> PCs]
      /\ cand \in [Archivers -> (SUBSET Files) \cup (SUBSET Weeks)]
  BY DEF SafeInv, TypeInv, TypeOK
<1>1. pc[a] \in OverWeeks => cand[a] \in SUBSET Weeks
  BY DEF SafeInv, TypeInv, ProcInv
<1>2. CASE StartYear(a)
  <2>1. NoFileLost'
    BY <1>0, <1>2, FilesKept DEF StartYear, zips
  <2>2. QED
    BY <1>0, <1>2, <2>1, OneStep DEF StartYear, Goto, zips, WeekInv, YearInv
<1>3. CASE ListYear(a)
  <2>1. NoFileLost'
    BY <1>0, <1>3, FilesKept DEF ListYear, zips
  <2>2. /\ pc[a] = "ylist" /\ UNCHANGED yearly
        /\ pc' = [pc EXCEPT ![a] = "yzip"] \/ pc' = [pc EXCEPT ![a] = "idle"]
    BY <1>3 DEF ListYear, Goto, zips
  <2>3. WeekInv(a)' /\ YearInv(a)'
    BY <1>0, <2>2 DEF WeekInv, YearInv
  <2>4. QED
    BY <2>1, <2>3, OneStep
<1>4. CASE ZipYear(a)
  <2>1. NoFileLost'
    BY <1>0, <1>4, FilesKept DEF ZipYear
  <2>2. pc[a] = "yzip" /\ UNCHANGED <<weekly, yearly, cand>>
    BY <1>4 DEF ZipYear
  <2>3. WeekInv(a)' /\ YearInv(a)'
    BY <1>0, <1>4, <2>2 DEF ZipYear, Goto, WeekInv, YearInv
  <2>4. QED
    BY <2>1, <2>3, OneStep
<1>5. CASE PublishYear(a)
  <2>1. /\ pc[a] = "ypublish" /\ UNCHANGED <<inbox, processed, weekly, cand, ingested>>
        /\ yearly = {} /\ yearlyTmp = {<<w, weekly[w]>> : w \in cand[a]}
    BY <1>0, <1>5 DEF PublishYear, YearInv
  <2>2. \A f : f \in Archived => f \in Archived'
    BY <2>1 DEF Archived
  <2>3. NoFileLost'
    BY <1>0, <2>1, <2>2 DEF NoFileLost
  <2>4. \/ pc' = [pc EXCEPT ![a] = "idle"]
        \/ pc' = [pc EXCEPT ![a] = "yverify"] /\ yearly' = yearlyTmp
    BY <1>5 DEF PublishYear, Goto
  <2>5. WeekInv(a)' /\ YearInv(a)'
    BY <1>0, <2>1, <2>4 DEF WeekInv, YearInv
  <2>6. QED
    BY <2>3, <2>5, OneStep
<1>6. CASE VerifyYear(a)
  <2>1. /\ pc[a] = "yverify" /\ UNCHANGED <<inbox, processed, weekly, cand, ingested>>
        /\ yearly = {<<w, weekly[w]>> : w \in cand[a]} /\ cand[a] \in SUBSET Weeks
    BY <1>0, <1>1, <1>6 DEF VerifyYear, YearInv, OverWeeks
  <2>2. \A f : f \in Archived => f \in Archived'
    <3>1. \A m \in yearly : \E w \in Weeks : m[2] = weekly[w]
      BY <2>1
    <3>2. \A f : f \in Archived => \E w \in Weeks : f \in weekly[w]
      BY <3>1, ArchivedMember
    <3>3. QED
      BY <2>1, <3>2 DEF Archived
  <2>3. NoFileLost'
    BY <1>0, <2>1, <2>2 DEF NoFileLost
  <2>4. \/ pc' = [pc EXCEPT ![a] = "idle"]
        \/ pc' = [pc EXCEPT ![a] = "ydelete"] /\ yearly' = yearly
    BY <1>6 DEF VerifyYear, Goto
  <2>5. WeekInv(a)' /\ YearInv(a)'
    BY <1>0, <2>1, <2>4 DEF WeekInv, YearInv
  <2>6. QED
    BY <2>3, <2>5, OneStep
<1>7. CASE DeleteWeekly(a)
  <2>1. PICK w \in cand[a] :
           /\ cand' = [cand EXCEPT ![a] = @ \ {w}]
           /\ \/ weekly' = [weekly EXCEPT ![w] = {}]
              \/ "io" \in Faults /\ UNCHANGED weekly
           /\ IF cand[a] = {w} THEN Goto(a, "idle") ELSE UNCHANGED pc
    BY <1>7 DEF DeleteWeekly
  <2>2. /\ pc[a] = "ydelete" /\ UNCHANGED <<inbox, processed, yearly, ingested>>
        /\ cand[a] \in SUBSET Weeks /\ \A v \in cand[a] : <<v, weekly[v]>> \in yearly
    BY <1>0, <1>1, <1>7 DEF DeleteWeekly, YearInv, OverWeeks
  <2>3. \A v \in Weeks : v # w => weekly'[v] = weekly[v]
    BY <1>0, <2>1
  <2>4. \A f : f \in Archived => f \in Archived'
    <3>1. \A f \in weekly[w] : \E m \in yearly : f \in m[2]
      BY <2>1, <2>2
    <3>2. \A f : f \in Archived => \/ \E v \in Weeks : f \in weekly'[v]
                                   \/ \E m \in yearly' : f \in m[2]
      BY <2>2, <2>3, <3>1, ArchivedMember
    <3>3. QED
      BY <3>2, ArchivedMemberNext, Zenon
  <2>5. NoFileLost'
    BY <1>0, <2>2, <2>4 DEF NoFileLost
  <2>6. WeekInv(a)' /\ YearInv(a)'
    <3>1. pc'[a] \in {"idle", "ydelete"} /\ cand'[a] = cand[a] \ {w}
      BY <1>0, <2>1, <2>2 DEF Goto
    <3>2. \A v \in cand'[a] : <<v, weekly'[v]>> \in yearly'
      BY <2>2, <2>3, <3>1
    <3>3. QED
      BY <3>1, <3>2 DEF WeekInv, YearInv
  <2>7. QED
    BY <2>5, <2>6, OneStep
<1>8. QED
  BY <1>2, <1>3, <1>4, <1>5, <1>6, <1>7

(* Every step keeps the invariant. *)
LEMMA SafeStep == SafeInv /\ OneArchiver /\ [Next]_vars => SafeInv'
<1> SUFFICES ASSUME SafeInv, OneArchiver, [Next]_vars PROVE SafeInv'
  OBVIOUS
<1>0. TypeInv'
  BY TypeStep DEF SafeInv
<1>1. /\ inbox \in [Files -> 0..MaxWeek] /\ processed \in [Files -> 0..MaxWeek]
      /\ now \in 0..MaxWeek /\ now # 0
  BY ArchiveAssumption DEF SafeInv, TypeInv, TypeOK, Weeks
<1>2. CASE Tick
  BY <1>0, <1>2, SpoolSafe DEF Tick
<1>3. ASSUME NEW f \in Files, Write(f) \/ Restore(f) PROVE SafeInv'
  <2>1. inbox' = [inbox EXCEPT ![f] = now] /\ UNCHANGED <<processed, zips, procs, ingested>>
    BY <1>3 DEF Write, Restore
  <2>2. \A g \in Files : inbox[g] # 0 => inbox'[g] # 0
    BY <1>1, <2>1, StillThere
  <2>3. QED
    BY <1>0, <2>1, <2>2, SpoolSafe
<1>4. ASSUME NEW f \in Files, Ingest(f) PROVE SafeInv'
  <2>1. /\ inbox[f] # 0 /\ UNCHANGED <<zips, procs>>
        /\ processed' = [processed EXCEPT ![f] = inbox[f]]
        /\ inbox' = [inbox EXCEPT ![f] = 0] /\ ingested' = ingested \cup {f}
    BY <1>4 DEF Ingest
  <2>2. \A g \in Files : /\ g = f => processed'[g] # 0
                         /\ processed[g] # 0 => processed'[g] # 0
    BY <1>1, <2>1, StillThere
  <2>3. \A g \in Files : g # f => inbox'[g] = inbox[g]
    BY <1>1, <2>1
  <2>4. QED
    BY <1>0, <2>1, <2>2, <2>3, SpoolSafe
<1>5. ASSUME NEW a \in Archivers, ArchiveStep(a) PROVE SafeInv'
  BY <1>0, <1>5, WeekSafe, YearSafe DEF ArchiveStep
<1>6. ASSUME NEW a \in Archivers, Crash(a) PROVE SafeInv'
  <2>1. NoFileLost'
    BY <1>6, FilesKept DEF SafeInv, Crash, zips
  <2>2. pc'[a] = "idle"
    BY <1>6 DEF SafeInv, TypeInv, TypeOK, Crash, Goto
  <2>3. WeekInv(a)' /\ YearInv(a)'
    BY <2>2 DEF WeekInv, YearInv
  <2>4. QED
    BY <1>0, <2>1, <2>3, OneStep
<1>7. CASE UNCHANGED vars
  BY <1>0, <1>7, SpoolSafe DEF vars
<1>8. QED
  BY <1>2, <1>3, <1>4, <1>5, <1>6, <1>7 DEF Next

(* Disaster recovery: where one process archives, every file that was ever
   ingested stays in processed/, in the inbox or in an archive, whichever
   call fails, whichever zip is corrupt and wherever the archiver dies, for
   any number of files and weeks (spool/lifecycle.py, archive_week and
   consolidate_year).                                                        *)
THEOREM NoIngestedFileIsLost == ASSUME OneArchiver PROVE Spec => []NoFileLost
<1>1. SafeInv => NoFileLost
  BY DEF SafeInv
<1>2. SafeInv /\ [Next]_vars => SafeInv'
  BY SafeStep
<1>3. QED
  BY <1>1, <1>2, SafeInit, PTL DEF Spec
=============================================================================
