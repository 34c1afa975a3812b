-------------------------- MODULE IntegrationProofs --------------------------
(***************************************************************************)
(* Proofs about installing Dream Studio into a config root, for any files, *)
(* versions and sessions and any number of installs, uninstalls, edits and *)
(* deaths: the types, that nothing the operator wrote is lost, that what   *)
(* Dream Studio wrote is in the manifest, that running sessions keep their *)
(* hooks and that an install delivers what it records.                     *)
(***************************************************************************)
EXTENDS Integration, FiniteSetTheorems, SequenceTheorems, TLAPS

-----------------------------------------------------------------------------
(* Types.                                                                  *)

Contents == [kind : {"absent", "ds", "stub", "own", "kept", "sound", "foreign"},
             ours : SUBSET (Versions \cup Modes), own : SUBSET Tokens]

(* What a manifest says of a file. *)
Entered == {Absent, Stub, Kept} \cup {Copy(v) : v \in Versions}

Ops == [op : {"create", "merge", "delete", "keep"}, file : Files, content : Contents,
        backup : BOOLEAN]

DiskOK ==
    /\ disk \in [Files -> Contents]
    /\ \A f \in Plain : disk[f].kind \in {"absent", "ds", "stub", "own"}
    /\ \A d \in Docs : /\ disk[d].kind \in {"absent", "sound", "foreign"}
                       /\ disk[d].kind # "sound" => disk[d].ours = {}
    /\ \A f \in Files : disk[f].kind = "absent" => disk[f].own = {}
    /\ disk[Settings].ours \subseteq Modes

InstOK ==
    /\ inst \in [at : {"idle", "op", "write", "fill"}, ver : Versions \cup {"none"},
                 mode : Modes \cup {"none"}, plan : Seq(Ops), log : [Plain -> Entered],
                 touched : SUBSET Files]
    /\ inst.at = "idle" => inst = IdleInstall
    /\ inst.at # "idle" => inst.ver \in Versions /\ inst.mode \in Modes
    /\ inst.at = "write" => inst.plan # <<>> /\ O.op # "keep"
    /\ inst.at = "fill" => inst.plan = <<>>

UninOK ==
    /\ unin \in [at : {"idle", "loaded", "fill"}, own : SUBSET Tokens]
    /\ unin.at = "idle" => unin.own = {}

RestOK ==
    /\ manifest \in [Plain -> Entered]
    /\ saved \subseteq Tokens /\ gone \subseteq Tokens /\ risked \subseteq Tokens
    /\ session \in [Sessions -> [cmds : SUBSET Modes, sound : BOOLEAN]]
    /\ left \in [installs : Nat, uninstalls : Nat, edits : 0..MaxEdits, deaths : Nat]
    /\ unknown \subseteq Plain /\ app \in BOOLEAN /\ purged \in BOOLEAN

-----------------------------------------------------------------------------
(* What is left of a plan.                                                 *)

Todo == ToSet(inst.plan)

(* What an operation of an install of v in a mode may be; once hooks were not
   purged, no operation removes an entry script.                             *)
Fits(o, v, mode, pure) ==
    /\ o \in Ops
    /\ o.file = Settings => /\ o.op = "merge" /\ o.backup
                            /\ o.content.kind = "sound" /\ o.content.ours = {mode}
    /\ o.file = ClaudeMd => /\ o.op = "create" /\ o.content.kind = "sound" /\ o.content.ours = {v}
                            /\ ~o.backup => o.content.own = {}
    /\ o.file \in Plain =>
          \/ /\ o.op = "create" /\ o.content = Copy(v) /\ o.file \in Ships[v]
             /\ mode = "files" \/ o.file \notin Hooks
          \/ /\ o.op = "create" /\ o.content = Stub /\ o.backup
             /\ mode = "module" /\ o.file \in Entries
          \/ o.op = "keep" /\ o.content = Kept /\ mode = "module" /\ o.file \in Hooks
          \/ /\ o.op = "delete" /\ o.content = Absent /\ o.backup
             /\ o.file \notin Ships[v] \/ (mode = "module" /\ o.file \in Hooks /\ ~pure)
             /\ o.file \notin Agents

(* One operation for each file. *)
PlanInv ==
    inst.at # "idle" =>
        /\ \A o \in Todo : Fits(o, inst.ver, inst.mode, ~purged)
        /\ \A o, u \in Todo : o.file = u.file => o = u

TypeInv == DiskOK /\ InstOK /\ UninOK /\ RestOK /\ PlanInv

-----------------------------------------------------------------------------
(* The operator's text.                                                    *)

Safe == saved \cup risked

(* What the install is about to write over is in the backups ... *)
BackupInv == inst.at = "write" => disk[O.file].own \subseteq Safe

(* ... and what it does not back up was absent when it planned. *)
FreshInv ==
    \A o \in Todo : o.op # "keep" /\ ~o.backup => disk[o.file].own \subseteq risked

(* An uninstall has in its hands what it will write over; before it empties
   the file that is still there.                                             *)
HandInv ==
    /\ unin.at # "idle" => disk[Settings].own \subseteq unin.own \cup Safe
    /\ unin.at = "loaded" => unin.own \subseteq disk[Settings].own \cup Safe

(* What a plan will merge back is in those hands, or in the file. *)
MergeInv ==
    \A o \in Todo : o.file = Settings =>
        o.content.own \subseteq Safe \cup (IF unin.at = "idle" THEN disk[Settings].own ELSE unin.own)

TokenInv == NothingLost /\ BackupInv /\ FreshInv /\ HandInv /\ MergeInv

-----------------------------------------------------------------------------
(* The manifest.                                                           *)

Owned == {f \in Skills \cup Entries : disk[f].kind \in {"ds", "stub"}}

(* A file Dream Studio wrote is in the manifest of the last install, or of the
   one in flight; the last manifest stands until the last operation is done. *)
OwnInv ==
    \A f \in Owned :
        \/ f \in unknown
        \/ inst.at = "idle" /\ f \in Recorded
        \/ inst.at # "idle" /\ inst.log[f] # Absent
        \/ inst.at \in {"op", "write"} /\ f \in Recorded /\ \E o \in Todo : o.file = f

-----------------------------------------------------------------------------
(* Delivery.                                                               *)

(* The content c of a file f, when an install of v in a mode has delivered it. *)
Holds(f, c, v, mode) ==
    /\ f = Settings => c.ours = {mode}
    /\ f = ClaudeMd => c.kind = "foreign" \/ c.ours = {v}
    /\ f \in Ships[v] \cap (Skills \cup Agents) => c = Copy(v)
    /\ f \in Ships[v] \cap Hooks /\ mode = "files" => c = Copy(v)

Delivered(f) == Holds(f, disk[f], inst.ver, inst.mode)

(* A file no one else touched is delivered, or will be; an orphan is not in the
   log; an entry script that this install recorded, or will keep, is a stub. *)
DeliverInv ==
    inst.at # "idle" =>
        \A f \in Files \ inst.touched :
            /\ Delivered(f) \/ \E o \in Todo : o.file = f
            /\ f \in Skills \ Ships[inst.ver] => inst.log[f] = Absent
            /\ f \in Entries /\ inst.mode = "module" =>
                 /\ inst.log[f] # Absent => disk[f] = Stub
                 /\ \A o \in Todo : o.file = f /\ o.op = "keep" => disk[f] = Stub

-----------------------------------------------------------------------------
(* Sequences and the sets they hold.                                       *)

(* What a sequence holds is a set of its elements. *)
LEMMA ToSetType == ASSUME NEW S, NEW s \in Seq(S) PROVE ToSet(s) \in SUBSET S
BY DEF ToSet

(* A sequence that is not empty holds its head and what its tail holds. *)
LEMMA ToSetTail ==
    ASSUME NEW S, NEW s \in Seq(S), s # <<>>
    PROVE  /\ Head(s) \in ToSet(s) /\ Tail(s) \in Seq(S)
           /\ ToSet(s) = {Head(s)} \cup ToSet(Tail(s))
<1>1. /\ Tail(s) \in Seq(S) /\ Len(Tail(s)) = Len(s) - 1 /\ Len(s) \in Nat \ {0}
      /\ \A i \in 1 .. Len(Tail(s)) : Tail(s)[i] = s[i + 1]
  BY HeadTailProperties, EmptySeq
<1>2. Head(s) = s[1] /\ DOMAIN s = 1..Len(s) /\ DOMAIN Tail(s) = 1..(Len(s) - 1)
  BY <1>1
<1>3. Head(s) \in ToSet(s)
  BY <1>1, <1>2 DEF ToSet
<1>4. ASSUME NEW x \in ToSet(s) PROVE x = Head(s) \/ x \in ToSet(Tail(s))
  <2>1. PICK i \in 1..Len(s) : x = s[i]
    BY <1>2 DEF ToSet
  <2>2. CASE i = 1
    BY <1>2, <2>1, <2>2
  <2>3. CASE i # 1
    <3>1. i - 1 \in 1..(Len(s) - 1) /\ Tail(s)[i - 1] = s[(i - 1) + 1] /\ (i - 1) + 1 = i
      BY <1>1, <2>3
    <3>2. QED
      BY <1>2, <2>1, <3>1 DEF ToSet
  <2>4. QED
    BY <2>2, <2>3
<1>5. ASSUME NEW x \in ToSet(Tail(s)) PROVE x \in ToSet(s)
  <2>1. PICK i \in 1..(Len(s) - 1) : x = Tail(s)[i]
    BY <1>2 DEF ToSet
  <2>2. x = s[i + 1] /\ i + 1 \in 1..Len(s)
    BY <1>1, <2>1
  <2>3. QED
    BY <1>2, <2>2 DEF ToSet
<1>6. QED
  BY <1>1, <1>3, <1>4, <1>5

(* A concatenation holds what its parts hold. *)
LEMMA ToSetConcat ==
    ASSUME NEW S, NEW s \in Seq(S), NEW t \in Seq(S)
    PROVE  s \o t \in Seq(S) /\ ToSet(s \o t) = ToSet(s) \cup ToSet(t)
<1>1. /\ s \o t \in Seq(S) /\ Len(s \o t) = Len(s) + Len(t)
      /\ \A i \in 1 .. Len(s) + Len(t) : (s \o t)[i] = IF i <= Len(s) THEN s[i] ELSE t[i - Len(s)]
  BY ConcatProperties
<1>2. PICK c : c = s \o t
  OBVIOUS
<1>3. PICK m \in Nat : m = Len(s) /\ DOMAIN s = 1..m
  OBVIOUS
<1>4. PICK n \in Nat : n = Len(t) /\ DOMAIN t = 1..n
  OBVIOUS
<1>5. DOMAIN c = 1..(m + n) /\ \A i \in 1..(m + n) : c[i] = IF i <= m THEN s[i] ELSE t[i - m]
  BY <1>1, <1>2, <1>3, <1>4
<1>6. ASSUME NEW x \in ToSet(c) PROVE x \in ToSet(s) \cup ToSet(t)
  <2>1. PICK i \in 1..(m + n) : x = c[i]
    BY <1>5 DEF ToSet
  <2>2. CASE i <= m
    BY <1>3, <1>5, <2>1, <2>2 DEF ToSet
  <2>3. CASE ~ (i <= m)
    <3>1. i - m \in 1..n /\ x = t[i - m]
      BY <1>5, <2>1, <2>3
    <3>2. QED
      BY <1>4, <3>1 DEF ToSet
  <2>4. QED
    BY <2>2, <2>3
<1>7. ASSUME NEW x \in ToSet(s) PROVE x \in ToSet(c)
  <2>1. PICK i \in 1..m : x = s[i]
    BY <1>3 DEF ToSet
  <2>2. i \in 1..(m + n) /\ c[i] = s[i]
    BY <1>5
  <2>3. QED
    BY <1>5, <2>1, <2>2 DEF ToSet
<1>8. ASSUME NEW x \in ToSet(t) PROVE x \in ToSet(c)
  <2>1. PICK i \in 1..n : x = t[i]
    BY <1>4 DEF ToSet
  <2>2. i + m \in 1..(m + n) /\ ~ (i + m <= m) /\ (i + m) - m = i
    OBVIOUS
  <2>3. c[i + m] = t[i]
    BY <1>5, <2>2
  <2>4. QED
    BY <1>5, <2>1, <2>2, <2>3 DEF ToSet
<1>9. QED
  BY <1>1, <1>2, <1>6, <1>7, <1>8

(* SetToSeq lists every element of a finite set. *)
LEMMA SetToSeqLists ==
    ASSUME NEW S, IsFiniteSet(S)
    PROVE  /\ DOMAIN SetToSeq(S) = 1..Cardinality(S) /\ Cardinality(S) \in Nat
           /\ \A i \in DOMAIN SetToSeq(S) : SetToSeq(S)[i] \in S
           /\ \A x \in S : \E i \in DOMAIN SetToSeq(S) : SetToSeq(S)[i] = x
<1>1. PICK n \in Nat : n = Cardinality(S)
  BY FS_CardinalityType
<1>2. PICK g : g \in Bijection(1..n, S)
  BY <1>1, FS_CardinalityType DEF ExistsBijection
<1>3. g \in [1..n -> S] /\ IsInjective(g)
  BY <1>2 DEF Bijection, Injection, IsInjective
<1>4. PICK f : f = SetToSeq(S)
  OBVIOUS
<1>5. f \in [1..n -> S] /\ IsInjective(f)
  BY <1>1, <1>3, <1>4 DEF SetToSeq
<1>6. f \in Injection(1..n, S)
  BY <1>5 DEF Injection, IsInjective
<1>7. Cardinality(1..n) = n
  BY FS_Interval
<1>8. f \in Surjection(1..n, S)
  BY <1>1, <1>6, <1>7, FS_Injection
<1>9. QED
  BY <1>1, <1>4, <1>5, <1>8 DEF Surjection

-----------------------------------------------------------------------------
(* What a plan holds.                                                      *)

(* The contents the code writes and records. *)
LEMMA ContentTypes ==
    /\ Absent \in Contents /\ Stub \in Contents /\ Kept \in Contents
    /\ \A v \in Versions : Copy(v) \in Contents
    /\ Entered \subseteq Contents
BY DEF Absent, Stub, Kept, Copy, Content, Contents, Entered

(* They are told apart by their kind. *)
LEMMA ContentKinds ==
    /\ Absent.kind = "absent" /\ Stub.kind = "stub" /\ Kept.kind = "kept"
    /\ Absent.own = {} /\ Stub.own = {} /\ Kept.own = {}
    /\ \A v : Copy(v).kind = "ds" /\ Copy(v).own = {}
    /\ \A c \in Entered : c.kind \in {"absent", "ds", "stub", "kept"} /\ c.own = {}
BY DEF Absent, Stub, Kept, Copy, Content, Entered

(* The files of a set, to be created. *)
LEMMA CreateList ==
    ASSUME NEW S \in SUBSET Plain, NEW v \in Versions
    PROVE  /\ ForEach(S, LAMBDA f : Create(f, v)) \in Seq(Ops)
           /\ ToSet(ForEach(S, LAMBDA f : Create(f, v))) = {Create(f, v) : f \in S}
<1>1. IsFiniteSet(S)
  BY FilesAssumption, FS_Subset
<1>2. PICK q : q = SetToSeq(S)
  OBVIOUS
<1>3. PICK n \in Nat : DOMAIN q = 1..n
  BY <1>1, <1>2, SetToSeqLists
<1>4. (\A i \in 1..n : q[i] \in S) /\ (\A x \in S : \E i \in 1..n : q[i] = x)
  BY <1>1, <1>2, <1>3, SetToSeqLists
<1>5. PICK l : l = [i \in 1..n |-> Create(q[i], v)]
  OBVIOUS
<1>6. l = ForEach(S, LAMBDA f : Create(f, v))
  BY <1>2, <1>3, <1>5 DEF ForEach
<1>7. \A f \in S : Create(f, v) \in Ops
  BY ContentTypes DEF Create, Op, Ops, Exists, Files
<1>8. l \in Seq(Ops)
  BY <1>4, <1>5, <1>7
<1>9. ToSet(l) = {Create(f, v) : f \in S}
  BY <1>4, <1>5 DEF ToSet
<1>10. QED
  BY <1>6, <1>8, <1>9

(* The files of a set, to be removed. *)
LEMMA RemovalList ==
    ASSUME NEW S \in SUBSET Plain
    PROVE  /\ ForEach(S, Removal) \in Seq(Ops)
           /\ ToSet(ForEach(S, Removal)) = {Removal(f) : f \in S}
<1>1. IsFiniteSet(S)
  BY FilesAssumption, FS_Subset
<1>2. PICK q : q = SetToSeq(S)
  OBVIOUS
<1>3. PICK n \in Nat : DOMAIN q = 1..n
  BY <1>1, <1>2, SetToSeqLists
<1>4. (\A i \in 1..n : q[i] \in S) /\ (\A x \in S : \E i \in 1..n : q[i] = x)
  BY <1>1, <1>2, <1>3, SetToSeqLists
<1>5. PICK l : l = [i \in 1..n |-> Removal(q[i])]
  OBVIOUS
<1>6. l = ForEach(S, Removal)
  BY <1>2, <1>3, <1>5 DEF ForEach
<1>7. \A f \in S : Removal(f) \in Ops
  BY ContentTypes DEF Removal, Op, Ops, Files
<1>8. l \in Seq(Ops)
  BY <1>4, <1>5, <1>7
<1>9. ToSet(l) = {Removal(f) : f \in S}
  BY <1>4, <1>5 DEF ToSet
<1>10. QED
  BY <1>6, <1>8, <1>9

(* The recorded hook files, to be retired. *)
LEMMA RetireList ==
    /\ ForEach(Stale, Retire) \in Seq(Ops)
    /\ ToSet(ForEach(Stale, Retire)) = {Retire(f) : f \in Stale}
<1>0. PICK S \in SUBSET Plain : S = Stale
  BY DEF Stale, Plain
<1>1. IsFiniteSet(S)
  BY FilesAssumption, FS_Subset
<1>2. PICK q : q = SetToSeq(S)
  OBVIOUS
<1>3. PICK n \in Nat : DOMAIN q = 1..n
  BY <1>1, <1>2, SetToSeqLists
<1>4. (\A i \in 1..n : q[i] \in S) /\ (\A x \in S : \E i \in 1..n : q[i] = x)
  BY <1>1, <1>2, <1>3, SetToSeqLists
<1>5. PICK l : l = [i \in 1..n |-> Retire(q[i])]
  OBVIOUS
<1>6. l = ForEach(Stale, Retire)
  BY <1>0, <1>2, <1>3, <1>5 DEF ForEach
<1>7. \A f \in S : Retire(f) \in Ops
  BY ContentTypes DEF Retire, Op, Ops, Files
<1>8. l \in Seq(Ops)
  BY <1>4, <1>5, <1>7
<1>9. ToSet(l) = {Retire(f) : f \in S}
  BY <1>4, <1>5 DEF ToSet
<1>10. QED
  BY <1>0, <1>6, <1>8, <1>9

PlannedHooks(v, mode, purge) ==
    IF mode = "files" THEN {Create(f, v) : f \in Hooks \cap Ships[v]}
    ELSE IF purge THEN {Removal(f) : f \in Hooks \cap Recorded}
    ELSE {Retire(f) : f \in Stale}

(* The plan is a sequence of operations, and these are the ones it holds. *)
LEMMA PlanHolds ==
    ASSUME DiskOK, NEW v \in Versions, NEW mode \in Modes, NEW purge \in BOOLEAN
    PROVE  /\ Plan(v, mode, purge) \in Seq(Ops)
           /\ ToSet(Plan(v, mode, purge)) =
                ({Create(f, v) : f \in Skills \cap Ships[v]} \cup {Removal(f) : f \in Orphans(v)}
                 \cup ToSet(MergeClaudeMd(v)) \cup ToSet(MergeSettings(mode))
                 \cup {Create(f, v) : f \in Agents \cap Ships[v]}) \cup PlannedHooks(v, mode, purge)
<1>1. PICK a : a = ForEach(Skills \cap Ships[v], LAMBDA f : Create(f, v))
  OBVIOUS
<1>2. a \in Seq(Ops) /\ ToSet(a) = {Create(f, v) : f \in Skills \cap Ships[v]}
  <2>1. Skills \cap Ships[v] \in SUBSET Plain
    BY DEF Plain
  <2>2. QED
    BY <1>1, <2>1, CreateList
<1>3. PICK b : b = ForEach(Orphans(v), Removal)
  OBVIOUS
<1>4. b \in Seq(Ops) /\ ToSet(b) = {Removal(f) : f \in Orphans(v)}
  <2>1. Orphans(v) \in SUBSET Plain
    BY DEF Plain, Orphans
  <2>2. QED
    BY <1>3, <2>1, RemovalList
<1>5. MergeClaudeMd(v) \in Seq(Ops)
  <2>1. disk[ClaudeMd].own \in SUBSET Tokens /\ ClaudeMd \in Files
    BY DEF DiskOK, Contents, Files, Docs
  <2>2. Content("sound", {v}, disk[ClaudeMd].own) \in Contents
    BY <2>1 DEF Content, Contents
  <2>3. Op("create", ClaudeMd, Content("sound", {v}, disk[ClaudeMd].own), Exists(ClaudeMd)) \in Ops
    BY <2>1, <2>2 DEF Op, Ops, Exists
  <2>4. QED
    BY <2>3 DEF MergeClaudeMd
<1>6. MergeSettings(mode) \in Seq(Ops)
  <2>1. disk[Settings].own \in SUBSET Tokens /\ Settings \in Files
    BY DEF DiskOK, Contents, Files, Docs
  <2>2. \A own \in SUBSET Tokens : Op("merge", Settings, Content("sound", {mode}, own), TRUE) \in Ops
    BY <2>1 DEF Content, Contents, Op, Ops
  <2>3. PICK own \in SUBSET Tokens : own = IF disk[Settings].kind = "sound" THEN disk[Settings].own ELSE {}
    BY <2>1
  <2>4. MergeSettings(mode) = <<Op("merge", Settings, Content("sound", {mode}, own), TRUE)>>
    BY <2>3 DEF MergeSettings
  <2>5. PICK o \in Ops : o = Op("merge", Settings, Content("sound", {mode}, own), TRUE)
    BY <2>2
  <2>6. <<o>> \in Seq(Ops)
    OBVIOUS
  <2>7. MergeSettings(mode) = <<o>>
    BY <2>4, <2>5
  <2>8. QED
    BY <2>6, <2>7
<1>7. PICK c : c = ForEach(Agents \cap Ships[v], LAMBDA f : Create(f, v))
  OBVIOUS
<1>8. c \in Seq(Ops) /\ ToSet(c) = {Create(f, v) : f \in Agents \cap Ships[v]}
  <2>1. Agents \cap Ships[v] \in SUBSET Plain
    BY DEF Plain
  <2>2. QED
    BY <1>7, <2>1, CreateList
<1>9. HookOps(v, mode, purge) \in Seq(Ops) /\ ToSet(HookOps(v, mode, purge)) = PlannedHooks(v, mode, purge)
  <2>1. Hooks \cap Ships[v] \in SUBSET Plain /\ Hooks \cap Recorded \in SUBSET Plain
    BY DEF Plain
  <2>2. CASE mode = "files"
    BY <2>1, <2>2, CreateList DEF HookOps, PlannedHooks
  <2>3. CASE mode # "files" /\ purge
    BY <2>1, <2>3, RemovalList DEF HookOps, PlannedHooks
  <2>4. CASE mode # "files" /\ ~purge
    BY <2>4, RetireList DEF HookOps, PlannedHooks
  <2>5. QED
    BY <2>2, <2>3, <2>4
<1>10. PICK d : d = MergeClaudeMd(v)
  OBVIOUS
<1>11. PICK e : e = MergeSettings(mode)
  OBVIOUS
<1>12. PICK h : h = HookOps(v, mode, purge)
  OBVIOUS
<1>13. PICK x : x = a \o b
  OBVIOUS
<1>14. a \in Seq(Ops) /\ b \in Seq(Ops)
  BY <1>2, <1>4
<1>15. x \in Seq(Ops) /\ ToSet(x) = ToSet(a) \cup ToSet(b)
  BY <1>13, <1>14, ToSetConcat
<1>16. PICK y : y = x \o d
  OBVIOUS
<1>17. x \in Seq(Ops) /\ d \in Seq(Ops)
  BY <1>5, <1>10, <1>15
<1>18. y \in Seq(Ops) /\ ToSet(y) = ToSet(x) \cup ToSet(d)
  BY <1>16, <1>17, ToSetConcat
<1>19. PICK z : z = y \o e
  OBVIOUS
<1>20. y \in Seq(Ops) /\ e \in Seq(Ops)
  BY <1>6, <1>11, <1>18
<1>21. z \in Seq(Ops) /\ ToSet(z) = ToSet(y) \cup ToSet(e)
  BY <1>19, <1>20, ToSetConcat
<1>22. PICK t : t = z \o c
  OBVIOUS
<1>23. z \in Seq(Ops) /\ c \in Seq(Ops)
  BY <1>8, <1>21
<1>24. t \in Seq(Ops) /\ ToSet(t) = ToSet(z) \cup ToSet(c)
  BY <1>22, <1>23, ToSetConcat
<1>25. PICK u : u = t \o h
  OBVIOUS
<1>26. t \in Seq(Ops) /\ h \in Seq(Ops)
  BY <1>9, <1>12, <1>24
<1>27. u \in Seq(Ops) /\ ToSet(u) = ToSet(t) \cup ToSet(h)
  BY <1>25, <1>26, ToSetConcat
<1>28. Plan(v, mode, purge) = u
  BY <1>1, <1>3, <1>7, <1>10, <1>11, <1>12, <1>13, <1>16, <1>19, <1>22, <1>25 DEF Plan
<1>29. QED
  BY <1>2, <1>4, <1>8, <1>9, <1>10, <1>11, <1>12, <1>15, <1>18, <1>21, <1>24, <1>27, <1>28

(* The operation a plan has for a file. *)
OpOf(f, v, mode, purge) ==
    CASE f = Settings -> Op("merge", Settings,
                            Content("sound", {mode},
                                    IF disk[Settings].kind = "sound" THEN disk[Settings].own ELSE {}),
                            TRUE)
      [] f = ClaudeMd -> Op("create", ClaudeMd, Content("sound", {v}, disk[ClaudeMd].own), Exists(ClaudeMd))
      [] f \in (Skills \cup Agents) \cap Ships[v] -> Create(f, v)
      [] f \in (Skills \cup Agents) \ Ships[v] -> Removal(f)
      [] f \in Hooks /\ mode = "files" -> Create(f, v)
      [] f \in Hooks /\ mode # "files" /\ purge -> Removal(f)
      [] f \in Hooks /\ mode # "files" /\ ~purge -> Retire(f)

(* Which files a plan is about. *)
Concerned(f, v, mode, purge) ==
    \/ f = Settings
    \/ f = ClaudeMd /\ disk[ClaudeMd].kind # "foreign"
    \/ f \in (Skills \cup Agents) \cap Ships[v]
    \/ f \in Orphans(v)
    \/ f \in Hooks \cap Ships[v] /\ mode = "files"
    \/ f \in Hooks \cap Recorded /\ mode # "files" /\ purge
    \/ f \in Stale /\ mode # "files" /\ ~purge

(* The kinds of file have nothing in common. *)
LEMMA FileKinds ==
    /\ Settings \in Files /\ ClaudeMd \in Files /\ Settings # ClaudeMd /\ Plain \subseteq Files
    /\ \A f \in Plain : f # Settings /\ f # ClaudeMd
    /\ \A f \in Skills \cup Agents : f \in Plain /\ f \notin Hooks
    /\ \A f \in Hooks : f \in Plain /\ f \notin Skills \cup Agents
    /\ \A f \in Skills : f \notin Agents
    /\ Entries \subseteq Hooks
    /\ \A f \in Files : f = Settings \/ f = ClaudeMd \/ f \in Skills \cup Agents \/ f \in Hooks
BY FilesAssumption DEF Settings, ClaudeMd, Files, Docs, Plain, Hooks

(* OpOf, kind by kind. *)
LEMMA OpOfKinds ==
    ASSUME NEW v \in Versions, NEW mode \in Modes, NEW purge \in BOOLEAN
    PROVE  /\ OpOf(Settings, v, mode, purge) =
                Op("merge", Settings, Content("sound", {mode},
                       IF disk[Settings].kind = "sound" THEN disk[Settings].own ELSE {}), TRUE)
           /\ OpOf(ClaudeMd, v, mode, purge) =
                Op("create", ClaudeMd, Content("sound", {v}, disk[ClaudeMd].own), Exists(ClaudeMd))
           /\ \A f \in (Skills \cup Agents) \cap Ships[v] : OpOf(f, v, mode, purge) = Create(f, v)
           /\ \A f \in (Skills \cup Agents) \ Ships[v] : OpOf(f, v, mode, purge) = Removal(f)
           /\ \A f \in Hooks : OpOf(f, v, mode, purge) =
                IF mode = "files" THEN Create(f, v) ELSE IF purge THEN Removal(f) ELSE Retire(f)
<1>1. Settings # ClaudeMd /\ \A f \in Skills \cup Agents : f # Settings /\ f # ClaudeMd /\ f \notin Hooks
  BY FileKinds
<1>2. \A f \in Hooks : f # Settings /\ f # ClaudeMd /\ f \notin Skills \cup Agents
  BY FileKinds
<1>3. ASSUME NEW f \in (Skills \cup Agents) \cap Ships[v] PROVE OpOf(f, v, mode, purge) = Create(f, v)
  BY <1>1, Zenon DEF OpOf
<1>4. ASSUME NEW f \in (Skills \cup Agents) \ Ships[v] PROVE OpOf(f, v, mode, purge) = Removal(f)
  BY <1>1, Zenon DEF OpOf
<1>5. ASSUME NEW f \in Hooks
      PROVE  OpOf(f, v, mode, purge) =
                IF mode = "files" THEN Create(f, v) ELSE IF purge THEN Removal(f) ELSE Retire(f)
  <2>1. CASE mode = "files"
    BY <1>2, <2>1, Zenon DEF OpOf
  <2>2. CASE mode # "files" /\ purge
    BY <1>2, <2>2, Zenon DEF OpOf
  <2>3. CASE mode # "files" /\ ~purge
    BY <1>2, <2>3, Zenon DEF OpOf
  <2>4. QED
    BY <2>1, <2>2, <2>3
<1>6. OpOf(Settings, v, mode, purge) =
        Op("merge", Settings, Content("sound", {mode},
               IF disk[Settings].kind = "sound" THEN disk[Settings].own ELSE {}), TRUE)
  <2>1. Settings \notin Skills \cup Agents /\ Settings \notin Hooks
    BY FileKinds
  <2>2. QED
    BY <1>1, <2>1, Zenon DEF OpOf
<1>7. OpOf(ClaudeMd, v, mode, purge) =
        Op("create", ClaudeMd, Content("sound", {v}, disk[ClaudeMd].own), Exists(ClaudeMd))
  <2>1. ClaudeMd \notin Skills \cup Agents /\ ClaudeMd \notin Hooks
    BY FileKinds
  <2>2. QED
    BY <1>1, <2>1, Zenon DEF OpOf
<1>8. QED
  BY <1>3, <1>4, <1>5, <1>6, <1>7

(* Create, Removal, Retire and OpOf are about the file they are given. *)
LEMMA OpFiles ==
    \A f, v : Create(f, v).file = f /\ Removal(f).file = f /\ Retire(f).file = f
BY DEF Create, Removal, Retire, Op

(* A plan has the operation of each file it is about, and no other. *)
LEMMA PlanIs ==
    ASSUME DiskOK, NEW v \in Versions, NEW mode \in Modes, NEW purge \in BOOLEAN
    PROVE  /\ \A o \in ToSet(Plan(v, mode, purge)) :
                /\ o.file \in Files /\ Concerned(o.file, v, mode, purge)
                /\ o = OpOf(o.file, v, mode, purge)
           /\ \A f \in Files : Concerned(f, v, mode, purge) =>
                \E o \in ToSet(Plan(v, mode, purge)) : o.file = f
<1> DEFINE P == ToSet(Plan(v, mode, purge))
<1>0. P = ({Create(f, v) : f \in Skills \cap Ships[v]} \cup {Removal(f) : f \in Orphans(v)}
           \cup ToSet(MergeClaudeMd(v)) \cup ToSet(MergeSettings(mode))
           \cup {Create(f, v) : f \in Agents \cap Ships[v]}) \cup PlannedHooks(v, mode, purge)
  BY PlanHolds
<1>1. PICK cm : cm = OpOf(ClaudeMd, v, mode, purge)
  OBVIOUS
<1>2. PICK st : st = OpOf(Settings, v, mode, purge)
  OBVIOUS
<1>3. cm.file = ClaudeMd /\ st.file = Settings
  <2>1. cm = Op("create", ClaudeMd, Content("sound", {v}, disk[ClaudeMd].own), Exists(ClaudeMd))
    BY <1>1, OpOfKinds
  <2>2. PICK own : st = Op("merge", Settings, own, TRUE)
    BY <1>2, OpOfKinds
  <2>3. QED
    BY <2>1, <2>2 DEF Op
<1>4. ToSet(MergeClaudeMd(v)) = IF disk[ClaudeMd].kind = "foreign" THEN {} ELSE {cm}
  <2>1. CASE disk[ClaudeMd].kind = "foreign"
    BY <2>1 DEF MergeClaudeMd, ToSet
  <2>2. CASE disk[ClaudeMd].kind # "foreign"
    <3>1. MergeClaudeMd(v) = <<cm>>
      BY <1>1, <2>2, OpOfKinds DEF MergeClaudeMd
    <3>2. ToSet(<<cm>>) = {cm}
      BY DEF ToSet
    <3>3. QED
      BY <2>2, <3>1, <3>2
  <2>3. QED
    BY <2>1, <2>2
<1>5. ToSet(MergeSettings(mode)) = {st}
  <2>1. MergeSettings(mode) = <<st>>
    BY <1>2, OpOfKinds DEF MergeSettings
  <2>2. ToSet(<<st>>) = {st}
    BY DEF ToSet
  <2>3. QED
    BY <2>1, <2>2
<1> HIDE DEF P
<1>6. ASSUME NEW o \in P
      PROVE  o.file \in Files /\ Concerned(o.file, v, mode, purge) /\ o = OpOf(o.file, v, mode, purge)
  <2>1. CASE \E f \in (Skills \cup Agents) \cap Ships[v] : o = Create(f, v)
    <3>1. PICK f \in (Skills \cup Agents) \cap Ships[v] : o = Create(f, v)
      BY <2>1
    <3>2. o.file = f
      BY <3>1, OpFiles
    <3>3. f \in Files
      BY <3>1, <3>2, FileKinds
    <3>4. Concerned(f, v, mode, purge)
      BY <3>1, <3>2 DEF Concerned
    <3>5. o = OpOf(f, v, mode, purge)
      BY <3>1, <3>2, OpOfKinds
    <3>6. QED
      BY <3>1, <3>2, <3>3, <3>4, <3>5
  <2>2. CASE \E f \in Orphans(v) : o = Removal(f)
    <3>1. PICK f \in Orphans(v) : o = Removal(f)
      BY <2>2
    <3>2. o.file = f /\ f \in (Skills \cup Agents) \ Ships[v]
      BY <3>1, OpFiles DEF Orphans
    <3>3. f \in Files
      BY <3>1, <3>2, FileKinds
    <3>4. Concerned(f, v, mode, purge)
      BY <3>1, <3>2 DEF Concerned
    <3>5. o = OpOf(f, v, mode, purge)
      BY <3>1, <3>2, OpOfKinds
    <3>6. QED
      BY <3>1, <3>2, <3>3, <3>4, <3>5
  <2>3. CASE o = cm /\ disk[ClaudeMd].kind # "foreign"
    BY <1>1, <1>3, <2>3, FileKinds DEF Concerned
  <2>4. CASE o = st
    BY <1>2, <1>3, <2>4, FileKinds DEF Concerned
  <2>5. CASE o \in PlannedHooks(v, mode, purge)
    <3>1. CASE mode = "files"
      <4>1. PICK f \in Hooks \cap Ships[v] : o = Create(f, v)
        BY <2>5, <3>1 DEF PlannedHooks
      <4>2. o.file = f
        BY <4>1, OpFiles
      <4>3. f \in Files
        BY <3>1, <4>1, <4>2, FileKinds
      <4>4. Concerned(f, v, mode, purge)
        BY <3>1, <4>1, <4>2 DEF Concerned
      <4>5. o = OpOf(f, v, mode, purge)
        BY <3>1, <4>1, <4>2, OpOfKinds
      <4>6. QED
        BY <3>1, <4>1, <4>2, <4>3, <4>4, <4>5
    <3>2. CASE mode # "files" /\ purge
      <4>1. PICK f \in Hooks \cap Recorded : o = Removal(f)
        BY <2>5, <3>2 DEF PlannedHooks
      <4>2. o.file = f
        BY <4>1, OpFiles
      <4>3. f \in Files
        BY <3>2, <4>1, <4>2, FileKinds
      <4>4. Concerned(f, v, mode, purge)
        BY <3>2, <4>1, <4>2 DEF Concerned
      <4>5. o = OpOf(f, v, mode, purge)
        BY <3>2, <4>1, <4>2, OpOfKinds
      <4>6. QED
        BY <3>2, <4>1, <4>2, <4>3, <4>4, <4>5
    <3>3. CASE mode # "files" /\ ~purge
      <4>1. PICK f \in Stale : o = Retire(f)
        BY <2>5, <3>3 DEF PlannedHooks
      <4>2. o.file = f /\ f \in Hooks
        BY <4>1, OpFiles DEF Stale
      <4>3. f \in Files
        BY <3>3, <4>1, <4>2, FileKinds
      <4>4. Concerned(f, v, mode, purge)
        BY <3>3, <4>1, <4>2 DEF Concerned
      <4>5. o = OpOf(f, v, mode, purge)
        BY <3>3, <4>1, <4>2, OpOfKinds
      <4>6. QED
        BY <3>3, <4>1, <4>2, <4>3, <4>4, <4>5
    <3>4. QED
      BY <3>1, <3>2, <3>3
  <2>6. QED
    BY <1>0, <1>4, <1>5, <2>1, <2>2, <2>3, <2>4, <2>5
<1>7. ASSUME NEW f \in Files, Concerned(f, v, mode, purge) PROVE \E o \in P : o.file = f
  <2>1. CASE f = Settings
    BY <1>0, <1>3, <1>5, <2>1
  <2>2. CASE f = ClaudeMd /\ disk[ClaudeMd].kind # "foreign"
    BY <1>0, <1>3, <1>4, <2>2
  <2>3. CASE f \in (Skills \cup Agents) \cap Ships[v]
    <3>1. Create(f, v) \in P
      BY <1>0, <2>3
    <3>2. QED
      BY <3>1, OpFiles
  <2>4. CASE f \in Orphans(v)
    <3>1. Removal(f) \in P
      BY <1>0, <2>4
    <3>2. QED
      BY <3>1, OpFiles
  <2>5. CASE f \in Hooks \cap Ships[v] /\ mode = "files"
    <3>1. Create(f, v) \in P
      BY <1>0, <2>5 DEF PlannedHooks
    <3>2. QED
      BY <3>1, OpFiles
  <2>6. CASE f \in Hooks \cap Recorded /\ mode # "files" /\ purge
    <3>1. Removal(f) \in P
      BY <1>0, <2>6 DEF PlannedHooks
    <3>2. QED
      BY <3>1, OpFiles
  <2>7. CASE f \in Stale /\ mode # "files" /\ ~purge
    <3>1. Retire(f) \in P
      BY <1>0, <2>7 DEF PlannedHooks
    <3>2. QED
      BY <3>1, OpFiles
  <2>8. QED
    BY <1>7, <2>1, <2>2, <2>3, <2>4, <2>5, <2>6, <2>7 DEF Concerned
<1>8. QED
  BY <1>6, <1>7 DEF P

(* How an operation relates to the disk its plan was made from: what is not
   backed up was not there, what is merged back was, and the entry scripts
   that are kept are stubs.                                                  *)
Suits(o) ==
    /\ o.op # "keep" /\ ~o.backup => disk[o.file].own = {}
    /\ o.file = Settings => o.content.own \subseteq disk[Settings].own
    /\ o.file \in Entries /\ o.op = "keep" => disk[o.file] = Stub

(* Every operation of a plan fits its install and suits the disk. *)
LEMMA OpOfFits ==
    ASSUME DiskOK, NEW v \in Versions, NEW mode \in Modes, NEW purge \in BOOLEAN,
           NEW pure \in BOOLEAN, pure => ~(purge /\ mode = "module"),
           NEW f \in Files, Concerned(f, v, mode, purge),
           NEW o \in Ops, o = OpOf(f, v, mode, purge), o.file = f
    PROVE  Fits(o, v, mode, pure) /\ Suits(o)
<1>0. mode \in {"files", "module"}
  BY DEF Modes
<1>1. CASE f = Settings
  <2>1. PICK own : own = IF disk[Settings].kind = "sound" THEN disk[Settings].own ELSE {}
    OBVIOUS
  <2>2. o = Op("merge", Settings, Content("sound", {mode}, own), TRUE)
    BY <1>1, <2>1, OpOfKinds
  <2>3. PICK c : c = Content("sound", {mode}, own)
    OBVIOUS
  <2>4. c.kind = "sound" /\ c.ours = {mode} /\ c.own = own
    BY <2>3 DEF Content
  <2>5. o.op = "merge" /\ o.backup = TRUE /\ o.content = c
    BY <2>2, <2>3 DEF Op
  <2>6. f # ClaudeMd /\ f \notin Plain /\ f \notin Entries
    BY <1>1, FileKinds
  <2>7. Fits(o, v, mode, pure)
    BY <2>4, <2>5, <2>6 DEF Fits
  <2>8. Suits(o)
    BY <2>1, <2>4, <2>5, <2>6 DEF Suits
  <2>9. QED
    BY <2>7, <2>8
<1>2. CASE f = ClaudeMd
  <2>1. o = Op("create", ClaudeMd, Content("sound", {v}, disk[ClaudeMd].own), Exists(ClaudeMd))
    BY <1>2, OpOfKinds
  <2>2. PICK c : c = Content("sound", {v}, disk[ClaudeMd].own)
    OBVIOUS
  <2>3. c.kind = "sound" /\ c.ours = {v} /\ c.own = disk[ClaudeMd].own
    BY <2>2 DEF Content
  <2>4. o.op = "create" /\ o.backup = Exists(ClaudeMd) /\ o.content = c
    BY <2>1, <2>2 DEF Op
  <2>5. f # Settings /\ f \notin Plain /\ f \notin Entries
    BY <1>2, FileKinds
  <2>6. ~Exists(ClaudeMd) => disk[ClaudeMd].own = {}
    BY FileKinds DEF Exists, DiskOK
  <2>7. Fits(o, v, mode, pure)
    BY <2>3, <2>4, <2>5, <2>6 DEF Fits
  <2>8. Suits(o)
    BY <1>2, <2>4, <2>5, <2>6 DEF Suits
  <2>9. QED
    BY <2>7, <2>8
<1>3. CASE f \in Plain /\ f \in Ships[v] /\ o = Create(f, v) /\ (mode = "files" \/ f \notin Hooks)
  <2>1. o.op = "create" /\ o.backup = Exists(f) /\ o.content = Copy(v)
    BY <1>3 DEF Create, Op
  <2>2. f # Settings /\ f # ClaudeMd
    BY <1>3, FileKinds
  <2>3. ~Exists(f) => disk[f].own = {}
    BY DEF Exists, DiskOK
  <2>4. Fits(o, v, mode, pure)
    BY <1>3, <2>1, <2>2 DEF Fits
  <2>5. Suits(o)
    BY <2>1, <2>2, <2>3 DEF Suits
  <2>6. QED
    BY <2>4, <2>5
<1>4. CASE /\ f \in Plain /\ o = Removal(f) /\ f \notin Agents
           /\ f \notin Ships[v] \/ (mode = "module" /\ f \in Hooks /\ purge)
  <2>1. o.op = "delete" /\ o.backup = TRUE /\ o.content = Absent
    BY <1>4 DEF Removal, Op
  <2>2. f # Settings /\ f # ClaudeMd
    BY <1>4, FileKinds
  <2>3. f \notin Ships[v] \/ (mode = "module" /\ f \in Hooks /\ ~pure)
    BY <1>4
  <2>4. Fits(o, v, mode, pure)
    BY <1>4, <2>1, <2>2, <2>3 DEF Fits
  <2>5. Suits(o)
    BY <2>1, <2>2 DEF Suits
  <2>6. QED
    BY <2>4, <2>5
<1>5. CASE f \in Stale /\ o = Retire(f) /\ mode = "module"
  <2>1. f \in Hooks /\ f \in Plain /\ f # Settings /\ f # ClaudeMd
    BY <1>5, FileKinds DEF Stale
  <2>2. CASE f \in Entries /\ disk[f] # Stub
    <3>1. o.op = "create" /\ o.backup = TRUE /\ o.content = Stub
      BY <1>5, <2>2 DEF Retire, Op
    <3>2. Fits(o, v, mode, pure)
      BY <1>5, <2>1, <2>2, <3>1 DEF Fits
    <3>3. Suits(o)
      BY <2>1, <3>1 DEF Suits
    <3>4. QED
      BY <3>2, <3>3
  <2>3. CASE ~ (f \in Entries /\ disk[f] # Stub)
    <3>1. o.op = "keep" /\ o.backup = FALSE /\ o.content = Kept
      BY <1>5, <2>3 DEF Retire, Op
    <3>2. Fits(o, v, mode, pure)
      BY <1>5, <2>1, <3>1 DEF Fits
    <3>3. Suits(o)
      BY <2>1, <2>3, <3>1 DEF Suits
    <3>4. QED
      BY <3>2, <3>3
  <2>4. QED
    BY <2>2, <2>3
<1>6. CASE f \in Skills \cup Agents
  <2>1. f \in Plain /\ f \notin Hooks /\ f # Settings /\ f # ClaudeMd
    BY <1>6, FileKinds
  <2>2. CASE f \in Ships[v]
    <3>1. f \in (Skills \cup Agents) \cap Ships[v]
      BY <1>6, <2>2
    <3>2. OpOf(f, v, mode, purge) = Create(f, v)
      BY <3>1, OpOfKinds
    <3>3. QED
      BY <1>3, <2>1, <2>2, <3>2
  <2>3. CASE f \notin Ships[v]
    <3>1. f \in Orphans(v) /\ f \notin Agents
      BY <2>1, <2>3, FileKinds DEF Concerned, Orphans, Stale
    <3>2. f \in (Skills \cup Agents) \ Ships[v]
      BY <1>6, <2>3
    <3>3. OpOf(f, v, mode, purge) = Removal(f)
      BY <3>2, OpOfKinds
    <3>4. QED
      BY <1>4, <2>1, <2>3, <3>1, <3>3
  <2>4. QED
    BY <2>2, <2>3
<1>7. CASE f \in Hooks
  <2>1. f \in Plain /\ f \notin Skills \cup Agents /\ f # Settings /\ f # ClaudeMd
    BY <1>7, FileKinds
  <2>2. CASE mode = "files"
    <3>1. o = Create(f, v)
      BY <1>7, <2>2, OpOfKinds
    <3>2. f \in Ships[v]
      BY <2>1, <2>2 DEF Concerned, Orphans
    <3>3. QED
      BY <1>3, <2>1, <2>2, <3>1, <3>2
  <2>3. CASE mode # "files" /\ purge
    <3>1. o = Removal(f)
      BY <1>7, <2>3, OpOfKinds
    <3>2. QED
      BY <1>0, <1>4, <1>7, <2>1, <2>3, <3>1
  <2>4. CASE mode # "files" /\ ~purge
    <3>1. o = Retire(f)
      BY <1>7, <2>4, OpOfKinds
    <3>2. f \in Stale
      BY <2>1, <2>4 DEF Concerned, Orphans
    <3>3. QED
      BY <1>0, <1>5, <2>4, <3>1, <3>2
  <2>5. QED
    BY <2>2, <2>3, <2>4
<1>8. QED
  BY <1>1, <1>2, <1>6, <1>7, FileKinds

(* What a plan is made of. *)
LEMMA PlanFits ==
    ASSUME DiskOK, NEW v \in Versions, NEW mode \in Modes, NEW purge \in BOOLEAN,
           NEW pure \in BOOLEAN, pure => ~(purge /\ mode = "module"),
           NEW P, P = ToSet(Plan(v, mode, purge))
    PROVE  /\ \A o \in P : Fits(o, v, mode, pure) /\ Suits(o)
           /\ \A o, u \in P : o.file = u.file => o = u
           /\ \A f \in Files : Concerned(f, v, mode, purge) => \E o \in P : o.file = f
<1>1. P \in SUBSET Ops
  BY PlanHolds, ToSetType
<1>2. \A o \in P : /\ o.file \in Files /\ Concerned(o.file, v, mode, purge)
                   /\ o = OpOf(o.file, v, mode, purge)
  BY PlanIs
<1>3. \A f \in Files : Concerned(f, v, mode, purge) => \E o \in P : o.file = f
  BY PlanIs
<1>4. ASSUME NEW o \in P PROVE Fits(o, v, mode, pure) /\ Suits(o)
  BY <1>1, <1>2, OpOfFits
<1>5. ASSUME NEW o \in P, NEW u \in P, o.file = u.file PROVE o = u
  BY <1>2, <1>5
<1>6. QED
  BY <1>3, <1>4, <1>5

-----------------------------------------------------------------------------
(* What the steps do to the install in flight.                             *)

(* What is left to do are operations on files. *)
LEMMA TodoOps == InstOK => Todo \subseteq Ops /\ \A o \in Todo : o.file \in Files
<1>1. ASSUME InstOK PROVE Todo \subseteq Ops
  <2>1. PICK p \in Seq(Ops) : p = inst.plan
    BY <1>1 DEF InstOK
  <2>2. ToSet(p) \in SUBSET Ops
    BY ToSetType
  <2>3. QED
    BY <2>1, <2>2 DEF Todo
<1>2. QED
  BY <1>1 DEF Ops

(* The operation at hand is one of the plan's, and fits. *)
LEMMA AtHand ==
    ASSUME InstOK, inst.plan # <<>>
    PROVE  /\ O \in Ops /\ O \in Todo /\ Tail(inst.plan) \in Seq(Ops)
           /\ Todo = {O} \cup ToSet(Tail(inst.plan)) /\ inst.at # "idle"
<1>1. inst.plan \in Seq(Ops)
  BY DEF InstOK
<1>2. PICK p \in Seq(Ops) : p = inst.plan /\ p # <<>>
  BY <1>1
<1>3. Head(p) \in Ops
  BY <1>2
<1>4. inst.at = "idle" => inst.plan = <<>>
  BY DEF InstOK, IdleInstall
<1>5. QED
  BY <1>2, <1>3, <1>4, ToSetTail DEF O, Todo

(* What Advance does. *)
LEMMA AdvanceEffect ==
    ASSUME InstOK, inst.plan # <<>>, NEW entry, O.file \in Plain => entry \in Entered, Advance(entry)
    PROVE  /\ InstOK'
           /\ inst'.at = "op" /\ inst'.ver = inst.ver /\ inst'.mode = inst.mode
           /\ inst'.touched = inst.touched
           /\ inst'.log = IF O.file \in Plain THEN [inst.log EXCEPT ![O.file] = entry] ELSE inst.log
           /\ Todo = {O} \cup Todo'
<1>1. Tail(inst.plan) \in Seq(Ops) /\ Todo = {O} \cup ToSet(Tail(inst.plan)) /\ inst.at # "idle"
  BY AtHand
<1>2. PICK p \in Seq(Ops) : p = Tail(inst.plan)
  BY <1>1
<1>3. PICK l \in [Plain -> Entered] : l = IF O.file \in Plain THEN [inst.log EXCEPT ![O.file] = entry] ELSE inst.log
  BY DEF InstOK
<1>4. inst' = [inst EXCEPT !.at = "op", !.plan = p, !.log = l]
  BY <1>2, <1>3 DEF Advance
<1>5. /\ inst'.at = "op" /\ inst'.ver = inst.ver /\ inst'.mode = inst.mode
      /\ inst'.touched = inst.touched /\ inst'.plan = p /\ inst'.log = l
  BY <1>4 DEF InstOK
<1>6. InstOK'
  BY <1>1, <1>4, <1>5 DEF InstOK
<1>7. QED
  BY <1>1, <1>2, <1>3, <1>5, <1>6 DEF Todo

(* What Touch does. *)
LEMMA TouchEffect ==
    ASSUME InstOK, NEW f \in Files, inst' = Touch(f)
    PROVE  /\ InstOK'
           /\ inst'.at = inst.at /\ inst'.ver = inst.ver /\ inst'.mode = inst.mode
           /\ inst'.plan = inst.plan /\ inst'.log = inst.log
           /\ inst.at # "idle" => inst'.touched = inst.touched \cup {f}
           /\ Todo' = Todo /\ O' = O
<1>1. CASE inst.at = "idle"
  BY <1>1 DEF Touch, InstOK, Todo, O
<1>2. CASE inst.at # "idle"
  <2>1. inst' = [inst EXCEPT !.touched = @ \cup {f}]
    BY <1>2 DEF Touch
  <2>2. /\ inst'.at = inst.at /\ inst'.ver = inst.ver /\ inst'.mode = inst.mode
        /\ inst'.plan = inst.plan /\ inst'.log = inst.log
        /\ inst'.touched = inst.touched \cup {f}
    BY <2>1 DEF InstOK
  <2>3. O' = O /\ Todo' = Todo
    BY <2>2 DEF O, Todo
  <2>4. inst' \in [at : {"idle", "op", "write", "fill"}, ver : Versions \cup {"none"},
                 mode : Modes \cup {"none"}, plan : Seq(Ops), log : [Plain -> Entered],
                 touched : SUBSET Files]
    BY <2>1 DEF InstOK
  <2>5. InstOK'
    BY <1>2, <2>2, <2>3, <2>4 DEF InstOK
  <2>6. QED
    BY <2>2, <2>3, <2>5
<1>3. QED
  BY <1>1, <1>2

(* What the backup does. *)
LEMMA BackupEffect ==
    ASSUME InstOK, Backup
    PROVE  /\ InstOK'
           /\ inst'.at = "write" /\ inst'.ver = inst.ver /\ inst'.mode = inst.mode
           /\ inst'.plan = inst.plan /\ inst'.log = inst.log /\ inst'.touched = inst.touched
           /\ Todo' = Todo /\ O' = O /\ O.op # "keep" /\ inst.at = "op" /\ inst.plan # <<>>
<1>1. inst' = [inst EXCEPT !.at = "write"] /\ inst.at = "op" /\ inst.plan # <<>> /\ O.op # "keep"
  BY DEF Backup, At
<1>2. /\ inst'.at = "write" /\ inst'.ver = inst.ver /\ inst'.mode = inst.mode
      /\ inst'.plan = inst.plan /\ inst'.log = inst.log /\ inst'.touched = inst.touched
  BY <1>1 DEF InstOK
<1>3. O' = O /\ Todo' = Todo
  BY <1>2 DEF O, Todo
<1>4. InstOK'
  BY <1>1, <1>2, <1>3 DEF InstOK
<1>5. QED
  BY <1>1, <1>2, <1>3, <1>4

(* What TruncateManifest does. *)
LEMMA TruncateEffect ==
    ASSUME InstOK, TruncateManifest
    PROVE  /\ InstOK'
           /\ inst'.at = "fill" /\ inst'.ver = inst.ver /\ inst'.mode = inst.mode
           /\ inst'.log = inst.log /\ inst'.touched = inst.touched
           /\ Todo' = {} /\ Todo = {} /\ inst.at = "op"
<1>1. inst' = [inst EXCEPT !.at = "fill"] /\ inst.at = "op" /\ inst.plan = <<>>
  BY DEF TruncateManifest
<1>2. /\ inst'.at = "fill" /\ inst'.ver = inst.ver /\ inst'.mode = inst.mode
      /\ inst'.plan = inst.plan /\ inst'.log = inst.log /\ inst'.touched = inst.touched
  BY <1>1 DEF InstOK
<1>3. Todo = {} /\ Todo' = {}
  BY <1>1, <1>2 DEF Todo, ToSet
<1>4. InstOK'
  BY <1>1, <1>2 DEF InstOK
<1>5. QED
  BY <1>1, <1>2, <1>3, <1>4

(* An install that ended left nothing to do. *)
LEMMA IdleEffect ==
    ASSUME inst' = IdleInstall
    PROVE  InstOK' /\ inst'.at = "idle" /\ Todo' = {}
<1>1. Nothing \in [Plain -> Entered] /\ <<>> \in Seq(Ops)
  BY DEF Nothing, Entered
<1>2. inst'.at = "idle" /\ inst'.plan = <<>>
  BY DEF IdleInstall
<1>3. Todo' = {}
  BY <1>2 DEF Todo, ToSet
<1>4. IdleInstall \in [at : {"idle", "op", "write", "fill"}, ver : Versions \cup {"none"},
                 mode : Modes \cup {"none"}, plan : Seq(Ops), log : [Plain -> Entered],
                 touched : SUBSET Files]
  BY <1>1 DEF IdleInstall
<1>5. QED
  BY <1>2, <1>3, <1>4 DEF InstOK

(* What StartInstall does. *)
LEMMA StartEffect ==
    ASSUME DiskOK, NEW v \in Versions, NEW mode \in Modes, NEW purge \in BOOLEAN,
           StartInstall(v, mode, purge)
    PROVE  /\ InstOK' /\ inst.at = "idle"
           /\ inst'.at = "op" /\ inst'.ver = v /\ inst'.mode = mode /\ inst'.touched = {}
           /\ inst'.log = Nothing /\ Todo' = ToSet(Plan(v, mode, purge))
<1>1. PICK p \in Seq(Ops) : p = Plan(v, mode, purge)
  BY PlanHolds
<1>2. inst' = [at |-> "op", ver |-> v, mode |-> mode, plan |-> p, log |-> Nothing, touched |-> {}]
  BY <1>1 DEF StartInstall
<1>3. Nothing \in [Plain -> Entered]
  BY DEF Nothing, Entered
<1>4. /\ inst'.at = "op" /\ inst'.ver = v /\ inst'.mode = mode /\ inst'.touched = {}
      /\ inst'.log = Nothing /\ inst'.plan = p
  BY <1>2
<1>5. InstOK'
  BY <1>2, <1>3, <1>4 DEF InstOK
<1>6. QED
  BY <1>1, <1>4, <1>5 DEF Todo, StartInstall

-----------------------------------------------------------------------------
(* The types are preserved.                                                *)

(* What an operation leaves in the manifest. *)
LEMMA FitsEntered ==
    ASSUME NEW o, NEW v \in Versions, NEW mode, NEW pure, Fits(o, v, mode, pure), o.file \in Plain
    PROVE  o.content \in Entered
BY DEF Fits, Entered

(* A plan that is carried on, or emptied, still fits. *)
LEMMA PlanCarried ==
    ASSUME PlanInv, Todo' \subseteq Todo, inst.at # "idle", inst'.ver = inst.ver, inst'.mode = inst.mode,
           purged' = purged
    PROVE  PlanInv'
<1>1. \A o \in Todo' : Fits(o, inst'.ver, inst'.mode, ~purged')
  BY DEF PlanInv
<1>2. \A o, u \in Todo' : o.file = u.file => o = u
  BY DEF PlanInv
<1>3. QED
  BY <1>1, <1>2 DEF PlanInv, Fits

(* What a write leaves on disk. *)
LEMMA WriteDisk ==
    ASSUME TypeInv, Write
    PROVE  DiskOK'
<1>1. inst.at = "write" /\ inst.plan # <<>> /\ disk' = [disk EXCEPT ![O.file] = O.content] /\ O.op # "keep"
  BY DEF Write, At, TypeInv, InstOK
<1>2. O \in Todo /\ O \in Ops /\ inst.at # "idle"
  BY <1>1, AtHand DEF TypeInv
<1>3. Fits(O, inst.ver, inst.mode, ~purged) /\ inst.ver \in Versions /\ inst.mode \in Modes
  BY <1>2 DEF TypeInv, PlanInv, InstOK
<1>4. O.file \in Files /\ O.content \in Contents
  BY <1>2 DEF Ops
<1>5. PICK f \in Files : f = O.file
  BY <1>4
<1>6. PICK c \in Contents : c = O.content
  BY <1>4
<1>7. disk' = [disk EXCEPT ![f] = c] /\ disk \in [Files -> Contents]
  BY <1>1, <1>5, <1>6 DEF TypeInv, DiskOK
<1>8. f \in Plain => c.kind \in {"absent", "ds", "stub"} /\ c.own = {}
  BY <1>1, <1>3, <1>5, <1>6, ContentKinds DEF Fits
<1>9. f \in Docs => c.kind = "sound"
  BY <1>3, <1>5, <1>6 DEF Fits, Docs
<1>10. f = Settings => c.ours \subseteq Modes
  BY <1>3, <1>5, <1>6 DEF Fits
<1>11. Plain \subseteq Files /\ Docs \subseteq Files /\ Settings \in Files /\ (f \in Plain \/ f \in Docs)
  BY DEF Files, Docs
<1>12. QED
  BY <1>7, <1>8, <1>9, <1>10, <1>11 DEF TypeInv, DiskOK

(* What an uninstall leaves on disk. *)
LEMMA DocDisk ==
    ASSUME DiskOK, NEW c \in Contents, c.kind \in {"sound", "foreign"}, c.ours = {},
           disk' = [disk EXCEPT ![Settings] = c]
    PROVE  DiskOK'
<1>1. Plain \subseteq Files /\ Docs \subseteq Files /\ Settings \in Files /\ Settings \notin Plain
  BY FilesAssumption DEF Files, Docs
<1>2. QED
  BY <1>1 DEF DiskOK

(* What an edit does. *)
LEMMA EditEffect ==
    ASSUME TypeInv, NEW f \in Files, Edit(f)
    PROVE  \E k \in Tokens, c \in Contents :
             /\ k = MaxEdits - left.edits + 1 /\ left.edits > 0
             /\ left' = [left EXCEPT !.edits = @ - 1]
             /\ disk' = [disk EXCEPT ![f] = c] /\ c.kind \in {"own", "sound", "foreign"}
             /\ c.own = (IF f \in Plain THEN {} ELSE disk[f].own) \cup {k}
             /\ f \in Plain => c.kind = "own"
             /\ f \in Docs => c.kind # "own" /\ c.ours = (IF c.kind = "sound" THEN disk[f].ours ELSE {})
<1>1. PICK k : k = MaxEdits - left.edits + 1
  OBVIOUS
<1>2. left.edits > 0 /\ left.edits \in 0..MaxEdits /\ MaxEdits \in Nat
  BY BoundsAssumption DEF Edit, TypeInv, RestOK
<1>3. k \in Tokens
  BY <1>1, <1>2 DEF Tokens
<1>4. PICK kind \in (IF f \in Plain THEN {"own"} ELSE {"sound", "foreign"}) :
        disk' = [disk EXCEPT ![f] =
                 Content(kind, IF kind = "sound" THEN @.ours ELSE {},
                         IF f \in Plain THEN {k} ELSE @.own \cup {k})]
  BY <1>1 DEF Edit
<1>5. disk \in [Files -> Contents] /\ disk[f] \in Contents
  BY DEF TypeInv, DiskOK
<1>6. PICK c : c = Content(kind, IF kind = "sound" THEN disk[f].ours ELSE {},
                         IF f \in Plain THEN {k} ELSE disk[f].own \cup {k})
  OBVIOUS
<1>7. c \in Contents
  BY <1>3, <1>4, <1>5, <1>6 DEF Content, Contents
<1>8. /\ c.kind = kind /\ c.ours = (IF kind = "sound" THEN disk[f].ours ELSE {})
      /\ c.own = IF f \in Plain THEN {k} ELSE disk[f].own \cup {k}
  BY <1>6 DEF Content
<1>9. disk' = [disk EXCEPT ![f] = c]
  BY <1>4, <1>5, <1>6
<1>10. left' = [left EXCEPT !.edits = @ - 1]
  BY DEF Edit
<1>11. c.own = (IF f \in Plain THEN {} ELSE disk[f].own) \cup {k}
  BY <1>8
<1>12. (f \in Plain => c.kind = "own") /\ (f \in Docs => c.kind # "own") /\ c.kind \in {"own", "sound", "foreign"}
  BY <1>4, <1>8, FilesAssumption
<1>13. QED
  BY <1>1, <1>2, <1>3, <1>7, <1>8, <1>9, <1>10, <1>11, <1>12

(* What an edit leaves on disk. *)
LEMMA EditDisk ==
    ASSUME TypeInv, NEW f \in Files, Edit(f)
    PROVE  DiskOK'
<1>1. PICK k \in Tokens, c \in Contents :
             /\ disk' = [disk EXCEPT ![f] = c] /\ c.kind \in {"own", "sound", "foreign"}
             /\ f \in Plain => c.kind = "own"
             /\ f \in Docs => c.kind # "own" /\ c.ours = (IF c.kind = "sound" THEN disk[f].ours ELSE {})
  BY EditEffect
<1>2. Plain \subseteq Files /\ Docs \subseteq Files /\ Settings \in Docs
  BY DEF Files, Docs
<1>3. QED
  BY <1>1, <1>2 DEF TypeInv, DiskOK

(* The types hold at first. *)
LEMMA TypeInit == Init => TypeInv
<1> SUFFICES ASSUME Init PROVE TypeInv
  OBVIOUS
<1>1. inst.at = "idle" /\ Todo = {} /\ InstOK
  <2>1. inst = IdleInstall
    BY DEF Init
  <2>2. Nothing \in [Plain -> Entered] /\ <<>> \in Seq(Ops)
    BY DEF Nothing, Entered
  <2>3. inst.at = "idle" /\ inst.plan = <<>>
    BY <2>1 DEF IdleInstall
  <2>4. inst \in [at : {"idle", "op", "write", "fill"}, ver : Versions \cup {"none"},
                 mode : Modes \cup {"none"}, plan : Seq(Ops), log : [Plain -> Entered],
                 touched : SUBSET Files]
    BY <2>1, <2>2 DEF IdleInstall
  <2>5. Todo = {}
    BY <2>3 DEF Todo, ToSet
  <2>6. QED
    BY <2>1, <2>3, <2>4, <2>5 DEF InstOK
<1>2. UninOK
  BY DEF Init, UninOK, IdleUninstall
<1>3. PlanInv
  BY <1>1 DEF PlanInv
<1>4. manifest \in [Plain -> Entered] /\ DiskOK
  <2>1. CASE disk = [f \in Files |-> Absent] /\ manifest = Nothing
    <3>1. manifest \in [Plain -> Entered]
      BY <2>1 DEF Nothing, Entered
    <3>2. Plain \subseteq Files /\ Docs \subseteq Files /\ Settings \in Files /\ Absent \in Contents
      BY ContentTypes DEF Files, Docs
    <3>3. Absent.kind = "absent" /\ Absent.own = {} /\ Absent.ours = {}
      BY DEF Absent, Content
    <3>4. DiskOK
      BY <2>1, <3>2, <3>3 DEF DiskOK
    <3>5. QED
      BY <3>1, <3>4
  <2>2. CASE \E v \in Versions :
            /\ manifest = [f \in Plain |-> IF f \in Ships[v] THEN Copy(v) ELSE Absent]
            /\ disk = [f \in Files |-> CASE f \in Plain  -> manifest[f]
                                         [] f = Settings -> Content("sound", {"files"}, {})
                                         [] f = ClaudeMd -> Content("sound", {v}, {})]
    <3>1. PICK v \in Versions :
            /\ manifest = [f \in Plain |-> IF f \in Ships[v] THEN Copy(v) ELSE Absent]
            /\ disk = [f \in Files |-> CASE f \in Plain  -> manifest[f]
                                         [] f = Settings -> Content("sound", {"files"}, {})
                                         [] f = ClaudeMd -> Content("sound", {v}, {})]
      BY <2>2
    <3>2. manifest \in [Plain -> Entered] /\ \A f \in Plain : manifest[f] \in {Copy(v), Absent}
      BY <3>1 DEF Entered
    <3>3. \A f \in Plain : disk[f] = manifest[f]
      <4>1. TAKE f \in Plain
      <4>2. f # Settings /\ f # ClaudeMd /\ f \in Files
        BY FileKinds
      <4>3. QED
        BY <3>1, <4>2, Zenon
    <3>4. disk[Settings] = Content("sound", {"files"}, {}) /\ disk[ClaudeMd] = Content("sound", {v}, {})
      <4>1. Settings \in Files /\ ClaudeMd \in Files /\ Settings # ClaudeMd
            /\ Settings \notin Plain /\ ClaudeMd \notin Plain
        BY FileKinds
      <4>2. QED
        BY <3>1, <4>1, Zenon
    <3>5. disk = [f \in Files |-> disk[f]]
      <4> DEFINE E(f) == CASE f \in Plain  -> manifest[f]
                           [] f = Settings -> Content("sound", {"files"}, {})
                           [] f = ClaudeMd -> Content("sound", {v}, {})
      <4>1. disk = [f \in Files |-> E(f)]
        BY <3>1
      <4> HIDE DEF E
      <4>2. QED
        BY <4>1
    <3>6. \A f \in Files : disk[f] \in Contents
      <4>1. Content("sound", {"files"}, {}) \in Contents /\ Content("sound", {v}, {}) \in Contents
        BY DEF Content, Contents, Modes
      <4>2. \A f \in Plain : disk[f] \in Contents
        BY <3>2, <3>3, ContentTypes
      <4>3. QED
        BY <3>4, <4>1, <4>2 DEF Files, Docs
    <3>7. \A f \in Plain : disk[f].kind \in {"absent", "ds"} /\ disk[f].own = {}
      BY <3>2, <3>3, ContentKinds
    <3>8. \A d \in Docs : disk[d].kind = "sound"
      BY <3>4 DEF Docs, Content
    <3>9. disk[Settings].ours \subseteq Modes
      BY <3>4 DEF Content, Modes
    <3>10. \A f \in Files : disk[f].kind = "absent" => disk[f].own = {}
      BY <3>7, <3>8 DEF Files
    <3>11. disk \in [Files -> Contents]
      BY <3>5, <3>6
    <3>12. DiskOK
      BY <3>7, <3>8, <3>9, <3>10, <3>11 DEF DiskOK
    <3>13. QED
      BY <3>2, <3>12
  <2>3. QED
    BY <2>1, <2>2 DEF Init
<1>5. RestOK
  <2>1. session \in [Sessions -> [cmds : SUBSET Modes, sound : BOOLEAN]]
    <3>1. NoSession \in [cmds : SUBSET Modes, sound : BOOLEAN]
      BY DEF NoSession
    <3>2. QED
      BY <3>1 DEF Init
  <2>2. left \in [installs : Nat, uninstalls : Nat, edits : 0..MaxEdits, deaths : Nat]
    BY BoundsAssumption DEF Init
  <2>3. QED
    BY <1>4, <2>1, <2>2 DEF Init, RestOK
<1>6. QED
  BY <1>1, <1>2, <1>3, <1>4, <1>5 DEF TypeInv

(* The types are preserved by every step. *)
LEMMA TypeStep == TypeInv /\ [Next]_vars => TypeInv'
<1> SUFFICES ASSUME TypeInv, [Next]_vars PROVE TypeInv'
  OBVIOUS
<1> USE DEF TypeInv
<1>1. ASSUME NEW v \in Versions, NEW mode \in Modes, NEW purge \in BOOLEAN, StartInstall(v, mode, purge)
      PROVE  TypeInv'
  <2>1. UNCHANGED <<disk, manifest, saved, app, session, unin, gone, risked, unknown>>
    BY <1>1 DEF StartInstall
  <2>2. DiskOK' /\ UninOK'
    BY <2>1 DEF DiskOK, UninOK
  <2>3. /\ InstOK' /\ inst'.ver = v /\ inst'.mode = mode /\ Todo' = ToSet(Plan(v, mode, purge))
    BY <1>1, StartEffect
  <2>4. purged' = (purged \/ (purge /\ mode = "module")) /\ left.installs > 0
        /\ left' = [left EXCEPT !.installs = @ - 1]
    BY <1>1 DEF StartInstall
  <2>5. RestOK'
    BY <2>1, <2>4 DEF RestOK
  <2>6. PICK pure \in BOOLEAN : pure = ~purged'
    OBVIOUS
  <2>7. pure => ~(purge /\ mode = "module")
    BY <2>4, <2>6
  <2>8. PICK P : P = ToSet(Plan(v, mode, purge))
    OBVIOUS
  <2>9. (\A o \in P : Fits(o, v, mode, pure)) /\ (\A o, u \in P : o.file = u.file => o = u)
    BY <2>7, <2>8, PlanFits
  <2>10. PlanInv'
    <3>1. \A o \in Todo' : Fits(o, inst'.ver, inst'.mode, ~purged')
      BY <2>3, <2>6, <2>8, <2>9
    <3>2. \A o, u \in Todo' : o.file = u.file => o = u
      BY <2>3, <2>8, <2>9
    <3>3. QED
      BY <3>1, <3>2 DEF PlanInv, Fits
  <2>11. QED
    BY <2>2, <2>3, <2>5, <2>10
<1>2. ASSUME NoteKept PROVE TypeInv'
  <2>1. UNCHANGED <<disk, manifest, saved, app, session, unin, left, hist>> /\ Advance(Kept)
        /\ inst.plan # <<>>
    BY <1>2 DEF NoteKept, At
  <2>2. InstOK' /\ inst'.ver = inst.ver /\ inst'.mode = inst.mode /\ Todo' \subseteq Todo
    BY <2>1, AdvanceEffect DEF Entered
  <2>3. PlanInv'
    BY <2>1, <2>2, PlanCarried, AtHand DEF hist
  <2>4. DiskOK' /\ UninOK' /\ RestOK'
    BY <2>1 DEF DiskOK, UninOK, RestOK, hist
  <2>5. QED
    BY <2>2, <2>3, <2>4
<1>3. ASSUME PassOver PROVE TypeInv'
  <2>1. UNCHANGED <<disk, manifest, saved, app, session, unin, left, hist>> /\ inst.plan # <<>>
    BY <1>3 DEF PassOver, At
  <2>2. PICK entry : Advance(entry) /\ entry \in {O.content, Absent}
    BY <1>3 DEF PassOver
  <2>3. O \in Todo /\ inst.at # "idle" /\ inst.ver \in Versions
    BY <2>1, AtHand DEF InstOK
  <2>4. Fits(O, inst.ver, inst.mode, ~purged)
    BY <2>3 DEF PlanInv
  <2>5. O.file \in Plain => entry \in Entered
    BY <2>2, <2>3, <2>4, FitsEntered DEF Entered
  <2>6. InstOK' /\ inst'.ver = inst.ver /\ inst'.mode = inst.mode /\ Todo' \subseteq Todo
    BY <2>1, <2>2, <2>5, AdvanceEffect
  <2>7. PlanInv'
    BY <2>1, <2>3, <2>6, PlanCarried DEF hist
  <2>8. DiskOK' /\ UninOK' /\ RestOK'
    BY <2>1 DEF DiskOK, UninOK, RestOK, hist
  <2>9. QED
    BY <2>6, <2>7, <2>8
<1>4. ASSUME Backup PROVE TypeInv'
  <2>1. /\ InstOK' /\ inst'.ver = inst.ver /\ inst'.mode = inst.mode /\ Todo' = Todo
        /\ inst.at # "idle" /\ inst.plan # <<>>
    BY <1>4, BackupEffect
  <2>2. UNCHANGED <<disk, manifest, app, session, unin, left, hist>>
        /\ saved' = (IF O.backup THEN saved \cup disk[O.file].own ELSE saved)
    BY <1>4 DEF Backup
  <2>3. O.file \in Files
    BY <2>1, AtHand DEF Ops
  <2>4. disk[O.file].own \subseteq Tokens
    BY <2>3 DEF DiskOK, Contents
  <2>5. DiskOK' /\ UninOK' /\ RestOK'
    BY <2>2, <2>4 DEF DiskOK, UninOK, RestOK, hist
  <2>6. PlanInv'
    BY <2>1, <2>2, PlanCarried DEF hist
  <2>7. QED
    BY <2>1, <2>5, <2>6
<1>5. ASSUME Write PROVE TypeInv'
  <2>1. UNCHANGED <<manifest, saved, app, session, unin, left, hist>> /\ Advance(O.content) /\ inst.plan # <<>>
    BY <1>5 DEF Write, At
  <2>2. O \in Todo /\ inst.at # "idle" /\ inst.ver \in Versions
    BY <2>1, AtHand DEF InstOK
  <2>3. Fits(O, inst.ver, inst.mode, ~purged)
    BY <2>2 DEF PlanInv
  <2>4. O.file \in Plain => O.content \in Entered
    BY <2>2, <2>3, FitsEntered
  <2>5. InstOK' /\ inst'.ver = inst.ver /\ inst'.mode = inst.mode /\ Todo' \subseteq Todo
    BY <2>1, <2>4, AdvanceEffect
  <2>6. PlanInv'
    BY <2>1, <2>2, <2>5, PlanCarried DEF hist
  <2>7. UninOK' /\ RestOK'
    BY <2>1 DEF UninOK, RestOK, hist
  <2>8. DiskOK'
    BY <1>5, WriteDisk
  <2>9. QED
    BY <2>5, <2>6, <2>7, <2>8
<1>6. ASSUME TruncateManifest PROVE TypeInv'
  <2>1. InstOK' /\ Todo' = {}
    BY <1>6, TruncateEffect
  <2>2. UNCHANGED <<disk, saved, app, session, unin, left, hist>> /\ manifest' = Nothing
    BY <1>6 DEF TruncateManifest
  <2>3. Nothing \in [Plain -> Entered]
    BY DEF Nothing, Entered
  <2>4. DiskOK' /\ UninOK' /\ RestOK'
    BY <2>2, <2>3 DEF DiskOK, UninOK, RestOK, hist
  <2>5. PlanInv'
    BY <2>1 DEF PlanInv
  <2>6. QED
    BY <2>1, <2>4, <2>5
<1>7. ASSUME FillManifest PROVE TypeInv'
  <2>1. UNCHANGED <<disk, saved, app, session, unin, left, gone, risked, purged>>
        /\ inst' = IdleInstall /\ manifest' = inst.log /\ unknown' \subseteq unknown
    BY <1>7 DEF FillManifest
  <2>2. InstOK' /\ Todo' = {}
    BY <2>1, IdleEffect
  <2>3. inst.log \in [Plain -> Entered]
    BY DEF InstOK
  <2>4. DiskOK' /\ UninOK' /\ RestOK'
    BY <2>1, <2>3 DEF DiskOK, UninOK, RestOK
  <2>5. PlanInv'
    BY <2>2 DEF PlanInv
  <2>6. QED
    BY <2>2, <2>4, <2>5
<1>8. ASSUME DieInstall PROVE TypeInv'
  <2>1. UNCHANGED <<disk, manifest, saved, app, session, unin, gone, risked, purged>>
        /\ inst' = IdleInstall /\ left' = [left EXCEPT !.deaths = @ - 1] /\ left.deaths > 0
    BY <1>8 DEF DieInstall
  <2>2. unknown' \subseteq unknown \cup Plain
    BY <1>8 DEF DieInstall
  <2>3. InstOK' /\ Todo' = {}
    BY <2>1, IdleEffect
  <2>4. DiskOK' /\ UninOK' /\ RestOK'
    BY <2>1, <2>2 DEF DiskOK, UninOK, RestOK
  <2>5. PlanInv'
    BY <2>3 DEF PlanInv
  <2>6. QED
    BY <2>3, <2>4, <2>5
<1>9. ASSUME LoadSettings PROVE TypeInv'
  <2>1. UNCHANGED <<disk, manifest, saved, app, session, inst, hist>>
        /\ unin' = [at |-> "loaded", own |-> disk[Settings].own]
        /\ left' = [left EXCEPT !.uninstalls = @ - 1] /\ left.uninstalls > 0
    BY <1>9 DEF LoadSettings
  <2>2. disk[Settings].own \in SUBSET Tokens
    BY FileKinds DEF DiskOK, Contents
  <2>3. UninOK'
    BY <2>1, <2>2 DEF UninOK
  <2>4. DiskOK' /\ RestOK' /\ InstOK'
    BY <2>1 DEF DiskOK, RestOK, InstOK, hist, O
  <2>5. PlanInv'
    BY <2>1 DEF PlanInv, Todo, Fits, hist
  <2>6. QED
    BY <2>3, <2>4, <2>5
<1>10. ASSUME TruncateSettings PROVE TypeInv'
  <2>1. UNCHANGED <<manifest, saved, app, session, left, hist>>
        /\ unin.at = "loaded" /\ unin' = [unin EXCEPT !.at = "fill"] /\ inst' = Touch(Settings)
        /\ disk' = [disk EXCEPT ![Settings] = Content("foreign", {}, {})]
    BY <1>10 DEF TruncateSettings
  <2>2. DiskOK'
    <3>1. PICK c \in Contents : c = Content("foreign", {}, {})
      BY DEF Content, Contents
    <3>2. c.kind = "foreign" /\ c.ours = {}
      BY <3>1 DEF Content
    <3>3. QED
      BY <2>1, <3>1, <3>2, DocDisk
  <2>3. /\ InstOK' /\ inst'.ver = inst.ver /\ inst'.mode = inst.mode /\ Todo' = Todo /\ inst'.at = inst.at
    BY <2>1, TouchEffect, FileKinds
  <2>4. PlanInv'
    BY <2>1, <2>3 DEF PlanInv, Fits, hist
  <2>5. UninOK' /\ RestOK'
    BY <2>1 DEF UninOK, RestOK, hist
  <2>6. QED
    BY <2>2, <2>3, <2>4, <2>5
<1>11. ASSUME FillSettings PROVE TypeInv'
  <2>1. UNCHANGED <<manifest, saved, app, session, left, gone, unknown, purged>>
        /\ unin.at = "fill" /\ unin' = IdleUninstall /\ inst' = Touch(Settings)
        /\ disk' = [disk EXCEPT ![Settings] = Content("sound", {}, unin.own)]
        /\ risked' \subseteq risked \cup unin.own
    BY <1>11 DEF FillSettings
  <2>2. unin.own \in SUBSET Tokens
    BY DEF UninOK
  <2>3. DiskOK'
    <3>1. PICK c \in Contents : c = Content("sound", {}, unin.own)
      BY <2>2 DEF Content, Contents
    <3>2. c.kind = "sound" /\ c.ours = {}
      BY <3>1 DEF Content
    <3>3. QED
      BY <2>1, <3>1, <3>2, DocDisk
  <2>4. /\ InstOK' /\ inst'.ver = inst.ver /\ inst'.mode = inst.mode /\ Todo' = Todo /\ inst'.at = inst.at
    BY <2>1, TouchEffect, FileKinds
  <2>5. PlanInv'
    BY <2>1, <2>4 DEF PlanInv, Fits
  <2>6. UninOK' /\ RestOK'
    BY <2>1, <2>2 DEF UninOK, RestOK, IdleUninstall
  <2>7. QED
    BY <2>3, <2>4, <2>5, <2>6
<1>12. ASSUME DieUninstall PROVE TypeInv'
  <2>1. UNCHANGED <<disk, manifest, saved, app, session, inst, gone, unknown, purged>>
        /\ unin' = IdleUninstall /\ risked' \subseteq risked \cup unin.own
        /\ left' = [left EXCEPT !.deaths = @ - 1] /\ left.deaths > 0
    BY <1>12 DEF DieUninstall
  <2>2. unin.own \in SUBSET Tokens
    BY DEF UninOK
  <2>3. DiskOK' /\ RestOK' /\ InstOK' /\ UninOK'
    BY <2>1, <2>2 DEF DiskOK, RestOK, InstOK, O, UninOK, IdleUninstall
  <2>4. PlanInv'
    BY <2>1 DEF PlanInv, Todo, Fits
  <2>5. QED
    BY <2>3, <2>4
<1>13. ASSUME GoLive PROVE TypeInv'
  <2>1. UNCHANGED <<disk, manifest, saved, session, inst, unin, left, hist>> /\ app' = TRUE
    BY <1>13 DEF GoLive
  <2>2. DiskOK' /\ RestOK' /\ InstOK' /\ UninOK'
    BY <2>1 DEF DiskOK, RestOK, InstOK, O, UninOK, hist
  <2>3. PlanInv'
    BY <2>1 DEF PlanInv, Todo, Fits, hist
  <2>4. QED
    BY <2>2, <2>3
<1>14. ASSUME NEW f \in Files, Edit(f) PROVE TypeInv'
  <2>1. UNCHANGED <<manifest, saved, app, session, unin, unknown, purged>> /\ inst' = Touch(f)
        /\ gone' = (IF f \in Plain THEN gone \cup disk[f].own ELSE gone)
    BY <1>14 DEF Edit
  <2>2. PICK k \in Tokens : k = MaxEdits - left.edits + 1 /\ left.edits > 0
             /\ left' = [left EXCEPT !.edits = @ - 1]
    BY <1>14, EditEffect
  <2>3. risked' \subseteq risked \cup {k}
    BY <1>14, <2>2 DEF Edit
  <2>4. disk[f].own \subseteq Tokens
    BY DEF DiskOK, Contents
  <2>5. /\ InstOK' /\ inst'.ver = inst.ver /\ inst'.mode = inst.mode /\ Todo' = Todo /\ inst'.at = inst.at
    BY <2>1, TouchEffect
  <2>6. PlanInv'
    BY <2>1, <2>5 DEF PlanInv, Fits
  <2>7. UninOK' /\ RestOK'
    BY <2>1, <2>2, <2>3, <2>4, BoundsAssumption DEF UninOK, RestOK
  <2>8. DiskOK'
    BY <1>14, EditDisk
  <2>9. QED
    BY <2>5, <2>6, <2>7, <2>8
<1>15. ASSUME NEW s \in Sessions, StartSession(s) PROVE TypeInv'
  <2>1. UNCHANGED <<disk, manifest, saved, app, inst, unin, left, hist>>
    BY <1>15 DEF StartSession
  <2>2. disk[Settings].ours \in SUBSET Modes
    BY DEF DiskOK
  <2>3. PICK r \in [cmds : SUBSET Modes, sound : BOOLEAN] : session' = [session EXCEPT ![s] = r]
    <3>1. PICK b \in BOOLEAN : b = (\A c \in disk[Settings].ours : Runs(c))
      OBVIOUS
    <3>2. session' = [session EXCEPT ![s] = [cmds |-> disk[Settings].ours, sound |-> b]]
      BY <1>15, <3>1 DEF StartSession
    <3>3. QED
      BY <2>2, <3>2
  <2>4. RestOK'
    BY <2>1, <2>3 DEF RestOK, hist
  <2>5. DiskOK' /\ InstOK' /\ UninOK'
    BY <2>1 DEF DiskOK, InstOK, O, UninOK
  <2>6. PlanInv'
    BY <2>1 DEF PlanInv, Todo, Fits, hist
  <2>7. QED
    BY <2>4, <2>5, <2>6
<1>16. ASSUME UNCHANGED vars PROVE TypeInv'
  <2>1. DiskOK' /\ RestOK' /\ InstOK' /\ UninOK'
    BY <1>16 DEF DiskOK, RestOK, InstOK, O, UninOK, hist, vars
  <2>2. PlanInv'
    BY <1>16 DEF PlanInv, Todo, Fits, hist, vars
  <2>3. QED
    BY <2>1, <2>2
<1>17. QED
  BY <1>1, <1>2, <1>3, <1>4, <1>5, <1>6, <1>7, <1>8, <1>9, <1>10, <1>11, <1>12, <1>13, <1>14,
     <1>15, <1>16 DEF Next, Install, Uninstall

(* Every variable keeps its type, for any files, versions and bounds. *)
THEOREM IntegrationTypeCorrect == Spec => []TypeOK
<1>1. TypeInv => TypeOK
  <2>1. ASSUME TypeInv PROVE TypeOK
    <3>1. \A f \in Plain : manifest[f].kind \in {"absent", "ds", "stub", "kept"}
      BY <2>1, ContentKinds DEF TypeInv, RestOK
    <3>2. QED
      BY <2>1, <3>1 DEF TypeOK, TypeInv, DiskOK, InstOK, UninOK, RestOK
  <2>2. QED
    BY <2>1
<1>2. QED
  BY <1>1, TypeInit, TypeStep, PTL DEF Spec

-----------------------------------------------------------------------------
(* Sessions.                                                               *)

(* No step takes an entry script away, unless hooks were purged, nor the app. *)
LEMMA EntriesStay ==
    ASSUME TypeInv, [Next]_vars, ~purged'
    PROVE  ~purged /\ (app => app') /\ \A e \in Entries : Exists(e) => Exists(e)'
<1>1. ~purged
  BY DEF Next, Install, Uninstall, StartInstall, NoteKept, PassOver, Backup, Write, TruncateManifest,
     FillManifest, DieInstall, LoadSettings, TruncateSettings, FillSettings, DieUninstall, GoLive,
     Edit, StartSession, vars, hist
<1>2. app => app'
  BY DEF Next, Install, Uninstall, StartInstall, NoteKept, PassOver, Backup, Write, TruncateManifest,
     FillManifest, DieInstall, LoadSettings, TruncateSettings, FillSettings, DieUninstall, GoLive,
     Edit, StartSession, vars, hist
<1>3. ASSUME NEW e \in Entries, Exists(e) PROVE Exists(e)'
  <2>1. e \in Files /\ e # Settings /\ e \in Plain
    BY FileKinds
  <2>2. CASE disk' = disk
    BY <1>3, <2>2 DEF Exists
  <2>3. CASE Write
    <3>1. inst.at = "write" /\ inst.plan # <<>> /\ disk' = [disk EXCEPT ![O.file] = O.content]
      BY <2>3 DEF Write, At
    <3>2. O \in Todo /\ inst.ver \in Versions /\ inst.at # "idle"
      BY <3>1, AtHand DEF TypeInv, InstOK
    <3>3. Fits(O, inst.ver, inst.mode, ~purged)
      BY <3>2 DEF TypeInv, PlanInv
    <3>4. e \in Ships[inst.ver]
      BY <3>2, ShipsAssumption
    <3>5. O.file = e => O.content \in {Copy(inst.ver), Stub, Kept}
      BY <1>1, <2>1, <3>3, <3>4 DEF Fits
    <3>6. O.file = e => O.content.kind # "absent"
      BY <3>5, ContentKinds
    <3>7. QED
      BY <1>3, <2>1, <3>1, <3>6 DEF Exists, TypeInv, DiskOK
  <2>4. CASE \E c : disk' = [disk EXCEPT ![Settings] = c]
    BY <1>3, <2>1, <2>4 DEF Exists, TypeInv, DiskOK
  <2>5. CASE \E f \in Files : Edit(f)
    <3>1. PICK f \in Files : Edit(f)
      BY <2>5
    <3>2. PICK c \in Contents : disk' = [disk EXCEPT ![f] = c] /\ c.kind # "absent"
      BY <3>1, EditEffect
    <3>3. QED
      BY <1>3, <2>1, <3>2 DEF Exists, TypeInv, DiskOK
  <2>6. QED
    BY <2>2, <2>3, <2>4, <2>5 DEF Next, Install, Uninstall, StartInstall, NoteKept, PassOver, Backup,
       TruncateManifest, FillManifest, DieInstall, LoadSettings, TruncateSettings, FillSettings,
       DieUninstall, GoLive, StartSession, vars
<1>4. QED
  BY <1>1, <1>2, <1>3

(* A step leaves the commands of a session running. *)
LEMMA SessionStep == TypeInv /\ SessionsKeepHooks /\ [Next]_vars => SessionsKeepHooks'
<1> SUFFICES ASSUME TypeInv, SessionsKeepHooks, [Next]_vars, ~purged',
                    NEW s \in Sessions, session'[s].sound, NEW c \in session'[s].cmds
             PROVE  Runs(c)'
  BY DEF SessionsKeepHooks
<1>1. ~purged /\ (app => app') /\ \A e \in Entries : Exists(e) => Exists(e)'
  BY EntriesStay
<1>2. ASSUME NEW m, Runs(m) PROVE Runs(m)'
  BY <1>1, <1>2 DEF Runs
<1>3. CASE session' = session
  <2>1. Runs(c)
    BY <1>1, <1>3 DEF SessionsKeepHooks
  <2>2. QED
    BY <1>2, <2>1
<1>4. CASE \E t \in Sessions : StartSession(t)
  <2>1. PICK t \in Sessions : StartSession(t)
    BY <1>4
  <2>2. PICK b \in BOOLEAN : b = (\A m \in disk[Settings].ours : Runs(m))
    OBVIOUS
  <2>3. session' = [session EXCEPT ![t] = [cmds |-> disk[Settings].ours, sound |-> b]]
    BY <2>1, <2>2 DEF StartSession
  <2>4. session \in [Sessions -> [cmds : SUBSET Modes, sound : BOOLEAN]]
    BY DEF TypeInv, RestOK
  <2>5. CASE s = t
    <3>1. session'[s].cmds = disk[Settings].ours /\ session'[s].sound = b
      BY <2>3, <2>4, <2>5
    <3>2. Runs(c)
      BY <2>2, <3>1
    <3>3. QED
      BY <1>2, <3>2
  <2>6. CASE s # t
    <3>1. session'[s] = session[s]
      BY <2>3, <2>4, <2>6
    <3>2. Runs(c)
      BY <1>1, <3>1 DEF SessionsKeepHooks
    <3>3. QED
      BY <1>2, <3>2
  <2>7. QED
    BY <2>5, <2>6
<1>5. QED
  BY <1>3, <1>4 DEF Next, Install, Uninstall, StartInstall, NoteKept, PassOver, Backup, Write,
     TruncateManifest, FillManifest, DieInstall, LoadSettings, TruncateSettings, FillSettings,
     DieUninstall, GoLive, Edit, vars

(* The hooks of a running session keep running through every install, upgrade,
   mode change and uninstall, of any number of versions, unless retired hooks
   were purged (_stale_hook_copy_ops).                                       *)
THEOREM RunningHooksSurvive == Spec => []SessionsKeepHooks
<1>1. Init => SessionsKeepHooks
  BY DEF Init, SessionsKeepHooks, NoSession
<1>2. QED
  BY <1>1, TypeInit, TypeStep, SessionStep, PTL DEF Spec

-----------------------------------------------------------------------------
(* The operator's text.                                                    *)

(* Where the operator's text may be. *)
Somewhere == Tokened \cup saved \cup gone \cup risked

(* Tokens are somewhere when a step leaves the counter of edits alone. *)
LEMMA StillSomewhere ==
    ASSUME NothingLost, left'.edits = left.edits, \A t \in Somewhere : t \in Somewhere'
    PROVE  NothingLost'
BY DEF NothingLost, Somewhere

(* A step that changes no text. *)
LEMMA QuietTokens ==
    ASSUME TypeInv, TokenInv, UNCHANGED <<disk, unin, saved, gone, risked>>, left'.edits = left.edits,
           Todo' \subseteq Todo, inst'.at = "write" => inst.at = "write" /\ O' = O
    PROVE  TokenInv'
<1>1. \A t \in Somewhere : t \in Somewhere'
  BY DEF Somewhere, Tokened
<1>2. NothingLost'
  BY <1>1, StillSomewhere DEF TokenInv
<1>3. BackupInv'
  BY DEF TokenInv, BackupInv, Safe
<1>4. FreshInv'
  BY DEF TokenInv, FreshInv
<1>5. HandInv'
  BY DEF TokenInv, HandInv, Safe
<1>6. MergeInv'
  BY DEF TokenInv, MergeInv, Safe
<1>7. QED
  BY <1>2, <1>3, <1>4, <1>5, <1>6 DEF TokenInv

(* An install that starts backs up what is there, and merges what it read. *)
LEMMA StartTokens ==
    ASSUME TypeInv, TokenInv, NEW v \in Versions, NEW mode \in Modes, NEW purge \in BOOLEAN,
           StartInstall(v, mode, purge)
    PROVE  TokenInv'
<1>1. UNCHANGED <<disk, unin, saved, gone, risked>> /\ left' = [left EXCEPT !.installs = @ - 1]
  BY DEF StartInstall
<1>2. inst'.at = "op" /\ Todo' = ToSet(Plan(v, mode, purge))
  BY StartEffect DEF TypeInv
<1>3. PICK P : P = ToSet(Plan(v, mode, purge))
  OBVIOUS
<1>4. \A o \in P : Suits(o)
  <2>1. PICK pure \in BOOLEAN : pure = FALSE
    OBVIOUS
  <2>2. QED
    BY <1>3, <2>1, PlanFits DEF TypeInv
<1>5. left'.edits = left.edits
  BY <1>1 DEF TypeInv, RestOK
<1>6. NothingLost'
  <2>1. \A t \in Somewhere : t \in Somewhere'
    BY <1>1 DEF Somewhere, Tokened
  <2>2. QED
    BY <1>5, <2>1, StillSomewhere DEF TokenInv
<1>7. BackupInv'
  BY <1>2 DEF BackupInv
<1>8. FreshInv'
  BY <1>1, <1>2, <1>3, <1>4 DEF FreshInv, Suits
<1>9. HandInv'
  BY <1>1 DEF TokenInv, HandInv, Safe
<1>10. MergeInv'
  <2>1. \A o \in P : o.file = Settings => o.content.own \subseteq disk[Settings].own
    BY <1>4 DEF Suits
  <2>2. unin.at # "idle" => disk[Settings].own \subseteq unin.own \cup Safe
    BY DEF TokenInv, HandInv
  <2>3. QED
    BY <1>1, <1>2, <1>3, <2>1, <2>2 DEF MergeInv, Safe
<1>11. QED
  BY <1>6, <1>7, <1>8, <1>9, <1>10 DEF TokenInv

(* A backup saves what the write will replace. *)
LEMMA BackupTokens ==
    ASSUME TypeInv, TokenInv, Backup
    PROVE  TokenInv'
<1>1. UNCHANGED <<disk, unin, left, gone, risked>>
      /\ saved' = (IF O.backup THEN saved \cup disk[O.file].own ELSE saved)
  BY DEF Backup, hist
<1>2. Todo' = Todo /\ O' = O /\ O.op # "keep" /\ inst.plan # <<>>
  BY BackupEffect DEF TypeInv
<1>3. O \in Todo
  BY <1>2, AtHand DEF TypeInv
<1>4. saved \subseteq saved'
  BY <1>1
<1>5. NothingLost'
  <2>1. \A t \in Somewhere : t \in Somewhere'
    BY <1>1, <1>4 DEF Somewhere, Tokened
  <2>2. QED
    BY <1>1, <2>1, StillSomewhere DEF TokenInv
<1>6. BackupInv'
  <2>1. ~O.backup => disk[O.file].own \subseteq risked
    BY <1>2, <1>3 DEF TokenInv, FreshInv
  <2>2. QED
    BY <1>1, <1>2, <2>1 DEF BackupInv, Safe
<1>7. FreshInv'
  BY <1>1, <1>2 DEF TokenInv, FreshInv
<1>8. HandInv'
  BY <1>1, <1>4 DEF TokenInv, HandInv, Safe
<1>9. MergeInv'
  BY <1>1, <1>2, <1>4 DEF TokenInv, MergeInv, Safe
<1>10. QED
  BY <1>5, <1>6, <1>7, <1>8, <1>9 DEF TokenInv

(* What a write replaces is safe, and it puts back what it merged. *)
LEMMA WriteTokens ==
    ASSUME TypeInv, TokenInv, Write
    PROVE  TokenInv'
<1>1. /\ inst.at = "write" /\ inst.plan # <<>> /\ disk' = [disk EXCEPT ![O.file] = O.content]
      /\ UNCHANGED <<unin, saved, left, gone, risked>> /\ Advance(O.content)
  BY DEF Write, At, hist
<1>2. O \in Todo /\ O \in Ops /\ inst.ver \in Versions /\ inst.at # "idle" /\ O.op # "keep"
  BY <1>1, AtHand DEF TypeInv, InstOK
<1>3. Fits(O, inst.ver, inst.mode, ~purged)
  BY <1>2 DEF TypeInv, PlanInv
<1>4. O.file \in Plain => O.content \in Entered
  BY <1>2, <1>3, FitsEntered
<1>5. inst'.at = "op" /\ Todo' \subseteq Todo
  BY <1>1, <1>4, AdvanceEffect DEF TypeInv
<1>6. PICK f \in Files : f = O.file
  BY <1>2 DEF Ops
<1>7. disk[f].own \subseteq Safe
  BY <1>1, <1>6 DEF TokenInv, BackupInv
<1>8. disk \in [Files -> Contents] /\ Settings \in Files
  BY FileKinds DEF TypeInv, DiskOK
<1>9. disk'[f] = O.content /\ \A g \in Files : g # f => disk'[g] = disk[g]
  BY <1>1, <1>6, <1>8
<1>10. \A o \in Todo : o.file = f => o = O
  BY <1>2, <1>6 DEF TypeInv, PlanInv
<1>11. NothingLost'
  <2>1. \A t \in Somewhere : t \in Somewhere'
    BY <1>1, <1>7, <1>9 DEF Somewhere, Tokened, Safe
  <2>2. QED
    BY <1>1, <2>1, StillSomewhere DEF TokenInv
<1>12. BackupInv'
  BY <1>5 DEF BackupInv
<1>13. FreshInv'
  <2>1. ASSUME ~O.backup PROVE O.content.own = {}
    <3>1. CASE f \in Plain
      BY <1>4, <1>6, <3>1, ContentKinds
    <3>2. CASE f \in Docs
      BY <1>3, <1>6, <2>1, <3>2 DEF Fits, Docs
    <3>3. QED
      BY <3>1, <3>2 DEF Files
  <2>2. ASSUME NEW o \in Todo', o.op # "keep", ~o.backup PROVE disk'[o.file].own \subseteq risked
    <3>1. o \in Todo /\ o \in Ops
      BY <1>2, <1>5, <2>2 DEF TypeInv, PlanInv, Fits
    <3>2. o.file \in Files /\ disk[o.file].own \subseteq risked
      BY <2>2, <3>1 DEF TokenInv, FreshInv, Ops
    <3>3. QED
      BY <1>9, <1>10, <2>1, <2>2, <3>1, <3>2
  <2>3. QED
    BY <1>1, <2>2 DEF FreshInv
<1>14. HandInv'
  <2>1. CASE f = Settings
    <3>1. unin.at # "idle" => O.content.own \subseteq Safe \cup unin.own
      BY <1>2, <1>6, <2>1 DEF TokenInv, MergeInv
    <3>2. unin.at = "loaded" => unin.own \subseteq Safe
      BY <1>7, <2>1 DEF TokenInv, HandInv
    <3>3. QED
      BY <1>1, <1>9, <2>1, <3>1, <3>2 DEF HandInv, Safe
  <2>2. CASE f # Settings
    BY <1>1, <1>8, <1>9, <2>2 DEF TokenInv, HandInv, Safe
  <2>3. QED
    BY <2>1, <2>2
<1>15. MergeInv'
  <2>1. CASE f = Settings
    <3>1. \A o \in Todo' : o.file = Settings => o = O
      BY <1>5, <1>10, <2>1
    <3>2. unin.at # "idle" => O.content.own \subseteq Safe \cup unin.own
      BY <1>2, <1>6, <2>1 DEF TokenInv, MergeInv
    <3>3. QED
      BY <1>1, <1>9, <2>1, <3>1, <3>2 DEF MergeInv, Safe
  <2>2. CASE f # Settings
    <3>1. disk'[Settings] = disk[Settings]
      BY <1>8, <1>9, <2>2
    <3>2. QED
      BY <1>1, <1>5, <3>1 DEF TokenInv, MergeInv, Safe
  <2>3. QED
    BY <2>1, <2>2
<1>16. QED
  BY <1>11, <1>12, <1>13, <1>14, <1>15 DEF TokenInv

(* An uninstall takes the text into its hands and puts it back. *)
LEMMA UninstallTokens ==
    ASSUME TypeInv, TokenInv, Uninstall
    PROVE  TokenInv'
<1>1. Settings \in Files /\ disk \in [Files -> Contents]
  BY FileKinds DEF TypeInv, DiskOK
<1>2. \A o \in Todo : o.file = Settings => o.backup
  <2>1. inst.at = "idle" => Todo = {}
    BY DEF TypeInv, InstOK, IdleInstall, Todo, ToSet
  <2>2. QED
    BY <2>1 DEF TypeInv, PlanInv, Fits
<1>3. CASE LoadSettings
  <2>1. /\ UNCHANGED <<disk, saved, inst, gone, risked>> /\ unin.at = "idle"
        /\ unin' = [at |-> "loaded", own |-> disk[Settings].own]
        /\ left' = [left EXCEPT !.uninstalls = @ - 1]
    BY <1>3 DEF LoadSettings, hist
  <2>2. unin'.at = "loaded" /\ unin'.own = disk[Settings].own /\ unin.own = {} /\ left'.edits = left.edits
    BY <2>1 DEF TypeInv, UninOK, RestOK
  <2>3. Todo' = Todo /\ O' = O
    BY <2>1 DEF Todo, O
  <2>4. NothingLost'
    <3>1. \A t \in Somewhere : t \in Somewhere'
      BY <2>1, <2>2 DEF Somewhere, Tokened
    <3>2. QED
      BY <2>2, <3>1, StillSomewhere DEF TokenInv
  <2>5. BackupInv' /\ FreshInv'
    BY <2>1, <2>3 DEF TokenInv, BackupInv, FreshInv, Safe
  <2>6. HandInv'
    BY <2>1, <2>2 DEF HandInv
  <2>7. MergeInv'
    BY <2>1, <2>2, <2>3 DEF TokenInv, MergeInv, Safe
  <2>8. QED
    BY <2>4, <2>5, <2>6, <2>7 DEF TokenInv
<1>4. CASE TruncateSettings
  <2>1. /\ UNCHANGED <<saved, left, gone, risked>> /\ unin.at = "loaded"
        /\ unin' = [unin EXCEPT !.at = "fill"] /\ inst' = Touch(Settings)
        /\ disk' = [disk EXCEPT ![Settings] = Content("foreign", {}, {})]
    BY <1>4 DEF TruncateSettings, hist
  <2>2. unin'.at = "fill" /\ unin'.own = unin.own
    BY <2>1 DEF TypeInv, UninOK
  <2>3. Todo' = Todo /\ O' = O /\ inst'.at = inst.at
    BY <1>1, <2>1, TouchEffect DEF TypeInv
  <2>4. disk'[Settings].own = {} /\ \A g \in Files : g # Settings => disk'[g] = disk[g]
    BY <1>1, <2>1 DEF Content
  <2>5. disk[Settings].own \subseteq unin.own \cup Safe
    BY <2>1 DEF TokenInv, HandInv
  <2>6. NothingLost'
    <3>1. \A t \in Somewhere : t \in Somewhere'
      BY <2>1, <2>2, <2>4, <2>5 DEF Somewhere, Tokened, Safe
    <3>2. QED
      BY <2>1, <3>1, StillSomewhere DEF TokenInv
  <2>7. BackupInv'
    <3>1. ASSUME inst'.at = "write" PROVE disk'[O.file].own \subseteq Safe
      <4>1. inst.at = "write" /\ inst.plan # <<>>
        BY <2>3, <3>1 DEF TypeInv, InstOK
      <4>2. O.file \in Files /\ disk[O.file].own \subseteq Safe
        BY <4>1, AtHand DEF TypeInv, TokenInv, BackupInv, Ops
      <4>3. QED
        BY <2>4, <4>2
    <3>2. QED
      BY <2>1, <2>3, <3>1 DEF BackupInv, Safe
  <2>8. FreshInv'
    <3>1. \A o \in Todo : o.op # "keep" /\ ~o.backup => disk'[o.file] = disk[o.file]
      <4>1. \A o \in Todo : o.file \in Files
        BY TodoOps DEF TypeInv
      <4>2. QED
        BY <1>2, <2>4, <4>1
    <3>2. QED
      BY <2>1, <2>3, <3>1 DEF TokenInv, FreshInv
  <2>9. HandInv'
    BY <2>2, <2>4 DEF HandInv
  <2>10. MergeInv'
    BY <2>1, <2>2, <2>3 DEF TokenInv, MergeInv, Safe
  <2>11. QED
    BY <2>6, <2>7, <2>8, <2>9, <2>10 DEF TokenInv
<1>5. CASE FillSettings
  <2>1. /\ UNCHANGED <<saved, left, gone>> /\ unin.at = "fill"
        /\ unin' = IdleUninstall /\ inst' = Touch(Settings)
        /\ disk' = [disk EXCEPT ![Settings] = Content("sound", {}, unin.own)]
        /\ risked' = (IF BackedUp(Settings) THEN risked \cup unin.own ELSE risked)
    BY <1>5 DEF FillSettings
  <2>2. unin'.at = "idle" /\ unin'.own = {} /\ risked \subseteq risked'
    BY <2>1 DEF IdleUninstall
  <2>3. Todo' = Todo /\ O' = O /\ inst'.at = inst.at
    BY <1>1, <2>1, TouchEffect DEF TypeInv
  <2>4. disk'[Settings].own = unin.own /\ \A g \in Files : g # Settings => disk'[g] = disk[g]
    BY <1>1, <2>1 DEF Content
  <2>5. disk[Settings].own \subseteq unin.own \cup Safe
    BY <2>1 DEF TokenInv, HandInv
  <2>6. NothingLost'
    <3>1. \A t \in Somewhere : t \in Somewhere'
      BY <1>1, <2>1, <2>2, <2>4, <2>5 DEF Somewhere, Tokened, Safe
    <3>2. QED
      BY <2>1, <3>1, StillSomewhere DEF TokenInv
  <2>7. BackupInv'
    <3>1. ASSUME inst'.at = "write" PROVE disk'[O.file].own \subseteq saved \cup risked'
      <4>1. inst.at = "write" /\ inst.plan # <<>>
        BY <2>3, <3>1 DEF TypeInv, InstOK
      <4>2. O.file \in Files /\ disk[O.file].own \subseteq Safe
        BY <4>1, AtHand DEF TypeInv, TokenInv, BackupInv, Ops
      <4>3. O.file = Settings => risked' = risked \cup unin.own
        BY <2>1, <4>1 DEF BackedUp, At
      <4>4. QED
        BY <2>2, <2>4, <4>2, <4>3 DEF Safe
    <3>2. QED
      BY <2>1, <2>3, <3>1 DEF BackupInv, Safe
  <2>8. FreshInv'
    <3>1. \A o \in Todo : o.op # "keep" /\ ~o.backup => disk'[o.file] = disk[o.file]
      <4>1. \A o \in Todo : o.file \in Files
        BY TodoOps DEF TypeInv
      <4>2. QED
        BY <1>2, <2>4, <4>1
    <3>2. QED
      BY <2>2, <2>3, <3>1 DEF TokenInv, FreshInv
  <2>9. HandInv'
    BY <2>2 DEF HandInv
  <2>10. MergeInv'
    BY <2>1, <2>2, <2>3, <2>4 DEF TokenInv, MergeInv, Safe
  <2>11. QED
    BY <2>6, <2>7, <2>8, <2>9, <2>10 DEF TokenInv
<1>6. CASE DieUninstall
  <2>1. /\ UNCHANGED <<disk, saved, inst, gone>> /\ unin.at # "idle" /\ unin' = IdleUninstall
        /\ left' = [left EXCEPT !.deaths = @ - 1]
        /\ risked' = (IF unin.at = "fill" THEN risked \cup unin.own ELSE risked)
    BY <1>6 DEF DieUninstall
  <2>2. unin'.at = "idle" /\ unin'.own = {} /\ risked \subseteq risked' /\ left'.edits = left.edits
    BY <2>1 DEF IdleUninstall, TypeInv, RestOK
  <2>3. Todo' = Todo /\ O' = O
    BY <2>1 DEF Todo, O
  <2>4. unin.own \subseteq disk[Settings].own \cup saved \cup risked'
    BY <2>1 DEF TypeInv, UninOK, TokenInv, HandInv, Safe
  <2>5. NothingLost'
    <3>1. \A t \in Somewhere : t \in Somewhere'
      BY <1>1, <2>1, <2>2, <2>4 DEF Somewhere, Tokened
    <3>2. QED
      BY <2>2, <3>1, StillSomewhere DEF TokenInv
  <2>6. BackupInv' /\ FreshInv'
    BY <2>1, <2>2, <2>3 DEF TokenInv, BackupInv, FreshInv, Safe
  <2>7. HandInv'
    BY <2>2 DEF HandInv
  <2>8. MergeInv'
    BY <2>1, <2>2, <2>3, <2>4 DEF TokenInv, MergeInv, Safe
  <2>9. QED
    BY <2>5, <2>6, <2>7, <2>8 DEF TokenInv
<1>7. QED
  BY <1>3, <1>4, <1>5, <1>6 DEF Uninstall

(* What the operator writes is on disk, and risked when no backup will see it. *)
LEMMA EditTokens ==
    ASSUME TypeInv, TokenInv, NEW f \in Files, Edit(f)
    PROVE  TokenInv'
<1>1. /\ UNCHANGED <<saved, unin>> /\ inst' = Touch(f)
      /\ gone' = (IF f \in Plain THEN gone \cup disk[f].own ELSE gone)
  BY DEF Edit
<1>2. PICK k \in Tokens, c \in Contents :
        /\ k = MaxEdits - left.edits + 1 /\ left.edits > 0
        /\ left' = [left EXCEPT !.edits = @ - 1]
        /\ disk' = [disk EXCEPT ![f] = c]
        /\ c.own = (IF f \in Plain THEN {} ELSE disk[f].own) \cup {k}
  BY EditEffect
<1>3. risked' = IF Unseen(f) THEN risked \cup {k} ELSE risked
  BY <1>2 DEF Edit
<1>4. Todo' = Todo /\ O' = O /\ inst'.at = inst.at
  BY <1>1, TouchEffect DEF TypeInv
<1>5. disk \in [Files -> Contents] /\ Settings \in Files /\ Settings \notin Plain
  BY FileKinds DEF TypeInv, DiskOK
<1>6. /\ disk'[f].own = (IF f \in Plain THEN {} ELSE disk[f].own) \cup {k}
      /\ \A g \in Files : g # f => disk'[g] = disk[g]
  BY <1>2, <1>5
<1>7. \A g \in Files : disk'[g].own \subseteq disk[g].own \cup {k}
  BY <1>6
<1>8. risked \subseteq risked' /\ (Unseen(f) => k \in risked')
  BY <1>3
<1>9. NothingLost'
  <2>1. \A t \in Somewhere : t \in Somewhere'
    BY <1>1, <1>6, <1>8 DEF Somewhere, Tokened
  <2>2. k \in Somewhere'
    BY <1>6 DEF Somewhere, Tokened
  <2>3. left.edits \in 0..MaxEdits /\ MaxEdits \in Nat /\ left'.edits = left.edits - 1
    BY <1>2, BoundsAssumption DEF TypeInv, RestOK
  <2>4. 1..(MaxEdits - left'.edits) = 1..(MaxEdits - left.edits) \cup {k}
    BY <1>2, <2>3
  <2>5. \A t \in 1..(MaxEdits - left.edits) : t \in Somewhere
    BY DEF TokenInv, NothingLost, Somewhere
  <2>6. \A t \in 1..(MaxEdits - left'.edits) : t \in Somewhere'
    BY <2>1, <2>2, <2>4, <2>5
  <2>7. QED
    BY <2>6 DEF NothingLost, Somewhere
<1>10. BackupInv'
  <2>1. ASSUME inst.at = "write" PROVE disk'[O.file].own \subseteq saved \cup risked'
    <3>1. inst.plan # <<>>
      BY <2>1 DEF TypeInv, InstOK
    <3>2. O.file \in Files /\ disk[O.file].own \subseteq Safe
      BY <2>1, <3>1, AtHand DEF TypeInv, TokenInv, BackupInv, Ops
    <3>3. O.file = f => Unseen(f)
      BY <2>1, <3>1 DEF Unseen, BackedUp, At
    <3>4. QED
      BY <1>6, <1>7, <1>8, <3>2, <3>3 DEF Safe
  <2>2. QED
    BY <1>1, <1>4, <2>1 DEF BackupInv, Safe
<1>11. FreshInv'
  <2>1. ASSUME NEW o \in Todo, o.op # "keep", ~o.backup PROVE disk'[o.file].own \subseteq risked'
    <3>1. o.file \in Files
      BY TodoOps DEF TypeInv
    <3>2. disk[o.file].own \subseteq risked
      BY <2>1 DEF TokenInv, FreshInv
    <3>3. o.file = f => Unseen(f)
      BY <2>1 DEF Unseen, Todo
    <3>4. QED
      BY <1>6, <1>7, <1>8, <3>1, <3>2, <3>3
  <2>2. QED
    BY <1>4, <2>1 DEF FreshInv
<1>12. disk[Settings].own \subseteq disk'[Settings].own
  BY <1>5, <1>6
<1>13. HandInv'
  <2>1. f = Settings /\ unin.at # "idle" => k \in risked'
    BY <1>8 DEF Unseen
  <2>2. unin.at # "idle" => disk'[Settings].own \subseteq disk[Settings].own \cup risked'
    BY <1>5, <1>6, <1>7, <2>1
  <2>3. QED
    BY <1>1, <1>8, <1>12, <2>2 DEF TokenInv, HandInv, Safe
<1>14. MergeInv'
  BY <1>1, <1>4, <1>8, <1>12 DEF TokenInv, MergeInv, Safe
<1>15. QED
  BY <1>9, <1>10, <1>11, <1>13, <1>14 DEF TokenInv

(* Every step keeps the text. *)
LEMMA TokenStep == TypeInv /\ TokenInv /\ [Next]_vars => TokenInv'
<1> SUFFICES ASSUME TypeInv, TokenInv, [Next]_vars PROVE TokenInv'
  OBVIOUS
<1>1. CASE NoteKept
  <2>1. UNCHANGED <<disk, unin, saved, gone, risked, left>> /\ Advance(Kept) /\ inst.plan # <<>>
    BY <1>1 DEF NoteKept, At, hist
  <2>2. inst'.at = "op" /\ Todo' \subseteq Todo
    BY <2>1, AdvanceEffect DEF TypeInv, Entered
  <2>3. QED
    BY <2>1, <2>2, QuietTokens
<1>2. CASE PassOver
  <2>1. UNCHANGED <<disk, unin, saved, gone, risked, left>> /\ inst.plan # <<>>
    BY <1>2 DEF PassOver, At, hist
  <2>2. PICK entry : Advance(entry) /\ entry \in {O.content, Absent}
    BY <1>2 DEF PassOver
  <2>3. O \in Todo /\ inst.at # "idle" /\ inst.ver \in Versions
    BY <2>1, AtHand DEF TypeInv, InstOK
  <2>4. Fits(O, inst.ver, inst.mode, ~purged)
    BY <2>3 DEF TypeInv, PlanInv
  <2>5. O.file \in Plain => entry \in Entered
    BY <2>2, <2>3, <2>4, FitsEntered DEF Entered
  <2>6. inst'.at = "op" /\ Todo' \subseteq Todo
    BY <2>1, <2>2, <2>5, AdvanceEffect DEF TypeInv
  <2>7. QED
    BY <2>1, <2>6, QuietTokens
<1>3. CASE TruncateManifest
  <2>1. UNCHANGED <<disk, unin, saved, gone, risked, left>>
    BY <1>3 DEF TruncateManifest, hist
  <2>2. inst'.at = "fill" /\ Todo' = {}
    BY <1>3, TruncateEffect DEF TypeInv
  <2>3. QED
    BY <2>1, <2>2, QuietTokens
<1>4. CASE FillManifest \/ DieInstall
  <2>1. UNCHANGED <<disk, unin, saved, gone, risked>> /\ inst' = IdleInstall
    BY <1>4 DEF FillManifest, DieInstall
  <2>2. left'.edits = left.edits
    BY <1>4 DEF FillManifest, DieInstall, TypeInv, RestOK
  <2>3. inst'.at = "idle" /\ Todo' = {}
    BY <2>1, IdleEffect
  <2>4. QED
    BY <2>1, <2>2, <2>3, QuietTokens
<1>5. CASE GoLive \/ (\E s \in Sessions : StartSession(s)) \/ UNCHANGED vars
  <2>1. UNCHANGED <<disk, unin, saved, gone, risked, left, inst>>
    BY <1>5 DEF GoLive, StartSession, vars, hist
  <2>2. Todo' = Todo /\ O' = O
    BY <2>1 DEF Todo, O
  <2>3. QED
    BY <2>1, <2>2, QuietTokens
<1>6. QED
  BY <1>1, <1>2, <1>3, <1>4, <1>5, StartTokens, BackupTokens, WriteTokens, UninstallTokens, EditTokens
  DEF Next, Install

(* Nothing the operator wrote is lost, over any number of installs, uninstalls
   and deaths, but for what is written in a window that no backup covers
   (claude_code_installer.install).                                          *)
THEOREM OperatorTextSurvives == Spec => []NothingLost
<1>1. Init => TokenInv
  <2> SUFFICES ASSUME Init PROVE TokenInv
    OBVIOUS
  <2>1. inst.at = "idle" /\ unin.at = "idle" /\ Todo = {}
    BY DEF Init, IdleInstall, IdleUninstall, Todo, ToSet
  <2>2. left.edits = MaxEdits /\ MaxEdits \in Nat
    BY BoundsAssumption DEF Init
  <2>3. NothingLost
    BY <2>2 DEF NothingLost
  <2>4. QED
    BY <2>1, <2>3 DEF TokenInv, BackupInv, FreshInv, HandInv, MergeInv
<1>2. QED
  BY <1>1, TypeInit, TypeStep, TokenStep, PTL DEF Spec, TokenInv

-----------------------------------------------------------------------------
(* The manifest.                                                           *)

(* Skill files and entry scripts are files of their own. *)
LEMMA OwnedFiles == \A f \in Skills \cup Entries : f \in Plain /\ f \in Files /\ f # Settings
BY FileKinds

(* A plan is about every recorded file that Dream Studio owns. *)
LEMMA OwnedConcerned ==
    ASSUME NEW f \in Owned, f \in Recorded,
           NEW v \in Versions, NEW mode \in Modes, NEW purge \in BOOLEAN
    PROVE  Concerned(f, v, mode, purge)
<1>1. CASE f \in Skills
  <2>1. CASE f \in Ships[v]
    BY <1>1, <2>1 DEF Concerned
  <2>2. CASE f \notin Ships[v]
    BY <1>1, <2>2 DEF Concerned, Orphans
  <2>3. QED
    BY <2>1, <2>2
<1>2. CASE f \in Entries
  <2>1. f \in Ships[v] /\ f \in Hooks
    BY <1>2, ShipsAssumption DEF Hooks
  <2>2. Exists(f)
    BY DEF Owned, Exists
  <2>3. f \in Stale
    BY <2>1, <2>2 DEF Stale
  <2>4. QED
    BY <2>1, <2>3 DEF Concerned
<1>3. QED
  BY <1>1, <1>2 DEF Owned

(* An operation leaves what it wrote in the log. *)
LEMMA AdvanceOwns ==
    ASSUME TypeInv, OwnInv, inst.plan # <<>>, inst.at \in {"op", "write"}, manifest' = manifest,
           unknown' = unknown, NEW entry, O.file \in Plain => entry \in Entered, Advance(entry),
           \A f \in Skills \cup Entries : f # O.file => disk'[f] = disk[f],
           O.file \in Owned' => entry # Absent
    PROVE  OwnInv'
<1>1. /\ inst'.at = "op" /\ Todo = {O} \cup Todo'
      /\ inst'.log = IF O.file \in Plain THEN [inst.log EXCEPT ![O.file] = entry] ELSE inst.log
  BY AdvanceEffect DEF TypeInv
<1>2. inst.log \in [Plain -> Entered]
  BY DEF TypeInv, InstOK
<1>3. ASSUME NEW f \in Owned'
      PROVE  f \in unknown \/ inst'.log[f] # Absent \/ (f \in Recorded /\ \E o \in Todo' : o.file = f)
  <2>1. f \in Skills \cup Entries /\ f \in Plain
    BY OwnedFiles DEF Owned
  <2>2. CASE f = O.file
    BY <1>1, <1>2, <1>3, <2>1, <2>2
  <2>3. CASE f # O.file
    <3>1. f \in Owned
      BY <1>3, <2>1, <2>3 DEF Owned
    <3>2. inst'.log[f] = inst.log[f]
      BY <1>1, <1>2, <2>1, <2>3
    <3>3. QED
      BY <1>1, <2>3, <3>1, <3>2 DEF OwnInv
  <2>4. QED
    BY <2>2, <2>3
<1>4. Recorded' = Recorded
  BY DEF Recorded
<1>5. QED
  BY <1>1, <1>3, <1>4 DEF OwnInv

(* A step that leaves the install where it is, and gives no file to Dream Studio. *)
LEMMA QuietOwns ==
    ASSUME OwnInv, Owned' \subseteq Owned, UNCHANGED <<manifest, unknown>>, inst'.log = inst.log,
           Todo' = Todo, inst'.at = inst.at \/ (inst.at = "op" /\ inst'.at = "write")
    PROVE  OwnInv'
<1>1. Recorded' = Recorded
  BY DEF Recorded
<1>2. QED
  BY <1>1 DEF OwnInv

(* Every step keeps the manifest, or the log, complete. *)
LEMMA OwnStep == TypeInv /\ OwnInv /\ [Next]_vars => OwnInv'
<1> SUFFICES ASSUME TypeInv, OwnInv, [Next]_vars PROVE OwnInv'
  OBVIOUS
<1>0. InstOK /\ DiskOK
  BY DEF TypeInv
<1>1. ASSUME NEW v \in Versions, NEW mode \in Modes, NEW purge \in BOOLEAN, StartInstall(v, mode, purge)
      PROVE  OwnInv'
  <2>1. UNCHANGED <<disk, manifest, unknown>>
    BY <1>1 DEF StartInstall
  <2>2. inst'.at = "op" /\ inst.at = "idle" /\ Todo' = ToSet(Plan(v, mode, purge))
    BY <1>0, <1>1, StartEffect
  <2>3. Recorded' = Recorded /\ Owned' = Owned
    BY <2>1 DEF Recorded, Owned
  <2>4. PICK P : P = ToSet(Plan(v, mode, purge))
    OBVIOUS
  <2>5. \A f \in Files : Concerned(f, v, mode, purge) => \E o \in P : o.file = f
    BY <1>0, <2>4, PlanIs
  <2>6. ASSUME NEW f \in Owned, f \in Recorded PROVE \E o \in P : o.file = f
    <3>1. f \in Files
      BY OwnedFiles DEF Owned
    <3>2. Concerned(f, v, mode, purge)
      BY <2>6, OwnedConcerned
    <3>3. QED
      BY <2>5, <3>1, <3>2
  <2>7. QED
    BY <2>1, <2>2, <2>3, <2>4, <2>6 DEF OwnInv
<1>2. CASE NoteKept
  <2>1. UNCHANGED <<disk, manifest, unknown>> /\ Advance(Kept) /\ inst.plan # <<>> /\ inst.at = "op"
    BY <1>2 DEF NoteKept, At, hist
  <2>2. Kept \in Entered /\ Kept # Absent
    BY DEF Entered, Kept, Absent, Content
  <2>3. QED
    BY <2>1, <2>2, AdvanceOwns
<1>3. CASE PassOver
  <2>1. UNCHANGED <<disk, manifest, unknown>> /\ inst.plan # <<>> /\ inst.at = "op"
    BY <1>3 DEF PassOver, At, hist
  <2>2. O \in Todo /\ inst.at # "idle" /\ inst.ver \in Versions
    BY <1>0, <2>1, AtHand DEF InstOK
  <2>3. Fits(O, inst.ver, inst.mode, ~purged)
    BY <2>2 DEF TypeInv, PlanInv
  <2>4. CASE AlreadyOnDisk(O) /\ Advance(O.content)
    <3>1. O.file \in Plain => O.content \in Entered
      BY <2>2, <2>3, FitsEntered
    <3>2. O.file \in Owned' => O.content # Absent
      BY <2>1, <2>4, ContentKinds DEF AlreadyOnDisk, Owned
    <3>3. QED
      BY <2>1, <2>4, <3>1, <3>2, AdvanceOwns
  <2>5. CASE ~Exists(O.file) /\ Advance(Absent)
    <3>1. Absent \in Entered
      BY DEF Entered
    <3>2. O.file \notin Owned'
      BY <2>1, <2>5 DEF Exists, Owned
    <3>3. QED
      BY <2>1, <2>5, <3>1, <3>2, AdvanceOwns
  <2>6. QED
    BY <1>3, <2>4, <2>5 DEF PassOver
<1>4. CASE Backup
  <2>1. UNCHANGED <<disk, manifest, unknown>>
    BY <1>4 DEF Backup, hist
  <2>2. inst'.at = "write" /\ inst'.log = inst.log /\ Todo' = Todo /\ inst.at = "op"
    BY <1>0, <1>4, BackupEffect
  <2>3. Owned' \subseteq Owned
    BY <2>1 DEF Owned
  <2>4. QED
    BY <2>1, <2>2, <2>3, QuietOwns
<1>5. CASE Write
  <2>1. /\ inst.at = "write" /\ inst.plan # <<>> /\ disk' = [disk EXCEPT ![O.file] = O.content]
        /\ UNCHANGED <<manifest, unknown>> /\ Advance(O.content)
    BY <1>5 DEF Write, At, hist
  <2>2. O \in Todo /\ O \in Ops /\ inst.at # "idle" /\ inst.ver \in Versions
    BY <1>0, <2>1, AtHand DEF InstOK
  <2>3. Fits(O, inst.ver, inst.mode, ~purged) /\ O.file \in Files
    BY <2>2 DEF TypeInv, PlanInv, Ops
  <2>4. O.file \in Plain => O.content \in Entered
    BY <2>2, <2>3, FitsEntered
  <2>5. disk \in [Files -> Contents]
    BY <1>0 DEF DiskOK
  <2>6. disk'[O.file] = O.content /\ \A f \in Files : f # O.file => disk'[f] = disk[f]
    BY <2>1, <2>3, <2>5
  <2>7. O.file \in Owned' => O.content # Absent
    BY <2>6, ContentKinds DEF Owned
  <2>8. \A f \in Skills \cup Entries : f # O.file => disk'[f] = disk[f]
    BY <2>6, OwnedFiles
  <2>9. QED
    BY <2>1, <2>4, <2>7, <2>8, AdvanceOwns
<1>6. CASE TruncateManifest
  <2>1. UNCHANGED <<disk, unknown>>
    BY <1>6 DEF TruncateManifest, hist
  <2>2. inst'.at = "fill" /\ inst'.log = inst.log /\ Todo = {} /\ inst.at = "op"
    BY <1>0, <1>6, TruncateEffect
  <2>3. Owned' = Owned
    BY <2>1 DEF Owned
  <2>4. QED
    BY <2>1, <2>2, <2>3 DEF OwnInv
<1>7. CASE FillManifest
  <2>1. disk' = disk /\ inst.at = "fill" /\ manifest' = inst.log /\ inst' = IdleInstall
        /\ unknown' = {f \in unknown : inst.log[f] = Absent}
    BY <1>7 DEF FillManifest
  <2>2. inst'.at = "idle"
    BY <2>1, IdleEffect
  <2>3. Owned' = Owned /\ Recorded' = {f \in Plain : inst.log[f] # Absent} /\ Owned \subseteq Plain
    BY <2>1, OwnedFiles DEF Owned, Recorded
  <2>4. QED
    BY <2>1, <2>2, <2>3 DEF OwnInv
<1>8. CASE DieInstall
  <2>1. UNCHANGED <<disk, manifest>> /\ inst.at # "idle" /\ inst' = IdleInstall
        /\ unknown' = unknown \cup (IF inst.at = "fill" THEN Plain
                                    ELSE {f \in Plain : inst.log[f] # Absent})
    BY <1>8 DEF DieInstall
  <2>2. inst'.at = "idle"
    BY <2>1, IdleEffect
  <2>3. Owned' = Owned /\ Recorded' = Recorded /\ Owned \subseteq Plain
    BY <2>1, OwnedFiles DEF Owned, Recorded
  <2>4. QED
    BY <2>1, <2>2, <2>3 DEF OwnInv
<1>9. CASE TruncateSettings \/ FillSettings
  <2>1. UNCHANGED <<manifest, unknown>> /\ inst' = Touch(Settings)
        /\ \E c : disk' = [disk EXCEPT ![Settings] = c]
    BY <1>9 DEF TruncateSettings, FillSettings, hist
  <2>2. inst'.at = inst.at /\ inst'.log = inst.log /\ Todo' = Todo
    BY <1>0, <2>1, TouchEffect, FileKinds
  <2>3. \A f \in Skills \cup Entries : disk'[f] = disk[f]
    BY <1>0, <2>1, OwnedFiles DEF DiskOK
  <2>4. Owned' \subseteq Owned
    BY <2>3 DEF Owned
  <2>5. QED
    BY <2>1, <2>2, <2>4, QuietOwns
<1>10. ASSUME NEW f \in Files, Edit(f) PROVE OwnInv'
  <2>1. UNCHANGED <<manifest, unknown>> /\ inst' = Touch(f)
    BY <1>10 DEF Edit
  <2>2. PICK c \in Contents : disk' = [disk EXCEPT ![f] = c] /\ c.kind \in {"own", "sound", "foreign"}
    BY <1>10, EditEffect
  <2>3. inst'.at = inst.at /\ inst'.log = inst.log /\ Todo' = Todo
    BY <1>0, <2>1, TouchEffect
  <2>4. \A g \in Skills \cup Entries : g # f => disk'[g] = disk[g]
    BY <1>0, <2>2, OwnedFiles DEF DiskOK
  <2>5. disk'[f].kind \in {"own", "sound", "foreign"}
    BY <1>0, <2>2 DEF DiskOK
  <2>6. Owned' \subseteq Owned
    BY <2>4, <2>5 DEF Owned
  <2>7. QED
    BY <2>1, <2>3, <2>6, QuietOwns
<1>11. CASE LoadSettings \/ DieUninstall \/ GoLive \/ (\E s \in Sessions : StartSession(s)) \/ UNCHANGED vars
  <2>1. UNCHANGED <<disk, manifest, unknown, inst>>
    BY <1>11 DEF LoadSettings, DieUninstall, GoLive, StartSession, vars, hist
  <2>2. Owned' \subseteq Owned /\ Todo' = Todo
    BY <2>1 DEF Owned, Todo
  <2>3. QED
    BY <2>1, <2>2, QuietOwns
<1>12. QED
  BY <1>1, <1>2, <1>3, <1>4, <1>5, <1>6, <1>7, <1>8, <1>9, <1>10, <1>11 DEF Next, Install, Uninstall

(* At first the manifest names what is on disk. *)
LEMMA OwnInit == Init => OwnInv
<1> SUFFICES ASSUME Init PROVE OwnInv
  OBVIOUS
<1>1. inst.at = "idle"
  BY DEF Init, IdleInstall
<1>2. ASSUME NEW f \in Owned PROVE f \in Recorded
  <2>1. f \in Plain /\ f \in Files /\ f # Settings /\ f # ClaudeMd
    BY FileKinds DEF Owned
  <2>2. CASE disk = [g \in Files |-> Absent]
    BY <2>1, <2>2, ContentKinds DEF Owned
  <2>3. CASE \E v \in Versions :
               disk = [g \in Files |-> CASE g \in Plain  -> manifest[g]
                                         [] g = Settings -> Content("sound", {"files"}, {})
                                         [] g = ClaudeMd -> Content("sound", {v}, {})]
    <3>1. disk[f] = manifest[f]
      BY <2>1, <2>3, Zenon
    <3>2. QED
      BY <2>1, <3>1, ContentKinds DEF Owned, Recorded
  <2>4. QED
    BY <2>2, <2>3 DEF Init
<1>3. QED
  BY <1>1, <1>2 DEF OwnInv

(* Between installs the manifest names every skill file and entry script that
   Dream Studio has on disk, however many versions and modes were installed and
   wherever an install died (claude_code_installer.plan, write_manifest).    *)
THEOREM OwnedFilesAreRecorded == Spec => []OwnedIsRecorded
<1>1. OwnInv => OwnedIsRecorded
  BY DEF OwnInv, OwnedIsRecorded, Owned
<1>2. QED
  BY <1>1, OwnInit, TypeInit, TypeStep, OwnStep, PTL DEF Spec

-----------------------------------------------------------------------------
(* Delivery.                                                               *)

(* An operation that has been carried out has delivered its file. *)
LEMMA OpDelivers ==
    ASSUME NEW o, NEW v \in Versions, NEW mode \in Modes, NEW pure, Fits(o, v, mode, pure),
           NEW c, o.op \in {"create", "merge"} => c = o.content
    PROVE  Holds(o.file, c, v, mode)
<1>1. CASE o.file = Settings
  BY <1>1, FileKinds DEF Fits, Holds
<1>2. CASE o.file = ClaudeMd
  BY <1>2, FileKinds DEF Fits, Holds
<1>3. CASE o.file \in Plain
  <2>1. o.file # Settings /\ o.file # ClaudeMd
    BY <1>3, FileKinds
  <2>2. (o.file \in Skills \cup Agents => o.file \notin Hooks) /\ Entries \subseteq Hooks
    BY FileKinds
  <2>3. CASE o.op = "create" /\ o.content = Copy(v)
    BY <2>1, <2>3 DEF Holds
  <2>4. CASE mode = "module" /\ o.file \in Hooks
    BY <2>1, <2>2, <2>4 DEF Holds
  <2>5. CASE o.file \notin Ships[v]
    BY <2>1, <2>5 DEF Holds
  <2>6. QED
    BY <1>3, <2>2, <2>3, <2>4, <2>5 DEF Fits
<1>4. QED
  BY <1>1, <1>2, <1>3 DEF Fits, Ops, Files, Docs

(* What a module-mode install does to an entry script. *)
LEMMA OpStubs ==
    ASSUME NEW o, NEW v \in Versions, NEW mode, NEW pure, Fits(o, v, mode, pure),
           o.file \in Entries, mode = "module"
    PROVE  \/ o.op = "create" /\ o.content = Stub
           \/ o.op = "keep"
           \/ o.op = "delete" /\ o.content = Absent
<1>1. o.file \in Plain /\ o.file \in Hooks
  BY FileKinds
<1>2. QED
  BY <1>1 DEF Fits

(* An install that starts has everything before it. *)
LEMMA StartDelivers ==
    ASSUME TypeInv, NEW v \in Versions, NEW mode \in Modes, NEW purge \in BOOLEAN,
           StartInstall(v, mode, purge)
    PROVE  DeliverInv'
<1>1. disk' = disk
  BY DEF StartInstall
<1>2. /\ inst'.ver = v /\ inst'.mode = mode /\ inst'.log = Nothing
      /\ Todo' = ToSet(Plan(v, mode, purge))
  BY StartEffect DEF TypeInv
<1>3. PICK P : P = ToSet(Plan(v, mode, purge))
  OBVIOUS
<1>4. (\A o \in P : Suits(o)) /\ \A f \in Files : Concerned(f, v, mode, purge) => \E o \in P : o.file = f
  <2>1. PICK pure \in BOOLEAN : pure = FALSE
    OBVIOUS
  <2>2. QED
    BY <1>3, <2>1, PlanFits DEF TypeInv
<1>5. ASSUME NEW f \in Files PROVE Holds(f, disk[f], v, mode) \/ \E o \in P : o.file = f
  <2>1. CASE Concerned(f, v, mode, purge)
    BY <1>4, <2>1
  <2>2. CASE ~Concerned(f, v, mode, purge)
    BY <2>2 DEF Concerned, Holds
  <2>3. QED
    BY <2>1, <2>2
<1>6. ASSUME NEW f \in Entries
      PROVE  inst'.log[f] = Absent /\ \A o \in P : o.file = f /\ o.op = "keep" => disk[f] = Stub
  <2>1. f \in Plain
    BY FileKinds
  <2>2. QED
    BY <1>2, <1>4, <2>1 DEF Nothing, Suits
<1>7. \A f \in Files : Delivered(f)' \/ \E o \in Todo' : o.file = f
  BY <1>1, <1>2, <1>3, <1>5 DEF Delivered, Holds
<1>8. \A f \in Skills : inst'.log[f] = Absent
  BY <1>2, FileKinds DEF Nothing
<1>9. QED
  BY <1>1, <1>2, <1>3, <1>6, <1>7, <1>8 DEF DeliverInv

(* An operation that is done has delivered, and the others are as they were. *)
LEMMA AdvanceDelivers ==
    ASSUME TypeInv, DeliverInv, inst.plan # <<>>, NEW entry,
           O.file \in Plain => entry \in Entered, Advance(entry),
           \A f \in Files : f # O.file => disk'[f] = disk[f],
           O.op \in {"create", "merge"} => disk'[O.file] = O.content /\ entry = O.content,
           O.op = "keep" => disk'[O.file] = disk[O.file],
           O.op = "delete" => entry = Absent
    PROVE  DeliverInv'
<1>1. /\ inst'.at = "op" /\ Todo = {O} \cup Todo' /\ inst'.ver = inst.ver /\ inst'.mode = inst.mode
      /\ inst'.touched = inst.touched
      /\ inst'.log = IF O.file \in Plain THEN [inst.log EXCEPT ![O.file] = entry] ELSE inst.log
  BY AdvanceEffect DEF TypeInv
<1>2. O \in Todo /\ inst.at # "idle" /\ inst.ver \in Versions /\ inst.mode \in Modes
  BY AtHand DEF TypeInv, InstOK
<1>3. Fits(O, inst.ver, inst.mode, ~purged) /\ O.file \in Files
  BY <1>2 DEF TypeInv, PlanInv, Fits, Ops
<1>4. inst.log \in [Plain -> Entered]
  BY DEF TypeInv, InstOK
<1>5. ASSUME NEW f \in Files \ inst.touched PROVE Delivered(f)' \/ \E o \in Todo' : o.file = f
  <2>1. CASE f = O.file
    <3>1. PICK c : c = disk'[f]
      OBVIOUS
    <3>2. Holds(f, c, inst.ver, inst.mode)
      BY <1>2, <1>3, <2>1, <3>1, OpDelivers
    <3>3. QED
      BY <1>1, <3>1, <3>2 DEF Delivered, Holds
  <2>2. CASE f # O.file
    <3>1. disk'[f] = disk[f]
      BY <2>2
    <3>2. Delivered(f) \/ \E o \in Todo' : o.file = f
      BY <1>1, <1>2, <2>2 DEF DeliverInv
    <3>3. QED
      BY <1>1, <3>1, <3>2 DEF Delivered, Holds
  <2>3. QED
    BY <2>1, <2>2
<1>6. ASSUME NEW f \in Files \ inst.touched, f \in Entries, inst.mode = "module"
      PROVE  /\ inst'.log[f] # Absent => disk'[f] = Stub
             /\ \A o \in Todo' : o.file = f /\ o.op = "keep" => disk'[f] = Stub
  <2>1. /\ inst.log[f] # Absent => disk[f] = Stub
        /\ \A o \in Todo : o.file = f /\ o.op = "keep" => disk[f] = Stub
    BY <1>2, <1>6 DEF DeliverInv
  <2>2. f \in Plain
    BY <1>6, FileKinds
  <2>3. CASE f = O.file
    <3>1. inst'.log[f] = entry
      BY <1>1, <1>4, <2>2, <2>3
    <3>2. \A o \in Todo : o.file = f => o = O
      BY <1>2, <2>3 DEF TypeInv, PlanInv
    <3>3. (O.op = "create" /\ O.content = Stub) \/ O.op = "keep" \/ O.op = "delete"
      BY <1>2, <1>3, <1>6, <2>3, OpStubs
    <3>4. CASE O.op = "create" /\ O.content = Stub
      BY <1>1, <2>3, <3>2, <3>4
    <3>5. CASE O.op = "keep"
      <4>1. disk[f] = Stub
        BY <1>2, <2>1, <2>3, <3>5
      <4>2. QED
        BY <2>3, <3>5, <4>1
    <3>6. CASE O.op = "delete"
      BY <1>1, <3>1, <3>2, <3>6
    <3>7. QED
      BY <3>3, <3>4, <3>5, <3>6
  <2>4. CASE f # O.file
    <3>1. inst'.log[f] = inst.log[f] /\ disk'[f] = disk[f]
      BY <1>1, <1>4, <2>2, <2>4
    <3>2. QED
      BY <1>1, <2>1, <3>1
  <2>5. QED
    BY <2>3, <2>4
<1>7. ASSUME NEW f \in Files \ inst.touched, f \in Skills \ Ships[inst.ver] PROVE inst'.log[f] = Absent
  <2>1. f \in Plain /\ f \notin Hooks /\ Entries \subseteq Hooks
    BY <1>7, FileKinds
  <2>2. CASE f = O.file
    <3>1. O.op = "delete"
      BY <1>3, <1>7, <2>1, <2>2 DEF Fits
    <3>2. QED
      BY <1>1, <1>4, <2>1, <2>2, <3>1
  <2>3. CASE f # O.file
    BY <1>1, <1>2, <1>4, <1>7, <2>3 DEF DeliverInv
  <2>4. QED
    BY <2>2, <2>3
<1>8. QED
  BY <1>1, <1>5, <1>6, <1>7 DEF DeliverInv

(* A step beside the install: it changes no file that it does not mark. *)
LEMMA QuietDelivers ==
    ASSUME DeliverInv, inst'.at # "idle" => inst.at # "idle", inst'.ver = inst.ver, inst'.mode = inst.mode,
           inst'.log = inst.log, Todo' = Todo,
           inst.at # "idle" => inst.touched \subseteq inst'.touched,
           inst.at # "idle" => \A f \in Files \ inst'.touched : disk'[f] = disk[f]
    PROVE  DeliverInv'
<1>1. ASSUME inst'.at # "idle", NEW f \in Files \ inst'.touched
      PROVE  Delivered(f)' \/ \E o \in Todo' : o.file = f
  <2>1. disk'[f] = disk[f] /\ f \in Files \ inst.touched /\ inst.at # "idle"
    BY <1>1
  <2>2. Delivered(f) \/ \E o \in Todo : o.file = f
    BY <2>1 DEF DeliverInv
  <2>3. QED
    BY <2>1, <2>2 DEF Delivered, Holds
<1>2. ASSUME inst'.at # "idle", NEW f \in Files \ inst'.touched, f \in Entries, inst'.mode = "module"
      PROVE  /\ inst'.log[f] # Absent => disk'[f] = Stub
             /\ \A o \in Todo' : o.file = f /\ o.op = "keep" => disk'[f] = Stub
  <2>1. disk'[f] = disk[f] /\ f \in Files \ inst.touched /\ inst.at # "idle"
    BY <1>2
  <2>2. QED
    BY <1>2, <2>1 DEF DeliverInv
<1>3. QED
  BY <1>1, <1>2 DEF DeliverInv

(* Every step keeps delivery within reach. *)
LEMMA DeliverStep == TypeInv /\ DeliverInv /\ [Next]_vars => DeliverInv'
<1> SUFFICES ASSUME TypeInv, DeliverInv, [Next]_vars PROVE DeliverInv'
  OBVIOUS
<1>0. InstOK /\ DiskOK
  BY DEF TypeInv
<1>1. CASE NoteKept
  <2>1. disk' = disk /\ Advance(Kept) /\ inst.plan # <<>> /\ O.op = "keep" /\ Kept \in Entered
    BY <1>1 DEF NoteKept, At, Entered
  <2>2. QED
    BY <2>1, AdvanceDelivers
<1>2. CASE PassOver
  <2>1. disk' = disk /\ inst.plan # <<>>
    BY <1>2 DEF PassOver, At
  <2>2. CASE O.op \in {"create", "merge"} /\ AlreadyOnDisk(O) /\ Advance(O.content)
    <3>1. O \in Todo /\ inst.at # "idle" /\ inst.ver \in Versions
      BY <1>0, <2>1, AtHand DEF InstOK
    <3>2. Fits(O, inst.ver, inst.mode, ~purged)
      BY <3>1 DEF TypeInv, PlanInv
    <3>3. O.file \in Plain => O.content \in Entered
      BY <3>1, <3>2, FitsEntered
    <3>4. disk'[O.file] = O.content /\ O.op # "keep" /\ O.op # "delete"
      BY <2>1, <2>2 DEF AlreadyOnDisk
    <3>5. QED
      BY <2>1, <2>2, <3>3, <3>4, AdvanceDelivers
  <2>3. CASE O.op = "delete" /\ Advance(Absent)
    <3>1. Absent \in Entered
      BY DEF Entered
    <3>2. QED
      BY <2>1, <2>3, <3>1, AdvanceDelivers
  <2>4. QED
    BY <1>2, <2>2, <2>3 DEF PassOver
<1>3. CASE Backup
  <2>1. disk' = disk
    BY <1>3 DEF Backup
  <2>2. QED
    BY <1>0, <1>3, <2>1, BackupEffect, QuietDelivers
<1>4. CASE Write
  <2>1. /\ inst.at = "write" /\ inst.plan # <<>> /\ disk' = [disk EXCEPT ![O.file] = O.content]
        /\ Advance(O.content)
    BY <1>4 DEF Write, At
  <2>2. O \in Todo /\ O \in Ops /\ inst.at # "idle" /\ inst.ver \in Versions /\ O.op # "keep"
    BY <1>0, <2>1, AtHand DEF InstOK
  <2>3. Fits(O, inst.ver, inst.mode, ~purged) /\ O.file \in Files
    BY <2>2 DEF TypeInv, PlanInv, Ops
  <2>4. O.file \in Plain => O.content \in Entered
    BY <2>2, <2>3, FitsEntered
  <2>5. disk'[O.file] = O.content /\ \A f \in Files : f # O.file => disk'[f] = disk[f]
    BY <1>0, <2>1, <2>3 DEF DiskOK
  <2>6. O.op = "delete" => O.content = Absent
    BY <2>3 DEF Fits, Ops, Files, Docs
  <2>7. QED
    BY <2>1, <2>2, <2>4, <2>5, <2>6, AdvanceDelivers
<1>5. CASE TruncateManifest
  <2>1. disk' = disk
    BY <1>5 DEF TruncateManifest
  <2>2. QED
    BY <1>0, <1>5, <2>1, TruncateEffect, QuietDelivers
<1>6. CASE FillManifest \/ DieInstall
  <2>1. inst'.at = "idle"
    BY <1>6, IdleEffect DEF FillManifest, DieInstall
  <2>2. QED
    BY <2>1 DEF DeliverInv
<1>7. CASE TruncateSettings \/ FillSettings
  <2>1. inst' = Touch(Settings) /\ \E c : disk' = [disk EXCEPT ![Settings] = c]
    BY <1>7 DEF TruncateSettings, FillSettings
  <2>2. /\ inst'.at = inst.at /\ inst'.ver = inst.ver /\ inst'.mode = inst.mode
        /\ inst'.log = inst.log /\ Todo' = Todo
        /\ inst.at # "idle" => inst'.touched = inst.touched \cup {Settings}
    BY <1>0, <2>1, TouchEffect, FileKinds
  <2>3. \A f \in Files : f # Settings => disk'[f] = disk[f]
    BY <1>0, <2>1 DEF DiskOK
  <2>4. QED
    BY <2>2, <2>3, QuietDelivers
<1>8. ASSUME NEW f \in Files, Edit(f) PROVE DeliverInv'
  <2>1. inst' = Touch(f)
    BY <1>8 DEF Edit
  <2>2. PICK c \in Contents : disk' = [disk EXCEPT ![f] = c]
    BY <1>8, EditEffect
  <2>3. /\ inst'.at = inst.at /\ inst'.ver = inst.ver /\ inst'.mode = inst.mode
        /\ inst'.log = inst.log /\ Todo' = Todo
        /\ inst.at # "idle" => inst'.touched = inst.touched \cup {f}
    BY <1>0, <2>1, TouchEffect
  <2>4. \A g \in Files : g # f => disk'[g] = disk[g]
    BY <1>0, <2>2 DEF DiskOK
  <2>5. QED
    BY <2>3, <2>4, QuietDelivers
<1>9. CASE LoadSettings \/ DieUninstall \/ GoLive \/ (\E s \in Sessions : StartSession(s)) \/ UNCHANGED vars
  <2>1. UNCHANGED <<disk, inst>>
    BY <1>9 DEF LoadSettings, DieUninstall, GoLive, StartSession, vars
  <2>2. Todo' = Todo
    BY <2>1 DEF Todo
  <2>3. QED
    BY <2>1, <2>2, QuietDelivers
<1>10. QED
  BY <1>1, <1>2, <1>3, <1>4, <1>5, <1>6, <1>7, <1>8, <1>9, StartDelivers DEF Next, Install, Uninstall

(* An install that is about to record itself has delivered every file that no
   one else changed under it, for any files and versions, and whatever the root
   held when it began (claude_code_installer.plan, install).                 *)
THEOREM InstallsDeliver == Spec => []InstallDelivers
<1>1. Init => DeliverInv
  BY DEF Init, IdleInstall, DeliverInv
<1>2. TypeInv /\ OwnInv /\ DeliverInv => InstallDelivers
  <2> SUFFICES ASSUME TypeInv, OwnInv, DeliverInv, inst.at = "fill", NEW f \in Files \ inst.touched
               PROVE  /\ f = Settings => disk[f].ours = {inst.mode}
                      /\ f = ClaudeMd => disk[f].kind = "foreign" \/ disk[f].ours = {inst.ver}
                      /\ f \in Ships[inst.ver] \cap (Skills \cup Agents) => disk[f] = Copy(inst.ver)
                      /\ f \in Ships[inst.ver] \cap Hooks /\ inst.mode = "files" => disk[f] = Copy(inst.ver)
                      /\ f \in Skills \ Ships[inst.ver] /\ disk[f].kind = "ds" => f \in unknown
                      /\ f \in Entries /\ inst.mode = "module" /\ inst.log[f] # Absent => disk[f] = Stub
    BY DEF InstallDelivers
  <2>1. Todo = {}
    BY DEF TypeInv, InstOK, Todo, ToSet
  <2>2. Delivered(f)
    BY <2>1 DEF DeliverInv
  <2>3. f \in Skills \ Ships[inst.ver] /\ disk[f].kind = "ds" => f \in unknown
    <3>1. f \in Skills \ Ships[inst.ver] => inst.log[f] = Absent
      BY DEF DeliverInv
    <3>2. f \in Skills /\ disk[f].kind = "ds" => f \in unknown \/ inst.log[f] # Absent
      BY DEF OwnInv, Owned
    <3>3. QED
      BY <3>1, <3>2
  <2>4. QED
    BY <2>2, <2>3 DEF DeliverInv, Delivered, Holds
<1>3. QED
  BY <1>1, <1>2, OwnInit, TypeInit, TypeStep, OwnStep, DeliverStep, PTL DEF Spec
=============================================================================
