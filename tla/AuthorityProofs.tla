--------------------------- MODULE AuthorityProofs ---------------------------
(***************************************************************************)
(* Proofs about a Dream Studio home, for any apps, rows and processes and  *)
(* any number of commands and faults: its types, that app/current names a  *)
(* complete app, that an installed home's authority is not silently        *)
(* re-created, that a loss is not recorded as the new normal and that the  *)
(* richest rolling backup survives.                                        *)
(***************************************************************************)
EXTENDS Authority, FiniteSetTheorems, SequenceTheorems, WellFoundedInduction, TLAPS

-----------------------------------------------------------------------------
(* Numbers.                                                                *)

(* Every non-empty set of naturals has a least element. *)
LEMMA LeastElement ==
    ASSUME NEW S \in SUBSET Nat, S # {}
    PROVE  \E m \in S : \A k \in S : m <= k
<1>1. PICK m \in S : \A k \in S : ~ <<k, m>> \in OpToRel(<, Nat)
  BY NatLessThanWellFounded, WFMin
<1>2. \A k \in S : ~ (k < m)
  BY <1>1 DEF OpToRel
<1> QED BY <1>2

(* A non-empty set of naturals that does not exceed n has a greatest element,
   which Max chooses.                                                        *)
LEMMA BoundedMax ==
    ASSUME NEW n \in Nat, NEW S \in SUBSET (0..n), S # {}
    PROVE  Max(S) \in S /\ \A k \in S : k <= Max(S)
<1> DEFINE T == {n - k : k \in S}
<1>1. T \in SUBSET Nat /\ T # {}
  <2>1. \A k \in S : n - k \in Nat
    OBVIOUS
  <2>2. PICK k \in S : TRUE
    OBVIOUS
  <2>3. n - k \in T
    OBVIOUS
  <2>4. QED
    BY <2>1, <2>3
<1>2. PICK t \in T : \A k \in T : t <= k
  <2> HIDE DEF T
  <2> QED BY <1>1, LeastElement
<1>3. PICK m \in S : t = n - m
  OBVIOUS
<1>4. \A k \in S : n - m <= n - k
  BY <1>2, <1>3
<1>5. \A k \in S : m >= k
  BY <1>4
<1>6. QED
  BY <1>5 DEF Max

(* A finite set of naturals is bounded. *)
LEMMA FiniteBound ==
    ASSUME NEW S \in SUBSET Nat, IsFiniteSet(S)
    PROVE  \E n \in Nat : S \subseteq 0..n
<1> DEFINE Bad == {c \in Nat : \E T \in SUBSET Nat : /\ IsFiniteSet(T) /\ Cardinality(T) = c
                                                      /\ ~ \E n \in Nat : T \subseteq 0..n}
<1>1. Bad = {}
  <2> SUFFICES ASSUME Bad # {} PROVE FALSE
    OBVIOUS
  <2>1. PICK c \in Bad : \A k \in Bad : c <= k
    <3>1. Bad \in SUBSET Nat
      OBVIOUS
    <3> HIDE DEF Bad
    <3> QED BY <3>1, LeastElement
  <2>2. PICK T \in SUBSET Nat : /\ IsFiniteSet(T) /\ Cardinality(T) = c
                                /\ ~ \E n \in Nat : T \subseteq 0..n
    OBVIOUS
  <2>3. PICK x \in T : TRUE
    BY <2>2
  <2>4. PICK U : U = T \ {x}
    OBVIOUS
  <2>5. IsFiniteSet(U) /\ Cardinality(U) = c - 1 /\ c - 1 \in Nat /\ U \in SUBSET Nat
    <3>1. IsFiniteSet(U) /\ Cardinality(U) = Cardinality(T) - 1
      BY <2>2, <2>3, <2>4, FS_RemoveElement
    <3>2. Cardinality(U) \in Nat
      BY <3>1, FS_CardinalityType
    <3>3. QED
      BY <2>2, <2>4, <3>1, <3>2
  <2>6. c - 1 \notin Bad
    <3>1. c \in Nat /\ c - 1 < c
      OBVIOUS
    <3> HIDE DEF Bad
    <3>2. QED
      BY <2>1, <2>5, <3>1
  <2>7. PICK n \in Nat : U \subseteq 0..n
    BY <2>5, <2>6
  <2>8. T \subseteq 0..(n + x)
    BY <2>4, <2>7
  <2>9. n + x \in Nat
    BY <2>3
  <2>10. QED
    BY <2>2, <2>8, <2>9
<1>2. Cardinality(S) \in Nat
  BY FS_CardinalityType
<1>3. Cardinality(S) \notin Bad
  BY <1>1
<1>4. QED
  BY <1>2, <1>3

(* The versions are naturals, and those up to an app's last migration are
   versions.                                                                 *)
LEMMA VersionsType ==
    /\ Versions \subseteq Nat /\ 0 \in Versions
    /\ \A a \in Apps : 0..Latest[a] \subseteq Versions
<1>1. PICK S : S = {Latest[a] : a \in Apps}
  OBVIOUS
<1>2. S \in SUBSET Nat /\ S # {}
  BY <1>1, AuthorityAssumption
<1>3. IsFiniteSet(S)
  <2>1. PICK g : g = [a \in Apps |-> Latest[a]]
    OBVIOUS
  <2>2. g \in Surjection(Apps, S)
    BY <1>1, <2>1 DEF Surjection
  <2>3. QED
    BY <2>2, AuthorityAssumption, FS_Surjection
<1>4. PICK n \in Nat : S \subseteq 0..n
  BY <1>2, <1>3, FiniteBound
<1>5. Max(S) \in S /\ \A k \in S : k <= Max(S)
  BY <1>2, <1>4, BoundedMax
<1>6. Versions = 0..Max(S)
  BY <1>1 DEF Versions
<1>7. PICK m : m = Max(S)
  OBVIOUS
<1>8. m \in Nat /\ \A a \in Apps : Latest[a] \in 0..m
  BY <1>1, <1>2, <1>5, <1>7, AuthorityAssumption
<1>9. QED
  BY <1>6, <1>7, <1>8

(* The greater and the smaller of two naturals. *)
LEMMA OfTwo ==
    ASSUME NEW x \in Nat, NEW y \in Nat
    PROVE  /\ Max({x, y}) \in {x, y} /\ x <= Max({x, y}) /\ y <= Max({x, y})
           /\ Min({x, y}) \in {x, y} /\ Min({x, y}) <= x /\ Min({x, y}) <= y
<1>1. \E m \in {x, y} : \A k \in {x, y} : m >= k
  OBVIOUS
<1>2. \E m \in {x, y} : \A k \in {x, y} : m =< k
  OBVIOUS
<1>3. Max({x, y}) \in {x, y} /\ \A k \in {x, y} : Max({x, y}) >= k
  BY <1>1 DEF Max
<1>4. Min({x, y}) \in {x, y} /\ \A k \in {x, y} : Min({x, y}) =< k
  BY <1>2 DEF Min
<1>5. QED
  BY <1>3, <1>4

(* How many rows a set of rows has. *)
LEMMA RowCount ==
    /\ \A R \in SUBSET Rows : Cardinality(R) \in 0..Cardinality(Rows)
    /\ \A R, S \in SUBSET Rows : R \subseteq S => Cardinality(R) <= Cardinality(S)
    /\ Cardinality(Rows) \in Nat
<1>1. \A S \in SUBSET Rows : IsFiniteSet(S) /\ Cardinality(S) \in Nat
  BY AuthorityAssumption, FS_Subset, FS_CardinalityType
<1>2. \A R, S \in SUBSET Rows : R \subseteq S => Cardinality(R) <= Cardinality(S)
  BY <1>1, FS_Subset
<1>3. Rows \in SUBSET Rows
  OBVIOUS
<1>4. \A R \in SUBSET Rows : Cardinality(R) <= Cardinality(Rows)
  BY <1>2, <1>3
<1>5. QED
  BY <1>1, <1>2, <1>3, <1>4

-----------------------------------------------------------------------------
(* Types.                                                                  *)

Homes   == Apps \cup {NoApp}
Kinds   == {"absent", "empty", "authority"}
Counted == {Nulls} \cup 0..Cardinality(Rows)

(* The steps each command takes. *)
StepsOf ==
    [install  |-> {"build", "venv", "pip", "record", "smoke", "backup", "guard", "open", "migrate",
                   "carry", "previous", "switch", "version", "check", "read", "write", "prune"},
     rollback |-> {"probe", "backup", "previous", "switch", "version", "prune"},
     activate |-> {"guard", "open", "migrate", "carry"},
     doctor   |-> {"check", "read", "write", "prune"},
     restore  |-> {"unlink", "copy"},
     roll     |-> {"roll"},
     none     |-> {"idle"}]
Cmds   == {"install", "rollback", "activate", "doctor", "restore", "roll", "none"}
Labels == {"idle", "build", "venv", "pip", "record", "smoke", "backup", "guard", "open", "migrate",
           "carry", "previous", "switch", "version", "check", "read", "write", "prune", "probe",
           "unlink", "copy", "roll"}

(* A copy of a file that is no authority holds nothing. *)
GoodCopies == {c \in Copies : c.kind # "authority" => c.schema = 0 /\ c.rows = {}}

(* What a process holds: a step of its command, an app where its command is
   about one, and migrations its app ships.                                  *)
Fits(me) ==
    /\ me.pc \in StepsOf[me.cmd]
    /\ me.cmd \in {"install", "rollback", "activate"} => me.app \in Apps
    /\ me.pc = "migrate" => me.next >= 1 /\ me.limit <= Latest[me.app]
    /\ me.pc = "idle" => me = Idle

Commands ==
    {me \in [pc : Labels, cmd : Cmds, app : Homes, current : Homes, existed : BOOLEAN,
             next : Nat, limit : Nat, taken : BOOLEAN, count : Counted, accept : BOOLEAN,
             copy : GoodCopies] : Fits(me)}

HomeOK == /\ app \in [Apps -> [venv : {"none", "some", "full"}, record : BOOLEAN]]
          /\ current \in Homes /\ previous \in Homes /\ marked \in BOOLEAN
DbOK   == /\ db \in [kind : Kinds, schema : Versions, main : SUBSET Rows, wal : SUBSET Rows]
          /\ db.kind # "authority" => db.schema = 0 /\ db.main \cup db.wal = {}
DataOK == DbOK /\ activated \in Versions /\ baseline \in {NoBaseline} \cup Counted
SavedOK == backups \in Seq(GoodCopies) /\ kept \subseteq GoodCopies /\ bak \in GoodCopies
ProcOK == proc \in [Procs -> Commands]
HistOK == /\ commands \in 0..MaxCommands /\ faults \in 0..MaxFaults
          /\ crossed \in BOOLEAN /\ clash \in BOOLEAN
          /\ behind \in BOOLEAN /\ slipped \in BOOLEAN

TypeInv == HomeOK /\ DataOK /\ SavedOK /\ ProcOK /\ HistOK

-----------------------------------------------------------------------------
(* app/current names a complete app.                                       *)

Building == {"build", "venv", "pip", "record"}
Built    == {"smoke", "backup", "guard", "open", "migrate", "carry", "previous", "switch", "probe"}
Moves    == {"install", "rollback"}

(* Unless two installs of one app overlapped: a recorded app is full; no two
   installs build the same app; an app being built is not recorded, and is
   full when it is about to be; the app a command is about to make current,
   and the current one, are recorded.                                        *)
BuildInv ==
    clash \/
        /\ \A a \in Apps : app[a].record => app[a].venv = "full"
        /\ \A p, q \in Procs :
              proc[p].cmd = "install" /\ proc[q].cmd = "install" /\ proc[p].app = proc[q].app
                => p = q
        /\ \A p \in Procs : proc[p].pc \in Building => ~app[proc[p].app].record
        /\ \A p \in Procs : proc[p].pc = "record" => app[proc[p].app].venv = "full"
        /\ \A p \in Procs : proc[p].cmd \in Moves /\ proc[p].pc \in Built => app[proc[p].app].record
        /\ current # NoApp => app[current].record

(* A command that has asked the guard may still create the authority. *)
GuardInv == slipped \/ \A p \in Procs : proc[p].pc = "open" => MayCreate

(* Where no two commands overlapped at most one is in flight. *)
AloneInv == crossed \/ \A p, q \in Procs : proc[p].pc # "idle" /\ proc[q].pc # "idle" => p = q

(* What a command has checked and what it has read is no loss. *)
CountInv ==
    crossed \/ slipped \/ \A p \in Procs : ~proc[p].accept =>
        /\ proc[p].pc = "read" => ~Dropped
        /\ proc[p].pc = "write" => proc[p].count = Nulls \/ proc[p].count >= baseline

(* The backup a pulse is about to write is no poorer than the last. *)
RollInv ==
    crossed \/ slipped \/ \A p \in Procs :
        proc[p].pc = "roll" => Cardinality(bak.rows) <= Cardinality(DbRows)

-----------------------------------------------------------------------------
(* Type correctness.                                                       *)

(* TypeOK is the part of TypeInv the model states. *)
LEMMA TypeInvImplies == TypeInv => TypeOK
<1> SUFFICES ASSUME TypeInv PROVE TypeOK
  OBVIOUS
<1>1. /\ app \in [Apps -> [venv : {"none", "some", "full"}, record : BOOLEAN]]
      /\ {current, previous} \subseteq Apps \cup {NoApp} /\ marked \in BOOLEAN
  BY DEF TypeInv, HomeOK, Homes
<1>2. /\ db \in [kind : {"absent", "empty", "authority"}, schema : Versions,
                 main : SUBSET Rows, wal : SUBSET Rows]
      /\ db.kind # "authority" => db.schema = 0 /\ db.main \cup db.wal = {}
      /\ activated \in Versions /\ baseline \in {NoBaseline, Nulls} \cup 0..Cardinality(Rows)
  BY DEF TypeInv, DataOK, DbOK, Kinds, Counted
<1>3. backups \in Seq(Copies) /\ kept \subseteq Copies /\ bak \in Copies
  <2>1. GoodCopies \subseteq Copies
    BY DEF GoodCopies
  <2>2. backups \in Seq(Copies)
    BY <2>1, SeqMonotonic DEF TypeInv, SavedOK
  <2>3. QED
    BY <2>1, <2>2 DEF TypeInv, SavedOK
<1>4. \A p \in Procs : proc[p].pc = "idle" <=> proc[p] = Idle
  BY DEF TypeInv, ProcOK, Commands, Fits, Idle
<1>5. /\ commands \in 0..MaxCommands /\ faults \in 0..MaxFaults
      /\ {crossed, clash, behind, slipped} \subseteq BOOLEAN
  BY DEF TypeInv, HistOK
<1>6. QED
  BY <1>1, <1>2, <1>3, <1>4, <1>5 DEF TypeOK

-----------------------------------------------------------------------------
(* The commands in flight.                                                 *)

(* No copy is a copy. *)
LEMMA NoCopyType == NoCopy \in GoodCopies /\ NoCopy.rows = {}
BY VersionsType DEF NoCopy, GoodCopies, Copies

(* An idle process is one. *)
LEMMA IdleType == Idle \in Commands
<1>1. "idle" \in StepsOf["none"]
  BY DEF StepsOf
<1>2. Idle \in [pc : Labels, cmd : Cmds, app : Homes, current : Homes, existed : BOOLEAN,
                next : Nat, limit : Nat, taken : BOOLEAN, count : Counted, accept : BOOLEAN,
                copy : GoodCopies]
  BY NoCopyType DEF Idle, Labels, Cmds, Homes, Counted, Nulls
<1>3. Fits(Idle)
  BY <1>1 DEF Fits, Idle
<1>4. QED
  BY <1>2, <1>3 DEF Commands

(* Another step of the same command, other than migrating. *)
LEMMA MovedType ==
    ASSUME NEW me \in Commands, NEW l \in StepsOf[me.cmd], l \in Labels \ {"idle", "migrate"}
    PROVE  [me EXCEPT !.pc = l] \in Commands
BY DEF Commands, Fits

(* What a step leaves a process with keeps the processes well typed. *)
LEMMA ProcSet ==
    ASSUME ProcOK, NEW p \in Procs, NEW me \in Commands, proc' = [proc EXCEPT ![p] = me]
    PROVE  ProcOK'
BY DEF ProcOK

(* A command that ends, or dies, leaves its process idle. *)
LEMMA QuitType == ASSUME ProcOK, NEW p \in Procs, Quit(p) PROVE ProcOK'
BY IdleType, ProcSet DEF Quit

(* A command goes on to another of its steps. *)
LEMMA GotoType ==
    ASSUME ProcOK, NEW p \in Procs, NEW l \in Labels \ {"idle", "migrate"},
           l \in StepsOf[proc[p].cmd], Goto(p, l)
    PROVE  ProcOK'
<1>1. proc[p] \in Commands
  BY DEF ProcOK
<1>2. [proc[p] EXCEPT !.pc = l] \in Commands
  BY <1>1, MovedType
<1>3. proc' = [proc EXCEPT ![p] = [proc[p] EXCEPT !.pc = l]]
  BY DEF Goto
<1>4. QED
  BY <1>2, <1>3, ProcSet

(* A process at a step runs one of the commands that have it. *)
LEMMA StepOfCommand ==
    ASSUME ProcOK, NEW p \in Procs
    PROVE  /\ proc[p] \in Commands
           /\ proc[p].pc \in Labels /\ proc[p].cmd \in Cmds
           /\ proc[p].pc \in Building \cup {"smoke"} => proc[p].cmd = "install"
           /\ proc[p].pc = "backup" => proc[p].cmd \in Moves
           /\ proc[p].pc = "probe" => proc[p].cmd = "rollback"
           /\ proc[p].pc \in {"guard", "open", "migrate", "carry"}
                => proc[p].cmd \in {"install", "activate"}
           /\ proc[p].pc \in {"previous", "switch", "version"} => proc[p].cmd \in Moves
           /\ proc[p].pc \in {"check", "read", "write"} => proc[p].cmd \in {"install", "doctor"}
           /\ proc[p].pc \in {"unlink", "copy"} => proc[p].cmd = "restore"
           /\ proc[p].pc = "roll" => proc[p].cmd = "roll"
           /\ proc[p].cmd \in {"install", "rollback", "activate"} => proc[p].app \in Apps
           /\ proc[p].cmd = "none" <=> proc[p].pc = "idle"
<1>1. PICK me \in Commands : me = proc[p]
  BY DEF ProcOK
<1>2. me.pc \in Labels /\ me.cmd \in Cmds /\ me.pc \in StepsOf[me.cmd]
      /\ (me.cmd \in {"install", "rollback", "activate"} => me.app \in Apps)
  BY DEF Commands, Fits
<1>3. CASE me.cmd = "install"
  BY <1>1, <1>2, <1>3 DEF StepsOf, Building, Moves
<1>4. CASE me.cmd = "rollback"
  BY <1>1, <1>2, <1>4 DEF StepsOf, Building, Moves
<1>5. CASE me.cmd = "activate"
  BY <1>1, <1>2, <1>5 DEF StepsOf, Building, Moves
<1>6. CASE me.cmd = "doctor"
  BY <1>1, <1>2, <1>6 DEF StepsOf, Building, Moves
<1>7. CASE me.cmd = "restore"
  BY <1>1, <1>2, <1>7 DEF StepsOf, Building, Moves
<1>8. CASE me.cmd = "roll"
  BY <1>1, <1>2, <1>8 DEF StepsOf, Building, Moves
<1>9. CASE me.cmd = "none"
  BY <1>1, <1>2, <1>9 DEF StepsOf, Building, Moves
<1>10. QED
  BY <1>2, <1>3, <1>4, <1>5, <1>6, <1>7, <1>8, <1>9 DEF Cmds

(* The counts read from a well-typed database. *)
LEMMA CountsType == ASSUME DbOK PROVE Counts \in Counted /\ DbRows \in SUBSET Rows
<1>1. DbRows \in SUBSET Rows
  BY DEF DbOK, DbRows
<1>2. QED
  BY <1>1, RowCount DEF Counts, Counted

(* The copies an operator can name. *)
CopiesHeld == {backups[i] : i \in DOMAIN backups} \cup kept \cup {bak}

(* Every copy an operator can name is a good one. *)
LEMMA CopiesHeldType == ASSUME SavedOK PROVE CopiesHeld \subseteq GoodCopies
<1>1. \A i \in DOMAIN backups : backups[i] \in GoodCopies
  BY ElementOfSeq, LenProperties DEF SavedOK
<1>2. QED
  BY <1>1 DEF SavedOK, CopiesHeld

(* Processes whose database was removed under them. *)
LEMMA DetachedType == ASSUME ProcOK PROVE Detached \in [Procs -> Commands]
<1>1. ASSUME NEW p \in Procs
      PROVE  (IF proc[p].pc = "migrate" THEN [proc[p] EXCEPT !.limit = 0] ELSE proc[p]) \in Commands
  <2>1. proc[p] \in Commands
    BY DEF ProcOK
  <2>2. CASE proc[p].pc = "migrate"
    <3>1. proc[p].app \in Apps
      BY <2>2, StepOfCommand
    <3>2. 0 <= Latest[proc[p].app]
      BY <3>1, AuthorityAssumption
    <3>3. [proc[p] EXCEPT !.limit = 0] \in Commands
      BY <2>1, <2>2, <3>2 DEF Commands, Fits
    <3>4. QED
      BY <2>2, <3>3
  <2>3. QED
    BY <2>1, <2>2
<1>2. QED
  BY <1>1 DEF Detached

(* A command that begins: its first step, its app and the copy it restores. *)
LEMMA BegunType ==
    ASSUME ProcOK, NEW p \in Procs, NEW me \in Commands, Begin(p, me)
    PROVE  ProcOK'
BY ProcSet DEF Begin

(* The processes after a step, one case per action. *)
LEMMA ProcStep == TypeInv /\ [Next]_vars => ProcOK'
<1> SUFFICES ASSUME TypeInv, [Next]_vars PROVE ProcOK'
  OBVIOUS
<1>0. /\ ProcOK /\ NoApp \in Homes /\ Apps \subseteq Homes
      /\ current \in Homes /\ previous \in Homes
      /\ db.schema \in Nat
  BY VersionsType DEF TypeInv, HomeOK, DataOK, DbOK, Homes
<1> USE <1>0
<1>1. ASSUME NEW p \in Procs, NEW a \in Apps, StartInstall(p, a) PROVE ProcOK'
  <2>1. PICK l : l = IF Complete(a) THEN "smoke" ELSE "build"
    OBVIOUS
  <2>2. l \in Labels \ {"idle", "migrate"} /\ l \in StepsOf["install"] /\ "install" \in Cmds
    BY <2>1 DEF Labels, StepsOf, Cmds
  <2>3. PICK existed \in BOOLEAN : existed = (db.kind # "absent")
    OBVIOUS
  <2>4. PICK me : me = [Idle EXCEPT !.pc = l, !.cmd = "install", !.app = a, !.current = current,
                                    !.existed = existed]
    OBVIOUS
  <2>5. me \in Commands
    BY <2>2, <2>4, NoCopyType DEF Idle, Commands, Fits, Counted
  <2>6. Begin(p, me)
    BY <1>1, <2>1, <2>3, <2>4 DEF StartInstall
  <2>7. QED
    BY <2>5, <2>6, BegunType
<1>2. ASSUME NEW p \in Procs, ClearApp(p) PROVE ProcOK'
  <2>1. proc[p].pc = "build"
    BY <1>2 DEF ClearApp, At
  <2>2. "venv" \in Labels \ {"idle", "migrate"} /\ "venv" \in StepsOf[proc[p].cmd]
    BY <2>1, StepOfCommand DEF Labels, StepsOf, Building, Moves
  <2>3. Goto(p, "venv") \/ Quit(p)
    BY <1>2 DEF ClearApp
  <2>4. QED
    BY <2>2, <2>3, GotoType, QuitType
<1>3. ASSUME NEW p \in Procs, MakeVenv(p) PROVE ProcOK'
  <2>1. proc[p].pc = "venv"
    BY <1>3 DEF MakeVenv, At
  <2>2. "pip" \in Labels \ {"idle", "migrate"} /\ "pip" \in StepsOf[proc[p].cmd]
    BY <2>1, StepOfCommand DEF Labels, StepsOf, Building, Moves
  <2>3. QED
    BY <1>3, <2>2, GotoType DEF MakeVenv
<1>4. ASSUME NEW p \in Procs, Pip(p) PROVE ProcOK'
  <2>1. proc[p].pc = "pip"
    BY <1>4 DEF Pip, At
  <2>2. "record" \in Labels \ {"idle", "migrate"} /\ "record" \in StepsOf[proc[p].cmd]
    BY <2>1, StepOfCommand DEF Labels, StepsOf, Building, Moves
  <2>3. QED
    BY <1>4, <2>2, GotoType DEF Pip
<1>5. ASSUME NEW p \in Procs, RecordApp(p) PROVE ProcOK'
  <2>1. proc[p].pc = "record"
    BY <1>5 DEF RecordApp, At
  <2>2. "smoke" \in Labels \ {"idle", "migrate"} /\ "smoke" \in StepsOf[proc[p].cmd]
    BY <2>1, StepOfCommand DEF Labels, StepsOf, Building, Moves
  <2>3. QED
    BY <1>5, <2>2, GotoType DEF RecordApp
<1>6. ASSUME NEW p \in Procs, Smoke(p) PROVE ProcOK'
  <2>1. proc[p].pc = "smoke"
    BY <1>6 DEF Smoke, At
  <2>2. CASE proc[p].existed
    <3>1. "backup" \in Labels \ {"idle", "migrate"} /\ "backup" \in StepsOf[proc[p].cmd]
      BY <2>1, <2>2, StepOfCommand DEF Labels, StepsOf, Building, Moves
    <3>2. QED
      BY <1>6, <2>2, <3>1, GotoType DEF Smoke
  <2>3. CASE ~proc[p].existed
    <3>1. "guard" \in Labels \ {"idle", "migrate"} /\ "guard" \in StepsOf[proc[p].cmd]
      BY <2>1, <2>3, StepOfCommand DEF Labels, StepsOf, Building, Moves
    <3>2. QED
      BY <1>6, <2>3, <3>1, GotoType DEF Smoke
  <2>4. QED
    BY <2>2, <2>3
<1>7. ASSUME NEW p \in Procs, BackupAuthority(p) PROVE ProcOK'
  <2>1. proc[p].pc = "backup"
    BY <1>7 DEF BackupAuthority, At
  <2>2. CASE proc[p].cmd = "install"
    <3>1. "guard" \in Labels \ {"idle", "migrate"} /\ "guard" \in StepsOf[proc[p].cmd]
      BY <2>1, <2>2, StepOfCommand DEF Labels, StepsOf, Building, Moves
    <3>2. QED
      BY <1>7, <2>2, <3>1, GotoType DEF BackupAuthority
  <2>3. CASE proc[p].cmd # "install"
    <3>1. "previous" \in Labels \ {"idle", "migrate"} /\ "previous" \in StepsOf[proc[p].cmd]
      BY <2>1, <2>3, StepOfCommand DEF Labels, StepsOf, Building, Moves
    <3>2. QED
      BY <1>7, <2>3, <3>1, GotoType DEF BackupAuthority
  <2>4. QED
    BY <2>2, <2>3
<1>8. ASSUME NEW p \in Procs, Guard(p) PROVE ProcOK'
  <2>1. proc[p].pc = "guard"
    BY <1>8 DEF Guard, At
  <2>2. "open" \in Labels \ {"idle", "migrate"} /\ "open" \in StepsOf[proc[p].cmd]
    BY <2>1, StepOfCommand DEF Labels, StepsOf, Building, Moves
  <2>3. QED
    BY <1>8, <2>2, GotoType DEF Guard
<1>9. ASSUME NEW p \in Procs, Open(p) PROVE ProcOK'
  <2>1. proc[p].pc = "open" /\ proc[p] \in Commands
        /\ proc[p].app \in Apps /\ "migrate" \in StepsOf[proc[p].cmd]
    BY <1>9, StepOfCommand DEF Open, At, StepsOf
  <2>2. PICK limit : limit = IF proc[p].cmd = "activate" THEN Latest[proc[p].app]
                             ELSE Min({Latest[proc[p].app], ReleasedFor(proc[p].app)})
    OBVIOUS
  <2>3. limit \in Nat /\ limit <= Latest[proc[p].app]
    <3>1. Latest[proc[p].app] \in Nat /\ Released[proc[p].app] \in Nat /\ activated \in Nat
      BY <2>1, AuthorityAssumption, VersionsType DEF TypeInv, DataOK
    <3>2. ReleasedFor(proc[p].app) \in Nat
      BY <3>1, OfTwo DEF ReleasedFor
    <3>3. QED
      BY <2>2, <3>1, <3>2, OfTwo
  <2>4. PICK me : me = [proc[p] EXCEPT !.pc = "migrate", !.next = db.schema + 1, !.limit = limit]
    OBVIOUS
  <2>5. me \in Commands
    <3>1. "migrate" \in Labels /\ db.schema + 1 \in Nat /\ db.schema + 1 >= 1
      BY DEF Labels
    <3>2. QED
      BY <2>1, <2>3, <2>4, <3>1 DEF Commands, Fits
  <2>6. proc' = [proc EXCEPT ![p] = me] \/ proc' = [proc EXCEPT ![p] = Idle]
    BY <1>9, <2>2, <2>4 DEF Open
  <2>7. QED
    BY <2>5, <2>6, IdleType, ProcSet
<1>10. ASSUME NEW p \in Procs, Migrate(p) PROVE ProcOK'
  <2>1. proc[p].pc = "migrate" /\ proc[p] \in Commands
    BY <1>10, StepOfCommand DEF Migrate, At
  <2>2. CASE proc[p].next > proc[p].limit
    <3>1. "carry" \in Labels \ {"idle", "migrate"} /\ "carry" \in StepsOf[proc[p].cmd]
      BY <2>1, StepOfCommand DEF Labels, StepsOf
    <3>2. QED
      BY <1>10, <2>2, <3>1, GotoType DEF Migrate
  <2>3. CASE ~(proc[p].next > proc[p].limit)
    <3>1. PICK me : me = [proc[p] EXCEPT !.next = proc[p].next + 1, !.taken = TRUE]
      OBVIOUS
    <3>2. me \in Commands
      <4>1. proc[p].next \in Nat /\ proc[p].next >= 1
        BY <2>1 DEF Commands, Fits
      <4>2. proc[p].next + 1 \in Nat /\ proc[p].next + 1 >= 1
        BY <4>1
      <4>3. PICK n : n = proc[p].next + 1
        OBVIOUS
      <4>4. QED
        BY <2>1, <3>1, <4>2, <4>3 DEF Commands, Fits
    <3>3. proc' = [proc EXCEPT ![p] = me]
      BY <1>10, <2>3, <3>1 DEF Migrate
    <3>4. QED
      BY <3>2, <3>3, ProcSet
  <2>4. QED
    BY <2>2, <2>3
<1>11. ASSUME NEW p \in Procs, Carry(p) PROVE ProcOK'
  <2>1. proc[p].pc = "carry"
    BY <1>11 DEF Carry, At
  <2>2. CASE proc[p].cmd = "activate"
    BY <1>11, <2>2, QuitType DEF Carry
  <2>3. CASE proc[p].cmd # "activate"
    <3>1. "previous" \in Labels \ {"idle", "migrate"} /\ "previous" \in StepsOf[proc[p].cmd]
      BY <2>1, <2>3, StepOfCommand DEF Labels, StepsOf
    <3>2. QED
      BY <1>11, <2>3, <3>1, GotoType DEF Carry
  <2>4. QED
    BY <2>2, <2>3
<1>12. ASSUME NEW p \in Procs, WritePrevious(p) PROVE ProcOK'
  <2>1. proc[p].pc = "previous"
    BY <1>12 DEF WritePrevious, At
  <2>2. "switch" \in Labels \ {"idle", "migrate"} /\ "switch" \in StepsOf[proc[p].cmd]
    BY <2>1, StepOfCommand DEF Labels, StepsOf, Building, Moves
  <2>3. QED
    BY <1>12, <2>2, GotoType DEF WritePrevious
<1>13. ASSUME NEW p \in Procs, SwitchCurrent(p) PROVE ProcOK'
  <2>1. proc[p].pc = "switch"
    BY <1>13 DEF SwitchCurrent, At
  <2>2. "version" \in Labels \ {"idle", "migrate"} /\ "version" \in StepsOf[proc[p].cmd]
    BY <2>1, StepOfCommand DEF Labels, StepsOf, Building, Moves
  <2>3. QED
    BY <1>13, <2>2, GotoType DEF SwitchCurrent
<1>14. ASSUME NEW p \in Procs, WriteVersion(p) PROVE ProcOK'
  <2>1. proc[p].pc = "version"
    BY <1>14 DEF WriteVersion, At
  <2>2. CASE proc[p].cmd = "install"
    <3>1. "check" \in Labels \ {"idle", "migrate"} /\ "check" \in StepsOf[proc[p].cmd]
      BY <2>1, <2>2, StepOfCommand DEF Labels, StepsOf, Building, Moves
    <3>2. QED
      BY <1>14, <2>2, <3>1, GotoType DEF WriteVersion
  <2>3. CASE proc[p].cmd # "install"
    <3>1. "prune" \in Labels \ {"idle", "migrate"} /\ "prune" \in StepsOf[proc[p].cmd]
      BY <2>1, <2>3, StepOfCommand DEF Labels, StepsOf, Building, Moves
    <3>2. QED
      BY <1>14, <2>3, <3>1, GotoType DEF WriteVersion
  <2>4. QED
    BY <2>2, <2>3
<1>15. ASSUME NEW p \in Procs, CheckCounts(p) PROVE ProcOK'
  <2>1. proc[p].pc = "check"
    BY <1>15 DEF CheckCounts, At
  <2>2. CASE db.kind # "absent" /\ (~Dropped \/ proc[p].accept)
    <3>1. "read" \in Labels \ {"idle", "migrate"} /\ "read" \in StepsOf[proc[p].cmd]
      BY <2>1, <2>2, StepOfCommand DEF Labels, StepsOf, Building, Moves
    <3>2. QED
      BY <1>15, <2>2, <3>1, GotoType DEF CheckCounts
  <2>3. CASE ~(db.kind # "absent" /\ (~Dropped \/ proc[p].accept))
    <3>1. "prune" \in Labels \ {"idle", "migrate"} /\ "prune" \in StepsOf[proc[p].cmd]
      BY <2>1, <2>3, StepOfCommand DEF Labels, StepsOf, Building, Moves
    <3>2. QED
      BY <1>15, <2>3, <3>1, GotoType DEF CheckCounts
  <2>4. QED
    BY <2>2, <2>3
<1>16. ASSUME NEW p \in Procs, ReadCounts(p) PROVE ProcOK'
  <2>1. proc[p].pc = "read" /\ proc[p] \in Commands /\ "write" \in StepsOf[proc[p].cmd]
    BY <1>16, StepOfCommand DEF ReadCounts, At, StepsOf
  <2>2. PICK k : k = Counts
    OBVIOUS
  <2>3. k \in Counted
    BY <2>2, CountsType DEF TypeInv, DataOK
  <2>4. PICK me : me = [proc[p] EXCEPT !.pc = "write", !.count = k]
    OBVIOUS
  <2>5. me \in Commands
    BY <2>1, <2>3, <2>4 DEF Commands, Fits, Labels
  <2>6. proc' = [proc EXCEPT ![p] = me]
    BY <1>16, <2>2, <2>4 DEF ReadCounts
  <2>7. QED
    BY <2>5, <2>6, ProcSet
<1>17. ASSUME NEW p \in Procs, WriteCounts(p) PROVE ProcOK'
  <2>1. proc[p].pc = "write"
    BY <1>17 DEF WriteCounts, At
  <2>2. "prune" \in Labels \ {"idle", "migrate"} /\ "prune" \in StepsOf[proc[p].cmd]
    BY <2>1, StepOfCommand DEF Labels, StepsOf, Building, Moves
  <2>3. QED
    BY <1>17, <2>2, GotoType DEF WriteCounts
<1>18. ASSUME NEW p \in Procs, Prune(p) PROVE ProcOK'
  BY <1>18, QuitType DEF Prune
<1>19. ASSUME NEW p \in Procs, StartRollback(p) PROVE ProcOK'
  <2>1. PICK l : l = IF db.kind = "absent" THEN "previous" ELSE "probe"
    OBVIOUS
  <2>2. l \in Labels \ {"idle", "migrate"} /\ l \in StepsOf["rollback"] /\ "rollback" \in Cmds
    BY <2>1 DEF Labels, StepsOf, Cmds
  <2>3. PICK me : me = [Idle EXCEPT !.pc = l, !.cmd = "rollback", !.app = previous,
                                    !.current = current]
    OBVIOUS
  <2>4. previous \in Apps
    BY <1>19 DEF StartRollback, Homes
  <2>5. me \in Commands
    BY <2>2, <2>4, <2>3, NoCopyType DEF Idle, Commands, Fits, Counted
  <2>6. Begin(p, me)
    BY <1>19, <2>1, <2>3 DEF StartRollback
  <2>7. QED
    BY <2>5, <2>6, BegunType
<1>20. ASSUME NEW p \in Procs, Probe(p) PROVE ProcOK'
  <2>1. proc[p].pc = "probe"
    BY <1>20 DEF Probe, At
  <2>2. "backup" \in Labels \ {"idle", "migrate"} /\ "backup" \in StepsOf[proc[p].cmd]
    BY <2>1, StepOfCommand DEF Labels, StepsOf, Building, Moves
  <2>3. Goto(p, "backup") \/ Quit(p)
    BY <1>20 DEF Probe
  <2>4. QED
    BY <2>2, <2>3, GotoType, QuitType
<1>21. ASSUME NEW p \in Procs, StartActivate(p) PROVE ProcOK'
  <2>1. "guard" \in Labels \ {"idle", "migrate"} /\ "guard" \in StepsOf["activate"]
        /\ "activate" \in Cmds /\ current \in Apps
    BY <1>21 DEF StartActivate, Labels, StepsOf, Cmds, Homes
  <2>2. PICK me : me = [Idle EXCEPT !.pc = "guard", !.cmd = "activate", !.app = current]
    OBVIOUS
  <2>3. me \in Commands
    BY <2>1, <2>2, NoCopyType DEF Idle, Commands, Fits, Counted
  <2>4. QED
    BY <1>21, <2>2, <2>3, BegunType DEF StartActivate
<1>22. ASSUME NEW p \in Procs, NEW accept \in BOOLEAN, StartDoctor(p, accept) PROVE ProcOK'
  <2>1. "check" \in Labels \ {"idle", "migrate"} /\ "check" \in StepsOf["doctor"] /\ "doctor" \in Cmds
    BY DEF Labels, StepsOf, Cmds
  <2>2. PICK me : me = [Idle EXCEPT !.pc = "check", !.cmd = "doctor", !.accept = accept]
    OBVIOUS
  <2>3. me \in Commands
    BY <2>1, <2>2, NoCopyType DEF Idle, Commands, Fits, Counted
  <2>4. QED
    BY <1>22, <2>2, <2>3, BegunType DEF StartDoctor
<1>23. ASSUME NEW p \in Procs, NEW c \in CopiesHeld, StartRestore(p, c) PROVE ProcOK'
  <2>1. "unlink" \in Labels \ {"idle", "migrate"} /\ "unlink" \in StepsOf["restore"] /\ "restore" \in Cmds
    BY DEF Labels, StepsOf, Cmds
  <2>2. c \in GoodCopies
    BY CopiesHeldType DEF TypeInv
  <2>3. PICK me : me = [Idle EXCEPT !.pc = "unlink", !.cmd = "restore", !.copy = c]
    OBVIOUS
  <2>4. me \in Commands
    BY <2>1, <2>2, <2>3, NoCopyType DEF Idle, Commands, Fits, Counted
  <2>5. QED
    BY <1>23, <2>3, <2>4, BegunType DEF StartRestore
<1>24. ASSUME NEW p \in Procs, Unlink(p) PROVE ProcOK'
  <2>1. proc[p].pc = "unlink" /\ proc' = [Detached EXCEPT ![p].pc = "copy"]
    BY <1>24 DEF Unlink
  <2>2. Detached \in [Procs -> Commands] /\ Detached[p] = proc[p]
    BY <2>1, DetachedType DEF Detached
  <2>3. "copy" \in Labels \ {"idle", "migrate"} /\ "copy" \in StepsOf[proc[p].cmd]
    BY <2>1, StepOfCommand DEF Labels, StepsOf
  <2>4. [proc[p] EXCEPT !.pc = "copy"] \in Commands
    BY <2>3, MovedType DEF ProcOK
  <2>5. proc' = [Detached EXCEPT ![p] = [proc[p] EXCEPT !.pc = "copy"]]
    BY <2>1, <2>2
  <2>6. QED
    BY <2>2, <2>4, <2>5 DEF ProcOK
<1>25. ASSUME NEW p \in Procs, CopyBack(p) PROVE ProcOK'
  BY <1>25, QuitType DEF CopyBack
<1>26. ASSUME NEW p \in Procs, StartRolling(p) PROVE ProcOK'
  <2>1. "roll" \in Labels \ {"idle", "migrate"} /\ "roll" \in StepsOf["roll"] /\ "roll" \in Cmds
    BY DEF Labels, StepsOf, Cmds
  <2>2. PICK me : me = [Idle EXCEPT !.pc = "roll", !.cmd = "roll"]
    OBVIOUS
  <2>3. me \in Commands
    BY <2>1, <2>2, NoCopyType DEF Idle, Commands, Fits, Counted
  <2>4. QED
    BY <1>26, <2>2, <2>3, BegunType DEF StartRolling
<1>27. ASSUME NEW p \in Procs, Roll(p) PROVE ProcOK'
  BY <1>27, QuitType DEF Roll
<1>28. ASSUME NEW p \in Procs, Fail(p) PROVE ProcOK'
  BY <1>28, QuitType DEF Fail
<1>29. ASSUME NEW p \in Procs, Die(p) PROVE ProcOK'
  BY <1>29, QuitType DEF Die
<1>30. CASE Environment
  <2>1. UNCHANGED proc \/ proc' = Detached
    BY <1>30 DEF Environment, Work, Shrink, Checkpoint, Lose, RawConnect, Integrate
  <2>2. QED
    BY <2>1, DetachedType DEF ProcOK
<1>31. CASE UNCHANGED vars
  BY <1>31 DEF vars, ProcOK
<1>32. QED
  BY <1>1, <1>2, <1>3, <1>4, <1>5, <1>6, <1>7, <1>8, <1>9, <1>10, <1>11, <1>12, <1>13, <1>14, <1>15, <1>16, <1>17, <1>18, <1>19, <1>20, <1>21, <1>22, <1>23, <1>24, <1>25, <1>26, <1>27, <1>28, <1>29, <1>30, <1>31
     DEF Next, Install, Operate, CopiesHeld

(* The apps and the three names of them after a step. *)
LEMMA HomeStep == TypeInv /\ [Next]_vars => HomeOK'
<1> SUFFICES ASSUME TypeInv, [Next]_vars PROVE HomeOK'
  OBVIOUS
<1>0. HomeOK /\ ProcOK
  BY DEF TypeInv
<1> USE <1>0
<1>1. ASSUME NEW p \in Procs, ClearApp(p) PROVE HomeOK'
  <2>1. proc[p].app \in Apps
    BY <1>1, StepOfCommand DEF ClearApp, At, Building, TypeInv
  <2>2. \/ app' = app
        \/ app' = [app EXCEPT ![proc[p].app] = [venv |-> "none", record |-> FALSE]]
    BY <1>1 DEF ClearApp
  <2>3. UNCHANGED <<current, previous, marked>>
    BY <1>1 DEF ClearApp
  <2>4. [venv |-> "none", record |-> FALSE] \in [venv : {"none", "some", "full"}, record : BOOLEAN]
    OBVIOUS
  <2>5. app' \in [Apps -> [venv : {"none", "some", "full"}, record : BOOLEAN]]
    BY <2>1, <2>2, <2>4 DEF HomeOK
  <2>6. QED
    BY <2>3, <2>5 DEF HomeOK
<1>2. ASSUME NEW p \in Procs, MakeVenv(p) PROVE HomeOK'
  <2>1. proc[p].app \in Apps
    BY <1>2, StepOfCommand DEF MakeVenv, At, Building, TypeInv
  <2>2. QED
    BY <1>2, <2>1 DEF MakeVenv, HomeOK
<1>3. ASSUME NEW p \in Procs, Pip(p) PROVE HomeOK'
  <2>1. proc[p].app \in Apps
    BY <1>3, StepOfCommand DEF Pip, At, Building, TypeInv
  <2>2. QED
    BY <1>3, <2>1 DEF Pip, HomeOK
<1>4. ASSUME NEW p \in Procs, RecordApp(p) PROVE HomeOK'
  <2>1. proc[p].app \in Apps
    BY <1>4, StepOfCommand DEF RecordApp, At, Building, TypeInv
  <2>2. QED
    BY <1>4, <2>1 DEF RecordApp, HomeOK
<1>5. ASSUME NEW p \in Procs, WritePrevious(p) PROVE HomeOK'
  <2>1. proc[p].current \in Homes
    BY StepOfCommand DEF Commands
  <2>2. QED
    BY <1>5, <2>1 DEF WritePrevious, HomeOK
<1>6. ASSUME NEW p \in Procs, SwitchCurrent(p) PROVE HomeOK'
  <2>1. proc[p].app \in Homes
    BY StepOfCommand DEF Commands
  <2>2. QED
    BY <1>6, <2>1 DEF SwitchCurrent, HomeOK
<1>7. ASSUME NEW p \in Procs, WriteVersion(p) PROVE HomeOK'
  <2>1. proc[p].app \in Homes
    BY StepOfCommand DEF Commands
  <2>2. QED
    BY <1>7, <2>1 DEF WriteVersion, HomeOK
<1>8. ASSUME NEW p \in Procs, Fail(p) PROVE HomeOK'
  BY <1>8 DEF Fail, HomeOK
<1>9. CASE UNCHANGED home
  BY <1>9 DEF home, HomeOK
<1>10. ASSUME NEW p \in Procs,
             \/ \E a \in Apps : StartInstall(p, a)
             \/ \E accept \in BOOLEAN : StartDoctor(p, accept)
             \/ \E c \in CopiesHeld : StartRestore(p, c)
      PROVE  HomeOK'
  BY <1>10, <1>9 DEF StartInstall, StartDoctor, StartRestore, Begin, home, data, saved, hist, vars
<1>11. ASSUME NEW p \in Procs, Smoke(p) \/ BackupAuthority(p) \/ Guard(p) \/ Open(p) \/ Migrate(p) \/ Carry(p)
      PROVE  HomeOK'
  BY <1>11, <1>9 DEF Smoke, BackupAuthority, Guard, Open, Migrate, Carry, At, Begin, home, data, saved, hist, vars
<1>12. ASSUME NEW p \in Procs, CheckCounts(p) \/ ReadCounts(p) \/ WriteCounts(p) \/ Prune(p) \/ StartRollback(p) \/ Probe(p)
      PROVE  HomeOK'
  BY <1>12, <1>9 DEF CheckCounts, ReadCounts, WriteCounts, Prune, StartRollback, Probe, At, Begin, home, data, saved, hist, vars
<1>13. ASSUME NEW p \in Procs, StartActivate(p) \/ Unlink(p) \/ CopyBack(p) \/ StartRolling(p) \/ Roll(p) \/ Die(p)
      PROVE  HomeOK'
  BY <1>13, <1>9 DEF StartActivate, Unlink, CopyBack, StartRolling, Roll, Die, At, Begin, home, data, saved, hist, vars
<1>14. ASSUME NEW r \in Rows, Work(r) \/ Shrink(r) PROVE HomeOK'
  BY <1>14, <1>9 DEF Work, Shrink, home, data, saved, hist, vars
<1>15. CASE Checkpoint \/ Lose \/ RawConnect
  BY <1>15, <1>9 DEF Checkpoint, Lose, RawConnect, home, data, saved, hist, vars
<1>18. CASE Integrate
  BY <1>18 DEF Integrate, HomeOK
<1>16. CASE UNCHANGED vars
  BY <1>16, <1>9 DEF home, data, saved, hist, vars
<1>17. QED
  BY <1>1, <1>2, <1>3, <1>4, <1>5, <1>6, <1>7, <1>8, <1>9, <1>10, <1>11, <1>12, <1>13,
     <1>14, <1>15, <1>16, <1>18
     DEF Next, Install, Operate, Environment, CopiesHeld

(* The authority, the activation and the baseline after a step. *)
LEMMA DataStep == TypeInv /\ [Next]_vars => DataOK'
<1> SUFFICES ASSUME TypeInv, [Next]_vars PROVE DataOK'
  OBVIOUS
<1>0. /\ DataOK /\ DbOK /\ ProcOK /\ current \in Homes /\ activated \in Versions
      /\ db \in [kind : Kinds, schema : Versions, main : SUBSET Rows, wal : SUBSET Rows]
      /\ 0 \in Versions /\ "authority" \in Kinds /\ "absent" \in Kinds /\ "empty" \in Kinds
  BY VersionsType DEF TypeInv, DataOK, DbOK, HomeOK, Kinds
<1> USE <1>0
<1>1. ASSUME NEW p \in Procs, Open(p) PROVE DataOK'
  BY <1>1 DEF Open, DataOK, DbOK, Absent
<1>2. ASSUME NEW p \in Procs, Migrate(p) PROVE DataOK'
  <2>1. proc[p].pc = "migrate" /\ proc[p].app \in Apps /\ proc[p] \in Commands
    BY <1>2, StepOfCommand DEF Migrate, At
  <2>2. proc[p].next \in Nat /\ proc[p].limit \in Nat /\ proc[p].limit <= Latest[proc[p].app]
    BY <2>1 DEF Commands, Fits
  <2>3. CASE proc[p].next > proc[p].limit
    BY <1>2, <2>3 DEF Migrate, DataOK, DbOK
  <2>4. CASE ~(proc[p].next > proc[p].limit)
    <3>1. proc[p].next \in 0..Latest[proc[p].app]
      BY <2>1, <2>2, <2>4, AuthorityAssumption
    <3>2. proc[p].next \in Versions
      BY <2>1, <3>1, VersionsType
    <3>3. QED
      BY <1>2, <2>4, <3>2 DEF Migrate, DataOK, DbOK
  <2>5. QED
    BY <2>3, <2>4
<1>3. ASSUME NEW p \in Procs, Carry(p) PROVE DataOK'
  <2>1. proc[p].app \in Apps
    BY <1>3, StepOfCommand DEF Carry, At
  <2>2. Latest[proc[p].app] \in Versions
    BY <2>1, VersionsType, AuthorityAssumption
  <2>3. QED
    BY <1>3, <2>2 DEF Carry, DataOK, DbOK
<1>4. ASSUME NEW p \in Procs, WriteCounts(p) PROVE DataOK'
  <2>1. proc[p].count \in Counted
    BY StepOfCommand DEF Commands
  <2>2. QED
    BY <1>4, <2>1 DEF WriteCounts, DataOK, DbOK
<1>5. ASSUME NEW p \in Procs, Unlink(p) PROVE DataOK'
  BY <1>5 DEF Unlink, DataOK, DbOK, Absent
<1>6. ASSUME NEW p \in Procs, CopyBack(p) PROVE DataOK'
  <2>1. proc[p].copy \in GoodCopies
    BY StepOfCommand DEF Commands
  <2>2. QED
    BY <1>6, <2>1 DEF CopyBack, DataOK, DbOK, GoodCopies, Copies, Kinds
<1>7. ASSUME NEW p \in Procs, Roll(p) PROVE DataOK'
  BY <1>7 DEF Roll, DataOK, DbOK, DbRows
<1>8. ASSUME NEW r \in Rows, Work(r) PROVE DataOK'
  <2>1. current \in Apps
    BY <1>8 DEF Work, Homes
  <2>2. PICK to : to = Min({Latest[current], ReleasedFor(current)})
    OBVIOUS
  <2>3. /\ Latest[current] \in Nat /\ Released[current] \in Nat
        /\ activated \in Nat /\ db.schema \in Nat
    <3>1. Latest[current] \in Nat /\ Released[current] \in 1..Latest[current]
      BY <2>1, AuthorityAssumption
    <3>2. db.schema \in Versions /\ Versions \subseteq Nat
      BY VersionsType
    <3>3. activated \in Nat /\ db.schema \in Nat
      BY <3>2
    <3>4. Released[current] \in Nat
      BY <3>1
    <3>5. QED
      BY <3>1, <3>3, <3>4
  <2>4. ReleasedFor(current) \in Nat
    BY <2>3, OfTwo DEF ReleasedFor
  <2>5. to \in 0..Latest[current]
    BY <2>2, <2>3, <2>4, OfTwo
  <2>6. Max({db.schema, to}) \in Versions
    BY <2>1, <2>3, <2>5, OfTwo, VersionsType
  <2>7. QED
    BY <1>8, <2>2, <2>6 DEF Work, DataOK, DbOK
<1>9. ASSUME NEW r \in Rows, Shrink(r) PROVE DataOK'
  BY <1>9 DEF Shrink, DataOK, DbOK, DbRows
<1>10. CASE Checkpoint
  BY <1>10 DEF Checkpoint, DataOK, DbOK, DbRows
<1>11. CASE Lose
  BY <1>11 DEF Lose, DataOK, DbOK, Absent
<1>12. CASE RawConnect
  BY <1>12 DEF RawConnect, DataOK, DbOK, Empty, Absent
<1>21. CASE Integrate
  BY <1>21 DEF Integrate, data, DataOK, DbOK
<1>13. CASE UNCHANGED data
  BY <1>13 DEF data, DataOK, DbOK
<1>14. ASSUME NEW p \in Procs,
             \/ \E a \in Apps : StartInstall(p, a)
             \/ \E accept \in BOOLEAN : StartDoctor(p, accept)
             \/ \E c \in CopiesHeld : StartRestore(p, c)
      PROVE  DataOK'
  BY <1>14, <1>13 DEF StartInstall, StartDoctor, StartRestore, Begin, home, data, saved, hist, vars
<1>15. ASSUME NEW p \in Procs, ClearApp(p) \/ MakeVenv(p) \/ Pip(p) \/ RecordApp(p) \/ Smoke(p) \/ BackupAuthority(p)
      PROVE  DataOK'
  BY <1>15, <1>13 DEF ClearApp, MakeVenv, Pip, RecordApp, Smoke, BackupAuthority, At, Begin, home, data, saved, hist, vars
<1>16. ASSUME NEW p \in Procs, Guard(p) \/ WritePrevious(p) \/ SwitchCurrent(p) \/ WriteVersion(p) \/ CheckCounts(p) \/ ReadCounts(p)
      PROVE  DataOK'
  BY <1>16, <1>13 DEF Guard, WritePrevious, SwitchCurrent, WriteVersion, CheckCounts, ReadCounts, At, Begin, home, data, saved, hist, vars
<1>17. ASSUME NEW p \in Procs, Prune(p) \/ StartRollback(p) \/ Probe(p) \/ StartActivate(p) \/ StartRolling(p) \/ Fail(p)
      PROVE  DataOK'
  BY <1>17, <1>13 DEF Prune, StartRollback, Probe, StartActivate, StartRolling, Fail, At, Begin, home, data, saved, hist, vars
<1>18. ASSUME NEW p \in Procs, Die(p)
      PROVE  DataOK'
  BY <1>18, <1>13 DEF Die, At, Begin, home, data, saved, hist, vars
<1>19. CASE UNCHANGED vars
  BY <1>19, <1>13 DEF home, data, saved, hist, vars
<1>20. QED
  BY <1>1, <1>2, <1>3, <1>4, <1>5, <1>6, <1>7, <1>8, <1>9, <1>10, <1>11, <1>12, <1>13,
     <1>14, <1>15, <1>16, <1>17, <1>18, <1>19, <1>21
     DEF Next, Install, Operate, Environment, CopiesHeld

(* What a backup of a well-typed database holds. *)
LEMMA SnapshotType == ASSUME DbOK PROVE Snapshot \in GoodCopies
BY DEF DbOK, Snapshot, DbRows, GoodCopies, Copies, Kinds

(* The copies after a step. *)
LEMMA SavedStep == TypeInv /\ [Next]_vars => SavedOK'
<1> SUFFICES ASSUME TypeInv, [Next]_vars PROVE SavedOK'
  OBVIOUS
<1>0. SavedOK /\ DbOK /\ ProcOK /\ Snapshot \in GoodCopies /\ EmptyCopy \in GoodCopies
  BY SnapshotType, NoCopyType DEF TypeInv, DataOK, EmptyCopy, NoCopy, GoodCopies, Copies, Kinds
<1> USE <1>0
<1>1. ASSUME NEW p \in Procs, NEW c \in CopiesHeld, StartRestore(p, c) PROVE SavedOK'
  <2>1. [kind |-> db.kind, schema |-> db.schema, rows |-> db.main] \in GoodCopies
    BY DEF DbOK, GoodCopies, Copies, Kinds
  <2>2. QED
    BY <1>1, <2>1 DEF StartRestore, SavedOK
<1>2. ASSUME NEW p \in Procs, BackupAuthority(p) PROVE SavedOK'
  <2>1. PICK c \in GoodCopies : c = Snapshot
    OBVIOUS
  <2>2. backups' = Append(backups, c)
    BY <1>2, <2>1 DEF BackupAuthority
  <2>3. backups' \in Seq(GoodCopies)
    BY <2>2, AppendProperties DEF SavedOK
  <2>4. QED
    BY <1>2, <2>3 DEF BackupAuthority, SavedOK
<1>3. ASSUME NEW p \in Procs, Migrate(p) PROVE SavedOK'
  BY <1>3 DEF Migrate, BackupLive, SavedOK
<1>4. ASSUME NEW p \in Procs, Prune(p) PROVE SavedOK'
  <2>1. PICK n : n = Len(backups)
    OBVIOUS
  <2>2. n \in Nat /\ \A i \in 1..n : backups[i] \in GoodCopies
    BY <2>1, LenProperties, ElementOfSeq DEF SavedOK
  <2>3. n > BackupsKept => SubSeq(backups, n - BackupsKept + 1, n) \in Seq(GoodCopies)
    <3>1. PICK m : m = n - BackupsKept + 1
      OBVIOUS
    <3>2. n > BackupsKept => m \in Int /\ \A i \in m..n : backups[i] \in GoodCopies
      BY <2>2, <3>1, AuthorityAssumption
    <3>3. QED
      BY <2>2, <3>1, <3>2, SubSeqProperties
  <2>4. backups' \in Seq(GoodCopies)
    BY <1>4, <2>1, <2>3 DEF Prune, SavedOK
  <2>5. QED
    BY <1>4, <2>4 DEF Prune, SavedOK
<1>5. ASSUME NEW p \in Procs, StartRolling(p) PROVE SavedOK'
  BY <1>5, NoCopyType DEF StartRolling, SavedOK
<1>6. ASSUME NEW p \in Procs, Roll(p) PROVE SavedOK'
  BY <1>6 DEF Roll, SavedOK
<1>7. ASSUME NEW r \in Rows, Work(r) PROVE SavedOK'
  BY <1>7 DEF Work, BackupLive, SavedOK
<1>8. CASE UNCHANGED saved
  BY <1>8 DEF saved, SavedOK
<1>9. ASSUME NEW p \in Procs,
             \/ \E a \in Apps : StartInstall(p, a)
             \/ \E accept \in BOOLEAN : StartDoctor(p, accept)
      PROVE  SavedOK'
  BY <1>9, <1>8 DEF StartInstall, StartDoctor, Begin, home, data, saved, hist, vars
<1>10. ASSUME NEW p \in Procs, ClearApp(p) \/ MakeVenv(p) \/ Pip(p) \/ RecordApp(p) \/ Smoke(p) \/ Guard(p)
      PROVE  SavedOK'
  BY <1>10, <1>8 DEF ClearApp, MakeVenv, Pip, RecordApp, Smoke, Guard, At, Begin, home, data, saved, hist, vars
<1>11. ASSUME NEW p \in Procs, Open(p) \/ Carry(p) \/ WritePrevious(p) \/ SwitchCurrent(p) \/ WriteVersion(p) \/ CheckCounts(p)
      PROVE  SavedOK'
  BY <1>11, <1>8 DEF Open, Carry, WritePrevious, SwitchCurrent, WriteVersion, CheckCounts, At, Begin, home, data, saved, hist, vars
<1>12. ASSUME NEW p \in Procs, ReadCounts(p) \/ WriteCounts(p) \/ StartRollback(p) \/ Probe(p) \/ StartActivate(p) \/ Unlink(p)
      PROVE  SavedOK'
  BY <1>12, <1>8 DEF ReadCounts, WriteCounts, StartRollback, Probe, StartActivate, Unlink, At, Begin, home, data, saved, hist, vars
<1>13. ASSUME NEW p \in Procs, CopyBack(p) \/ Fail(p) \/ Die(p)
      PROVE  SavedOK'
  BY <1>13, <1>8 DEF CopyBack, Fail, Die, At, Begin, home, data, saved, hist, vars
<1>14. ASSUME NEW r \in Rows, Shrink(r) PROVE SavedOK'
  BY <1>14, <1>8 DEF Shrink, home, data, saved, hist, vars
<1>15. CASE Checkpoint \/ Lose \/ RawConnect \/ Integrate
  BY <1>15, <1>8 DEF Checkpoint, Lose, RawConnect, Integrate, home, data, saved, hist, vars
<1>16. CASE UNCHANGED vars
  BY <1>16, <1>8 DEF home, data, saved, hist, vars
<1>17. QED
  BY <1>1, <1>2, <1>3, <1>4, <1>5, <1>6, <1>7, <1>8, <1>9, <1>10, <1>11, <1>12, <1>13,
     <1>14, <1>15, <1>16
     DEF Next, Install, Operate, Environment, CopiesHeld

(* The first states. *)
LEMMA TypeInit == Init => TypeInv
<1> SUFFICES ASSUME Init PROVE TypeInv
  OBVIOUS
<1>1. marked \in BOOLEAN /\ previous \in Homes /\ current \in Homes
  BY DEF Init, Homes
<1>2. HomeOK
  BY <1>1 DEF Init, HomeOK
<1>3. \A a \in Apps : Released[a] \in Versions
  BY VersionsType, AuthorityAssumption
<1>4. DbOK
  <2>1. CASE db = Absent
    BY <2>1, VersionsType DEF DbOK, Absent, Kinds
  <2>2. ASSUME NEW a \in Apps, NEW R \in SUBSET Rows,
               db = [kind |-> "authority", schema |-> Released[a], main |-> R, wal |-> {}]
        PROVE  DbOK
    BY <1>3, <2>2 DEF DbOK, Kinds
  <2>3. QED
    BY <2>1, <2>2 DEF Init
<1>5. baseline \in {NoBaseline} \cup Counted
  BY RowCount DEF Init, Counted
<1>6. DataOK
  BY <1>4, <1>5, VersionsType DEF Init, DataOK
<1>7. kept \subseteq GoodCopies
  <2>1. ASSUME NEW b \in Apps, NEW R \in SUBSET Rows
        PROVE  [kind |-> "authority", schema |-> Released[b], rows |-> R] \in GoodCopies
    BY <1>3 DEF GoodCopies, Copies
  <2>2. QED
    BY <2>1 DEF Init
<1>8. SavedOK
  BY <1>7, NoCopyType, EmptySeq DEF Init, SavedOK
<1>9. ProcOK
  BY IdleType DEF Init, ProcOK
<1>10. HistOK
  <2>1. MaxCommands \in 0..MaxCommands /\ MaxFaults \in 0..MaxFaults
    BY AuthorityAssumption
  <2>2. QED
    BY <2>1 DEF Init, HistOK
<1>11. QED
  BY <1>2, <1>6, <1>8, <1>9, <1>10 DEF TypeInv

(* The bounds and the history variables after a step. *)
LEMMA HistStep == TypeInv /\ [Next]_vars => HistOK'
<1> SUFFICES ASSUME TypeInv, [Next]_vars PROVE HistOK'
  OBVIOUS
<1>1. HistOK
  BY DEF TypeInv
<1>2. ASSUME NEW p \in Procs, NEW me, Begin(p, me) PROVE HistOK'
  <2>1. commands' \in 0..MaxCommands
    BY <1>1, <1>2, AuthorityAssumption DEF HistOK, Begin
  <2>2. crossed' \in BOOLEAN /\ clash' \in BOOLEAN
    BY <1>2 DEF Begin
  <2>3. QED
    BY <1>1, <1>2, <2>1, <2>2 DEF HistOK, Begin
<1>3. CASE /\ UNCHANGED <<crossed, clash, commands>>
           /\ behind' \in BOOLEAN /\ slipped' \in BOOLEAN
           /\ faults' = faults \/ (faults > 0 /\ faults' = faults - 1)
  <2>1. faults' \in 0..MaxFaults
    BY <1>1, <1>3, AuthorityAssumption DEF HistOK
  <2>2. QED
    BY <1>1, <1>3, <2>1 DEF HistOK
<1>4. ASSUME NEW p \in Procs, NEW l, At(p, l), behind' \in BOOLEAN PROVE HistOK'
  BY <1>1, <1>3, <1>4 DEF At, HistOK
<1>5. ASSUME NEW p \in Procs, (\E a \in Apps : StartInstall(p, a)) \/ StartRollback(p) \/ StartActivate(p)
             \/ (\E accept \in BOOLEAN : StartDoctor(p, accept))
             \/ (\E c \in CopiesHeld : StartRestore(p, c)) \/ StartRolling(p)
      PROVE  HistOK'
  BY <1>2, <1>5 DEF StartInstall, StartRollback, StartActivate, StartDoctor, StartRestore, StartRolling
<1>6. ASSUME NEW p \in Procs, ClearApp(p) \/ MakeVenv(p) \/ Pip(p) \/ RecordApp(p) \/ Smoke(p)
             \/ BackupAuthority(p) \/ Guard(p) \/ Open(p) \/ Carry(p)
      PROVE  HistOK'
  <2>1. behind' \in {behind, TRUE, FALSE} /\ \E l : At(p, l)
    BY <1>6 DEF ClearApp, MakeVenv, Pip, RecordApp, Smoke, BackupAuthority, Guard, Open, Carry
  <2>2. QED
    BY <1>1, <1>4, <2>1 DEF HistOK
<1>7. ASSUME NEW p \in Procs, WritePrevious(p) \/ SwitchCurrent(p) \/ CheckCounts(p)
             \/ ReadCounts(p) \/ WriteCounts(p) \/ Prune(p) \/ Probe(p) \/ Roll(p)
      PROVE  HistOK'
  <2>1. behind' \in {behind, TRUE, FALSE} /\ \E l : At(p, l)
    BY <1>7 DEF WritePrevious, SwitchCurrent, CheckCounts, ReadCounts, WriteCounts, Prune, Probe, Roll
  <2>2. QED
    BY <1>1, <1>4, <2>1 DEF HistOK
<1>8. ASSUME NEW p \in Procs, WriteVersion(p) \/ Unlink(p) \/ CopyBack(p) PROVE HistOK'
  <2>1. UNCHANGED <<commands, faults, crossed, clash>> /\ behind' \in BOOLEAN
    BY <1>1, <1>8 DEF WriteVersion, Unlink, CopyBack, HistOK
  <2>2. slipped' \in BOOLEAN
    BY <1>8 DEF WriteVersion, Unlink, CopyBack, Slip
  <2>3. QED
    BY <1>3, <2>1, <2>2
<1>9. ASSUME NEW p \in Procs, Fail(p) \/ Die(p) PROVE HistOK'
  <2>1. UNCHANGED <<commands, crossed, clash, slipped>> /\ behind' \in BOOLEAN
    BY <1>9 DEF Fail, Die, Left
  <2>2. CASE Die(p)
    BY <1>1, <1>3, <2>1, <2>2 DEF Die, HistOK
  <2>3. CASE Fail(p)
    <3>1. faults' = faults \/ (faults > 0 /\ faults' = faults - 1)
      BY <2>3 DEF Fail
    <3>2. QED
      BY <1>1, <1>3, <2>1, <3>1 DEF HistOK
  <2>4. QED
    BY <1>9, <2>2, <2>3
<1>15. ASSUME NEW p \in Procs, Migrate(p) PROVE HistOK'
  <2>1. UNCHANGED <<commands, crossed, clash, slipped>> /\ behind' \in BOOLEAN
    BY <1>1, <1>15 DEF Migrate, HistOK
  <2>2. faults' = faults \/ (faults > 0 /\ faults' = faults - 1)
    BY <1>15 DEF Migrate, BackupLive
  <2>3. QED
    BY <1>1, <1>3, <2>1, <2>2 DEF HistOK
<1>10. ASSUME NEW r \in Rows, Work(r) PROVE HistOK'
  <2>1. UNCHANGED <<commands, crossed, clash>> /\ behind' \in BOOLEAN
    BY <1>10 DEF Work
  <2>4. faults' = faults \/ (faults > 0 /\ faults' = faults - 1)
    BY <1>10 DEF Work, BackupLive
  <2>2. slipped' \in BOOLEAN
    BY <1>1, <1>10 DEF Work, Slip, HistOK
  <2>3. QED
    BY <1>3, <2>1, <2>2, <2>4
<1>11. ASSUME NEW r \in Rows, Shrink(r) PROVE HistOK'
  BY <1>1, <1>3, <1>11 DEF Shrink, Slip, HistOK
<1>12. CASE Lose
  BY <1>1, <1>3, <1>12 DEF Lose, Slip, HistOK
<1>16. CASE Integrate
  BY <1>1, <1>3, <1>16 DEF Integrate, Slip, HistOK
<1>13. CASE Checkpoint \/ RawConnect \/ UNCHANGED vars
  BY <1>1, <1>13 DEF Checkpoint, RawConnect, vars, hist, HistOK
<1>14. QED
  BY <1>5, <1>6, <1>7, <1>8, <1>9, <1>10, <1>11, <1>12, <1>13, <1>15, <1>16
     DEF Next, Install, Operate, Environment, CopiesHeld

(* Every step keeps the types. *)
LEMMA TypeStep == TypeInv /\ [Next]_vars => TypeInv'
BY HomeStep, DataStep, SavedStep, ProcStep, HistStep DEF TypeInv

(* Type correctness: the apps, the authority, the copies and the commands in
   flight keep their types, and a file that is no authority holds nothing.   *)
THEOREM AuthorityTypeCorrect == Spec => []TypeOK
BY TypeInit, TypeStep, TypeInvImplies, PTL DEF Spec

-----------------------------------------------------------------------------
(* What a step does to the commands in flight.                             *)

(* What the invariants read of a command is left alone. *)
Same(q) == /\ proc'[q].pc = proc[q].pc /\ proc'[q].cmd = proc[q].cmd
           /\ proc'[q].app = proc[q].app /\ proc'[q].accept = proc[q].accept
           /\ proc'[q].count = proc[q].count

BuildStep(p) == ClearApp(p) \/ MakeVenv(p) \/ Pip(p) \/ RecordApp(p)
LaterStep(p) ==
    \/ Smoke(p) \/ BackupAuthority(p) \/ Guard(p) \/ Open(p) \/ Migrate(p) \/ Carry(p)
    \/ WritePrevious(p) \/ SwitchCurrent(p) \/ WriteVersion(p)
    \/ CheckCounts(p) \/ ReadCounts(p) \/ WriteCounts(p) \/ Prune(p)
    \/ Probe(p) \/ Unlink(p) \/ CopyBack(p) \/ Roll(p)
StartStep(p) ==
    \/ \E a \in Apps : StartInstall(p, a)
    \/ StartRollback(p) \/ StartActivate(p) \/ StartRolling(p)
    \/ \E accept \in BOOLEAN : StartDoctor(p, accept)
    \/ \E c \in CopiesHeld : StartRestore(p, c)

(* The steps of the specification, by what they are about. *)
LEMMA NextSteps ==
    [Next]_vars => \/ \E p \in Procs : StartStep(p) \/ BuildStep(p) \/ LaterStep(p) \/ Fail(p) \/ Die(p)
                   \/ Environment \/ UNCHANGED vars
BY DEF Next, Install, Operate, StartStep, BuildStep, LaterStep, CopiesHeld

(* A command that begins. *)
LEMMA BeginEffect ==
    ASSUME ProcOK, NEW p \in Procs, NEW me, Begin(p, me)
    PROVE  /\ proc[p].pc = "idle" /\ proc'[p] = me
           /\ \A q \in Procs \ {p} : Same(q)
           /\ clash => clash'
           /\ ~clash' => \A q \in Procs : me.cmd = "install" /\ proc[q].cmd = "install"
                                          => proc[q].app # me.app
           /\ (crossed => crossed') /\ (~crossed' => \A q \in Procs : proc[q].pc = "idle")
           /\ UNCHANGED <<behind, slipped>>
<1>1. proc[p].pc = "idle" /\ proc'[p] = me /\ \A q \in Procs \ {p} : Same(q)
  BY DEF Begin, ProcOK, Same
<1>2. \A q \in Procs : proc[q].cmd = "install" => q \in Busy
  BY StepOfCommand DEF Busy
<1>3. QED
  BY <1>1, <1>2 DEF Begin, Busy

(* A step that moves one process on or ends its command. *)
LEMMA MoveEffect ==
    ASSUME ProcOK, NEW p \in Procs, NEW me,
           proc' = [proc EXCEPT ![p] = me] \/ proc' = [Detached EXCEPT ![p] = me]
    PROVE  proc'[p] = me /\ \A q \in Procs \ {p} : Same(q)
<1>1. CASE proc' = [proc EXCEPT ![p] = me]
  BY <1>1 DEF ProcOK, Same
<1>2. CASE proc' = [Detached EXCEPT ![p] = me]
  <2>1. proc'[p] = me
    BY <1>2 DEF Detached
  <2>2. ASSUME NEW q \in Procs \ {p} PROVE Same(q)
    <3>1. proc'[q] = IF proc[q].pc = "migrate" THEN [proc[q] EXCEPT !.limit = 0] ELSE proc[q]
      BY <1>2 DEF Detached
    <3>2. proc[q] \in Commands
      BY DEF ProcOK
    <3>3. QED
      BY <3>1, <3>2 DEF Same, Commands
  <2>3. QED
    BY <2>1, <2>2
<1>3. QED
  BY <1>1, <1>2

(* Steps of a build. *)
LEMMA BuildEffect ==
    ASSUME ProcOK, HomeOK, NEW p \in Procs, BuildStep(p)
    PROVE  /\ proc[p].pc \in Building /\ proc[p].cmd = "install" /\ proc[p].app \in Apps
           /\ \A q \in Procs \ {p} : Same(q)
           /\ UNCHANGED <<clash, crossed, current, previous, marked, data, saved, behind, slipped>>
           /\ \A a \in Apps \ {proc[p].app} : app'[a] = app[a]
           /\ \/ proc'[p] = Idle /\ app' = app
              \/ /\ proc'[p].cmd = "install" /\ proc'[p].app = proc[p].app
                 /\ proc'[p].pc \in Building \cup {"smoke"}
                 /\ proc'[p].accept = proc[p].accept
<1>1. proc[p] \in Commands /\ app \in [Apps -> [venv : {"none", "some", "full"}, record : BOOLEAN]]
  BY DEF ProcOK, HomeOK
<1>2. proc[p].pc \in Building
  BY DEF BuildStep, ClearApp, MakeVenv, Pip, RecordApp, At, Building
<1>3. proc[p].cmd = "install" /\ proc[p].app \in Apps
  BY <1>2, StepOfCommand
<1>4. UNCHANGED <<clash, crossed, current, previous, marked, data, saved, behind, slipped>>
  BY DEF BuildStep, ClearApp, MakeVenv, Pip, RecordApp, At
<1>5. \/ proc' = [proc EXCEPT ![p] = Idle] /\ app' = app
      \/ \E l \in Building \cup {"smoke"} : proc' = [proc EXCEPT ![p] = [proc[p] EXCEPT !.pc = l]]
  BY DEF BuildStep, ClearApp, MakeVenv, Pip, RecordApp, Goto, Quit, Building
<1>6. \A a \in Apps \ {proc[p].app} : app'[a] = app[a]
  BY <1>1, <1>3 DEF BuildStep, ClearApp, MakeVenv, Pip, RecordApp
<1>7. CASE proc' = [proc EXCEPT ![p] = Idle] /\ app' = app
  BY <1>2, <1>3, <1>4, <1>6, <1>7, MoveEffect
<1>8. ASSUME NEW l \in Building \cup {"smoke"}, proc' = [proc EXCEPT ![p] = [proc[p] EXCEPT !.pc = l]]
      PROVE  /\ \A q \in Procs \ {p} : Same(q)
             /\ proc'[p].cmd = "install" /\ proc'[p].app = proc[p].app
             /\ proc'[p].pc \in Building \cup {"smoke"}
             /\ proc'[p].accept = proc[p].accept
  <2>1. PICK me : me = [proc[p] EXCEPT !.pc = l]
    OBVIOUS
  <2>2. proc'[p] = me /\ \A q \in Procs \ {p} : Same(q)
    BY <1>8, <2>1, MoveEffect
  <2>3. me.cmd = proc[p].cmd /\ me.app = proc[p].app /\ me.pc = l /\ me.accept = proc[p].accept
    BY <1>1, <2>1 DEF Commands
  <2>4. QED
    BY <1>3, <2>2, <2>3
<1>9. QED
  BY <1>2, <1>3, <1>4, <1>5, <1>6, <1>7, <1>8

(* Where a step after the build may lead. *)
Leads(p, l) ==
    /\ l \notin Building \cup {"smoke", "roll", "idle"}
    /\ l \in Built => proc[p].pc \in Built
    /\ l = "open" => Guard(p)
    /\ l = "read" => CheckCounts(p)
    /\ l = "write" => ReadCounts(p)

(* Steps after the build, and of the other commands. *)
LEMMA LaterEffect ==
    ASSUME ProcOK, NEW p \in Procs, LaterStep(p)
    PROVE  /\ proc[p].pc \in Labels \ (Building \cup {"idle"})
           /\ \A q \in Procs \ {p} : Same(q)
           /\ UNCHANGED <<app, clash, crossed>>
           /\ slipped => slipped'
           /\ \/ proc'[p] = Idle
              \/ /\ proc'[p].cmd = proc[p].cmd /\ proc'[p].app = proc[p].app
                 /\ proc'[p].accept = proc[p].accept
                 /\ Leads(p, proc'[p].pc)
<1>1. proc[p] \in Commands
  BY DEF ProcOK
<1>2. proc[p].pc \in {"smoke", "backup", "guard", "open", "migrate", "carry", "previous", "switch",
                      "version", "check", "read", "write", "prune", "probe", "unlink", "copy", "roll"}
  BY DEF LaterStep, Smoke, BackupAuthority, Guard, Open, Migrate, Carry, WritePrevious,
         SwitchCurrent, WriteVersion, CheckCounts, ReadCounts, WriteCounts, Prune, Probe, Unlink,
         CopyBack, Roll, At
<1>3. proc[p].pc \in Labels \ (Building \cup {"idle"})
  BY <1>2 DEF Labels, Building
<1>4. UNCHANGED <<app, clash, crossed>> /\ (slipped => slipped')
  <2>1. CASE Smoke(p) \/ BackupAuthority(p) \/ Guard(p) \/ Open(p) \/ Migrate(p) \/ Carry(p)
    BY <2>1 DEF Smoke, BackupAuthority, Guard, Open, Migrate, Carry, At, home
  <2>2. CASE WritePrevious(p) \/ SwitchCurrent(p) \/ CheckCounts(p) \/ ReadCounts(p)
             \/ WriteCounts(p) \/ Prune(p) \/ Probe(p) \/ Roll(p)
    BY <2>2 DEF WritePrevious, SwitchCurrent, CheckCounts, ReadCounts, WriteCounts, Prune, Probe,
                Roll, At, home
  <2>3. CASE WriteVersion(p) \/ Unlink(p) \/ CopyBack(p)
    BY <2>3 DEF WriteVersion, Unlink, CopyBack, Slip, home
  <2>4. QED
    BY <2>1, <2>2, <2>3 DEF LaterStep
<1>5. ASSUME NEW me, proc' = [proc EXCEPT ![p] = me] \/ proc' = [Detached EXCEPT ![p] = me],
             \/ me = Idle
             \/ /\ me.cmd = proc[p].cmd /\ me.app = proc[p].app /\ me.accept = proc[p].accept
                /\ Leads(p, me.pc)
      PROVE  /\ \A q \in Procs \ {p} : Same(q)
             /\ \/ proc'[p] = Idle
                \/ /\ proc'[p].cmd = proc[p].cmd /\ proc'[p].app = proc[p].app
                   /\ proc'[p].accept = proc[p].accept
                   /\ Leads(p, proc'[p].pc)
  <2>1. proc'[p] = me /\ \A q \in Procs \ {p} : Same(q)
    BY <1>5, MoveEffect
  <2>2. PICK n : n = proc'[p]
    OBVIOUS
  <2>3. QED
    BY <1>5, <2>1, <2>2
<1>7. ASSUME NEW l, Goto(p, l), Leads(p, l)
      PROVE  /\ \A q \in Procs \ {p} : Same(q)
             /\ \/ proc'[p] = Idle
                \/ /\ proc'[p].cmd = proc[p].cmd /\ proc'[p].app = proc[p].app
                   /\ proc'[p].accept = proc[p].accept
                   /\ Leads(p, proc'[p].pc)
  <2>1. PICK me : me = [proc[p] EXCEPT !.pc = l]
    OBVIOUS
  <2>2. me.cmd = proc[p].cmd /\ me.app = proc[p].app /\ me.pc = l /\ me.accept = proc[p].accept
    BY <1>1, <2>1 DEF Commands
  <2>3. proc' = [proc EXCEPT ![p] = me]
    BY <1>7, <2>1 DEF Goto
  <2>4. QED
    BY <1>5, <1>7, <2>2, <2>3
<1>8. ASSUME NEW me, proc' = [proc EXCEPT ![p] = me] \/ proc' = [Detached EXCEPT ![p] = me],
             me.cmd = proc[p].cmd /\ me.app = proc[p].app /\ me.accept = proc[p].accept,
             Leads(p, me.pc)
      PROVE  /\ \A q \in Procs \ {p} : Same(q)
             /\ \/ proc'[p] = Idle
                \/ /\ proc'[p].cmd = proc[p].cmd /\ proc'[p].app = proc[p].app
                   /\ proc'[p].accept = proc[p].accept
                   /\ Leads(p, proc'[p].pc)
  BY <1>5, <1>8
<1>9. CASE Smoke(p) \/ BackupAuthority(p) \/ Guard(p) \/ WritePrevious(p) \/ SwitchCurrent(p)
           \/ WriteVersion(p) \/ CheckCounts(p) \/ WriteCounts(p)
  <2>1. \E l : Goto(p, l) /\ Leads(p, l)
    <3>1. CASE Smoke(p)
      BY <3>1 DEF Smoke, At, Leads, Building, Built
    <3>2. CASE BackupAuthority(p)
      BY <3>2 DEF BackupAuthority, At, Leads, Building, Built
    <3>3. CASE Guard(p)
      <4>1. proc[p].pc = "guard" /\ Goto(p, "open")
        BY <3>3 DEF Guard, At
      <4>2. QED
        BY <3>3, <4>1 DEF Leads, Building, Built
    <3>4. CASE WritePrevious(p)
      BY <3>4 DEF WritePrevious, At, Leads, Building, Built
    <3>5. CASE SwitchCurrent(p)
      BY <3>5 DEF SwitchCurrent, At, Leads, Building, Built
    <3>6. CASE WriteVersion(p)
      BY <3>6 DEF WriteVersion, Leads, Building, Built
    <3>7. CASE CheckCounts(p)
      <4>1. Goto(p, "read") \/ Goto(p, "prune")
        BY <3>7 DEF CheckCounts
      <4>2. QED
        BY <3>7, <4>1 DEF Leads, Building, Built
    <3>8. CASE WriteCounts(p)
      BY <3>8 DEF WriteCounts, Leads, Building, Built
    <3>9. QED
      BY <1>9, <3>1, <3>2, <3>3, <3>4, <3>5, <3>6, <3>7, <3>8
  <2>2. QED
    BY <1>3, <1>4, <1>7, <2>1
<1>10. CASE Prune(p) \/ CopyBack(p) \/ Roll(p)
  <2>1. Quit(p)
    BY <1>10 DEF Prune, CopyBack, Roll
  <2>2. PICK me : me = Idle
    OBVIOUS
  <2>3. QED
    BY <1>3, <1>4, <1>5, <2>1, <2>2 DEF Quit
<1>11. CASE Carry(p) \/ Probe(p)
  <2>1. CASE Quit(p)
    BY <1>3, <1>4, <1>5, <2>1 DEF Quit
  <2>2. CASE Carry(p) /\ Goto(p, "previous")
    <3>1. Leads(p, "previous")
      BY <2>2 DEF Carry, At, Leads, Building, Built
    <3>2. QED
      BY <1>3, <1>4, <1>7, <2>2, <3>1
  <2>3. CASE Probe(p) /\ Goto(p, "backup")
    <3>1. Leads(p, "backup")
      BY <2>3 DEF Probe, At, Leads, Building, Built
    <3>2. QED
      BY <1>3, <1>4, <1>7, <2>3, <3>1
  <2>4. QED
    BY <1>11, <2>1, <2>2, <2>3 DEF Carry, Probe
<1>12. CASE Open(p)
  <2>1. PICK x, y : proc' = [proc EXCEPT ![p] =
                       IF db.schema > Latest[proc[p].app] THEN Idle
                       ELSE [proc[p] EXCEPT !.pc = "migrate", !.next = x, !.limit = y]]
    BY <1>12 DEF Open
  <2>2. PICK me : /\ proc' = [proc EXCEPT ![p] = me]
                  /\ me = Idle \/ me = [proc[p] EXCEPT !.pc = "migrate", !.next = x, !.limit = y]
    BY <2>1
  <2>3. \/ me = Idle
        \/ me.cmd = proc[p].cmd /\ me.app = proc[p].app /\ me.accept = proc[p].accept /\ me.pc = "migrate"
    BY <1>1, <2>2 DEF Commands
  <2>4. Leads(p, "migrate")
    BY <1>12 DEF Open, At, Leads, Building, Built
  <2>5. QED
    BY <1>3, <1>4, <1>5, <2>2, <2>3, <2>4
<1>13. CASE Migrate(p)
  <2>1. proc[p].pc = "migrate"
    BY <1>13 DEF Migrate, At
  <2>2. CASE Goto(p, "carry")
    <3>1. Leads(p, "carry")
      BY <2>1 DEF Leads, Building, Built
    <3>2. QED
      BY <1>3, <1>4, <1>7, <2>2, <3>1
  <2>3. CASE proc' = [proc EXCEPT ![p] = [proc[p] EXCEPT !.next = @ + 1, !.taken = TRUE]]
    <3>1. PICK me : me = [proc[p] EXCEPT !.next = @ + 1, !.taken = TRUE]
      OBVIOUS
    <3>2. me.cmd = proc[p].cmd /\ me.app = proc[p].app /\ me.accept = proc[p].accept /\ me.pc = "migrate"
      BY <1>1, <2>1, <3>1 DEF Commands
    <3>3. Leads(p, "migrate")
      BY <2>1 DEF Leads, Building, Built
    <3>4. QED
      BY <1>3, <1>4, <1>8, <2>3, <3>1, <3>2, <3>3
  <2>4. QED
    BY <1>13, <2>2, <2>3 DEF Migrate
<1>14. CASE ReadCounts(p)
  <2>1. PICK me : me = [proc[p] EXCEPT !.pc = "write", !.count = Counts]
    OBVIOUS
  <2>2. me.cmd = proc[p].cmd /\ me.app = proc[p].app /\ me.accept = proc[p].accept /\ me.pc = "write"
    BY <1>1, <2>1 DEF Commands
  <2>3. proc' = [proc EXCEPT ![p] = me]
    BY <1>14, <2>1 DEF ReadCounts
  <2>4. Leads(p, "write")
    BY <1>14 DEF Leads, Building, Built
  <2>5. QED
    BY <1>3, <1>4, <1>8, <2>2, <2>3, <2>4
<1>15. CASE Unlink(p)
  <2>1. proc[p].pc = "unlink" /\ proc' = [Detached EXCEPT ![p].pc = "copy"]
    BY <1>15 DEF Unlink
  <2>2. Detached[p] = proc[p]
    BY <2>1 DEF Detached
  <2>3. PICK me : me = [proc[p] EXCEPT !.pc = "copy"]
    OBVIOUS
  <2>4. proc' = [Detached EXCEPT ![p] = me]
    BY <2>1, <2>2, <2>3
  <2>5. me.cmd = proc[p].cmd /\ me.app = proc[p].app /\ me.accept = proc[p].accept /\ me.pc = "copy"
    BY <1>1, <2>3 DEF Commands
  <2>6. Leads(p, "copy")
    BY DEF Leads, Building, Built
  <2>7. QED
    BY <1>3, <1>4, <1>8, <2>4, <2>5, <2>6
<1>16. QED
  BY <1>3, <1>4, <1>9, <1>10, <1>11, <1>12, <1>13, <1>14, <1>15 DEF LaterStep

(* A command that fails or is killed. *)
LEMMA EndEffect ==
    ASSUME ProcOK, HomeOK, NEW p \in Procs, Fail(p) \/ Die(p)
    PROVE  /\ proc[p].pc # "idle" /\ proc'[p] = Idle /\ \A q \in Procs \ {p} : Same(q)
           /\ UNCHANGED <<current, previous, marked, data, saved, clash, crossed, slipped>>
           /\ \/ UNCHANGED app
              \/ /\ proc[p].pc \in Building
                 /\ \A a \in Apps \ {proc[p].app} : app'[a] = app[a]
                 /\ ~app'[proc[p].app].record
<1>1. proc[p].pc # "idle"
  BY DEF Fail, Die, Stuck, MayFail
<1>2. proc'[p] = Idle /\ \A q \in Procs \ {p} : Same(q)
  BY MoveEffect DEF Fail, Die, Quit
<1>3. UNCHANGED <<current, previous, marked, data, saved, clash, crossed, slipped>>
  BY DEF Fail, Die, home
<1>4. CASE Die(p)
  BY <1>1, <1>2, <1>3, <1>4 DEF Die, home
<1>5. CASE Fail(p) /\ proc[p].pc \in {"venv", "pip", "record"}
  <2>1. proc[p].app \in Apps
    BY <1>5, StepOfCommand DEF Building
  <2>2. app' = [app EXCEPT ![proc[p].app] = [venv |-> "none", record |-> FALSE]]
    BY <1>5 DEF Fail
  <2>3. QED
    BY <1>1, <1>2, <1>3, <1>5, <2>1, <2>2 DEF HomeOK, Building
<1>6. CASE Fail(p) /\ proc[p].pc \notin {"venv", "pip", "record"}
  BY <1>1, <1>2, <1>3, <1>6 DEF Fail
<1>7. QED
  BY <1>4, <1>5, <1>6

(* The live app at work, and losses, move no command on. *)
LEMMA EnvironmentEffect ==
    ASSUME ProcOK, Environment \/ UNCHANGED vars
    PROVE  /\ \A q \in Procs : Same(q)
           /\ UNCHANGED <<app, current, previous, clash, crossed>>
           /\ slipped => slipped'
<1>1. proc' = proc \/ proc' = Detached
  BY DEF Environment, Work, Shrink, Checkpoint, Lose, RawConnect, Integrate, vars
<1>2. ASSUME NEW q \in Procs PROVE Same(q)
  <2>1. proc[q] \in Commands
    BY DEF ProcOK
  <2>2. proc'[q] = proc[q] \/ proc'[q] = [proc[q] EXCEPT !.limit = 0]
    BY <1>1 DEF Detached
  <2>3. QED
    BY <2>1, <2>2 DEF Same, Commands
<1>3. UNCHANGED <<app, current, previous, clash, crossed>> /\ (slipped => slipped')
  <2>1. ASSUME NEW x \in Rows, Work(x) PROVE UNCHANGED <<app, current, previous, clash, crossed>> /\ (slipped => slipped')
    BY <2>1 DEF Work, Slip, home
  <2>2. ASSUME NEW x \in Rows, Shrink(x) PROVE UNCHANGED <<app, current, previous, clash, crossed>> /\ (slipped => slipped')
    BY <2>2 DEF Shrink, Slip, home
  <2>3. CASE Lose
    BY <2>3 DEF Lose, Slip, home
  <2>4. CASE Checkpoint \/ RawConnect \/ UNCHANGED vars
    BY <2>4 DEF Checkpoint, RawConnect, vars, hist, home
  <2>6. CASE Integrate
    BY <2>6 DEF Integrate, Slip
  <2>5. QED
    BY <2>1, <2>2, <2>3, <2>4, <2>6 DEF Environment
<1>4. QED
  BY <1>2, <1>3

-----------------------------------------------------------------------------
(* The current app is complete.                                            *)

(* What BuildInv says of one process. *)
Recorded(q) ==
    /\ proc[q].pc \in Building => ~app[proc[q].app].record
    /\ proc[q].pc = "record" => app[proc[q].app].venv = "full"
    /\ proc[q].cmd \in Moves /\ proc[q].pc \in Built => app[proc[q].app].record

(* BuildInv, process by process. *)
LEMMA BuildParts ==
    BuildInv <=> clash \/ /\ \A a \in Apps : app[a].record => app[a].venv = "full"
                          /\ \A p, q \in Procs :
                                proc[p].cmd = "install" /\ proc[q].cmd = "install"
                                /\ proc[p].app = proc[q].app => p = q
                          /\ \A q \in Procs : Recorded(q)
                          /\ current # NoApp => app[current].record
BY DEF BuildInv, Recorded

(* No two commands are about to record one app, or to make it current while it
   is built.                                                                 *)
LEMMA BuildAlone ==
    ASSUME TypeInv, BuildInv, ~clash, NEW p \in Procs, proc[p].pc \in Building
    PROVE  /\ \A q \in Procs \ {p} :
                proc[q].pc \in Building \/ (proc[q].cmd \in Moves /\ proc[q].pc \in Built)
                  => proc[q].app # proc[p].app
           /\ current # proc[p].app
<1>1. proc[p].cmd = "install" /\ proc[p].app \in Apps
  BY StepOfCommand DEF TypeInv
<1>2. Recorded(p)
  BY BuildParts
<1>3. current # proc[p].app
  BY <1>1, <1>2, BuildParts, AuthorityAssumption DEF Recorded
<1>4. ASSUME NEW q \in Procs \ {p}, proc[q].app = proc[p].app,
             proc[q].pc \in Building \/ (proc[q].cmd \in Moves /\ proc[q].pc \in Built)
      PROVE  FALSE
  <2>1. Recorded(q)
    BY BuildParts
  <2>2. proc[q].cmd # "install"
    BY <1>1, <1>4, BuildParts
  <2>3. proc[q].pc \in Building => proc[q].cmd = "install"
    BY StepOfCommand DEF TypeInv
  <2>4. QED
    BY <1>2, <1>4, <2>1, <2>2, <2>3 DEF Recorded
<1>5. QED
  BY <1>3, <1>4

(* What others did not touch still holds of them. *)
LEMMA RecordedSame ==
    ASSUME NEW q \in Procs, Recorded(q), Same(q),
           proc[q].pc \in Building \/ (proc[q].cmd \in Moves /\ proc[q].pc \in Built)
             => app'[proc[q].app] = app[proc[q].app]
    PROVE  Recorded(q)'
BY DEF Recorded, Same, Building

(* At most one install per app, after a step that begins none. *)
LEMMA InstallsSame ==
    ASSUME NEW p \in Procs, \A q \in Procs \ {p} : Same(q),
           \A x, y \in Procs : proc[x].cmd = "install" /\ proc[y].cmd = "install"
                               /\ proc[x].app = proc[y].app => x = y,
           \/ proc'[p].cmd # "install"
           \/ proc'[p].cmd = proc[p].cmd /\ proc'[p].app = proc[p].app
    PROVE  \A x, y \in Procs : proc'[x].cmd = "install" /\ proc'[y].cmd = "install"
                               /\ proc'[x].app = proc'[y].app => x = y
BY DEF Same

(* No app is half built in a new home, nor in one an install has finished in. *)
LEMMA BuildInit == Init => BuildInv
<1> SUFFICES ASSUME Init PROVE BuildInv
  OBVIOUS
<1>1. \A q \in Procs : proc[q].pc = "idle" /\ proc[q].cmd = "none"
  BY DEF Init, Idle
<1>2. \A q \in Procs : Recorded(q)
  BY <1>1 DEF Recorded, Building, Built
<1>3. \A a \in Apps : app[a].record => app[a].venv = "full"
  BY DEF Init
<1>4. current # NoApp => app[current].record
  BY DEF Init
<1>5. QED
  BY <1>1, <1>2, <1>3, <1>4, BuildParts

(* Every step keeps BuildInv. *)
LEMMA BuildStepInv == TypeInv /\ BuildInv /\ [Next]_vars => BuildInv'
<1> SUFFICES ASSUME TypeInv, BuildInv, [Next]_vars PROVE BuildInv'
  OBVIOUS
<1>0. ProcOK /\ HomeOK /\ app \in [Apps -> [venv : {"none", "some", "full"}, record : BOOLEAN]]
  BY DEF TypeInv, HomeOK
<1> DEFINE B == /\ \A a \in Apps : app[a].record => app[a].venv = "full"
                /\ \A p, q \in Procs : proc[p].cmd = "install" /\ proc[q].cmd = "install"
                                       /\ proc[p].app = proc[q].app => p = q
                /\ \A q \in Procs : Recorded(q)
                /\ current # NoApp => app[current].record
<1>a. clash \/ B
  BY BuildParts
<1>b. clash' \/ B' => BuildInv'
  BY DEF BuildInv, Recorded
<1>1. ASSUME NEW p \in Procs, StartStep(p) PROVE BuildInv'
  <2>1. PICK me : Begin(p, me) /\ UNCHANGED home
                  /\ \/ /\ me.cmd = "install" /\ me.app \in Apps
                        /\ me.pc = IF Complete(me.app) THEN "smoke" ELSE "build"
                     \/ me.cmd = "rollback" /\ me.pc \in Built /\ Complete(me.app)
                     \/ me.cmd \notin Moves /\ me.pc \notin Building
    <3>1. ASSUME NEW a \in Apps, StartInstall(p, a)
          PROVE  \E me : /\ Begin(p, me) /\ UNCHANGED home
                         /\ me.cmd = "install" /\ me.app \in Apps
                         /\ me.pc = IF Complete(me.app) THEN "smoke" ELSE "build"
      <4>1. PICK me : me = [Idle EXCEPT !.pc = IF Complete(a) THEN "smoke" ELSE "build",
                             !.cmd = "install", !.app = a, !.current = current,
                             !.existed = db.kind # "absent"]
        OBVIOUS
      <4>2. Begin(p, me) /\ UNCHANGED home
        BY <3>1, <4>1 DEF StartInstall
      <4>3. me.cmd = "install" /\ me.app = a /\ me.pc = IF Complete(a) THEN "smoke" ELSE "build"
        BY <4>1 DEF Idle
      <4>4. QED
        BY <4>2, <4>3
    <3>2. ASSUME StartRollback(p)
          PROVE  \E me : /\ Begin(p, me) /\ UNCHANGED home
                         /\ me.cmd = "rollback" /\ me.pc \in Built /\ Complete(me.app)
      <4>1. PICK me : me = [Idle EXCEPT !.pc = IF db.kind = "absent" THEN "previous" ELSE "probe",
                             !.cmd = "rollback", !.app = previous, !.current = current]
        OBVIOUS
      <4>2. Begin(p, me) /\ UNCHANGED home /\ Complete(previous)
        BY <3>2, <4>1 DEF StartRollback
      <4>3. me.cmd = "rollback" /\ me.app = previous /\ me.pc \in {"previous", "probe"}
        BY <4>1 DEF Idle
      <4>4. QED
        BY <4>2, <4>3 DEF Built
    <3>3. ASSUME \/ StartActivate(p) \/ StartRolling(p)
                 \/ \E accept \in BOOLEAN : StartDoctor(p, accept)
                 \/ \E c \in CopiesHeld : StartRestore(p, c)
          PROVE  \E me : /\ Begin(p, me) /\ UNCHANGED home
                         /\ me.cmd \notin Moves /\ me.pc \notin Building
      <4>1. CASE StartActivate(p)
        <5>1. PICK me : me = [Idle EXCEPT !.pc = "guard", !.cmd = "activate", !.app = current]
          OBVIOUS
        <5>2. Begin(p, me) /\ UNCHANGED home
          BY <4>1, <5>1 DEF StartActivate
        <5>3. me.cmd = "activate" /\ me.pc = "guard"
          BY <5>1 DEF Idle
        <5>4. QED
          BY <5>2, <5>3 DEF Moves, Building
      <4>2. CASE StartRolling(p)
        <5>1. PICK me : me = [Idle EXCEPT !.pc = "roll", !.cmd = "roll"]
          OBVIOUS
        <5>2. Begin(p, me) /\ UNCHANGED home
          BY <4>2, <5>1 DEF StartRolling
        <5>3. me.cmd = "roll" /\ me.pc = "roll"
          BY <5>1 DEF Idle
        <5>4. QED
          BY <5>2, <5>3 DEF Moves, Building
      <4>3. ASSUME NEW accept \in BOOLEAN, StartDoctor(p, accept)
            PROVE  \E me : /\ Begin(p, me) /\ UNCHANGED home
                           /\ me.cmd \notin Moves /\ me.pc \notin Building
        <5>1. PICK me : me = [Idle EXCEPT !.pc = "check", !.cmd = "doctor", !.accept = accept]
          OBVIOUS
        <5>2. Begin(p, me) /\ UNCHANGED home
          BY <4>3, <5>1 DEF StartDoctor
        <5>3. me.cmd = "doctor" /\ me.pc = "check"
          BY <5>1 DEF Idle
        <5>4. QED
          BY <5>2, <5>3 DEF Moves, Building
      <4>4. ASSUME NEW c \in CopiesHeld, StartRestore(p, c)
            PROVE  \E me : /\ Begin(p, me) /\ UNCHANGED home
                           /\ me.cmd \notin Moves /\ me.pc \notin Building
        <5>1. PICK me : me = [Idle EXCEPT !.pc = "unlink", !.cmd = "restore", !.copy = c]
          OBVIOUS
        <5>2. Begin(p, me) /\ UNCHANGED home
          BY <4>4, <5>1 DEF StartRestore
        <5>3. me.cmd = "restore" /\ me.pc = "unlink"
          BY <5>1 DEF Idle
        <5>4. QED
          BY <5>2, <5>3 DEF Moves, Building
      <4>5. QED
        BY <3>3, <4>1, <4>2, <4>3, <4>4
    <3>4. QED
      BY <1>1, <3>1, <3>2, <3>3 DEF StartStep
  <2>2. /\ proc[p].pc = "idle" /\ proc'[p] = me
        /\ \A q \in Procs \ {p} : Same(q)
        /\ clash => clash'
        /\ ~clash' => \A q \in Procs : me.cmd = "install" /\ proc[q].cmd = "install"
                                       => proc[q].app # me.app
    BY <1>0, <2>1, BeginEffect
  <2>3. CASE clash'
    BY <1>b, <2>3
  <2>4. CASE ~clash'
    <3>1. B /\ app' = app /\ current' = current
      BY <1>a, <2>1, <2>2, <2>4 DEF home
    <3>2. \A q \in Procs \ {p} : Recorded(q)'
      BY <2>2, <3>1, RecordedSame
    <3>3. Recorded(p)'
      <4>1. \A a \in Apps : Complete(a) <=> app[a].record
        BY <1>0, <3>1 DEF Complete
      <4>2. CASE me.cmd = "install" /\ me.app \in Apps /\ me.pc = IF Complete(me.app) THEN "smoke" ELSE "build"
        BY <2>2, <3>1, <4>1, <4>2 DEF Recorded, Building, Built
      <4>3. CASE me.cmd = "rollback" /\ me.pc \in Built /\ Complete(me.app)
        BY <2>2, <3>1, <4>3 DEF Recorded, Building, Built, Complete
      <4>4. CASE me.cmd \notin Moves /\ me.pc \notin Building
        BY <2>2, <4>4 DEF Recorded, Building
      <4>5. QED
        BY <2>1, <4>2, <4>3, <4>4
    <3>4. \A x, y \in Procs : proc'[x].cmd = "install" /\ proc'[y].cmd = "install"
                              /\ proc'[x].app = proc'[y].app => x = y
      BY <2>2, <2>4, <3>1 DEF Same
    <3>5. QED
      BY <1>b, <3>1, <3>2, <3>3, <3>4
  <2>5. QED
    BY <2>3, <2>4
<1>2. ASSUME NEW p \in Procs, BuildStep(p) PROVE BuildInv'
  <2>1. /\ proc[p].pc \in Building /\ proc[p].cmd = "install" /\ proc[p].app \in Apps
        /\ \A q \in Procs \ {p} : Same(q)
        /\ UNCHANGED <<clash, current>>
        /\ \A a \in Apps \ {proc[p].app} : app'[a] = app[a]
        /\ \/ proc'[p] = Idle /\ app' = app
           \/ /\ proc'[p].cmd = "install" /\ proc'[p].app = proc[p].app
              /\ proc'[p].pc \in Building \cup {"smoke"}
    BY <1>0, <1>2, BuildEffect
  <2>2. CASE clash
    BY <1>b, <2>1, <2>2
  <2>3. CASE ~clash
    <3>1. B
      BY <1>a, <2>3
    <3>2. /\ \A q \in Procs \ {p} :
                proc[q].pc \in Building \/ (proc[q].cmd \in Moves /\ proc[q].pc \in Built)
                  => proc[q].app # proc[p].app
          /\ current # proc[p].app
      BY <2>1, <2>3, BuildAlone
    <3>3. \A q \in Procs \ {p} : Recorded(q)'
      <4>1. ASSUME NEW q \in Procs \ {p},
                   proc[q].pc \in Building \/ (proc[q].cmd \in Moves /\ proc[q].pc \in Built)
            PROVE  app'[proc[q].app] = app[proc[q].app]
        <5>1. proc[q].app \in Apps
          BY <1>0, <4>1, StepOfCommand DEF Moves
        <5>2. QED
          BY <2>1, <3>2, <4>1, <5>1
      <4>2. QED
        BY <2>1, <3>1, <4>1, RecordedSame
    <3>4. current' # NoApp => app'[current'].record
      <4>1. current \in Homes
        BY <1>0 DEF HomeOK
      <4>2. QED
        BY <2>1, <3>1, <3>2, <4>1 DEF Homes
    <3>5. \A x, y \in Procs : proc'[x].cmd = "install" /\ proc'[y].cmd = "install"
                              /\ proc'[x].app = proc'[y].app => x = y
      <4>1. proc'[p].cmd # "install" \/ (proc'[p].cmd = proc[p].cmd /\ proc'[p].app = proc[p].app)
        BY <2>1 DEF Idle
      <4>2. QED
        BY <2>1, <3>1, <4>1, InstallsSame
    <3>6. Recorded(p)
      BY <3>1
    <3>7. Recorded(p)' /\ (app'[proc[p].app].record => app'[proc[p].app].venv = "full")
      <4>1. CASE proc'[p] = Idle /\ app' = app
        BY <2>1, <3>1, <4>1 DEF Recorded, Idle, Building, Built
      <4>2. CASE ClearApp(p) /\ proc'[p] # Idle
        <5>1. /\ app' = [app EXCEPT ![proc[p].app] = [venv |-> "none", record |-> FALSE]]
              /\ Goto(p, "venv")
          BY <1>0, <4>2 DEF ClearApp, Quit, ProcOK
        <5>2. proc'[p].pc = "venv"
          BY <1>0, <5>1 DEF Goto, ProcOK, Commands
        <5>3. ~app'[proc[p].app].record
          BY <1>0, <2>1, <5>1
        <5>4. proc'[p].app = proc[p].app
          BY <2>1, <4>2
        <5>5. QED
          BY <5>2, <5>3, <5>4 DEF Recorded, Building, Built
      <4>3. CASE MakeVenv(p)
        <5>1. app' = [app EXCEPT ![proc[p].app].venv = "some"] /\ Goto(p, "pip")
          BY <4>3 DEF MakeVenv
        <5>2. proc'[p].pc = "pip" /\ proc'[p].app = proc[p].app
          BY <1>0, <5>1 DEF Goto, ProcOK, Commands
        <5>3. ~app'[proc[p].app].record
          BY <1>0, <2>1, <3>6, <5>1 DEF Recorded
        <5>4. QED
          BY <5>2, <5>3 DEF Recorded, Building, Built
      <4>4. CASE Pip(p)
        <5>1. app' = [app EXCEPT ![proc[p].app].venv = "full"] /\ Goto(p, "record")
          BY <4>4 DEF Pip
        <5>2. proc'[p].pc = "record" /\ proc'[p].app = proc[p].app
          BY <1>0, <5>1 DEF Goto, ProcOK, Commands
        <5>3. ~app'[proc[p].app].record /\ app'[proc[p].app].venv = "full"
          BY <1>0, <2>1, <3>6, <5>1 DEF Recorded
        <5>4. QED
          BY <5>2, <5>3 DEF Recorded, Building, Built
      <4>5. CASE RecordApp(p)
        <5>1. /\ app' = [app EXCEPT ![proc[p].app].record = TRUE] /\ Goto(p, "smoke")
              /\ proc[p].pc = "record"
          BY <4>5 DEF RecordApp, At
        <5>2. proc'[p].pc = "smoke" /\ proc'[p].app = proc[p].app
          BY <1>0, <5>1 DEF Goto, ProcOK, Commands
        <5>3. app'[proc[p].app].record /\ app'[proc[p].app].venv = "full"
          BY <1>0, <2>1, <3>6, <5>1 DEF Recorded
        <5>4. QED
          BY <5>2, <5>3 DEF Recorded, Building, Built
      <4>6. QED
        <5>1. ClearApp(p) /\ proc'[p] = Idle => app' = app
          BY <2>1 DEF Idle
        <5>2. QED
          BY <1>2, <4>1, <4>2, <4>3, <4>4, <4>5, <5>1 DEF BuildStep
    <3>8. \A a \in Apps : app'[a].record => app'[a].venv = "full"
      BY <2>1, <3>1, <3>7
    <3>9. QED
      BY <1>b, <3>3, <3>4, <3>5, <3>7, <3>8
  <2>4. QED
    BY <2>2, <2>3
<1>3. ASSUME NEW p \in Procs, LaterStep(p) PROVE BuildInv'
  <2>1. /\ proc[p].pc \in Labels \ (Building \cup {"idle"})
        /\ \A q \in Procs \ {p} : Same(q)
        /\ UNCHANGED <<app, clash>>
        /\ \/ proc'[p] = Idle
           \/ /\ proc'[p].cmd = proc[p].cmd /\ proc'[p].app = proc[p].app
              /\ proc'[p].pc \notin Building
              /\ proc'[p].pc \in Built => proc[p].pc \in Built
    BY <1>0, <1>3, LaterEffect DEF Leads
  <2>2. CASE clash
    BY <1>b, <2>1, <2>2
  <2>3. CASE ~clash
    <3>1. B
      BY <1>a, <2>3
    <3>2. \A q \in Procs \ {p} : Recorded(q)'
      BY <2>1, <3>1, RecordedSame
    <3>3. Recorded(p)'
      <4>1. Recorded(p)
        BY <3>1
      <4>2. QED
        BY <2>1, <4>1 DEF Recorded, Idle, Building, Built
    <3>4. \A x, y \in Procs : proc'[x].cmd = "install" /\ proc'[y].cmd = "install"
                              /\ proc'[x].app = proc'[y].app => x = y
      <4>1. proc'[p].cmd # "install" \/ (proc'[p].cmd = proc[p].cmd /\ proc'[p].app = proc[p].app)
        BY <2>1 DEF Idle
      <4>2. QED
        BY <2>1, <3>1, <4>1, InstallsSame
    <3>5. current' # NoApp => app'[current'].record
      <4>1. CASE SwitchCurrent(p)
        <5>1. current' = proc[p].app /\ proc[p].pc = "switch"
          BY <4>1 DEF SwitchCurrent, At
        <5>2. proc[p].cmd \in Moves /\ Recorded(p)
          BY <1>0, <3>1, <5>1, StepOfCommand
        <5>3. QED
          BY <2>1, <5>1, <5>2 DEF Recorded, Built
      <4>2. CASE ~SwitchCurrent(p)
        <5>1. current' = current
          BY <1>3, <4>2 DEF LaterStep, Smoke, BackupAuthority, Guard, Open, Migrate, Carry,
             WritePrevious, WriteVersion, CheckCounts, ReadCounts, WriteCounts, Prune, Probe,
             Unlink, CopyBack, Roll, home
        <5>2. QED
          BY <2>1, <3>1, <5>1
      <4>3. QED
        BY <4>1, <4>2
    <3>6. QED
      BY <1>b, <2>1, <3>1, <3>2, <3>3, <3>4, <3>5
  <2>4. QED
    BY <2>2, <2>3
<1>4. ASSUME NEW p \in Procs, Fail(p) \/ Die(p) PROVE BuildInv'
  <2>1. /\ proc[p].pc # "idle" /\ proc'[p] = Idle /\ \A q \in Procs \ {p} : Same(q)
        /\ UNCHANGED <<current, clash>>
        /\ \/ UNCHANGED app
           \/ /\ proc[p].pc \in Building
              /\ \A a \in Apps \ {proc[p].app} : app'[a] = app[a]
              /\ ~app'[proc[p].app].record
    BY <1>0, <1>4, EndEffect
  <2>2. CASE clash
    BY <1>b, <2>1, <2>2
  <2>3. CASE ~clash
    <3>1. B
      BY <1>a, <2>3
    <3>2. \/ UNCHANGED app
          \/ /\ \A q \in Procs \ {p} :
                  proc[q].pc \in Building \/ (proc[q].cmd \in Moves /\ proc[q].pc \in Built)
                    => proc[q].app # proc[p].app
             /\ current # proc[p].app
      BY <2>1, <2>3, BuildAlone
    <3>3. \A q \in Procs \ {p} : Recorded(q)'
      <4>1. ASSUME NEW q \in Procs \ {p},
                   proc[q].pc \in Building \/ (proc[q].cmd \in Moves /\ proc[q].pc \in Built)
            PROVE  app'[proc[q].app] = app[proc[q].app]
        <5>1. proc[q].app \in Apps
          BY <1>0, <4>1, StepOfCommand DEF Moves
        <5>2. QED
          BY <2>1, <3>2, <4>1, <5>1
      <4>2. QED
        BY <2>1, <3>1, <4>1, RecordedSame
    <3>4. Recorded(p)'
      BY <2>1 DEF Recorded, Idle, Building, Built
    <3>5. current' # NoApp => app'[current'].record
      <4>1. current \in Homes
        BY <1>0 DEF HomeOK
      <4>2. QED
        BY <2>1, <3>1, <3>2, <4>1 DEF Homes
    <3>6. \A x, y \in Procs : proc'[x].cmd = "install" /\ proc'[y].cmd = "install"
                              /\ proc'[x].app = proc'[y].app => x = y
      <4>1. proc'[p].cmd # "install"
        BY <2>1 DEF Idle
      <4>2. QED
        BY <2>1, <3>1, <4>1, InstallsSame
    <3>7. \A a \in Apps : app'[a].record => app'[a].venv = "full"
      BY <2>1, <3>1
    <3>8. QED
      BY <1>b, <3>3, <3>4, <3>5, <3>6, <3>7
  <2>4. QED
    BY <2>2, <2>3
<1>5. CASE Environment \/ UNCHANGED vars
  <2>1. (\A q \in Procs : Same(q)) /\ UNCHANGED <<app, current, clash>>
    BY <1>0, <1>5, EnvironmentEffect DEF home
  <2>2. CASE clash
    BY <1>b, <2>1, <2>2
  <2>3. CASE ~clash
    <3>1. B
      BY <1>a, <2>3
    <3>2. \A q \in Procs : Recorded(q)'
      BY <2>1, <3>1, RecordedSame
    <3>3. \A x, y \in Procs : proc'[x].cmd = "install" /\ proc'[y].cmd = "install"
                              /\ proc'[x].app = proc'[y].app => x = y
      BY <2>1, <3>1 DEF Same
    <3>4. QED
      BY <1>b, <2>1, <3>1, <3>2, <3>3
  <2>4. QED
    BY <2>2, <2>3
<1>6. QED
  BY <1>1, <1>2, <1>3, <1>4, <1>5, NextSteps

(* app/current never names an app whose build was not finished, for any number
   of installs, rollbacks and deaths: only two installs of one commit can break
   it (core/self_install.py, _build_app, _activate and rollback).             *)
THEOREM CurrentAppIsComplete == Spec => []CurrentIsComplete
<1>1. TypeInv /\ BuildInv => CurrentIsComplete
  <2> SUFFICES ASSUME TypeInv, BuildInv, ~clash, current # NoApp PROVE CurrentIsComplete
    BY DEF CurrentIsComplete
  <2>1. current \in Apps
    BY DEF TypeInv, HomeOK, Homes
  <2>2. app[current].record /\ app[current].venv = "full"
    BY <2>1 DEF BuildInv
  <2>3. QED
    BY <2>2 DEF CurrentIsComplete, Complete
<1>2. QED
  BY <1>1, TypeInit, TypeStep, BuildInit, BuildStepInv, PTL DEF Spec

-----------------------------------------------------------------------------
(* An installed home's authority is not re-created.                        *)

(* How a command begins. *)
LEMMA StartEffect ==
    ASSUME ProcOK, NEW p \in Procs, StartStep(p)
    PROVE  /\ UNCHANGED <<home, data, backups, slipped>> /\ kept \subseteq kept'
           /\ (crossed => crossed') /\ (~crossed' => \A q \in Procs : proc[q].pc = "idle")
           /\ \A q \in Procs \ {p} : Same(q)
           /\ proc'[p].pc \in {"smoke", "build", "previous", "probe", "guard", "check", "unlink", "roll"}
           /\ StartRolling(p) \/ (UNCHANGED bak /\ proc'[p].pc # "roll")
<1>1. UNCHANGED <<home, data, backups>> /\ kept \subseteq kept' /\ (StartRolling(p) \/ UNCHANGED bak)
  BY DEF StartStep, StartInstall, StartRollback, StartActivate, StartRolling, StartDoctor,
         StartRestore, saved
<1>2. PICK me : Begin(p, me) /\ me.pc \in {"smoke", "build", "previous", "probe", "guard", "check",
                                           "unlink", "roll"}
                /\ (StartRolling(p) \/ me.pc # "roll")
  <2>1. ASSUME NEW a \in Apps, StartInstall(p, a)
        PROVE  \E me : Begin(p, me) /\ me.pc \in {"smoke", "build"}
    <3>1. PICK me : me = [Idle EXCEPT !.pc = IF Complete(a) THEN "smoke" ELSE "build",
                             !.cmd = "install", !.app = a, !.current = current,
                             !.existed = db.kind # "absent"]
      OBVIOUS
    <3>2. Begin(p, me)
      BY <2>1, <3>1 DEF StartInstall
    <3>3. me.pc \in {"smoke", "build"}
      BY <3>1 DEF Idle
    <3>4. QED
      BY <3>2, <3>3
  <2>2. ASSUME StartRollback(p) PROVE \E me : Begin(p, me) /\ me.pc \in {"previous", "probe"}
    <3>1. PICK me : me = [Idle EXCEPT !.pc = IF db.kind = "absent" THEN "previous" ELSE "probe",
                             !.cmd = "rollback", !.app = previous, !.current = current]
      OBVIOUS
    <3>2. Begin(p, me)
      BY <2>2, <3>1 DEF StartRollback
    <3>3. me.pc \in {"previous", "probe"}
      BY <3>1 DEF Idle
    <3>4. QED
      BY <3>2, <3>3
  <2>3. ASSUME StartActivate(p) PROVE \E me : Begin(p, me) /\ me.pc = "guard"
    <3>1. PICK me : me = [Idle EXCEPT !.pc = "guard", !.cmd = "activate", !.app = current]
      OBVIOUS
    <3>2. Begin(p, me)
      BY <2>3, <3>1 DEF StartActivate
    <3>3. me.pc = "guard"
      BY <3>1 DEF Idle
    <3>4. QED
      BY <3>2, <3>3
  <2>4. ASSUME StartRolling(p) PROVE \E me : Begin(p, me) /\ me.pc = "roll"
    <3>1. PICK me : me = [Idle EXCEPT !.pc = "roll", !.cmd = "roll"]
      OBVIOUS
    <3>2. Begin(p, me)
      BY <2>4, <3>1 DEF StartRolling
    <3>3. me.pc = "roll"
      BY <3>1 DEF Idle
    <3>4. QED
      BY <3>2, <3>3
  <2>5. ASSUME NEW accept \in BOOLEAN, StartDoctor(p, accept)
        PROVE  \E me : Begin(p, me) /\ me.pc = "check"
    <3>1. PICK me : me = [Idle EXCEPT !.pc = "check", !.cmd = "doctor", !.accept = accept]
      OBVIOUS
    <3>2. Begin(p, me)
      BY <2>5, <3>1 DEF StartDoctor
    <3>3. me.pc = "check"
      BY <3>1 DEF Idle
    <3>4. QED
      BY <3>2, <3>3
  <2>6. ASSUME NEW c \in CopiesHeld, StartRestore(p, c)
        PROVE  \E me : Begin(p, me) /\ me.pc = "unlink"
    <3>1. PICK me : me = [Idle EXCEPT !.pc = "unlink", !.cmd = "restore", !.copy = c]
      OBVIOUS
    <3>2. Begin(p, me)
      BY <2>6, <3>1 DEF StartRestore
    <3>3. me.pc = "unlink"
      BY <3>1 DEF Idle
    <3>4. QED
      BY <3>2, <3>3
  <2>7. QED
    BY <2>1, <2>2, <2>3, <2>4, <2>5, <2>6 DEF StartStep
<1>3. QED
  BY <1>1, <1>2, BeginEffect

(* While a command is about to open the database, what the guard saw stays. *)
LEMMA KindKept ==
    ASSUME TypeInv, [Next]_vars, ~slipped', MayCreate, NEW q \in Procs, proc[q].pc = "open"
    PROVE  MayCreate'
<1>0. ProcOK /\ HomeOK
  BY DEF TypeInv
<1>1. ASSUME NEW p \in Procs, StartStep(p) \/ BuildStep(p) \/ Fail(p) \/ Die(p) PROVE MayCreate'
  <2>1. UNCHANGED <<marked, db>>
    BY <1>0, <1>1, StartEffect, BuildEffect, EndEffect DEF home, data
  <2>2. QED
    BY <2>1 DEF MayCreate
<1>2. ASSUME NEW p \in Procs, LaterStep(p) PROVE MayCreate'
  <2>1. CASE WriteVersion(p) \/ Unlink(p) \/ CopyBack(p)
    BY <2>1 DEF WriteVersion, Unlink, CopyBack, Slip
  <2>2. CASE Smoke(p) \/ BackupAuthority(p) \/ Guard(p) \/ Carry(p) \/ WritePrevious(p)
             \/ SwitchCurrent(p) \/ CheckCounts(p) \/ ReadCounts(p) \/ WriteCounts(p) \/ Prune(p)
             \/ Probe(p)
    <3>1. UNCHANGED <<marked, db>>
      BY <2>2 DEF Smoke, BackupAuthority, Guard, Carry, WritePrevious, SwitchCurrent, CheckCounts,
                  ReadCounts, WriteCounts, Prune, Probe, home, data
    <3>2. QED
      BY <3>1 DEF MayCreate
  <2>3. CASE Open(p)
    <3>1. db'.kind = "authority"
      BY <2>3 DEF Open, Absent
    <3>2. QED
      BY <3>1 DEF MayCreate
  <2>4. CASE Migrate(p) \/ Roll(p)
    <3>1. UNCHANGED marked /\ db'.kind = db.kind
      BY <2>4 DEF Migrate, Roll, home, TypeInv, DataOK, DbOK
    <3>2. QED
      BY <3>1 DEF MayCreate
  <2>5. QED
    BY <1>2, <2>1, <2>2, <2>3, <2>4 DEF LaterStep
<1>3. ASSUME NEW x \in Rows, Work(x) PROVE MayCreate'
  <2>1. db'.kind = "authority"
    BY <1>3 DEF Work, TypeInv, DataOK, DbOK
  <2>2. QED
    BY <2>1 DEF MayCreate
<1>4. ASSUME NEW x \in Rows, Shrink(x) PROVE MayCreate'
  BY <1>4 DEF Shrink, Slip
<1>5. CASE Lose
  BY <1>5 DEF Lose, Slip
<1>6. CASE Checkpoint
  <2>1. UNCHANGED marked /\ db'.kind = db.kind
    BY <1>6 DEF Checkpoint, home, TypeInv, DataOK, DbOK
  <2>2. QED
    BY <2>1 DEF MayCreate
<1>7. CASE RawConnect
  <2>1. UNCHANGED marked /\ db.kind = "absent"
    BY <1>7 DEF RawConnect, home
  <2>2. QED
    BY <2>1 DEF MayCreate
<1>10. CASE Integrate
  BY <1>10 DEF Integrate, Slip
<1>8. CASE UNCHANGED vars
  BY <1>8 DEF vars, home, data, MayCreate
<1>9. QED
  BY <1>1, <1>2, <1>3, <1>4, <1>5, <1>6, <1>7, <1>8, <1>10, NextSteps DEF Environment

(* No command is about to open the database at first. *)
LEMMA GuardInit == Init => GuardInv
BY DEF Init, GuardInv, Idle

(* Every step keeps GuardInv: only Guard leads to the open. *)
LEMMA GuardStep == TypeInv /\ GuardInv /\ [Next]_vars => GuardInv'
<1> SUFFICES ASSUME TypeInv, GuardInv, [Next]_vars, ~slipped',
                    NEW q \in Procs, proc'[q].pc = "open"
             PROVE  MayCreate'
  BY DEF GuardInv
<1>0. ProcOK /\ HomeOK
  BY DEF TypeInv
<1>1. slipped => slipped'
  <2>1. ASSUME NEW p \in Procs, StartStep(p) \/ BuildStep(p) \/ LaterStep(p) \/ Fail(p) \/ Die(p)
        PROVE  slipped => slipped'
    BY <1>0, <2>1, StartEffect, BuildEffect, LaterEffect, EndEffect
  <2>2. QED
    BY <1>0, <2>1, EnvironmentEffect, NextSteps
<1>2. CASE proc[q].pc = "open"
  <2>1. MayCreate
    BY <1>1, <1>2 DEF GuardInv
  <2>2. QED
    BY <1>2, <2>1, KindKept
<1>3. CASE proc[q].pc # "open"
  <2>1. ASSUME NEW p \in Procs, StartStep(p) \/ BuildStep(p) \/ Fail(p) \/ Die(p) PROVE FALSE
    <3>1. p = q \/ Same(q)
      BY <1>0, <2>1, StartEffect, BuildEffect, EndEffect
    <3>2. proc'[p].pc # "open"
      <4>1. StartStep(p) => proc'[p].pc # "open"
        BY <1>0, StartEffect
      <4>2. BuildStep(p) => proc'[p].pc # "open"
        BY <1>0, BuildEffect DEF Idle, Building
      <4>3. Fail(p) \/ Die(p) => proc'[p].pc # "open"
        BY <1>0, EndEffect DEF Idle
      <4>4. QED
        BY <2>1, <4>1, <4>2, <4>3
    <3>3. QED
      BY <1>3, <3>1, <3>2 DEF Same
  <2>2. ASSUME NEW p \in Procs, LaterStep(p) PROVE MayCreate'
    <3>1. p = q
      BY <1>0, <1>3, <2>2, LaterEffect DEF Same
    <3>2. Guard(p)
      BY <1>0, <2>2, <3>1, LaterEffect DEF Leads, Idle
    <3>3. QED
      BY <3>2 DEF Guard, MayCreate, home, data
  <2>3. ASSUME Environment \/ UNCHANGED vars PROVE FALSE
    BY <1>0, <1>3, <2>3, EnvironmentEffect DEF Same
  <2>4. QED
    BY <2>1, <2>2, <2>3, NextSteps
<1>4. QED
  BY <1>2, <1>3

(* Which steps make an authority. *)
LEMMA AuthorityMade ==
    ASSUME TypeInv, [Next]_vars, db.kind # "authority", db'.kind = "authority"
    PROVE  (\E p \in Procs : proc[p].pc \in {"open", "copy"}) \/ MayCreate
<1>0. ProcOK /\ HomeOK
  BY DEF TypeInv
<1>1. ASSUME NEW p \in Procs, StartStep(p) \/ BuildStep(p) \/ Fail(p) \/ Die(p) PROVE FALSE
  <2>1. UNCHANGED db
    BY <1>0, <1>1, StartEffect, BuildEffect, EndEffect DEF data
  <2>2. QED
    BY <2>1
<1>2. ASSUME NEW p \in Procs, LaterStep(p) PROVE proc[p].pc \in {"open", "copy"}
  <2>1. CASE Open(p) \/ CopyBack(p)
    BY <2>1 DEF Open, CopyBack, At
  <2>2. CASE Unlink(p)
    BY <2>2 DEF Unlink, Absent
  <2>3. CASE Migrate(p) \/ Roll(p)
    <3>1. db'.kind = db.kind
      BY <2>3 DEF Migrate, Roll, TypeInv, DataOK, DbOK
    <3>2. QED
      BY <3>1
  <2>4. CASE Smoke(p) \/ BackupAuthority(p) \/ Guard(p) \/ Carry(p) \/ WritePrevious(p)
             \/ SwitchCurrent(p) \/ WriteVersion(p) \/ CheckCounts(p) \/ ReadCounts(p)
             \/ WriteCounts(p) \/ Prune(p) \/ Probe(p)
    <3>1. UNCHANGED db
      BY <2>4 DEF Smoke, BackupAuthority, Guard, Carry, WritePrevious, SwitchCurrent, WriteVersion,
                  CheckCounts, ReadCounts, WriteCounts, Prune, Probe, data
    <3>2. QED
      BY <3>1
  <2>5. QED
    BY <1>2, <2>1, <2>2, <2>3, <2>4 DEF LaterStep
<1>3. ASSUME NEW x \in Rows, Work(x) PROVE MayCreate
  BY <1>3 DEF Work
<1>4. CASE \/ \E x \in Rows : Shrink(x)
           \/ Checkpoint \/ Lose \/ RawConnect \/ Integrate \/ UNCHANGED vars
  <2>1. db'.kind = db.kind \/ db'.kind \in {"absent", "empty"}
    BY <1>4 DEF Shrink, Checkpoint, Lose, RawConnect, Integrate, vars, data, Absent, Empty, TypeInv, DataOK, DbOK
  <2>2. QED
    BY <2>1
<1>5. QED
  BY <1>1, <1>2, <1>3, <1>4, NextSteps DEF Environment

(* In an installed home nothing but a restore makes an authority of a missing
   or an empty file, for any number of commands, unless the file was lost,
   replaced or the home marked between the guard and the open that follows it
   (core/config/sqlite_bootstrap.py, assert_may_create_database).             *)
THEOREM AuthorityIsNeverReplaced == Spec => NeverReplaced
<1>1. TypeInv /\ GuardInv /\ [Next]_vars =>
        [marked /\ db.kind # "authority" /\ db'.kind = "authority" =>
            slipped \/ \E p \in Procs : proc[p].pc = "copy"]_vars
  <2> SUFFICES ASSUME TypeInv, GuardInv, [Next]_vars, marked,
                      db.kind # "authority", db'.kind = "authority", ~slipped
               PROVE  \E p \in Procs : proc[p].pc = "copy"
    OBVIOUS
  <2>1. ~MayCreate
    BY DEF MayCreate
  <2>2. PICK p \in Procs : proc[p].pc \in {"open", "copy"}
    BY <2>1, AuthorityMade
  <2>3. QED
    BY <2>1, <2>2 DEF GuardInv
<1>2. QED
  BY <1>1, TypeInit, TypeStep, GuardInit, GuardStep, PTL DEF Spec, NeverReplaced

-----------------------------------------------------------------------------
(* What a command looked at, while it is the only one.                     *)

(* No command is in flight at first. *)
LEMMA AloneInit == Init => AloneInv /\ CountInv /\ RollInv
<1> SUFFICES ASSUME Init PROVE AloneInv /\ CountInv /\ RollInv
  OBVIOUS
<1>1. \A p \in Procs : proc[p].pc = "idle"
  BY DEF Init, Idle
<1>2. QED
  BY <1>1 DEF AloneInv, CountInv, RollInv

(* Commands that overlapped stay so, and so does what slipped. *)
LEMMA HistoryGrows ==
    ASSUME TypeInv, [Next]_vars
    PROVE  (crossed => crossed') /\ (slipped => slipped')
<1>0. ProcOK /\ HomeOK
  BY DEF TypeInv
<1>1. ASSUME NEW p \in Procs, StartStep(p) \/ BuildStep(p) \/ LaterStep(p) \/ Fail(p) \/ Die(p)
      PROVE  (crossed => crossed') /\ (slipped => slipped')
  BY <1>0, <1>1, StartEffect, BuildEffect, LaterEffect, EndEffect
<1>2. QED
  BY <1>0, <1>1, EnvironmentEffect, NextSteps

(* While a command is the only one in flight every step is its own, or the
   live app's.                                                               *)
LEMMA OnlyStep ==
    ASSUME TypeInv, AloneInv, [Next]_vars, ~crossed', NEW q \in Procs, proc[q].pc # "idle"
    PROVE  \/ BuildStep(q) \/ LaterStep(q) \/ Fail(q) \/ Die(q)
           \/ Environment \/ UNCHANGED vars
<1>0. ProcOK /\ HomeOK
  BY DEF TypeInv
<1>1. ~crossed
  BY HistoryGrows
<1>2. ASSUME NEW p \in Procs, StartStep(p) PROVE FALSE
  BY <1>0, <1>2, StartEffect
<1>3. ASSUME NEW p \in Procs, BuildStep(p) \/ LaterStep(p) \/ Fail(p) \/ Die(p) PROVE p = q
  <2>1. proc[p].pc # "idle"
    <3>1. BuildStep(p) => proc[p].pc # "idle"
      BY <1>0, BuildEffect DEF Building
    <3>2. LaterStep(p) \/ Fail(p) \/ Die(p) => proc[p].pc # "idle"
      BY <1>0, LaterEffect, EndEffect
    <3>3. QED
      BY <1>3, <3>1, <3>2
  <2>2. QED
    BY <1>1, <2>1 DEF AloneInv
<1>4. QED
  BY <1>2, <1>3, NextSteps

(* Every step keeps AloneInv: a command that begins while another runs marks
   the history.                                                              *)
LEMMA AloneStep == TypeInv /\ AloneInv /\ [Next]_vars => AloneInv'
<1> SUFFICES ASSUME TypeInv, AloneInv, [Next]_vars, ~crossed', NEW p \in Procs, NEW q \in Procs,
                    proc'[p].pc # "idle", proc'[q].pc # "idle"
             PROVE  p = q
  BY DEF AloneInv
<1>0. ProcOK /\ HomeOK
  BY DEF TypeInv
<1>1. ~crossed
  BY HistoryGrows
<1>2. ASSUME NEW s \in Procs, StartStep(s) PROVE p = q
  <2>1. \A r \in Procs \ {s} : proc'[r].pc = "idle"
    BY <1>0, <1>2, StartEffect DEF Same
  <2>2. QED
    BY <2>1
<1>3. ASSUME NEW s \in Procs, BuildStep(s) \/ LaterStep(s) \/ Fail(s) \/ Die(s) PROVE p = q
  <2>1. \A r \in Procs \ {s} : Same(r)
    BY <1>0, <1>3, BuildEffect, LaterEffect, EndEffect
  <2>2. proc[s].pc # "idle"
    <3>1. BuildStep(s) => proc[s].pc # "idle"
      BY <1>0, BuildEffect DEF Building
    <3>2. LaterStep(s) \/ Fail(s) \/ Die(s) => proc[s].pc # "idle"
      BY <1>0, LaterEffect, EndEffect
    <3>3. QED
      BY <1>3, <3>1, <3>2
  <2>3. proc[p].pc # "idle" /\ proc[q].pc # "idle"
    BY <2>1, <2>2 DEF Same
  <2>4. QED
    BY <1>1, <2>3 DEF AloneInv
<1>4. ASSUME Environment \/ UNCHANGED vars PROVE p = q
  <2>1. proc[p].pc # "idle" /\ proc[q].pc # "idle"
    BY <1>0, <1>4, EnvironmentEffect DEF Same
  <2>2. QED
    BY <1>1, <2>1 DEF AloneInv
<1>5. QED
  BY <1>2, <1>3, <1>4, NextSteps

(* What the live app does while a command counts or copies, if nothing slips:
   rows are only added, and the counts do not fall.                          *)
LEMMA RowsGrow ==
    ASSUME TypeInv, Environment \/ UNCHANGED vars, ~slipped',
           NEW q \in Procs, proc[q].pc \in {"read", "roll"}
    PROVE  /\ UNCHANGED <<baseline, bak>>
           /\ DbRows \in SUBSET Rows /\ DbRows' \in SUBSET Rows /\ DbRows \subseteq DbRows'
           /\ Counts' = Nulls \/ (Counts # Nulls /\ Counts' >= Counts)
<1>0. DbOK /\ DbOK' /\ ProcOK
  BY TypeStep DEF TypeInv, DataOK, Next
<1>1. DbRows \in SUBSET Rows /\ DbRows' \in SUBSET Rows
  BY <1>0, CountsType DEF DbOK, DbRows
<1>2. ASSUME NEW x \in Rows, Work(x)
      PROVE  UNCHANGED <<baseline, bak>> /\ DbRows \subseteq DbRows' /\ db.schema # 0
             /\ db'.schema >= db.schema
  <2>1. db.schema # 0
    BY <1>2 DEF Work, Slip
  <2>2. PICK to : db' = [db EXCEPT !.kind = "authority", !.wal = @ \cup {x},
                                   !.schema = Max({@, to})]
                  /\ to = Min({Latest[current], ReleasedFor(current)})
    BY <1>2 DEF Work
  <2>3. current \in Apps /\ activated \in Nat /\ db.schema \in Nat
    BY <1>2, VersionsType DEF Work, TypeInv, HomeOK, Homes, DataOK, DbOK
  <2>4. Latest[current] \in Nat /\ Released[current] \in Nat
    BY <2>3, AuthorityAssumption
  <2>5. ReleasedFor(current) \in Nat
    BY <2>3, <2>4, OfTwo DEF ReleasedFor
  <2>6. to \in Nat
    BY <2>2, <2>4, <2>5, OfTwo
  <2>7. db.schema <= Max({db.schema, to})
    BY <2>3, <2>6, OfTwo
  <2>8. db'.schema = Max({db.schema, to}) /\ db'.main = db.main /\ db'.wal = db.wal \cup {x}
    BY <1>0, <2>2 DEF DbOK
  <2>9. UNCHANGED <<baseline, bak>>
    BY <1>2 DEF Work
  <2>10. QED
    BY <2>1, <2>7, <2>8, <2>9 DEF DbRows
<1>3. ASSUME NEW x \in Rows, Work(x)
      PROVE  Counts' = Nulls \/ (Counts # Nulls /\ Counts' >= Counts)
  <2>1. Counts = Cardinality(DbRows)
    <3>1. db.schema \in Nat /\ db.schema # 0 /\ db.kind = "authority"
      BY <1>0, <1>2, <1>3, VersionsType DEF DbOK
    <3>2. QED
      BY <3>1 DEF Counts
  <2>2. Cardinality(DbRows) <= Cardinality(DbRows') /\ Cardinality(DbRows) \in Nat
    BY <1>1, <1>2, <1>3, RowCount
  <2>3. Counts' = Nulls \/ Counts' = Cardinality(DbRows')
    BY DEF Counts
  <2>4. QED
    BY <2>1, <2>2, <2>3 DEF Nulls
<1>4. ASSUME NEW x \in Rows, Shrink(x) PROVE FALSE
  BY <1>4 DEF Shrink, Slip
<1>5. ASSUME Lose PROVE FALSE
  BY <1>5 DEF Lose, Slip
<1>6. CASE Checkpoint \/ Integrate \/ UNCHANGED vars
  <2>1. UNCHANGED <<baseline, bak>>
    BY <1>6 DEF Checkpoint, Integrate, vars, data, saved
  <2>2. db'.kind = db.kind /\ db'.schema = db.schema /\ DbRows' = DbRows
    BY <1>0, <1>6 DEF Checkpoint, Integrate, vars, data, DbOK, DbRows
  <2>3. Counts' = Counts
    BY <2>2 DEF Counts
  <2>4. Counts \in Counted
    BY <1>0, CountsType
  <2>5. Counts' = Nulls \/ (Counts # Nulls /\ Counts' >= Counts)
    BY <2>3, <2>4, RowCount DEF Counted
  <2>6. QED
    BY <1>1, <2>1, <2>2, <2>5
<1>7. CASE RawConnect
  <2>1. UNCHANGED <<baseline, bak>> /\ db.kind = "absent" /\ db'.kind = "empty"
    BY <1>7 DEF RawConnect, saved, Empty, Absent
  <2>2. DbRows = {}
    BY <1>0, <2>1 DEF DbOK, DbRows
  <2>3. Counts' = Nulls
    BY <2>1 DEF Counts
  <2>4. QED
    BY <1>1, <2>1, <2>2, <2>3
<1>8. QED
  BY <1>1, <1>2, <1>3, <1>4, <1>5, <1>6, <1>7 DEF Environment

-----------------------------------------------------------------------------
(* A loss is not recorded as the new normal.                               *)

(* The counts and the baseline are whole numbers. *)
LEMMA CountsAreNumbers ==
    ASSUME TypeInv
    PROVE  Counts \in Int /\ baseline \in Int /\ (~Dropped <=> Counts = Nulls \/ Counts >= baseline)
<1>1. Counts \in Counted /\ baseline \in {NoBaseline} \cup Counted
  BY CountsType DEF TypeInv, DataOK
<1>2. Counts \in Int /\ baseline \in Int
  BY <1>1, RowCount DEF Counted, Nulls, NoBaseline
<1>3. QED
  BY <1>2 DEF Dropped

(* Every step keeps CountInv: what was not lost when a command checked is not
   lost when it reads, and what it reads is what it writes.                  *)
LEMMA CountStep == TypeInv /\ AloneInv /\ CountInv /\ [Next]_vars => CountInv'
<1> SUFFICES ASSUME TypeInv, AloneInv, CountInv, [Next]_vars, ~crossed', ~slipped',
                    NEW q \in Procs, ~proc'[q].accept, proc'[q].pc \in {"read", "write"}
             PROVE  /\ proc'[q].pc = "read" => ~Dropped'
                    /\ proc'[q].pc = "write" => proc'[q].count = Nulls \/ proc'[q].count >= baseline'
  BY DEF CountInv
<1>0. ProcOK /\ HomeOK /\ TypeInv'
  BY TypeStep DEF TypeInv
<1>1. ~crossed /\ ~slipped
  BY HistoryGrows
<1>2. proc[q].pc # "idle"
  <2>1. ASSUME NEW p \in Procs, StartStep(p) PROVE proc[q].pc # "idle"
    <3>1. p # q /\ Same(q)
      BY <1>0, <2>1, StartEffect
    <3>2. QED
      BY <3>1 DEF Same
  <2>2. ASSUME NEW p \in Procs, BuildStep(p) PROVE proc[q].pc # "idle"
    <3>1. (p = q /\ proc[p].pc \in Building) \/ Same(q)
      BY <1>0, <2>2, BuildEffect
    <3>2. QED
      BY <3>1 DEF Same, Building
  <2>3. ASSUME NEW p \in Procs, LaterStep(p) \/ Fail(p) \/ Die(p) PROVE proc[q].pc # "idle"
    <3>1. (p = q /\ proc[p].pc # "idle") \/ Same(q)
      BY <1>0, <2>3, LaterEffect, EndEffect
    <3>2. QED
      BY <3>1 DEF Same
  <2>4. ASSUME Environment \/ UNCHANGED vars PROVE proc[q].pc # "idle"
    BY <1>0, <2>4, EnvironmentEffect DEF Same
  <2>5. QED
    BY <2>1, <2>2, <2>3, <2>4, NextSteps
<1>3. ASSUME BuildStep(q) \/ Fail(q) \/ Die(q) PROVE FALSE
  <2>1. BuildStep(q) => proc'[q].pc \notin {"read", "write"}
    BY <1>0, BuildEffect DEF Building, Idle
  <2>2. Fail(q) \/ Die(q) => proc'[q].pc \notin {"read", "write"}
    BY <1>0, EndEffect DEF Idle
  <2>3. QED
    BY <1>3, <2>1, <2>2
<1>4. CASE LaterStep(q)
  <2>1. proc'[q].accept = proc[q].accept /\ Leads(q, proc'[q].pc)
    BY <1>0, <1>4, LaterEffect DEF Idle
  <2>2. CASE proc'[q].pc = "read"
    <3>1. CheckCounts(q)
      BY <2>1, <2>2 DEF Leads
    <3>2. UNCHANGED <<db, baseline>>
      BY <3>1 DEF CheckCounts, data
    <3>3. proc[q] \in Commands
      BY <1>0 DEF ProcOK
    <3>4. ~Dropped
      <4>1. proc'[q].pc = IF db.kind # "absent" /\ (~Dropped \/ proc[q].accept) THEN "read" ELSE "prune"
        BY <1>0, <3>1, <3>3 DEF CheckCounts, Goto, ProcOK, Commands
      <4>2. QED
        BY <2>1, <2>2, <4>1
    <3>5. ~Dropped'
      BY <3>2, <3>4 DEF Dropped, Counts, DbRows
    <3>6. QED
      BY <2>2, <3>5
  <2>3. CASE proc'[q].pc = "write"
    <3>1. ReadCounts(q)
      BY <2>1, <2>3 DEF Leads
    <3>2. UNCHANGED baseline /\ proc[q].pc = "read"
      BY <3>1 DEF ReadCounts, At, data
    <3>3. ~Dropped
      BY <1>1, <2>1, <3>2 DEF CountInv
    <3>4. proc'[q].count = Counts
      BY <1>0, <3>1 DEF ReadCounts, ProcOK, Commands
    <3>5. QED
      BY <2>3, <3>2, <3>3, <3>4, CountsAreNumbers
  <2>4. QED
    BY <2>2, <2>3
<1>5. CASE Environment \/ UNCHANGED vars
  <2>1. Same(q)
    BY <1>0, <1>5, EnvironmentEffect
  <2>2. CASE proc'[q].pc = "read"
    <3>1. ~Dropped
      BY <1>1, <2>1, <2>2 DEF CountInv, Same
    <3>2. UNCHANGED baseline /\ (Counts' = Nulls \/ (Counts # Nulls /\ Counts' >= Counts))
      BY <1>5, <2>1, <2>2, RowsGrow DEF Same
    <3>3. Counts = Nulls \/ Counts >= baseline
      BY <3>1, CountsAreNumbers
    <3>4. Counts \in Int /\ baseline \in Int
      BY CountsAreNumbers
    <3>5. Counts' \in Int
      BY <1>0, CountsType, RowCount DEF TypeInv, DataOK, DbOK, Counts, Counted, Nulls, DbRows
    <3>6. Counts' = Nulls \/ Counts' >= baseline'
      BY <3>2, <3>3, <3>4, <3>5
    <3>7. ~Dropped'
      BY <3>2, <3>4, <3>5, <3>6 DEF Dropped
    <3>8. QED
      BY <2>2, <3>7
  <2>3. CASE proc'[q].pc = "write"
    <3>1. proc[q].count = Nulls \/ proc[q].count >= baseline
      BY <1>1, <2>1, <2>3 DEF CountInv, Same
    <3>2. UNCHANGED baseline
      BY <1>5 DEF Environment, Work, Shrink, Checkpoint, Lose, RawConnect, Integrate, vars, data
    <3>3. QED
      BY <2>1, <2>3, <3>1, <3>2 DEF Same
  <2>4. QED
    BY <2>2, <2>3
<1>6. QED
  BY <1>2, <1>3, <1>4, <1>5, OnlyStep

(* Only the last step of record_counts changes the baseline. *)
LEMMA BaselineWritten ==
    ASSUME TypeInv, [Next]_vars, baseline' # baseline
    PROVE  \E p \in Procs : proc[p].pc = "write" /\ baseline' = proc[p].count
<1>0. ProcOK /\ HomeOK
  BY DEF TypeInv
<1>1. ASSUME NEW p \in Procs, StartStep(p) \/ BuildStep(p) \/ Fail(p) \/ Die(p) PROVE FALSE
  BY <1>0, <1>1, StartEffect, BuildEffect, EndEffect DEF data
<1>2. ASSUME NEW p \in Procs, LaterStep(p) PROVE proc[p].pc = "write" /\ baseline' = proc[p].count
  <2>1. CASE WriteCounts(p)
    BY <2>1 DEF WriteCounts, At
  <2>2. ASSUME Smoke(p) \/ BackupAuthority(p) \/ Guard(p) \/ WritePrevious(p) \/ SwitchCurrent(p)
               \/ WriteVersion(p) \/ CheckCounts(p) \/ ReadCounts(p) \/ Prune(p) \/ Probe(p)
        PROVE  FALSE
    BY <2>2 DEF Smoke, BackupAuthority, Guard, WritePrevious, SwitchCurrent, WriteVersion,
                CheckCounts, ReadCounts, Prune, Probe, data
  <2>3. ASSUME Open(p) \/ Migrate(p) \/ Carry(p) \/ Unlink(p) \/ CopyBack(p) \/ Roll(p)
        PROVE  FALSE
    BY <2>3 DEF Open, Migrate, Carry, Unlink, CopyBack, Roll
  <2>4. QED
    BY <1>2, <2>1, <2>2, <2>3 DEF LaterStep
<1>3. ASSUME Environment \/ UNCHANGED vars PROVE FALSE
  BY <1>3 DEF Environment, Work, Shrink, Checkpoint, Lose, RawConnect, Integrate, vars, data
<1>4. QED
  BY <1>1, <1>2, <1>3, NextSteps

(* The baseline falls only to --accept-drop, for any number of installs,
   doctors, losses and rows, unless commands overlapped or what one had
   checked changed before it read (core/health/authority_data.py,
   record_counts; core/self_install.py).                                     *)
THEOREM LossesAreNotBuried == Spec => LossIsNotBuried
<1>1. TypeInv /\ CountInv /\ [Next]_vars =>
        [baseline' < baseline /\ baseline' # Nulls =>
            crossed \/ slipped \/ \E p \in Procs : proc[p].accept]_vars
  <2> SUFFICES ASSUME TypeInv, CountInv, [Next]_vars, baseline' < baseline, baseline' # Nulls,
                      ~crossed, ~slipped
               PROVE  \E p \in Procs : proc[p].accept
    OBVIOUS
  <2>1. baseline' # baseline /\ baseline \in Int
    BY CountsAreNumbers
  <2>2. PICK p \in Procs : proc[p].pc = "write" /\ baseline' = proc[p].count
    BY <2>1, BaselineWritten
  <2>3. proc[p].count \in Int
    BY RowCount DEF TypeInv, ProcOK, Commands, Counted, Nulls
  <2>4. ~ (proc[p].count = Nulls \/ proc[p].count >= baseline)
    BY <2>1, <2>2, <2>3
  <2>5. QED
    BY <2>2, <2>4 DEF CountInv
<1>2. QED
  BY <1>1, TypeInit, TypeStep, AloneInit, AloneStep, CountStep, PTL DEF Spec, LossIsNotBuried

-----------------------------------------------------------------------------
(* The richest copy survives.                                              *)

(* Every step keeps RollInv: a richer backup is set aside before a pulse
   copies, and the authority does not shrink unnoticed under it.             *)
LEMMA RollStep == TypeInv /\ AloneInv /\ RollInv /\ [Next]_vars => RollInv'
<1> SUFFICES ASSUME TypeInv, AloneInv, RollInv, [Next]_vars, ~crossed', ~slipped',
                    NEW q \in Procs, proc'[q].pc = "roll"
             PROVE  Cardinality(bak'.rows) <= Cardinality(DbRows')
  BY DEF RollInv
<1>0. ProcOK /\ HomeOK /\ SavedOK /\ DbOK
  BY DEF TypeInv, DataOK
<1>1. ~crossed /\ ~slipped
  BY HistoryGrows
<1>2. bak.rows \in SUBSET Rows /\ DbRows \in SUBSET Rows
  BY <1>0, CountsType DEF SavedOK, GoodCopies, Copies
<1>3. Cardinality(bak.rows) \in Nat /\ Cardinality(DbRows) \in Nat
  BY <1>2, RowCount
<1>4. CASE proc[q].pc = "idle"
  <2>1. ASSUME NEW p \in Procs, StartStep(p) PROVE Cardinality(bak'.rows) <= Cardinality(DbRows')
    <3>1. p = q
      BY <1>0, <1>4, <2>1, StartEffect DEF Same
    <3>2. StartRolling(p) /\ db' = db
      BY <1>0, <2>1, <3>1, StartEffect DEF data
    <3>3. CASE Cardinality(bak.rows) > Cardinality(DbRows)
      <4>1. bak' = NoCopy /\ Cardinality({}) = 0
        BY <3>2, <3>3, FS_EmptySet DEF StartRolling
      <4>2. Cardinality(bak'.rows) = 0
        BY <4>1, NoCopyType
      <4>3. QED
        BY <1>3, <3>2, <4>2 DEF DbRows
    <3>4. CASE ~ (Cardinality(bak.rows) > Cardinality(DbRows))
      <4>1. bak' = bak
        BY <3>2, <3>4 DEF StartRolling
      <4>2. QED
        BY <1>3, <3>2, <3>4, <4>1 DEF DbRows
    <3>5. QED
      BY <3>3, <3>4
  <2>2. ASSUME NEW p \in Procs, BuildStep(p) PROVE FALSE
    <3>1. proc[p].pc \in Building /\ (p = q \/ Same(q))
      BY <1>0, <2>2, BuildEffect
    <3>2. QED
      BY <1>4, <3>1 DEF Same, Building
  <2>3. ASSUME NEW p \in Procs, LaterStep(p) \/ Fail(p) \/ Die(p) PROVE FALSE
    <3>1. proc[p].pc # "idle" /\ (p = q \/ Same(q))
      BY <1>0, <2>3, LaterEffect, EndEffect
    <3>2. QED
      BY <1>4, <3>1 DEF Same
  <2>4. ASSUME Environment \/ UNCHANGED vars PROVE FALSE
    BY <1>0, <1>4, <2>4, EnvironmentEffect DEF Same
  <2>5. QED
    BY <2>1, <2>2, <2>3, <2>4, NextSteps
<1>5. CASE proc[q].pc # "idle"
  <2>1. ASSUME BuildStep(q) PROVE FALSE
    BY <1>0, <2>1, BuildEffect DEF Building, Idle
  <2>2. ASSUME LaterStep(q) PROVE FALSE
    BY <1>0, <2>2, LaterEffect DEF Leads, Idle
  <2>3. ASSUME Fail(q) \/ Die(q) PROVE FALSE
    BY <1>0, <2>3, EndEffect DEF Idle
  <2>4. CASE Environment \/ UNCHANGED vars
    <3>1. proc[q].pc = "roll"
      BY <1>0, <2>4, EnvironmentEffect DEF Same
    <3>2. Cardinality(bak.rows) <= Cardinality(DbRows)
      BY <1>1, <3>1 DEF RollInv
    <3>3. bak' = bak /\ DbRows' \in SUBSET Rows /\ DbRows \subseteq DbRows'
      BY <2>4, <3>1, RowsGrow
    <3>4. Cardinality(DbRows) <= Cardinality(DbRows') /\ Cardinality(DbRows') \in Nat
      BY <1>2, <3>3, RowCount
    <3>5. QED
      BY <1>3, <3>2, <3>3, <3>4
  <2>5. QED
    BY <1>5, <2>1, <2>2, <2>3, <2>4, OnlyStep
<1>6. QED
  BY <1>4, <1>5

(* The richest of a set of copies is one of them, and none has more rows. *)
LEMMA RichestOne ==
    ASSUME NEW C \in SUBSET GoodCopies
    PROVE  /\ Richest(C) \in Nat
           /\ \A c \in C : Cardinality(c.rows) <= Richest(C)
           /\ Richest(C) = 0 \/ \E c \in C : Richest(C) = Cardinality(c.rows)
<1>1. PICK S : S = {Cardinality(c.rows) : c \in C \cup {NoCopy}}
  OBVIOUS
<1>2. \A c \in C \cup {NoCopy} : Cardinality(c.rows) \in 0..Cardinality(Rows)
  <2>1. \A c \in C \cup {NoCopy} : c.rows \in SUBSET Rows
    BY NoCopyType DEF GoodCopies, Copies
  <2>2. QED
    BY <2>1, RowCount
<1>3. S \in SUBSET (0..Cardinality(Rows)) /\ S # {}
  BY <1>1, <1>2
<1>4. Max(S) \in S /\ \A k \in S : k <= Max(S)
  BY <1>3, RowCount, BoundedMax
<1>5. Richest(C) = Max(S)
  BY <1>1 DEF Richest
<1>6. PICK m : m = Max(S)
  OBVIOUS
<1>7. m \in Nat /\ m \in S /\ \A c \in C : Cardinality(c.rows) <= m
  <2>1. m \in S /\ m \in 0..Cardinality(Rows) /\ \A k \in S : k <= m
    BY <1>3, <1>4, <1>6
  <2>2. \A c \in C : Cardinality(c.rows) \in S
    BY <1>1
  <2>3. m \in Nat
    BY <2>1
  <2>4. \A c \in C : Cardinality(c.rows) <= m
    BY <2>1, <2>2, Zenon
  <2>5. QED
    BY <2>1, <2>3, <2>4
<1>8. Cardinality(NoCopy.rows) = 0
  BY NoCopyType, FS_EmptySet
<1>9. m = 0 \/ \E c \in C : m = Cardinality(c.rows)
  BY <1>1, <1>7, <1>8
<1>10. QED
  BY <1>5, <1>6, <1>7, <1>9

(* Copies that are kept, or replaced by no poorer ones, leave the richest as
   rich.                                                                     *)
LEMMA RichestGrows ==
    ASSUME NEW C \in SUBSET GoodCopies, NEW D \in SUBSET GoodCopies,
           \A c \in C : \E d \in D : Cardinality(c.rows) <= Cardinality(d.rows)
    PROVE  Richest(D) >= Richest(C)
<1>1. Richest(C) \in Nat /\ Richest(D) \in Nat
  BY RichestOne
<1>2. CASE Richest(C) = 0
  BY <1>1, <1>2
<1>3. ASSUME NEW c \in C, Richest(C) = Cardinality(c.rows) PROVE Richest(D) >= Richest(C)
  <2>1. PICK d \in D : Cardinality(c.rows) <= Cardinality(d.rows)
    OBVIOUS
  <2>2. Cardinality(d.rows) \in Nat
    BY RowCount DEF GoodCopies, Copies
  <2>3. Cardinality(d.rows) <= Richest(D)
    BY RichestOne
  <2>4. QED
    BY <1>1, <1>3, <2>1, <2>2, <2>3
<1>4. QED
  BY <1>2, <1>3, RichestOne

(* Nothing a step keeps is lost, and studio.db.bak is replaced only by the
   pulse: renamed when it is richer, or written over when it may be.         *)
LEMMA CopiesStay ==
    ASSUME TypeInv, [Next]_vars
    PROVE  /\ kept \subseteq kept'
           /\ \/ bak' = bak \/ bak \in kept'
              \/ \E p \in Procs : proc[p].pc = "roll" /\ bak' = Snapshot
<1>0. ProcOK /\ HomeOK
  BY DEF TypeInv
<1>1. ASSUME NEW p \in Procs, StartStep(p) PROVE kept \subseteq kept' /\ (bak' = bak \/ bak \in kept')
  BY <1>0, <1>1, StartEffect DEF StartRolling
<1>2. ASSUME NEW p \in Procs, BuildStep(p) \/ Fail(p) \/ Die(p) PROVE UNCHANGED <<kept, bak>>
  BY <1>0, <1>2, BuildEffect, EndEffect DEF saved
<1>3. ASSUME NEW p \in Procs, LaterStep(p)
      PROVE  kept \subseteq kept' /\ (bak' = bak \/ (proc[p].pc = "roll" /\ bak' = Snapshot))
  <2>1. CASE Roll(p)
    BY <2>1 DEF Roll, At
  <2>2. CASE Smoke(p) \/ BackupAuthority(p) \/ Guard(p) \/ WritePrevious(p) \/ SwitchCurrent(p)
             \/ WriteVersion(p) \/ CheckCounts(p) \/ ReadCounts(p) \/ Prune(p) \/ Probe(p)
    BY <2>2 DEF Smoke, BackupAuthority, Guard, WritePrevious, SwitchCurrent, WriteVersion,
                CheckCounts, ReadCounts, Prune, Probe, saved
  <2>3. CASE Open(p) \/ Carry(p) \/ WriteCounts(p) \/ Unlink(p) \/ CopyBack(p)
    BY <2>3 DEF Open, Carry, WriteCounts, Unlink, CopyBack, saved
  <2>4. CASE Migrate(p)
    BY <2>4 DEF Migrate, BackupLive
  <2>5. QED
    BY <1>3, <2>1, <2>2, <2>3, <2>4 DEF LaterStep
<1>4. ASSUME Environment \/ UNCHANGED vars PROVE kept \subseteq kept' /\ bak' = bak
  <2>1. ASSUME NEW x \in Rows, Work(x) PROVE kept \subseteq kept' /\ bak' = bak
    BY <2>1 DEF Work, BackupLive
  <2>2. ASSUME NEW x \in Rows, Shrink(x) PROVE kept \subseteq kept' /\ bak' = bak
    BY <2>2 DEF Shrink, saved
  <2>3. CASE Checkpoint \/ Lose \/ RawConnect \/ Integrate \/ UNCHANGED vars
    BY <2>3 DEF Checkpoint, Lose, RawConnect, Integrate, vars, saved
  <2>4. QED
    BY <1>4, <2>1, <2>2, <2>3 DEF Environment
<1>5. QED
  BY <1>1, <1>2, <1>3, <1>4, NextSteps

(* The rolling backup never loses the richest copy, whatever happened to the
   authority and however many pulses, migrations and restores ran, unless
   commands overlapped or the authority shrank while a pulse was copying it
   (core/config/state.py, _keep_richer_backup).                              *)
THEOREM RichestCopySurvives == Spec => RichestSurvives
<1>1. TypeInv /\ TypeInv' /\ RollInv /\ [Next]_vars =>
        [Richest(kept' \cup {bak'}) >= Richest(kept \cup {bak}) \/ slipped \/ crossed]_vars
  <2> SUFFICES ASSUME TypeInv, TypeInv', RollInv, [Next]_vars, ~slipped, ~crossed
               PROVE  Richest(kept' \cup {bak'}) >= Richest(kept \cup {bak})
    OBVIOUS
  <2>1. PICK C : C = kept \cup {bak}
    OBVIOUS
  <2>2. PICK D : D = kept' \cup {bak'}
    OBVIOUS
  <2>3. C \in SUBSET GoodCopies /\ D \in SUBSET GoodCopies
    BY <2>1, <2>2 DEF TypeInv, SavedOK
  <2>4. \A c \in C \cup D : Cardinality(c.rows) \in Nat
    BY <2>3, RowCount DEF GoodCopies, Copies
  <2>5. ASSUME NEW c \in C PROVE \E d \in D : Cardinality(c.rows) <= Cardinality(d.rows)
    <3>1. CASE c \in D
      BY <2>4, <3>1
    <3>2. CASE c \notin D
      <4>1. PICK p \in Procs : c = bak /\ proc[p].pc = "roll" /\ bak' = Snapshot
        BY <2>1, <2>2, <2>5, <3>2, CopiesStay
      <4>2. Cardinality(bak.rows) <= Cardinality(DbRows)
        BY <4>1 DEF RollInv
      <4>3. bak'.rows = DbRows
        BY <4>1 DEF Snapshot
      <4>4. QED
        BY <2>2, <4>1, <4>2, <4>3
    <3>3. QED
      BY <3>1, <3>2
  <2>6. QED
    BY <2>1, <2>2, <2>3, <2>5, RichestGrows
<1>2. QED
  BY <1>1, TypeInit, TypeStep, AloneInit, AloneStep, RollStep, PTL DEF Spec, RichestSurvives

-----------------------------------------------------------------------------
(* Every app one can run has data.                                         *)

(* A command before it opens the authority, and one that has switched. *)
Early == {"build", "venv", "pip", "record", "smoke", "backup", "guard", "open", "probe"}
After == {"version", "check", "read", "write", "prune"}

(* A rollback whose app has been asked whether it ships what the authority has. *)
Returning(me) == me.cmd = "rollback" /\ me.pc \in {"backup", "previous", "switch"}

(* The copies there are, those a restore holds included, and the schemas that
   the authority and they have.                                              *)
Copied == CopiesHeld \cup {proc[p].copy : p \in Procs}
Held == {db.schema} \cup {c.schema : c \in Copied}

(* A copy that nothing removes has at most schema k. *)
Low(k) == \E c \in kept : c.schema \in 1..k

(* A command that switches knows the live app, one that activates is its own;
   a copy is taken only by a migration, and stays; an app whose migrations ran,
   or that was asked, ships what the authority has.                          *)
Aligned(q) ==
    /\ proc[q].cmd \in Moves /\ proc[q].pc \notin After => proc[q].current = current
    /\ proc[q].cmd = "activate" => proc[q].app = current
    /\ proc[q].pc \in Early => ~proc[q].taken
    /\ proc[q].pc = "migrate" /\ proc[q].taken => current = NoApp \/ Low(proc[q].next - 1)
    /\ Migrating(proc[q]) \/ Returning(proc[q]) => db.schema <= Latest[proc[q].app]

(* Before the first switch only the install in flight has migrated anything. *)
NewInv ==
    current = NoApp =>
        /\ previous = NoApp
        /\ \A c \in Copied : c.schema = 0
        /\ db.schema > 0 => \E p \in Procs : /\ Migrating(proc[p])
                                             /\ proc[p].pc = "migrate" => proc[p].taken

(* Whatever is older than something else that is held has a copy as old that
   stays: this is what survives losses, restores and pruning.                *)
ChainInv == \A j, k \in Held : 1 <= j /\ j < k => Low(j)

(* The live and the previous app can open all there is, or a copy that stays. *)
ReachInv ==
    \A a \in Apps : a \in {current, previous} =>
        Low(Latest[a]) \/ \A s \in Held : s <= Latest[a]

OpenInv == current = NoApp \/ db.schema <= Latest[current] \/ \E p \in Procs : Migrating(proc[p])

DataInv == (\A q \in Procs : Aligned(q)) /\ NewInv /\ ChainInv /\ ReachInv /\ OpenInv
HaveInv == crossed \/ behind \/ DataInv

(* The schemas there are, as numbers. *)
LEMMA HeldType ==
    ASSUME TypeInv
    PROVE  /\ Held \subseteq Nat /\ db.schema \in Nat /\ db.schema \in Held
           /\ \A c \in Copied : c.schema \in Held
           /\ \A c \in kept : c \in Copied /\ c.schema \in Nat
           /\ \A a \in Apps : Latest[a] \in Nat
<1>1. \A c \in GoodCopies : c.schema \in Nat
  BY VersionsType DEF GoodCopies, Copies
<1>2. CopiesHeld \subseteq GoodCopies
  BY CopiesHeldType DEF TypeInv
<1>3. \A p \in Procs : proc[p].copy \in GoodCopies
  BY DEF TypeInv, ProcOK, Commands
<1>4. Copied \subseteq GoodCopies
  BY <1>2, <1>3 DEF Copied
<1>5. db.schema \in Nat
  BY VersionsType DEF TypeInv, DataOK, DbOK
<1>6. \A a \in Apps : Latest[a] \in Nat
  BY AuthorityAssumption
<1>7. kept \subseteq Copied
  BY DEF Copied, CopiesHeld
<1>8. QED
  BY <1>1, <1>4, <1>5, <1>6, <1>7 DEF Held

(* A copy that is old enough for k is old enough for what is beyond k. *)
LEMMA LowGrows ==
    ASSUME TypeInv, NEW k \in Nat, NEW n \in Nat, k <= n, Low(k)
    PROVE  Low(n)
BY HeldType DEF Low

(* While nothing newer appears and no copy that stays is removed, both
   invariants about the copies hold on.                                      *)
LEMMA NumbersKeep ==
    ASSUME TypeInv, TypeInv', ChainInv, ReachInv, kept \subseteq kept', Held' \subseteq Held \cup {0},
           current' = current, previous' \in {previous, current}
    PROVE  ChainInv' /\ ReachInv'
<1>1. \A k : Low(k) => Low(k)'
  BY DEF Low
<1>2. Held \subseteq Nat /\ \A a \in Apps : Latest[a] \in Nat
  BY HeldType
<1>3. ChainInv'
  <2> SUFFICES ASSUME NEW j \in Held', NEW k \in Held', 1 <= j, j < k PROVE Low(j)'
    BY DEF ChainInv
  <2>1. j \in Held /\ k \in Held
    BY <1>2
  <2>2. QED
    BY <1>1, <2>1 DEF ChainInv
<1>4. ReachInv'
  <2> SUFFICES ASSUME NEW a \in Apps, a \in {current', previous'}
               PROVE  Low(Latest[a])' \/ \A s \in Held' : s <= Latest[a]
    BY DEF ReachInv
  <2>1. Low(Latest[a]) \/ \A s \in Held : s <= Latest[a]
    BY DEF ReachInv
  <2>2. QED
    BY <1>1, <1>2, <2>1
<1>5. QED
  BY <1>3, <1>4

(* Migrations under a live app, which begin at a schema and leave a copy that
   is no newer, keep them too.                                               *)
LEMMA NumbersRaise ==
    ASSUME TypeInv, TypeInv', ChainInv, ReachInv, kept \subseteq kept',
           UNCHANGED <<current, previous>>, 1 <= db.schema, db.schema < db'.schema,
           NEW n, n = db.schema, Low(n)', Held' \subseteq Held \cup {0, db'.schema}
    PROVE  ChainInv' /\ ReachInv'
<1>1. \A k : Low(k) => Low(k)'
  BY DEF Low
<1>a. db'.schema \in Nat
  BY VersionsType DEF TypeInv, DataOK, DbOK
<1>2. Held \subseteq Nat /\ Held' \subseteq Nat /\ db.schema \in Held /\ db.schema \in Nat
      /\ db'.schema \in Nat /\ \A a \in Apps : Latest[a] \in Nat
  BY <1>a, HeldType
<1>3. \A m \in Nat : db.schema <= m => Low(m)'
  BY <1>2 DEF Low
<1>4. ChainInv'
  <2> SUFFICES ASSUME NEW j \in Held', NEW k \in Held', 1 <= j, j < k PROVE Low(j)'
    BY DEF ChainInv
  <2>1. CASE db.schema <= j
    BY <1>2, <1>3, <2>1
  <2>2. CASE j < db.schema
    <3>1. j \in Held
      BY <1>2, <2>2
    <3>2. QED
      BY <1>1, <1>2, <2>2, <3>1 DEF ChainInv
  <2>3. QED
    BY <1>2, <2>1, <2>2
<1>5. ReachInv'
  <2> SUFFICES ASSUME NEW a \in Apps, a \in {current', previous'}
               PROVE  Low(Latest[a])' \/ \A s \in Held' : s <= Latest[a]
    BY DEF ReachInv
  <2>1. Low(Latest[a]) \/ \A s \in Held : s <= Latest[a]
    BY DEF ReachInv
  <2>2. CASE Low(Latest[a])
    BY <1>1, <2>2
  <2>3. CASE \A s \in Held : s <= Latest[a]
    BY <1>2, <1>3, <2>3
  <2>4. QED
    BY <2>1, <2>2, <2>3
<1>6. QED
  BY <1>4, <1>5

(* While no two commands overlap, every process but the one that moves is idle,
   before and after.                                                         *)
LEMMA OthersIdle ==
    ASSUME TypeInv, TypeInv', AloneInv, AloneInv', ~crossed, ~crossed', NEW p \in Procs,
           proc[p].pc # "idle", \A q \in Procs \ {p} : Same(q)
    PROVE  \A q \in Procs \ {p} : proc[q] = Idle /\ proc'[q] = Idle
<1>1. \A q \in Procs \ {p} : proc[q].pc = "idle"
  BY DEF AloneInv
<1>2. \A q \in Procs \ {p} : proc'[q].pc = "idle"
  BY <1>1 DEF Same
<1>3. \A q \in Procs : proc[q].pc = "idle" => proc[q] = Idle
  BY DEF TypeInv, ProcOK, Commands, Fits
<1>4. \A q \in Procs : proc'[q].pc = "idle" => proc'[q] = Idle
  BY DEF TypeInv, ProcOK, Commands, Fits
<1>5. QED
  BY <1>1, <1>2, <1>3, <1>4

(* A step of a command that neither migrates nor switches: nothing newer
   appears, and no app is asked less than before.                            *)
Calm(p) ==
    /\ UNCHANGED <<current, kept>>
    /\ previous' = previous \/ (previous' = current /\ current # NoApp)
    /\ \/ db'.schema \in {db.schema, 0}
       \/ /\ proc'[p] = Idle /\ db'.schema = proc[p].copy.schema
          /\ current # NoApp => db'.schema <= Latest[current]
    /\ \A c \in CopiesHeld' : c \in CopiesHeld \/ (c.schema = db.schema /\ ~Migrating(proc[p]))
    /\ \/ proc'[p] = Idle /\ ~Migrating(proc[p])
       \/ /\ proc'[p].cmd = proc[p].cmd /\ proc'[p].app = proc[p].app
          /\ proc'[p].current = proc[p].current /\ proc'[p].copy = proc[p].copy
          /\ proc'[p].taken = proc[p].taken
          /\ proc'[p].pc \in Early => proc[p].pc \in Early
          /\ proc'[p].pc \in After \/ proc[p].pc \notin After
          /\ proc'[p].pc = "migrate" => proc[p].pc = "open"
          /\ Migrating(proc[p]) => Migrating(proc'[p])
          /\ Migrating(proc'[p]) => Migrating(proc[p]) \/ db.schema <= Latest[proc[p].app]
          /\ Returning(proc'[p]) => Returning(proc[p]) \/ db.schema <= Latest[proc[p].app]

(* A calm step keeps the invariants. *)
LEMMA CalmKeeps ==
    ASSUME TypeInv, TypeInv', DataInv, NEW p \in Procs, Calm(p),
           \A q \in Procs \ {p} : proc[q] = Idle /\ proc'[q] = Idle
    PROVE  DataInv'
<1>0. /\ \A q \in Procs \ {p} : proc'[q].pc = "idle" /\ proc'[q].cmd = "none" /\ proc'[q].copy = NoCopy
                                /\ proc[q].copy = NoCopy /\ ~Migrating(proc[q]) /\ ~Migrating(proc'[q])
      /\ Idle.pc = "idle" /\ Idle.cmd = "none" /\ Idle.copy = NoCopy
      /\ NoCopy.schema = 0
  BY DEF Idle, NoCopy, Migrating
<1>1. Held \subseteq Nat /\ db.schema \in Nat /\ db.schema \in Held /\ proc[p].copy \in Copied
      /\ (\A a \in Apps : Latest[a] \in Nat) /\ (\A c \in Copied : c.schema \in Held)
      /\ CopiesHeld \subseteq Copied
  BY HeldType DEF Copied
<1>2. ASSUME NEW c \in Copied'
      PROVE  c \in Copied \/ c.schema = 0 \/ (c.schema = db.schema /\ ~Migrating(proc[p]))
  <2>1. CASE c \in CopiesHeld'
    BY <1>1, <2>1 DEF Calm
  <2>2. ASSUME NEW q \in Procs, c = proc'[q].copy PROVE c \in Copied \/ c.schema = 0
    BY <1>0, <1>1, <2>2 DEF Calm
  <2>3. QED
    BY <2>1, <2>2 DEF Copied
<1>3. db'.schema \in Held \cup {0} /\ db'.schema \in Nat
  <2>1. db'.schema = db.schema \/ db'.schema = 0 \/ db'.schema = proc[p].copy.schema
    BY DEF Calm
  <2>2. proc[p].copy.schema \in Held
    BY <1>1
  <2>3. db'.schema \in Held \cup {0}
    BY <1>1, <2>1, <2>2
  <2>4. Held \cup {0} \subseteq Nat
    BY <1>1
  <2>5. QED
    BY <2>3, <2>4
<1>4. Held' \subseteq Held \cup {0}
  BY <1>1, <1>2, <1>3 DEF Held
<1>5. ChainInv' /\ ReachInv'
  BY <1>4, NumbersKeep DEF Calm, DataInv
<1>6. NewInv'
  <2> SUFFICES ASSUME current' = NoApp
               PROVE  /\ previous' = NoApp
                      /\ \A c \in Copied' : c.schema = 0
                      /\ db'.schema > 0 => \E q \in Procs : /\ Migrating(proc'[q])
                                                            /\ proc'[q].pc = "migrate" => proc'[q].taken
    BY DEF NewInv
  <2>1. current = NoApp /\ previous = NoApp /\ \A c \in Copied : c.schema = 0
    BY DEF Calm, DataInv, NewInv
  <2>2. db.schema > 0 => Migrating(proc[p])
    BY <1>0, <2>1 DEF DataInv, NewInv
  <2>3. \A c \in Copied' : c.schema = 0
    BY <1>1, <1>2, <2>1, <2>2
  <2>4. db'.schema > 0 => db'.schema = db.schema /\ db.schema > 0
    BY <1>1, <2>1 DEF Calm
  <2>5. Migrating(proc[p]) => proc[p].pc # "open"
    BY DEF Migrating
  <2>6. db'.schema > 0 => Migrating(proc'[p]) /\ proc'[p].pc # "migrate"
    BY <2>2, <2>4, <2>5 DEF Calm
  <2>7. QED
    BY <2>1, <2>3, <2>6 DEF Calm
<1>7. OpenInv'
  <2> SUFFICES ASSUME current # NoApp, ~(db'.schema <= Latest[current]) PROVE Migrating(proc'[p])
    BY DEF OpenInv, Calm
  <2>1. current \in Apps
    BY DEF TypeInv, HomeOK, Homes
  <2>2. db'.schema = db.schema
    BY <1>1, <2>1 DEF Calm
  <2>3. Migrating(proc[p])
    BY <1>0, <2>2 DEF DataInv, OpenInv
  <2>4. QED
    BY <2>3 DEF Calm
<1>8. ASSUME NEW q \in Procs PROVE Aligned(q)'
  <2>1. CASE proc'[q].pc = "idle" /\ proc'[q].cmd = "none"
    BY <2>1 DEF Aligned, Migrating, Returning, Moves, Early
  <2>2. CASE ~(proc'[q].pc = "idle" /\ proc'[q].cmd = "none")
    <3>1. q = p /\ proc'[p] # Idle
      BY <1>0, <2>2
    <3>2. Aligned(p)
      BY DEF DataInv
    <3>3. proc[p].cmd \in {"install", "rollback"} => proc[p].app \in Apps
      BY StepOfCommand DEF TypeInv
    <3>4. Migrating(proc'[p]) \/ Returning(proc'[p]) => db'.schema <= Latest[proc'[p].app]
      <4> SUFFICES ASSUME Migrating(proc'[p]) \/ Returning(proc'[p]) PROVE db'.schema <= Latest[proc'[p].app]
        OBVIOUS
      <4>1. proc[p].app \in Apps /\ proc'[p].app = proc[p].app
        BY <3>1, <3>3 DEF Calm, Migrating, Returning
      <4>2. db.schema <= Latest[proc[p].app]
        BY <3>1, <3>2 DEF Calm, Aligned
      <4>3. db'.schema \in {db.schema, 0}
        BY <3>1 DEF Calm
      <4>4. QED
        BY <1>1, <4>1, <4>2, <4>3
    <3>5. proc'[p].pc = "migrate" => ~proc'[p].taken
      BY <3>1, <3>2 DEF Calm, Aligned, Early
    <3>6. /\ proc'[p].cmd \in Moves /\ proc'[p].pc \notin After => proc'[p].current = current'
          /\ proc'[p].cmd = "activate" => proc'[p].app = current'
          /\ proc'[p].pc \in Early => ~proc'[p].taken
      BY <3>1, <3>2 DEF Calm, Aligned
    <3>7. QED
      BY <3>1, <3>4, <3>5, <3>6 DEF Aligned
  <2>3. QED
    BY <2>1, <2>2
<1>9. QED
  BY <1>5, <1>6, <1>7, <1>8 DEF DataInv

(* What a step leaves of a command that goes on. *)
Keeps(p) ==
    /\ proc'[p].cmd = proc[p].cmd /\ proc'[p].app = proc[p].app
    /\ proc'[p].current = proc[p].current /\ proc'[p].copy = proc[p].copy
    /\ proc'[p].taken = proc[p].taken

(* Going on to another label keeps the rest of a command. *)
LEMMA GotoKeeps ==
    ASSUME TypeInv, NEW p \in Procs, NEW l, Goto(p, l)
    PROVE  Keeps(p) /\ proc'[p].pc = l
<1>1. proc[p] \in Commands
  BY DEF TypeInv, ProcOK
<1>2. proc'[p] = [proc[p] EXCEPT !.pc = l]
  BY DEF TypeInv, ProcOK, Goto
<1>3. QED
  BY <1>1, <1>2 DEF Keeps, Commands

(* Ending a command leaves its process idle. *)
LEMMA QuitIdle == ASSUME TypeInv, NEW p \in Procs, Quit(p) PROVE proc'[p] = Idle
BY DEF TypeInv, ProcOK, Quit

(* A step that only moves its command on, or ends it outside a migration. *)
LEMMA CalmMove ==
    ASSUME TypeInv, NEW p \in Procs, UNCHANGED <<current, previous, db, saved>>,
           \/ proc'[p] = Idle /\ ~Migrating(proc[p])
           \/ /\ Keeps(p)
              /\ proc'[p].pc \in Early => proc[p].pc \in Early
              /\ proc'[p].pc \in After \/ proc[p].pc \notin After
              /\ proc'[p].pc # "migrate"
              /\ Migrating(proc[p]) <=> Migrating(proc'[p])
              /\ Returning(proc'[p]) => Returning(proc[p]) \/ db.schema <= Latest[proc[p].app]
    PROVE  Calm(p)
<1>1. CopiesHeld' = CopiesHeld
  BY DEF CopiesHeld, saved
<1>2. UNCHANGED <<current, kept>> /\ previous' = previous /\ db'.schema \in {db.schema, 0}
  BY DEF saved
<1>3. QED
  BY <1>1, <1>2 DEF Calm, Keeps

(* The steps of a build and those that only move a command on are calm. *)
LEMMA CalmMoves ==
    ASSUME TypeInv, NEW p \in Procs,
           BuildStep(p) \/ Smoke(p) \/ Guard(p) \/ Carry(p) \/ WriteVersion(p) \/ CheckCounts(p)
           \/ ReadCounts(p) \/ WriteCounts(p) \/ Probe(p)
    PROVE  Calm(p)
<1>0. proc[p] \in Commands /\ ProcOK
  BY DEF TypeInv, ProcOK
<1>1. UNCHANGED <<current, previous, db, saved>>
  BY DEF BuildStep, ClearApp, MakeVenv, Pip, RecordApp, Smoke, Guard, Carry, WriteVersion, CheckCounts,
         ReadCounts, WriteCounts, Probe, home, data
<1>2. ASSUME NEW l, Goto(p, l), l \in Early => proc[p].pc \in Early,
             l \in After \/ proc[p].pc \notin After, l # "migrate",
             proc[p].pc \in {"migrate", "carry", "previous", "switch"}
               <=> l \in {"migrate", "carry", "previous", "switch"},
             proc[p].cmd = "rollback" /\ l \in {"backup", "previous", "switch"}
               => db.schema <= Latest[proc[p].app]
      PROVE  Calm(p)
  <2>1. Keeps(p) /\ proc'[p].pc = l
    BY <1>2, GotoKeeps
  <2>2. QED
    BY <1>1, <1>2, <2>1, CalmMove DEF Keeps, Migrating, Returning
<1>3. CASE ClearApp(p)
  <2>1. proc[p].pc = "build" /\ (Quit(p) \/ Goto(p, "venv"))
    BY <1>3 DEF ClearApp, At
  <2>2. CASE Quit(p)
    BY <1>1, <2>1, <2>2, QuitIdle, CalmMove DEF Migrating
  <2>3. CASE Goto(p, "venv")
    BY <1>2, <2>1, <2>3 DEF Early, After
  <2>4. QED
    BY <2>1, <2>2, <2>3
<1>4. CASE MakeVenv(p)
  BY <1>2, <1>4 DEF MakeVenv, At, Early, After
<1>5. CASE Pip(p)
  BY <1>2, <1>5 DEF Pip, At, Early, After
<1>6. CASE RecordApp(p)
  BY <1>2, <1>6 DEF RecordApp, At, Early, After
<1>7. CASE Smoke(p)
  <2>1. proc[p].pc = "smoke" /\ (Goto(p, "backup") \/ Goto(p, "guard"))
    BY <1>7 DEF Smoke, At
  <2>2. proc[p].cmd = "install"
    BY <1>0, <2>1, StepOfCommand
  <2>3. QED
    BY <1>2, <2>1, <2>2 DEF Early, After
<1>8. CASE Guard(p)
  BY <1>2, <1>8 DEF Guard, At, Early, After
<1>9. CASE Carry(p)
  <2>1. proc[p].pc = "carry" /\ (IF proc[p].cmd = "activate" THEN Quit(p) ELSE Goto(p, "previous"))
    BY <1>9 DEF Carry, At
  <2>2. CASE proc[p].cmd = "activate"
    BY <1>1, <2>1, <2>2, QuitIdle, CalmMove DEF Migrating
  <2>3. CASE proc[p].cmd # "activate"
    <3>1. proc[p].cmd = "install"
      BY <1>0, <2>1, <2>3, StepOfCommand
    <3>2. QED
      BY <1>2, <2>1, <2>3, <3>1 DEF Early, After
  <2>4. QED
    BY <2>2, <2>3
<1>10. CASE WriteVersion(p)
  <2>1. proc[p].pc = "version" /\ (Goto(p, "check") \/ Goto(p, "prune"))
    BY <1>10 DEF WriteVersion
  <2>2. QED
    BY <1>2, <2>1 DEF Early, After
<1>11. CASE CheckCounts(p)
  <2>1. proc[p].pc = "check" /\ (Goto(p, "read") \/ Goto(p, "prune"))
    BY <1>11 DEF CheckCounts, At
  <2>2. QED
    BY <1>2, <2>1 DEF Early, After
<1>12. CASE ReadCounts(p)
  <2>1. proc[p].pc = "read" /\ proc'[p] = [proc[p] EXCEPT !.pc = "write", !.count = Counts]
    BY <1>0, <1>12 DEF ReadCounts, At, ProcOK
  <2>2. Keeps(p) /\ proc'[p].pc = "write"
    BY <1>0, <2>1 DEF Keeps, Commands
  <2>3. QED
    BY <1>1, <2>1, <2>2, CalmMove DEF Migrating, Returning, Early, After
<1>13. CASE WriteCounts(p)
  BY <1>2, <1>13 DEF WriteCounts, At, Early, After
<1>14. CASE Probe(p)
  <2>1. proc[p].pc = "probe" /\ (IF db.schema > Latest[proc[p].app] THEN Quit(p) ELSE Goto(p, "backup"))
    BY <1>14 DEF Probe, At
  <2>2. CASE Quit(p)
    BY <1>1, <2>1, <2>2, QuitIdle, CalmMove DEF Migrating
  <2>3. CASE Goto(p, "backup") /\ ~(db.schema > Latest[proc[p].app])
    <3>1. proc[p].app \in Apps
      BY <1>0, <2>1, StepOfCommand
    <3>2. db.schema <= Latest[proc[p].app]
      BY <2>3, <3>1, HeldType
    <3>3. QED
      BY <1>2, <2>1, <2>3, <3>2 DEF Early, After
  <2>4. QED
    BY <2>1, <2>2, <2>3
<1>15. QED
  BY <1>3, <1>4, <1>5, <1>6, <1>7, <1>8, <1>9, <1>10, <1>11, <1>12, <1>13, <1>14 DEF BuildStep

(* So are those that copy, prune, remove or restore the authority, open it, or
   end a command before it has migrated.                                     *)
LEMMA CalmOthers ==
    ASSUME TypeInv, NEW p \in Procs, Aligned(p), ~behind',
           \/ BackupAuthority(p) \/ Open(p) \/ WritePrevious(p) \/ Prune(p) \/ Unlink(p) \/ CopyBack(p)
           \/ Roll(p) \/ Fail(p) \/ Die(p) \/ (Migrate(p) /\ proc[p].next > proc[p].limit)
    PROVE  Calm(p)
<1>0. proc[p] \in Commands /\ ProcOK /\ DbOK /\ HomeOK /\ SavedOK
  BY DEF TypeInv, ProcOK, DataOK
<1>1. CASE BackupAuthority(p)
  <2>1. proc[p].pc = "backup" /\ UNCHANGED <<current, previous, db, kept, bak>>
        /\ backups' = Append(backups, Snapshot)
        /\ Goto(p, IF proc[p].cmd = "install" THEN "guard" ELSE "previous")
    BY <1>1 DEF BackupAuthority, At, home, data
  <2>2. Snapshot.schema = db.schema
    BY DEF Snapshot
  <2>3. Snapshot \in GoodCopies
    BY <1>0, SnapshotType
  <2>4. ASSUME NEW i \in DOMAIN backups' PROVE backups'[i] = Snapshot \/ backups'[i] \in CopiesHeld
    BY <1>0, <2>1, <2>3, <2>4, AppendProperties, LenProperties DEF SavedOK, CopiesHeld
  <2>5. \A c \in CopiesHeld' : c \in CopiesHeld \/ c.schema = db.schema
    BY <2>1, <2>2, <2>4 DEF CopiesHeld
  <2>6. Keeps(p) /\ proc'[p].pc = IF proc[p].cmd = "install" THEN "guard" ELSE "previous"
    BY <2>1, GotoKeeps
  <2>7. ~Migrating(proc[p])
    BY <2>1 DEF Migrating
  <2>8. /\ proc'[p].pc \in Early => proc[p].pc \in Early
        /\ proc'[p].pc \in After \/ proc[p].pc \notin After
        /\ proc'[p].pc # "migrate" /\ ~Migrating(proc'[p])
        /\ Returning(proc'[p]) => Returning(proc[p])
    BY <2>1, <2>6 DEF Early, After, Migrating, Returning, Keeps
  <2>9. QED
    BY <2>1, <2>5, <2>6, <2>7, <2>8 DEF Calm, Keeps
<1>2. CASE Open(p)
  <2>1. PICK n, lim : proc'[p] = IF db.schema > Latest[proc[p].app] THEN Idle
                                 ELSE [proc[p] EXCEPT !.pc = "migrate", !.next = n, !.limit = lim]
    BY <1>0, <1>2 DEF Open, ProcOK
  <2>2. proc[p].pc = "open" /\ UNCHANGED <<current, previous, saved>>
    BY <1>2 DEF Open, At, home
  <2>3. db'.schema = db.schema
    BY <1>0, <1>2 DEF Open, Absent, DbOK
  <2>4. CopiesHeld' = CopiesHeld /\ kept' = kept
    BY <2>2 DEF CopiesHeld, saved
  <2>5. ~Migrating(proc[p])
    BY <2>2 DEF Migrating
  <2>6. CASE db.schema > Latest[proc[p].app]
    BY <2>1, <2>2, <2>3, <2>4, <2>5, <2>6 DEF Calm
  <2>7. CASE ~(db.schema > Latest[proc[p].app])
    <3>1. proc'[p] = [proc[p] EXCEPT !.pc = "migrate", !.next = n, !.limit = lim]
      BY <2>1, <2>7
    <3>2. Keeps(p) /\ proc'[p].pc = "migrate"
      BY <1>0, <3>1 DEF Keeps, Commands
    <3>3. proc[p].app \in Apps
      BY <1>0, <2>2, StepOfCommand
    <3>4. db.schema <= Latest[proc[p].app]
      BY <2>7, <3>3, HeldType
    <3>5. /\ proc'[p].pc \notin Early /\ proc[p].pc \notin After
          /\ ~Returning(proc'[p])
      BY <2>2, <3>2 DEF Early, After, Returning
    <3>6. QED
      BY <2>2, <2>3, <2>4, <2>5, <3>2, <3>4, <3>5 DEF Calm, Keeps
  <2>8. QED
    BY <2>6, <2>7
<1>3. CASE Migrate(p) /\ proc[p].next > proc[p].limit
  <2>1. proc[p].pc = "migrate" /\ Goto(p, "carry") /\ UNCHANGED <<current, previous, db, saved>>
    BY <1>3 DEF Migrate, At, home, saved
  <2>2. Keeps(p) /\ proc'[p].pc = "carry"
    BY <2>1, GotoKeeps
  <2>3. QED
    BY <2>1, <2>2, CalmMove DEF Keeps, Migrating, Returning, Early, After
<1>4. CASE WritePrevious(p)
  <2>1. proc[p].pc = "previous" /\ Goto(p, "switch") /\ UNCHANGED <<current, db, saved>>
        /\ (previous' = previous \/ (previous' = proc[p].current /\ proc[p].current # NoApp))
    BY <1>4 DEF WritePrevious, At, data
  <2>2. proc[p].cmd \in Moves
    BY <1>0, <2>1, StepOfCommand
  <2>3. proc[p].current = current
    BY <2>1, <2>2 DEF Aligned, After
  <2>4. Keeps(p) /\ proc'[p].pc = "switch"
    BY <2>1, GotoKeeps
  <2>5. CopiesHeld' = CopiesHeld /\ kept' = kept
    BY <2>1 DEF CopiesHeld, saved
  <2>6. /\ proc'[p].pc \notin Early /\ proc[p].pc \notin After
        /\ (Migrating(proc'[p]) <=> Migrating(proc[p])) /\ (Returning(proc'[p]) => Returning(proc[p]))
    BY <2>1, <2>4 DEF Keeps, Migrating, Returning, Early, After
  <2>7. QED
    BY <2>1, <2>3, <2>4, <2>5, <2>6 DEF Calm, Keeps
<1>5. CASE Prune(p)
  <2>1. proc[p].pc = "prune" /\ proc'[p] = Idle /\ UNCHANGED <<current, previous, db, kept, bak>>
    BY <1>5, QuitIdle DEF Prune, At, home, data
  <2>2. ASSUME NEW i \in DOMAIN backups' PROVE backups'[i] \in CopiesHeld
    <3>1. PICK n \in Nat : n = Len(backups)
      BY <1>0, LenProperties DEF SavedOK
    <3>2. CASE backups' = backups
      BY <2>2, <3>2 DEF CopiesHeld
    <3>3. CASE n > BackupsKept /\ backups' = SubSeq(backups, n - BackupsKept + 1, n)
      <4>1. BackupsKept \in Nat \ {0}
        BY AuthorityAssumption
      <4>2. PICK m : m = n - BackupsKept + 1
        OBVIOUS
      <4>3. m \in 1..n
        BY <3>1, <3>3, <4>1, <4>2
      <4>4. DOMAIN backups = 1..n
        BY <1>0, <3>1, LenProperties DEF SavedOK
      <4>5. backups' = [k \in 1..(n - m + 1) |-> backups[m + k - 1]]
        BY <1>0, <3>1, <3>3, <4>2, <4>3 DEF SavedOK
      <4>6. i \in 1..(n - m + 1) /\ backups'[i] = backups[m + i - 1]
        BY <2>2, <4>5
      <4>7. m + i - 1 \in DOMAIN backups
        BY <3>1, <4>3, <4>4, <4>6
      <4>8. QED
        BY <4>6, <4>7 DEF CopiesHeld
    <3>4. QED
      BY <1>5, <3>1, <3>2, <3>3 DEF Prune
  <2>3. \A c \in CopiesHeld' : c \in CopiesHeld
    BY <2>1, <2>2 DEF CopiesHeld
  <2>4. QED
    BY <2>1, <2>3 DEF Calm, Migrating
<1>6. CASE Unlink(p)
  <2>1. proc[p].pc = "unlink" /\ db' = Absent /\ UNCHANGED <<current, previous, saved>>
        /\ proc' = [Detached EXCEPT ![p].pc = "copy"]
    BY <1>6 DEF Unlink, home
  <2>2. proc'[p] = [proc[p] EXCEPT !.pc = "copy"]
    BY <2>1 DEF Detached
  <2>3. Keeps(p) /\ proc'[p].pc = "copy" /\ proc[p].cmd = "restore"
    BY <1>0, <2>1, <2>2, StepOfCommand DEF Keeps, Commands
  <2>4. db'.schema = 0 /\ CopiesHeld' = CopiesHeld /\ kept' = kept
    BY <2>1 DEF Absent, CopiesHeld, saved
  <2>5. QED
    BY <2>1, <2>3, <2>4 DEF Calm, Keeps, Migrating, Returning, Early, After
<1>7. CASE CopyBack(p)
  <2>1. proc[p].pc = "copy" /\ proc'[p] = Idle /\ UNCHANGED <<current, previous, saved>>
        /\ db'.schema = proc[p].copy.schema
    BY <1>7, QuitIdle DEF CopyBack, home
  <2>2. current # NoApp => ~(proc[p].copy.schema > Latest[current])
    BY <1>7 DEF CopyBack
  <2>3. proc[p].copy.schema \in Nat
    BY HeldType DEF Copied
  <2>4. current # NoApp => Latest[current] \in Nat
    BY <1>0, HeldType DEF HomeOK, Homes
  <2>5. current # NoApp => db'.schema <= Latest[current]
    BY <2>1, <2>2, <2>3, <2>4
  <2>6. CopiesHeld' = CopiesHeld /\ kept' = kept
    BY <2>1 DEF CopiesHeld, saved
  <2>7. QED
    BY <2>1, <2>5, <2>6 DEF Calm, Migrating
<1>8. CASE Roll(p)
  <2>1. proc[p].pc = "roll" /\ proc'[p] = Idle /\ UNCHANGED <<current, previous, backups, kept>>
        /\ (bak' = bak \/ bak' = Snapshot)
    BY <1>8, QuitIdle DEF Roll, At, home
  <2>2. db'.schema = db.schema
    BY <1>0, <1>8 DEF Roll, DbOK
  <2>3. Snapshot.schema = db.schema
    BY DEF Snapshot
  <2>4. \A c \in CopiesHeld' : c \in CopiesHeld \/ c.schema = db.schema
    BY <2>1, <2>3 DEF CopiesHeld
  <2>5. QED
    BY <2>1, <2>2, <2>4 DEF Calm, Migrating
<1>9. CASE Fail(p) \/ Die(p)
  <2>1. proc'[p] = Idle /\ UNCHANGED <<current, previous, db, saved>>
    BY <1>9, QuitIdle DEF Fail, Die, home, data
  <2>2. ~Migrating(proc[p])
    BY <1>9 DEF Fail, Die, Left
  <2>3. QED
    BY <2>1, <2>2, CalmMove
<1>10. QED
  BY <1>1, <1>2, <1>3, <1>4, <1>5, <1>6, <1>7, <1>8, <1>9

(* How a command begins. *)
LEMMA StartShape ==
    ASSUME TypeInv, NEW p \in Procs, StartStep(p)
    PROVE  /\ proc'[p].copy = NoCopy \/ proc'[p].copy \in CopiesHeld
           /\ proc'[p].taken = FALSE /\ proc'[p].pc # "migrate" /\ ~Migrating(proc'[p])
           /\ proc'[p].cmd \in Moves => proc'[p].current = current
           /\ proc'[p].cmd = "activate" => proc'[p].app = current
           /\ Returning(proc'[p]) => db.schema = 0 /\ proc'[p].app \in Apps
           /\ \A c \in CopiesHeld' : c \in CopiesHeld \/ c = NoCopy \/ c.schema = db.schema
<1>0. ProcOK /\ DbOK /\ HomeOK
  BY DEF TypeInv, DataOK
<1>1. ASSUME NEW me, Begin(p, me) PROVE proc'[p] = me
  BY <1>0, <1>1, BeginEffect
<1>2. ASSUME UNCHANGED saved PROVE CopiesHeld' = CopiesHeld
  BY <1>2 DEF CopiesHeld, saved
<1>3. ASSUME NEW a \in Apps, StartInstall(p, a)
      PROVE  /\ proc'[p].copy = NoCopy /\ proc'[p].taken = FALSE
             /\ proc'[p].pc \in {"smoke", "build"} /\ proc'[p].cmd = "install"
             /\ proc'[p].current = current /\ CopiesHeld' = CopiesHeld
  <2>1. PICK l, x : /\ proc'[p] = [Idle EXCEPT !.pc = l, !.cmd = "install", !.app = a,
                                               !.current = current, !.existed = x]
                    /\ l \in {"smoke", "build"}
    BY <1>1, <1>3 DEF StartInstall
  <2>2. CopiesHeld' = CopiesHeld
    BY <1>2, <1>3 DEF StartInstall
  <2>3. QED
    BY <2>1, <2>2 DEF Idle
<1>4. ASSUME StartRollback(p)
      PROVE  /\ proc'[p].copy = NoCopy /\ proc'[p].taken = FALSE
             /\ proc'[p].pc \in {"previous", "probe"} /\ proc'[p].cmd = "rollback"
             /\ proc'[p].pc = "previous" => db.schema = 0
             /\ proc'[p].app \in Apps
             /\ proc'[p].current = current /\ CopiesHeld' = CopiesHeld
  <2>1. PICK l : /\ proc'[p] = [Idle EXCEPT !.pc = l, !.cmd = "rollback", !.app = previous,
                                            !.current = current]
                 /\ l = IF db.kind = "absent" THEN "previous" ELSE "probe"
    BY <1>1, <1>4 DEF StartRollback
  <2>2. CopiesHeld' = CopiesHeld
    BY <1>2, <1>4 DEF StartRollback
  <2>3. db.kind = "absent" => db.schema = 0
    BY <1>0 DEF DbOK
  <2>4. previous \in Apps
    BY <1>0, <1>4 DEF StartRollback, HomeOK, Homes
  <2>5. QED
    BY <2>1, <2>2, <2>3, <2>4 DEF Idle
<1>5. ASSUME StartActivate(p)
      PROVE  /\ proc'[p].copy = NoCopy /\ proc'[p].taken = FALSE
             /\ proc'[p].pc = "guard" /\ proc'[p].cmd = "activate"
             /\ proc'[p].app = current /\ CopiesHeld' = CopiesHeld
  <2>1. proc'[p] = [Idle EXCEPT !.pc = "guard", !.cmd = "activate", !.app = current]
    BY <1>1, <1>5 DEF StartActivate
  <2>2. CopiesHeld' = CopiesHeld
    BY <1>2, <1>5 DEF StartActivate
  <2>3. QED
    BY <2>1, <2>2 DEF Idle
<1>6. ASSUME NEW x \in BOOLEAN, StartDoctor(p, x)
      PROVE  /\ proc'[p].copy = NoCopy /\ proc'[p].taken = FALSE
             /\ proc'[p].pc = "check" /\ proc'[p].cmd = "doctor" /\ CopiesHeld' = CopiesHeld
  <2>1. proc'[p] = [Idle EXCEPT !.pc = "check", !.cmd = "doctor", !.accept = x]
    BY <1>1, <1>6 DEF StartDoctor
  <2>2. CopiesHeld' = CopiesHeld
    BY <1>2, <1>6 DEF StartDoctor
  <2>3. QED
    BY <2>1, <2>2 DEF Idle
<1>7. ASSUME NEW x \in CopiesHeld, StartRestore(p, x)
      PROVE  /\ proc'[p].copy = x /\ proc'[p].taken = FALSE
             /\ proc'[p].pc = "unlink" /\ proc'[p].cmd = "restore"
             /\ \A c \in CopiesHeld' : c \in CopiesHeld \/ c.schema = db.schema
  <2>1. proc'[p] = [Idle EXCEPT !.pc = "unlink", !.cmd = "restore", !.copy = x]
    BY <1>1, <1>7 DEF StartRestore
  <2>2. UNCHANGED <<backups, bak>> /\ \A c \in kept' : c \in kept \/ c.schema = db.schema
    BY <1>7 DEF StartRestore
  <2>3. QED
    BY <2>1, <2>2 DEF Idle, CopiesHeld
<1>8. ASSUME StartRolling(p)
      PROVE  /\ proc'[p].copy = NoCopy /\ proc'[p].taken = FALSE
             /\ proc'[p].pc = "roll" /\ proc'[p].cmd = "roll"
             /\ \A c \in CopiesHeld' : c \in CopiesHeld \/ c = NoCopy
  <2>1. proc'[p] = [Idle EXCEPT !.pc = "roll", !.cmd = "roll"]
    BY <1>1, <1>8 DEF StartRolling
  <2>2. UNCHANGED backups /\ (bak' = bak \/ bak' = NoCopy) /\ kept' \subseteq kept \cup {bak}
    BY <1>8 DEF StartRolling
  <2>3. QED
    BY <2>1, <2>2 DEF Idle, CopiesHeld
<1>9. QED
  BY <1>3, <1>4, <1>5, <1>6, <1>7, <1>8 DEF StartStep, Migrating, Returning, Moves

(* A command that begins while no other runs keeps the invariants. *)
LEMMA StartKeeps ==
    ASSUME TypeInv, TypeInv', DataInv, NEW p \in Procs, StartStep(p), ~crossed'
    PROVE  DataInv'
<1>0. ProcOK
  BY DEF TypeInv
<1>1. /\ UNCHANGED <<current, previous, db>> /\ kept \subseteq kept'
      /\ \A q \in Procs : proc[q].pc = "idle"
      /\ \A q \in Procs \ {p} : Same(q)
  BY <1>0, StartEffect DEF home, data
<1>2. \A q \in Procs : ~Migrating(proc[q])
  BY <1>1 DEF Migrating
<1>3. \A q \in Procs : proc'[q].pc = "idle" => proc'[q] = Idle
  BY DEF TypeInv, ProcOK, Commands, Fits
<1>4. \A q \in Procs \ {p} : proc'[q] = Idle
  BY <1>1, <1>3 DEF Same
<1>5. Idle.pc = "idle" /\ Idle.cmd = "none" /\ Idle.copy = NoCopy /\ NoCopy.schema = 0
  BY DEF Idle, NoCopy
<1>6. \A c \in Copied' : c \in Copied \/ c.schema = 0 \/ c.schema = db.schema
  <2>1. \A c \in CopiesHeld' : c \in CopiesHeld \/ c.schema = 0 \/ c.schema = db.schema
    BY <1>5, StartShape
  <2>2. \A q \in Procs : proc'[q].copy.schema = 0 \/ proc'[q].copy \in CopiesHeld
    BY <1>4, <1>5, StartShape
  <2>3. QED
    BY <2>1, <2>2 DEF Copied
<1>7. Held' \subseteq Held \cup {0}
  BY <1>1, <1>6 DEF Held
<1>8. ChainInv' /\ ReachInv'
  BY <1>1, <1>7, NumbersKeep DEF DataInv
<1>9. NewInv'
  <2>1. current = NoApp => db.schema = 0
    BY <1>2, HeldType DEF DataInv, NewInv
  <2>2. QED
    BY <1>1, <1>6, <2>1 DEF DataInv, NewInv
<1>10. OpenInv'
  BY <1>1, <1>2 DEF DataInv, OpenInv
<1>11. ASSUME NEW q \in Procs PROVE Aligned(q)'
  <2>1. CASE q # p
    BY <1>4, <1>5, <2>1 DEF Aligned, Migrating, Returning, Moves, Early
  <2>2. CASE q = p
    <3>1. Returning(proc'[p]) => db'.schema <= Latest[proc'[p].app]
      <4> SUFFICES ASSUME Returning(proc'[p]) PROVE db'.schema <= Latest[proc'[p].app]
        OBVIOUS
      <4>1. db.schema = 0 /\ proc'[p].app \in Apps
        BY StartShape
      <4>2. QED
        BY <1>1, <4>1, AuthorityAssumption
    <3>2. QED
      BY <1>1, <2>2, <3>1, StartShape DEF Aligned
  <2>3. QED
    BY <2>1, <2>2
<1>12. QED
  BY <1>8, <1>9, <1>10, <1>11 DEF DataInv

(* The new app is made the live one: it ships what the authority has, and
   whatever there is beyond that has left an older copy.                     *)
LEMMA SwitchKeeps ==
    ASSUME TypeInv, TypeInv', DataInv, NEW p \in Procs, SwitchCurrent(p), ~behind',
           \A q \in Procs \ {p} : proc[q] = Idle /\ proc'[q] = Idle
    PROVE  DataInv'
<1>0. ProcOK /\ proc[p] \in Commands
  BY DEF TypeInv, ProcOK
<1>1. /\ proc[p].pc = "switch" /\ current' = proc[p].app /\ Goto(p, "version")
      /\ UNCHANGED <<previous, db, saved>> /\ db.schema # 0
  BY DEF SwitchCurrent, At, data
<1>2. proc[p].cmd \in Moves /\ proc[p].app \in Apps
  BY <1>0, <1>1, StepOfCommand DEF Moves
<1>3. Keeps(p) /\ proc'[p].pc = "version"
  BY <1>1, GotoKeeps
<1>4. Idle.pc = "idle" /\ Idle.cmd = "none" /\ Idle.copy = NoCopy /\ NoCopy.schema = 0
  BY DEF Idle, NoCopy
<1>5. db.schema <= Latest[proc[p].app]
  BY <1>1, <1>2 DEF DataInv, Aligned, Migrating, Returning, Moves
<1>6. Copied' = Copied /\ kept' = kept
  <2>1. CopiesHeld' = CopiesHeld /\ kept' = kept
    BY <1>1 DEF CopiesHeld, saved
  <2>2. \A q \in Procs : proc'[q].copy = proc[q].copy
    BY <1>3 DEF Keeps
  <2>3. QED
    BY <2>1, <2>2 DEF Copied
<1>7. Held' = Held
  BY <1>1, <1>6 DEF Held
<1>8. \A k : Low(k)' <=> Low(k)
  BY <1>6 DEF Low
<1>9. ChainInv'
  BY <1>7, <1>8 DEF ChainInv, DataInv
<1>10. ReachInv'
  <2> SUFFICES ASSUME NEW a \in Apps, a \in {current', previous'}
               PROVE  Low(Latest[a])' \/ \A s \in Held' : s <= Latest[a]
    BY DEF ReachInv
  <2>1. CASE a = previous
    BY <1>7, <1>8, <2>1 DEF DataInv, ReachInv
  <2>2. CASE a = proc[p].app
    <3> SUFFICES ASSUME NEW s \in Held, ~(s <= Latest[a]) PROVE Low(Latest[a])
      BY <1>7, <1>8
    <3>1. s \in Nat /\ Latest[a] \in Nat /\ db.schema \in Nat /\ db.schema \in Held
      BY HeldType
    <3>2. 1 <= db.schema /\ db.schema < s /\ db.schema <= Latest[a]
      BY <1>1, <1>5, <2>2, <3>1
    <3>3. Low(db.schema)
      BY <3>1, <3>2 DEF DataInv, ChainInv
    <3>4. QED
      BY <3>1, <3>2, <3>3, LowGrows
  <2>3. QED
    BY <1>1, <2>1, <2>2
<1>11. NewInv' /\ OpenInv'
  <2>1. current' # NoApp
    BY <1>1, <1>2, AuthorityAssumption
  <2>2. QED
    BY <1>1, <1>5, <2>1 DEF NewInv, OpenInv
<1>12. ASSUME NEW q \in Procs PROVE Aligned(q)'
  <2>1. CASE q # p
    BY <1>4, <2>1 DEF Aligned, Migrating, Returning, Moves, Early
  <2>2. CASE q = p
    BY <1>2, <1>3, <2>2 DEF Aligned, Migrating, Returning, Moves, Early, After, Keeps
  <2>3. QED
    BY <2>1, <2>2
<1>13. QED
  BY <1>9, <1>10, <1>11, <1>12 DEF DataInv

(* A migration keeps the invariants: it starts from a schema the apps reach, of
   which the command has left a copy.                                        *)
LEMMA MigrateKeeps ==
    ASSUME TypeInv, TypeInv', DataInv, NEW p \in Procs, Migrate(p), proc[p].next <= proc[p].limit,
           ~behind', \A q \in Procs \ {p} : proc[q] = Idle /\ proc'[q] = Idle
    PROVE  DataInv'
<1>0. ProcOK /\ proc[p] \in Commands /\ DbOK /\ Aligned(p)
  BY DEF TypeInv, ProcOK, DataOK, DataInv
<1>1. /\ proc[p].pc = "migrate" /\ proc[p].cmd \in {"install", "activate"} /\ proc[p].app \in Apps
      /\ proc[p].next \in Nat /\ proc[p].limit \in Nat
      /\ proc[p].limit <= Latest[proc[p].app] /\ Latest[proc[p].app] \in Nat
  <2>1. proc[p].pc = "migrate"
    BY DEF Migrate, At
  <2>2. proc[p].cmd \in {"install", "activate"} /\ proc[p].app \in Apps
    BY <1>0, <2>1, StepOfCommand
  <2>3. QED
    BY <1>0, <2>1, <2>2, AuthorityAssumption DEF Commands, Fits
<1>2. ~(proc[p].next > proc[p].limit)
  BY <1>1
<1>3. /\ db.schema = proc[p].next - 1
      /\ kept \subseteq kept' /\ kept' \subseteq kept \cup {Snapshot, EmptyCopy}
      /\ IF proc[p].taken THEN kept' = kept ELSE Snapshot \in kept'
      /\ db' = [db EXCEPT !.schema = proc[p].next]
      /\ proc' = [proc EXCEPT ![p].next = @ + 1, ![p].taken = TRUE]
      /\ UNCHANGED <<current, previous, backups, bak>>
      /\ current # NoApp => db.schema # 0
  BY <1>2 DEF Migrate, home, Anew, BackupLive, Uncopied
<1>4. proc'[p] = [proc[p] EXCEPT !.next = proc[p].next + 1, !.taken = TRUE]
  BY <1>0, <1>3 DEF ProcOK
<1>5. /\ proc'[p].cmd = proc[p].cmd /\ proc'[p].app = proc[p].app /\ proc'[p].copy = proc[p].copy
      /\ proc'[p].current = proc[p].current /\ proc'[p].pc = "migrate"
      /\ proc'[p].next = proc[p].next + 1 /\ proc'[p].taken = TRUE
  BY <1>0, <1>1, <1>4 DEF Commands
<1>6. db'.schema = proc[p].next
  BY <1>0, <1>3 DEF DbOK
<1>7. PICK n \in Nat : n = db.schema /\ proc[p].next = n + 1 /\ db'.schema = n + 1
  BY <1>1, <1>3, <1>6, HeldType
<1>8. Idle.pc = "idle" /\ Idle.cmd = "none" /\ Idle.copy = NoCopy /\ NoCopy.schema = 0
      /\ Snapshot.schema = db.schema /\ EmptyCopy.schema = 0 /\ ~Migrating(Idle)
  BY DEF Idle, NoCopy, EmptyCopy, Snapshot, Migrating
<1>9. \A c \in Copied' : c \in Copied \/ (~proc[p].taken /\ c.schema \in {0, n})
  <2>1. \A c \in CopiesHeld' : c \in CopiesHeld \/ (~proc[p].taken /\ c.schema \in {0, n})
    BY <1>3, <1>7, <1>8 DEF CopiesHeld
  <2>2. \A q \in Procs : proc'[q].copy = proc[q].copy
    BY <1>5
  <2>3. QED
    BY <2>1, <2>2 DEF Copied
<1>10. n + 1 <= Latest[proc[p].app]
  BY <1>1, <1>7
<1>11. kept \subseteq kept' /\ Held' \subseteq Held \cup {0, db'.schema}
  BY <1>3, <1>7, <1>9 DEF Held
<1>12. current # NoApp => 1 <= n /\ Low(n)'
  <2> SUFFICES ASSUME current # NoApp PROVE 1 <= n /\ Low(n)'
    OBVIOUS
  <2>1. 1 <= n
    BY <1>3, <1>7
  <2>2. CASE proc[p].taken
    <3>1. Low(proc[p].next - 1)
      BY <1>0, <1>1, <2>2 DEF Aligned
    <3>2. Low(n)
      BY <1>3, <1>7, <3>1
    <3>3. QED
      BY <1>11, <2>1, <3>2 DEF Low
  <2>3. CASE ~proc[p].taken
    <3>1. Snapshot \in kept'
      BY <1>3, <2>3
    <3>2. Snapshot.schema = n
      BY <1>7, <1>8
    <3>3. n \in 1..n
      BY <2>1
    <3>4. QED
      BY <3>1, <3>2, <3>3 DEF Low
  <2>4. QED
    BY <2>2, <2>3
<1>13. ASSUME current = NoApp
       PROVE  proc[p].cmd = "install" /\ previous = NoApp /\ \A c \in Copied' : c.schema = 0
  <2>1. proc[p].cmd = "install"
    BY <1>0, <1>1, <1>13, AuthorityAssumption DEF Aligned
  <2>2. previous = NoApp /\ \A c \in Copied : c.schema = 0
    BY <1>13 DEF DataInv, NewInv
  <2>3. db.schema > 0 => proc[p].taken
    BY <1>1, <1>8, <1>13 DEF DataInv, NewInv
  <2>4. ~proc[p].taken => n = 0
    BY <1>7, <2>3
  <2>5. QED
    BY <1>9, <2>1, <2>2, <2>4
<1>14. ChainInv' /\ ReachInv'
  <2>1. CASE current # NoApp
    <3>1. 1 <= db.schema /\ db.schema < db'.schema
      BY <1>7, <1>12, <2>1
    <3>2. QED
      BY <1>3, <1>7, <1>11, <1>12, <2>1, <3>1, NumbersRaise DEF DataInv
  <2>2. CASE current = NoApp
    <3>1. \A s \in Held' : s = 0 \/ s = n + 1
      BY <1>7, <1>13, <2>2 DEF Held
    <3>2. ChainInv'
      BY <3>1 DEF ChainInv
    <3>3. ReachInv'
      BY <1>3, <1>13, <2>2, AuthorityAssumption DEF ReachInv
    <3>4. QED
      BY <3>2, <3>3
  <2>3. QED
    BY <2>1, <2>2
<1>15. NewInv'
  BY <1>3, <1>5, <1>13 DEF NewInv, Migrating
<1>16. OpenInv'
  <2>1. CASE proc[p].cmd = "install"
    BY <1>5, <2>1 DEF OpenInv, Migrating
  <2>2. CASE proc[p].cmd = "activate"
    BY <1>0, <1>3, <1>7, <1>10, <2>2 DEF OpenInv, Aligned
  <2>3. QED
    BY <1>1, <2>1, <2>2
<1>17. ASSUME NEW q \in Procs PROVE Aligned(q)'
  <2>1. CASE q # p
    BY <1>8, <2>1 DEF Aligned, Migrating, Returning, Moves, Early
  <2>2. CASE q = p
    <3>1. current # NoApp => \E c \in kept' : c.schema \in 1..(proc'[p].next - 1)
      BY <1>1, <1>5, <1>7, <1>12 DEF Low
    <3>2. db'.schema <= Latest[proc'[p].app]
      BY <1>5, <1>7, <1>10
    <3>3. /\ proc'[p].cmd \in Moves /\ proc'[p].pc \notin After => proc'[p].current = current'
          /\ proc'[p].cmd = "activate" => proc'[p].app = current'
          /\ proc'[p].pc \notin Early
      BY <1>0, <1>1, <1>3, <1>5 DEF Aligned, Early, After
    <3>4. QED
      BY <1>3, <2>2, <3>1, <3>2, <3>3 DEF Aligned, Low
  <2>3. QED
    BY <2>1, <2>2
<1>18. QED
  BY <1>14, <1>15, <1>16, <1>17 DEF DataInv

(* What the authority's surroundings do keeps the invariants: the authority is
   as it was, or lost.                                                       *)
LEMMA QuietKeeps ==
    ASSUME TypeInv, TypeInv', DataInv, UNCHANGED <<current, previous, saved>>,
           db'.schema \in {db.schema, 0},
           \A q \in Procs : Keeps(q) /\ proc'[q].pc = proc[q].pc /\ proc'[q].next = proc[q].next
    PROVE  DataInv'
<1>1. CopiesHeld' = CopiesHeld /\ kept' = kept
  BY DEF CopiesHeld, saved
<1>2. Copied' = Copied
  BY <1>1 DEF Copied, Keeps
<1>3. Held' \subseteq Held \cup {0}
  BY <1>2 DEF Held
<1>4. ChainInv' /\ ReachInv'
  BY <1>1, <1>3, NumbersKeep DEF DataInv
<1>5. \A q \in Procs : /\ Migrating(proc'[q]) <=> Migrating(proc[q])
                       /\ Returning(proc'[q]) <=> Returning(proc[q])
  BY DEF Migrating, Returning, Keeps
<1>6. db.schema \in Nat /\ db'.schema <= db.schema /\ db'.schema \in Nat
  BY HeldType
<1>7. NewInv'
  BY <1>2, <1>5, <1>6 DEF DataInv, NewInv, Keeps
<1>8. OpenInv'
  <2>1. current # NoApp => Latest[current] \in Nat
    BY HeldType DEF TypeInv, HomeOK, Homes
  <2>2. QED
    BY <1>5, <1>6, <2>1 DEF DataInv, OpenInv
<1>9. ASSUME NEW q \in Procs PROVE Aligned(q)'
  <2>1. Aligned(q)
    BY DEF DataInv
  <2>2. Migrating(proc'[q]) \/ Returning(proc'[q]) => db'.schema <= Latest[proc'[q].app]
    <3> SUFFICES ASSUME Migrating(proc[q]) \/ Returning(proc[q]) PROVE db'.schema <= Latest[proc[q].app]
      BY <1>5 DEF Keeps
    <3>1. proc[q].app \in Apps
      BY StepOfCommand DEF TypeInv, Migrating, Returning
    <3>2. db.schema <= Latest[proc[q].app]
      BY <2>1 DEF Aligned
    <3>3. QED
      BY <1>6, <3>1, <3>2, HeldType
  <2>3. \A k : Low(k)' <=> Low(k)
    BY <1>1 DEF Low
  <2>4. proc'[q].pc = "migrate" /\ proc'[q].taken
          => current' = NoApp \/ \E c \in kept' : c.schema \in 1..(proc'[q].next - 1)
    BY <1>1, <2>1 DEF Aligned, Keeps, Low
  <2>5. QED
    BY <2>1, <2>2, <2>4 DEF Aligned, Keeps, Low
<1>10. QED
  BY <1>4, <1>7, <1>8, <1>9 DEF DataInv

(* So does the live app, which migrates only what has a schema, after a copy,
   and while no command runs.                                                *)
LEMMA WorkKeeps ==
    ASSUME TypeInv, TypeInv', DataInv, NEW r \in Rows, Work(r), ~behind'
    PROVE  DataInv'
<1>0. ProcOK /\ DbOK /\ HomeOK
  BY DEF TypeInv, DataOK
<1>1. PICK to : /\ to = Min({Latest[current], ReleasedFor(current)})
                /\ db' = [db EXCEPT !.kind = "authority", !.wal = @ \cup {r}, !.schema = Max({@, to})]
                /\ kept \subseteq kept' /\ kept' \subseteq kept \cup {Snapshot, EmptyCopy}
                /\ ~(db.schema < to) => kept' = kept
                /\ db.schema < to => Snapshot \in kept' /\ Busy = {} /\ ~Anew
  BY DEF Work, BackupLive, Uncopied
<1>2. current # NoApp /\ UNCHANGED <<current, previous, backups, bak, proc>>
  BY DEF Work, home
<1>3. current \in Apps /\ activated \in Nat /\ db.schema \in Nat
  BY <1>0, <1>2, VersionsType DEF TypeInv, HomeOK, Homes, DataOK, DbOK
<1>4. Latest[current] \in Nat /\ Released[current] \in Nat
  BY <1>3, AuthorityAssumption
<1>5. ReleasedFor(current) \in Nat
  BY <1>3, <1>4, OfTwo DEF ReleasedFor
<1>6. to \in Nat /\ to <= Latest[current]
  BY <1>1, <1>4, <1>5, OfTwo
<1>7. db'.schema = Max({db.schema, to})
  BY <1>0, <1>1 DEF DbOK
<1>8. Max({db.schema, to}) = IF db.schema < to THEN to ELSE db.schema
  BY <1>3, <1>6, OfTwo
<1>9. CASE ~(db.schema < to)
  <2>1. db'.schema = db.schema /\ kept' = kept
    BY <1>1, <1>7, <1>8, <1>9
  <2>2. QED
    BY <1>2, <2>1, QuietKeeps DEF Keeps, saved
<1>10. CASE db.schema < to
  <2>1. db'.schema = to /\ Snapshot \in kept' /\ db.schema # 0
        /\ \A q \in Procs : proc[q].pc = "idle"
    BY <1>1, <1>2, <1>7, <1>8, <1>10 DEF Busy, Anew
  <2>2. PICK n : n = db.schema
    OBVIOUS
  <2>3. 1 <= n /\ n < db'.schema /\ n \in Nat
    BY <1>3, <1>6, <1>10, <2>1, <2>2
  <2>4. Low(n)'
    <3>1. Snapshot \in kept' /\ Snapshot.schema = n
      BY <2>1, <2>2 DEF Snapshot
    <3>2. n \in 1..n
      BY <2>3
    <3>3. QED
      BY <3>1, <3>2 DEF Low
  <2>5. \A c \in Copied' : c \in Copied \/ c.schema \in {0, db.schema}
    BY <1>1, <1>2 DEF Copied, CopiesHeld, Snapshot, EmptyCopy, NoCopy
  <2>6. Held' \subseteq Held \cup {0, db'.schema}
    BY <2>5 DEF Held
  <2>7. kept \subseteq kept'
    BY <1>1
  <2>8. ChainInv' /\ ReachInv'
    BY <1>2, <2>2, <2>3, <2>4, <2>6, <2>7, NumbersRaise DEF DataInv
  <2>9. NewInv' /\ OpenInv'
    BY <1>2, <1>6, <2>1 DEF NewInv, OpenInv
  <2>10. ASSUME NEW q \in Procs PROVE Aligned(q)'
    <3>1. proc'[q].pc = "idle" /\ proc'[q].cmd = "none"
      BY <1>0, <1>2, <2>1, StepOfCommand
    <3>2. QED
      BY <3>1 DEF Aligned, Migrating, Returning, Moves, Early
  <2>11. QED
    BY <2>8, <2>9, <2>10 DEF DataInv
<1>11. QED
  BY <1>9, <1>10

(* Losing the authority, or a file in its place, is no news to the invariants. *)
LEMMA EnvironmentKeeps ==
    ASSUME TypeInv, TypeInv', DataInv, ~behind', Environment \/ UNCHANGED vars
    PROVE  DataInv'
<1>0. ProcOK /\ DbOK
  BY DEF TypeInv, DataOK
<1>1. ASSUME proc' = proc \/ proc' = Detached, NEW q \in Procs
      PROVE  Keeps(q) /\ proc'[q].pc = proc[q].pc /\ proc'[q].next = proc[q].next
  <2>1. proc[q] \in Commands
    BY <1>0 DEF ProcOK
  <2>2. proc'[q] = proc[q] \/ proc'[q] = [proc[q] EXCEPT !.limit = 0]
    BY <1>1 DEF Detached
  <2>3. QED
    BY <2>1, <2>2 DEF Keeps, Commands
<1>2. ASSUME NEW x \in Rows, Work(x) PROVE DataInv'
  BY <1>2, WorkKeeps
<1>3. ASSUME NEW x \in Rows, Shrink(x) PROVE DataInv'
  <2>1. UNCHANGED <<current, previous, saved, proc>> /\ db'.schema = db.schema
    BY <1>0, <1>3 DEF Shrink, home, DbOK
  <2>2. QED
    BY <1>1, <2>1, QuietKeeps
<1>4. CASE Checkpoint
  <2>1. UNCHANGED <<current, previous, saved, proc>> /\ db'.schema = db.schema
    BY <1>0, <1>4 DEF Checkpoint, home, DbOK
  <2>2. QED
    BY <1>1, <2>1, QuietKeeps
<1>5. CASE Lose
  <2>1. UNCHANGED <<current, previous, saved>> /\ proc' = Detached /\ db'.schema = 0
    BY <1>5 DEF Lose, home, Absent
  <2>2. QED
    BY <1>1, <2>1, QuietKeeps
<1>6. CASE RawConnect
  <2>1. UNCHANGED <<current, previous, saved, proc>> /\ db'.schema = 0
    BY <1>6 DEF RawConnect, home, Empty, Absent
  <2>2. QED
    BY <1>1, <2>1, QuietKeeps
<1>9. CASE Integrate
  <2>1. UNCHANGED <<current, previous, saved, proc, db>>
    BY <1>9 DEF Integrate, data
  <2>2. QED
    BY <1>1, <2>1, QuietKeeps
<1>7. CASE UNCHANGED vars
  <2>1. UNCHANGED <<current, previous, saved, proc, db>>
    BY <1>7 DEF vars, home, data
  <2>2. QED
    BY <1>1, <2>1, QuietKeeps
<1>8. QED
  BY <1>2, <1>3, <1>4, <1>5, <1>6, <1>7, <1>9 DEF Environment

(* What was once behind stays so in the history. *)
LEMMA BehindGrows ==
    ASSUME TypeInv, [Next]_vars, behind
    PROVE  behind'
<1>0. ProcOK /\ HomeOK
  BY DEF TypeInv
<1>1. ASSUME NEW p \in Procs, StartStep(p) PROVE behind'
  BY <1>1 DEF StartStep, StartInstall, StartRollback, StartActivate, StartRolling, StartDoctor,
              StartRestore, Begin
<1>2. ASSUME NEW p \in Procs, BuildStep(p) PROVE behind'
  BY <1>0, <1>2, BuildEffect
<1>3. ASSUME NEW p \in Procs, LaterStep(p) PROVE behind'
  BY <1>3 DEF LaterStep, Smoke, BackupAuthority, Guard, Open, Migrate, Carry, WritePrevious,
              SwitchCurrent, WriteVersion, CheckCounts, ReadCounts, WriteCounts, Prune, Probe, Unlink,
              CopyBack, Roll
<1>4. ASSUME NEW p \in Procs, Fail(p) \/ Die(p) PROVE behind'
  BY <1>4 DEF Fail, Die, Left
<1>5. CASE Environment \/ UNCHANGED vars
  BY <1>5 DEF Environment, Work, Shrink, Checkpoint, Lose, RawConnect, Integrate, vars, hist
<1>6. QED
  BY <1>1, <1>2, <1>3, <1>4, <1>5, NextSteps

(* In a new home there is nothing; in an installed one the previous app has the
   copy that the upgrade left.                                               *)
LEMMA HaveInit == Init => HaveInv
<1> SUFFICES ASSUME Init PROVE DataInv
  BY DEF HaveInv
<1>0. TypeInv
  BY TypeInit
<1>1. \A q \in Procs : proc[q] = Idle
  BY DEF Init
<1>2. \A q \in Procs : Aligned(q) /\ ~Migrating(proc[q]) /\ proc[q].copy = NoCopy
  BY <1>1 DEF Idle, Aligned, Migrating, Returning, Moves, Early
<1>3. Copied \subseteq kept \cup {NoCopy} /\ NoCopy.schema = 0
  BY <1>2 DEF Init, Copied, CopiesHeld, NoCopy
<1>4. CASE current = NoApp /\ previous = NoApp /\ db = Absent /\ kept = {}
  <2>1. current = NoApp /\ Held \subseteq {0}
    BY <1>3, <1>4 DEF Init, Held, Absent
  <2>2. db.schema = 0
    BY <1>4 DEF Absent
  <2>3. NewInv /\ OpenInv
    BY <1>3, <1>4, <2>1, <2>2 DEF NewInv, OpenInv
  <2>4. ChainInv
    BY <2>1 DEF ChainInv
  <2>5. ReachInv
    BY <1>4, <2>1, AuthorityAssumption DEF ReachInv
  <2>6. QED
    BY <1>2, <2>3, <2>4, <2>5 DEF DataInv
<1>5. ASSUME NEW a \in Apps, NEW R \in SUBSET Rows, current = a,
             db = [kind |-> "authority", schema |-> Released[a], main |-> R, wal |-> {}],
             \/ previous = NoApp /\ kept = {}
             \/ \E b \in Apps : /\ Released[b] < Released[a] /\ previous = b
                                /\ kept = {[kind |-> "authority", schema |-> Released[b], rows |-> R]}
      PROVE  DataInv
  <2>1. current = a /\ current # NoApp /\ db.schema = Released[a]
    BY <1>5, AuthorityAssumption DEF Init
  <2>2. \A x \in Apps : Latest[x] \in Nat /\ Released[x] \in 1..Latest[x]
    BY AuthorityAssumption
  <2>3. NewInv /\ OpenInv
    BY <2>1, <2>2 DEF NewInv, OpenInv
  <2>4. CASE previous = NoApp /\ kept = {}
    <3>1. Held \subseteq {0, Released[a]}
      BY <1>3, <2>1, <2>4 DEF Held
    <3>2. ChainInv
      BY <2>2, <3>1 DEF ChainInv
    <3>a. \A s \in Held : s <= Latest[a]
      BY <2>2, <3>1
    <3>b. \A x \in Apps : x \in {current, previous} => x = a
      BY <2>1, <2>4, AuthorityAssumption
    <3>3. ReachInv
      BY <3>a, <3>b DEF ReachInv
    <3>4. QED
      BY <1>2, <2>3, <3>2, <3>3 DEF DataInv
  <2>5. ASSUME NEW b \in Apps, Released[b] < Released[a], previous = b,
               kept = {[kind |-> "authority", schema |-> Released[b], rows |-> R]}
        PROVE  DataInv
    <3>1. Held \subseteq {0, Released[a], Released[b]}
      BY <1>3, <2>1, <2>5 DEF Held
    <3>2. \A n \in Nat : Released[b] <= n => Low(n)
      BY <2>2, <2>5 DEF Low
    <3>3. ChainInv
      BY <2>2, <2>5, <3>1, <3>2 DEF ChainInv
    <3>4. Low(Latest[b])
      BY <2>2, <3>2
    <3>5. \A s \in Held : s <= Latest[a]
      BY <2>2, <2>5, <3>1
    <3>6. ReachInv
      BY <2>1, <2>5, <3>4, <3>5 DEF ReachInv
    <3>7. QED
      BY <1>2, <2>3, <3>3, <3>6 DEF DataInv
  <2>6. QED
    BY <1>5, <2>4, <2>5
<1>6. QED
  BY <1>4, <1>5 DEF Init

(* Every step keeps the invariants, outside the windows the history marks. *)
LEMMA HaveStep == TypeInv /\ AloneInv /\ HaveInv /\ [Next]_vars => HaveInv'
<1> SUFFICES ASSUME TypeInv, AloneInv, HaveInv, [Next]_vars, ~crossed', ~behind'
             PROVE  DataInv'
  BY DEF HaveInv
<1>0. ProcOK /\ HomeOK
  BY DEF TypeInv
<1>1. TypeInv' /\ AloneInv'
  BY TypeStep, AloneStep
<1>2. ~crossed /\ ~behind
  BY HistoryGrows, BehindGrows
<1>3. DataInv
  BY <1>2 DEF HaveInv
<1>4. ASSUME NEW p \in Procs, StartStep(p) PROVE DataInv'
  BY <1>1, <1>3, <1>4, StartKeeps
<1>5. ASSUME NEW p \in Procs, BuildStep(p) \/ LaterStep(p) \/ Fail(p) \/ Die(p) PROVE DataInv'
  <2>1. proc[p].pc # "idle" /\ \A q \in Procs \ {p} : Same(q)
    <3>1. BuildStep(p) => proc[p].pc # "idle" /\ \A q \in Procs \ {p} : Same(q)
      BY <1>0, BuildEffect DEF Building
    <3>2. LaterStep(p) => proc[p].pc # "idle" /\ \A q \in Procs \ {p} : Same(q)
      BY <1>0, LaterEffect
    <3>3. Fail(p) \/ Die(p) => proc[p].pc # "idle" /\ \A q \in Procs \ {p} : Same(q)
      BY <1>0, EndEffect
    <3>4. QED
      BY <1>5, <3>1, <3>2, <3>3
  <2>2. \A q \in Procs \ {p} : proc[q] = Idle /\ proc'[q] = Idle
    BY <1>1, <1>2, <2>1, OthersIdle
  <2>3. Aligned(p)
    BY <1>3 DEF DataInv
  <2>4. CASE Calm(p)
    BY <1>1, <1>3, <2>2, <2>4, CalmKeeps
  <2>5. CASE SwitchCurrent(p)
    BY <1>1, <1>3, <2>2, <2>5, SwitchKeeps
  <2>6. CASE Migrate(p)
    <3>1. CASE proc[p].next <= proc[p].limit
      BY <1>1, <1>3, <2>2, <2>6, <3>1, MigrateKeeps
    <3>2. CASE ~(proc[p].next <= proc[p].limit)
      <4>1. proc[p].next \in Nat /\ proc[p].limit \in Nat
        BY <1>0, VersionsType DEF ProcOK, Commands
      <4>2. proc[p].next > proc[p].limit
        BY <3>2, <4>1
      <4>3. QED
        BY <2>3, <2>4, <2>6, <4>2, CalmOthers
    <3>3. QED
      BY <3>1, <3>2
  <2>7. CASE \/ BuildStep(p) \/ Smoke(p) \/ Guard(p) \/ Carry(p) \/ WriteVersion(p) \/ CheckCounts(p)
             \/ ReadCounts(p) \/ WriteCounts(p) \/ Probe(p)
    BY <2>4, <2>7, CalmMoves
  <2>8. CASE \/ BackupAuthority(p) \/ Open(p) \/ WritePrevious(p) \/ Prune(p) \/ Unlink(p)
             \/ CopyBack(p) \/ Roll(p) \/ Fail(p) \/ Die(p)
    BY <2>3, <2>4, <2>8, CalmOthers
  <2>9. QED
    BY <1>5, <2>5, <2>6, <2>7, <2>8 DEF LaterStep
<1>6. CASE Environment \/ UNCHANGED vars
  BY <1>1, <1>3, <1>6, EnvironmentKeeps
<1>7. QED
  BY <1>4, <1>5, <1>6, NextSteps

(* The live app can open the authority, and the previous one can, or finds a
   copy it can open, whatever installs, rollbacks, restores, losses and deaths
   came before: however many backups have been pruned, a copy made before a
   migration stays (self_install.py, rollback; sqlite_bootstrap.py,
   run_migrations).                                                          *)
THEOREM AppsHaveTheirData == Spec => []AppsHaveData
<1>1. ASSUME TypeInv, HaveInv PROVE AppsHaveData
  <2> SUFFICES ASSUME DataInv, previous # NoApp
               PROVE  \/ db.schema <= Latest[previous]
                      \/ \E c \in {backups[i] : i \in DOMAIN backups} \cup kept :
                            c.schema \in 1..Latest[previous]
    <3>1. CASE crossed \/ behind
      BY <3>1 DEF AppsHaveData
    <3>2. CASE DataInv
      <4>1. OpenInv
        BY <3>2 DEF DataInv
      <4>2. QED
        BY <3>2, <4>1, Zenon DEF AppsHaveData, OpenInv
    <3>3. QED
      BY <1>1, <3>1, <3>2 DEF HaveInv
  <2>1. previous \in Apps
    BY <1>1 DEF TypeInv, HomeOK, Homes
  <2>2. Low(Latest[previous]) \/ \A s \in Held : s <= Latest[previous]
    BY <2>1 DEF DataInv, ReachInv
  <2>3. db.schema \in Held
    BY <1>1, HeldType
  <2>4. QED
    BY <2>2, <2>3 DEF Low
<1>2. QED
  BY <1>1, TypeInit, TypeStep, AloneInit, AloneStep, HaveInit, HaveStep, PTL DEF Spec
=============================================================================
