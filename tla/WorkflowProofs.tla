--------------------------- MODULE WorkflowProofs ---------------------------
(***************************************************************************)
(* Proofs about Workflow, for any graph of nodes, any number of users and  *)
(* any number of commands, deaths and slow waits.                          *)
(***************************************************************************)
EXTENDS Workflow, SequenceTheorems, WellFoundedInduction, TLAPS

-----------------------------------------------------------------------------
(* Sequences built piece by piece.                                          *)

(* Every non-empty set of naturals has a least element. *)
LEMMA LeastElement ==
    ASSUME NEW S \in SUBSET Nat, S # {}
    PROVE  \E m \in S : \A k \in S : m <= k
<1>1. PICK m \in S : \A k \in S : ~ <<k, m>> \in OpToRel(<, Nat)
  BY NatLessThanWellFounded, WFMin
<1>2. \A k \in S : ~ (k < m)
  BY <1>1 DEF OpToRel
<1> QED BY <1>2

(* f[i] joins the first i pieces. *)
Joins(f, piece, L) == f = [i \in 0..L |-> IF i = 0 THEN <<>> ELSE f[i - 1] \o piece[i]]

(* Pieces can be joined. *)
LEMMA JoinExists ==
    ASSUME NEW T, NEW L \in Nat, NEW piece \in [1..L -> Seq(T)]
    PROVE  \E f : Joins(f, piece, L)
<1> DEFINE Bad == {m \in 0..L : ~ \E f : Joins(f, piece, m)}
<1>0. Bad \in SUBSET Nat /\ L \in 0..L
  OBVIOUS
<1> SUFFICES ASSUME Bad # {} PROVE FALSE
  BY <1>0
<1>1. PICK m \in Bad : \A k \in Bad : m <= k
  <2> HIDE DEF Bad
  <2> QED BY <1>0, LeastElement
<1>2. m \in 0..L /\ ~ \E f : Joins(f, piece, m)
  OBVIOUS
<1>3. CASE m = 0
  <2> DEFINE f == [i \in 0..0 |-> <<>>]
  <2>1. Joins(f, piece, 0)
    BY DEF Joins
  <2> QED BY <1>2, <1>3, <2>1
<1>4. CASE m > 0
  <2>1. m - 1 \in 0..L /\ m - 1 \notin Bad
    <3>1. m - 1 \in 0..L /\ ~ (m <= m - 1)
      BY <1>2, <1>4
    <3> HIDE DEF Bad
    <3> QED BY <1>1, <3>1
  <2>2. PICK f : Joins(f, piece, m - 1)
    BY <2>1
  <2> DEFINE g == [i \in 0..m |-> IF i = m THEN f[m - 1] \o piece[m] ELSE f[i]]
  <2>3. ASSUME NEW i \in 0..m PROVE g[i] = IF i = 0 THEN <<>> ELSE g[i - 1] \o piece[i]
    <3>1. CASE i = m
      <4>1. m - 1 \in 0..m /\ m - 1 # m /\ m \in 0..m /\ m # 0
        BY <1>2, <1>4
      <4> QED BY <3>1, <4>1
    <3>2. CASE i # m
      <4>1. i \in 0..(m - 1) /\ g[i] = f[i]
        BY <1>2, <1>4, <3>2
      <4>2. i # 0 => i - 1 \in 0..m /\ i - 1 # m /\ g[i - 1] = f[i - 1]
        BY <1>2, <1>4, <4>1
      <4> HIDE DEF g
      <4> QED BY <2>2, <4>1, <4>2 DEF Joins
    <3> QED BY <3>1, <3>2
  <2>4. Joins(g, piece, m)
    BY <2>3 DEF Joins
  <2> QED BY <1>2, <2>4
<1> QED BY <1>2, <1>3, <1>4

(* What is joined from sequences over T is a sequence over T. *)
LEMMA JoinType ==
    ASSUME NEW T, NEW L \in Nat, NEW piece \in [1..L -> Seq(T)], NEW f, Joins(f, piece, L)
    PROVE  f[L] \in Seq(T)
<1> DEFINE Bad == {m \in 0..L : f[m] \notin Seq(T)}
<1>0. Bad \in SUBSET Nat /\ L \in 0..L
  OBVIOUS
<1> SUFFICES ASSUME Bad # {} PROVE FALSE
  BY <1>0
<1>1. PICK m \in Bad : \A k \in Bad : m <= k
  <2> HIDE DEF Bad
  <2> QED BY <1>0, LeastElement
<1>2. m \in 0..L /\ f[m] \notin Seq(T)
  OBVIOUS
<1>3. m # 0
  BY <1>2 DEF Joins
<1>4. m - 1 \in 0..L /\ m - 1 \notin Bad
  BY <1>1, <1>2, <1>3
<1>5. f[m - 1] \in Seq(T) /\ m \in 1..L /\ piece[m] \in Seq(T)
  BY <1>2, <1>3, <1>4
<1>6. f[m] = f[m - 1] \o piece[m]
  BY <1>2, <1>3 DEF Joins
<1> QED BY <1>2, <1>5, <1>6, ConcatProperties

(* Ready lists nodes of S only. *)
LEMMA ReadyType ==
    ASSUME NEW S
    PROVE  Ready(S) \in Seq(S)
<1> DEFINE L == Len(Order)
           one(n) == IF n \in S THEN <<n>> ELSE <<>>
           piece == [i \in 1..L |-> one(Order[i])]
           F == CHOOSE f : f = [i \in 0..L |-> IF i = 0 THEN <<>> ELSE f[i - 1] \o one(Order[i])]
<1>1. Ready(S) = F[L]
  BY DEF Ready
<1>2. L \in Nat /\ piece \in [1..L -> Seq(S)]
  BY GraphAssumption
<1>3. \A f : Joins(f, piece, L) <=>
             f = [i \in 0..L |-> IF i = 0 THEN <<>> ELSE f[i - 1] \o one(Order[i])]
  <2>1. \A f : [i \in 0..L |-> IF i = 0 THEN <<>> ELSE f[i - 1] \o one(Order[i])]
              = [i \in 0..L |-> IF i = 0 THEN <<>> ELSE f[i - 1] \o piece[i]]
    BY <1>2
  <2> QED BY <2>1 DEF Joins
<1>4. \E f : Joins(f, piece, L)
  BY <1>2, JoinExists
<1>5. Joins(F, piece, L)
  BY <1>3, <1>4
<1> HIDE DEF F, piece
<1> QED BY <1>1, <1>2, <1>5, JoinType

(* The plan of a wave starts, skips or invokes nodes of the wave only. *)
WaveItems(S) == UNION {{Set(n, "skipped"), Set(n, "running"), Invoke(n)} : n \in S}

(* A wave is a sequence of items about the nodes it was made of. *)
LEMMA WaveType ==
    ASSUME NEW S, NEW ns \in Seq(S)
    PROVE  Wave(ns) \in Seq(WaveItems(S))
<1> DEFINE L == Len(ns)
           steps(n) == IF n \in Empty THEN <<Set(n, "skipped")>>
                       ELSE <<Set(n, "running"), Invoke(n)>>
           piece == [i \in 1..L |-> steps(ns[i])]
           F == CHOOSE f : f = [i \in 0..L |-> IF i = 0 THEN <<>> ELSE f[i - 1] \o steps(ns[i])]
<1>1. Wave(ns) = F[L]
  BY DEF Wave
<1>2. L \in Nat /\ piece \in [1..L -> Seq(WaveItems(S))]
  <2>1. ASSUME NEW i \in 1..L PROVE steps(ns[i]) \in Seq(WaveItems(S))
    <3>1. ns[i] \in S
      BY ElementOfSeq
    <3>2. {Set(ns[i], "skipped"), Set(ns[i], "running"), Invoke(ns[i])} \subseteq WaveItems(S)
      BY <3>1 DEF WaveItems
    <3> QED BY <3>2
  <2> QED BY <2>1, LenProperties
<1>3. \A f : Joins(f, piece, L) <=>
             f = [i \in 0..L |-> IF i = 0 THEN <<>> ELSE f[i - 1] \o steps(ns[i])]
  <2>1. \A f : [i \in 0..L |-> IF i = 0 THEN <<>> ELSE f[i - 1] \o steps(ns[i])]
              = [i \in 0..L |-> IF i = 0 THEN <<>> ELSE f[i - 1] \o piece[i]]
    BY <1>2
  <2> QED BY <2>1 DEF Joins
<1>4. \E f : Joins(f, piece, L)
  BY <1>2, JoinExists
<1>5. Joins(F, piece, L)
  BY <1>3, <1>4
<1> HIDE DEF F, piece
<1> QED BY <1>1, <1>2, <1>5, JoinType

-----------------------------------------------------------------------------
(* Type correctness.                                                        *)

Ops   == Locked \cup {"prune", "load", "load_once", "judge", "invoke"}
Items == {i \in [op : Ops, ns : SUBSET Nodes, to : NodeStatuses \cup {"none"}] :
            /\ i.op \in {"set", "skip"} => i.to \in NodeStatuses
            /\ i.to = "running" => i.op = "set"}

Files == [torn : BOOLEAN, nodes : [Nodes -> NodeStatuses],
          status : TERMINAL \cup {"running", "paused", Gone}]

Places == Inside \cup {"out", "overdue", "reopen", "snapshot", "context"}

(* Processes work off plans of known items, and one that has asked for the lock
   has in hand an item that needs it.                                        *)
ProcInv ==
    /\ proc \in [Procs -> [plan : Seq(Items), at : Places, got : Files]]
    /\ \A p \in Procs :
        proc[p].at # "out" => proc[p].plan # <<>> /\ Item(p).op \in Locked \cup {"prune"}
    /\ dead \subseteq Procs

TypeInv == TypeOK /\ ProcInv

(* The items that the code builds are known items. *)
LEMMA ItemTypes ==
    /\ \A op \in Ops \ {"set", "skip"} : Do(op) \in Items
    /\ \A n \in Nodes, s \in NodeStatuses : Set(n, s) \in Items
    /\ \A S \in SUBSET Nodes : Skip(S) \in Items
    /\ \A n \in Nodes : Invoke(n) \in Items
    /\ Nothing \in Files /\ Torn \in Files /\ Started \in Files
BY DEF Items, Ops, Locked, Do, Set, Skip, Invoke, Files, Nothing, Torn, Started, NodeStatuses, TERMINAL, Gone

(* A wave of nodes of S, and the skips of nodes of S, are plans over S. *)
LEMMA PlanTypes ==
    ASSUME NEW S \in SUBSET Nodes
    PROVE  /\ Wave(Ready(S)) \in Seq(WaveItems(S))
           /\ MarkSkipped(Ready(S)) \in Seq(WaveItems(S))
           /\ WaveItems(S) \subseteq Items
<1>1. Ready(S) \in Seq(S)
  BY ReadyType
<1>2. WaveItems(S) \subseteq Items
  BY ItemTypes DEF WaveItems, NodeStatuses
<1>3. MarkSkipped(Ready(S)) \in Seq(WaveItems(S))
  <2>1. Len(Ready(S)) \in Nat /\ DOMAIN Ready(S) = 1..Len(Ready(S))
    BY <1>1, LenProperties
  <2>2. \A i \in 1..Len(Ready(S)) : Set(Ready(S)[i], "skipped") \in WaveItems(S)
    BY <1>1, ElementOfSeq DEF WaveItems
  <2> QED BY <2>1, <2>2, IsASeq DEF MarkSkipped
<1> QED BY <1>1, <1>2, <1>3, WaveType

(* An update of a well-typed entry is well typed. *)
LEMMA ApplyType ==
    ASSUME NEW i \in Items, i.op \in Locked \cup {"prune"}, NEW f \in Files
    PROVE  Apply(i, f) \in Files
<1> DEFINE set == [f EXCEPT !.nodes = Rewrite(f, i.ns, i.to)]
<1>1. ASSUME i.to \in NodeStatuses PROVE set \in Files
  BY <1>1 DEF Files, Rewrite
<1>2. \A g \in Files : [g EXCEPT !.status = Overall(g)] \in Files
  BY DEF Files, Overall, TERMINAL
<1>3. CASE i.op = "set"
  <2>1. set \in Files
    BY <1>1, <1>3 DEF Items
  <2>2. Apply(i, f) = [set EXCEPT !.status = Overall(set)]
    BY <1>3 DEF Apply
  <2> HIDE DEF set
  <2> QED BY <1>2, <2>1, <2>2
<1>4. CASE i.op = "skip"
  <2>1. set \in Files
    BY <1>1, <1>4 DEF Items
  <2> QED BY <1>4, <2>1 DEF Apply
<1>5. CASE i.op \in {"pause", "resume", "start", "prune"}
  BY <1>5, ItemTypes DEF Apply, Files
<1>6. CASE i.op = "abort"
  BY <1>6 DEF Apply, Files, Rewrite, NodeStatuses, TERMINAL
<1> QED BY <1>3, <1>4, <1>5, <1>6 DEF Locked

(* Replacing a process's plan leaves the processes well typed. *)
LEMMA FollowType ==
    ASSUME NEW p \in Procs, NEW plan \in Seq(Items), ProcInv, Follow(p, plan), dead' \subseteq Procs
    PROVE  /\ ProcInv' /\ proc'[p] = [plan |-> plan, at |-> "out", got |-> Nothing]
           /\ \A q \in Procs \ {p} : proc'[q] = proc[q]
<1>1. [Resting EXCEPT !.plan = plan] = [plan |-> plan, at |-> "out", got |-> Nothing]
  BY DEF Resting
<1>2. [plan |-> plan, at |-> "out", got |-> Nothing] \in [plan : Seq(Items), at : Places, got : Files]
  BY ItemTypes DEF Places
<1>3. /\ proc'[p] = [plan |-> plan, at |-> "out", got |-> Nothing]
      /\ \A q \in Procs \ {p} : proc'[q] = proc[q]
      /\ proc' \in [Procs -> [plan : Seq(Items), at : Places, got : Files]]
  BY <1>1, <1>2 DEF Follow, ProcInv
<1> QED BY <1>3 DEF ProcInv, Item

(* Moving a process within an update leaves the processes well typed. *)
LEMMA MoveType ==
    ASSUME NEW p \in Procs, NEW at \in Places \ {"out"}, ProcInv, Move(p, at), dead' \subseteq Procs,
           proc[p].plan # <<>>, Item(p).op \in Locked \cup {"prune"}
    PROVE  /\ ProcInv' /\ proc'[p].at = at
           /\ proc'[p].plan = proc[p].plan /\ proc'[p].got = proc[p].got
           /\ \A q \in Procs \ {p} : proc'[q] = proc[q]
<1>1. proc[p] \in [plan : Seq(Items), at : Places, got : Files]
  BY DEF ProcInv
<1>2. /\ proc'[p] = [proc[p] EXCEPT !.at = at]
      /\ \A q \in Procs \ {p} : proc'[q] = proc[q]
      /\ proc' \in [Procs -> [plan : Seq(Items), at : Places, got : Files]]
  BY <1>1 DEF Move, ProcInv
<1>3. proc'[p].at = at /\ proc'[p].plan = proc[p].plan /\ proc'[p].got = proc[p].got
  BY <1>1, <1>2
<1> QED BY <1>2, <1>3 DEF ProcInv, Item

(* What the steps under the lock do to the process that takes them. *)
LEMMA ReadEffect ==
    ASSUME TypeInv, NEW p \in Procs, Read(p)
    PROVE  /\ ProcInv'
           /\ \A q \in Procs \ {p} : proc'[q] = proc[q]
           /\ proc'[p].plan \in {proc[p].plan, <<Item(p)>>}
           /\ proc'[p].plan # <<>> /\ Head(proc'[p].plan) = Item(p)
           /\ \/ proc'[p].at = "unlock"
              \/ /\ proc'[p].at = "truncate" /\ proc'[p].got = file /\ ~ file.torn
                 /\ file.status = Gone => Item(p).op \in {"skip", "start"}
<1>1. /\ proc[p] \in [plan : Seq(Items), at : Places, got : Files]
      /\ proc[p].plan # <<>> /\ Item(p).op \in Locked \cup {"prune"}
      /\ file \in Files /\ dead' = dead
  BY DEF TypeInv, TypeOK, ProcInv, Read, Files
<1>2. Item(p) \in Items /\ <<Item(p)>> \in Seq(Items) /\ Head(<<Item(p)>>) = Item(p) /\ <<Item(p)>> # <<>>
  BY <1>1, HeadTailProperties DEF Item
<1>3. CASE proc' = [proc EXCEPT ![p].at = "unlock",
                                ![p].plan = IF p = Runner THEN @ ELSE <<Item(p)>>]
  <2>1. /\ proc'[p] = [proc[p] EXCEPT !.at = "unlock", !.plan = IF p = Runner THEN @ ELSE <<Item(p)>>]
        /\ \A q \in Procs \ {p} : proc'[q] = proc[q]
    BY <1>3 DEF TypeInv, ProcInv
  <2>2. proc'[p].at = "unlock" /\ proc'[p].plan \in {proc[p].plan, <<Item(p)>>} /\ proc'[p].got = proc[p].got
    BY <1>1, <2>1
  <2>3. proc'[p] \in [plan : Seq(Items), at : Places, got : Files]
    BY <1>1, <1>2, <2>1 DEF Places, Inside
  <2>4. proc' \in [Procs -> [plan : Seq(Items), at : Places, got : Files]]
    BY <1>3, <2>1, <2>3 DEF TypeInv, ProcInv
  <2>5. proc'[p].plan # <<>> /\ Head(proc'[p].plan) = Item(p)
    BY <1>1, <1>2, <2>2 DEF Item
  <2> QED BY <1>1, <2>1, <2>2, <2>4, <2>5 DEF TypeInv, ProcInv, Item
<1>4. CASE proc' = [proc EXCEPT ![p].at = "truncate", ![p].got = file]
  <2>1. /\ proc'[p] = [proc[p] EXCEPT !.at = "truncate", !.got = file]
        /\ \A q \in Procs \ {p} : proc'[q] = proc[q]
    BY <1>4 DEF TypeInv, ProcInv
  <2>2. proc'[p].at = "truncate" /\ proc'[p].plan = proc[p].plan /\ proc'[p].got = file
    BY <1>1, <2>1
  <2>3. proc'[p] \in [plan : Seq(Items), at : Places, got : Files]
    BY <1>1, <2>1 DEF Places, Inside
  <2>4. proc' \in [Procs -> [plan : Seq(Items), at : Places, got : Files]]
    BY <1>4, <2>1, <2>3 DEF TypeInv, ProcInv
  <2>5. ~ file.torn /\ (file.status = Gone => Item(p).op \in {"skip", "start"})
    <3>1. proc'[p].at # "unlock"
      BY <2>2
    <3>2. ~ (proc' = [proc EXCEPT ![p].at = "unlock",
                                  ![p].plan = IF p = Runner THEN @ ELSE <<Item(p)>>])
      <4> SUFFICES ASSUME proc' = [proc EXCEPT ![p].at = "unlock",
                                               ![p].plan = IF p = Runner THEN @ ELSE <<Item(p)>>]
                   PROVE  FALSE
        OBVIOUS
      <4>1. proc'[p] = [proc[p] EXCEPT !.at = "unlock", !.plan = IF p = Runner THEN @ ELSE <<Item(p)>>]
        BY DEF TypeInv, ProcInv
      <4> QED BY <1>1, <3>1, <4>1
    <3> QED BY <3>2 DEF Read
  <2>6. proc'[p].plan # <<>> /\ Head(proc'[p].plan) = Item(p)
    BY <1>1, <2>2 DEF Item
  <2> QED BY <1>1, <2>1, <2>2, <2>4, <2>5, <2>6 DEF TypeInv, ProcInv, Item
<1> QED BY <1>3, <1>4 DEF Read

(* The second half of write_text: the file holds the item's result. *)
LEMMA FillEffect ==
    ASSUME TypeInv, NEW p \in Procs, Fill(p)
    PROVE  /\ ProcInv' /\ file' \in Files /\ file' = Apply(Item(p), proc[p].got)
           /\ \A q \in Procs \ {p} : proc'[q] = proc[q]
           /\ proc'[p].plan = proc[p].plan
           /\ \/ proc'[p].at = "unlock"
              \/ proc'[p].at \in {"archive", "release"} /\ proc'[p].got = file'
<1> DEFINE f == Apply(Item(p), proc[p].got)
<1>1. /\ proc[p] \in [plan : Seq(Items), at : Places, got : Files]
      /\ proc[p].plan # <<>> /\ Item(p).op \in Locked \cup {"prune"} /\ dead' = dead
      /\ Item(p) \in Items
  BY HeadTailProperties DEF TypeInv, ProcInv, Fill, Item
<1>2. f \in Files /\ file' = f
  BY <1>1, ApplyType DEF Fill
<1> HIDE DEF f
<1> DEFINE at == AfterFill(p, f)
           got == IF at = "unlock" THEN Nothing ELSE f
<1>3. proc' = [proc EXCEPT ![p].got = got, ![p].at = at]
  BY DEF Fill, f
<1>4. at \in Places \ {"out"} /\ got \in Files
  BY <1>2, ItemTypes DEF AfterFill, Places, Inside
<1>5. at = "unlock" \/ (at \in {"archive", "release"} /\ got = f)
  BY DEF AfterFill
<1> HIDE DEF at, got
<1>6. /\ proc'[p] = [proc[p] EXCEPT !.got = got, !.at = at]
      /\ \A q \in Procs \ {p} : proc'[q] = proc[q]
  BY <1>3 DEF TypeInv, ProcInv
<1>7. proc'[p].at = at /\ proc'[p].got = got /\ proc'[p].plan = proc[p].plan
  BY <1>1, <1>6
<1>8. proc'[p] \in [plan : Seq(Items), at : Places, got : Files]
  BY <1>1, <1>4, <1>6
<1>9. proc' \in [Procs -> [plan : Seq(Items), at : Places, got : Files]]
  BY <1>3, <1>6, <1>8 DEF TypeInv, ProcInv
<1>10. ProcInv'
  BY <1>1, <1>6, <1>7, <1>9 DEF TypeInv, ProcInv, Item
<1> QED BY <1>2, <1>5, <1>6, <1>7, <1>10 DEF f

(* A workflow that has ended is archived and then pruned, or is left. *)
LEMMA ArchiveEffect ==
    ASSUME TypeInv, NEW p \in Procs, Archive(p)
    PROVE  /\ ProcInv'
           /\ \A q \in Procs \ {p} : proc'[q] = proc[q]
           /\ \/ /\ archived' /\ proc'[p].at = "truncate" /\ proc'[p].got = proc[p].got
                 /\ proc'[p].plan = <<Do("prune")>>
              \/ /\ archived' = archived /\ proc'[p].at = "unlock"
                 /\ proc'[p].plan = proc[p].plan
<1>1. /\ proc[p] \in [plan : Seq(Items), at : Places, got : Files]
      /\ proc[p].plan # <<>> /\ Item(p).op \in Locked \cup {"prune"} /\ dead' = dead
  BY DEF TypeInv, ProcInv, Archive
<1>2. CASE archived' = TRUE /\ proc' = [proc EXCEPT ![p].at = "truncate", ![p].plan = <<Do("prune")>>]
  <2>1. Do("prune") \in Items /\ Do("prune").op = "prune"
    BY ItemTypes DEF Ops, Locked, Do
  <2>2. <<Do("prune")>> \in Seq(Items) /\ Head(<<Do("prune")>>) = Do("prune") /\ <<Do("prune")>> # <<>>
    BY <2>1
  <2>3. /\ proc'[p] = [proc[p] EXCEPT !.at = "truncate", !.plan = <<Do("prune")>>]
        /\ \A q \in Procs \ {p} : proc'[q] = proc[q]
    BY <1>2 DEF TypeInv, ProcInv
  <2>4. proc'[p].at = "truncate" /\ proc'[p].plan = <<Do("prune")>> /\ proc'[p].got = proc[p].got
    BY <1>1, <2>3
  <2>5. proc'[p] \in [plan : Seq(Items), at : Places, got : Files]
    BY <1>1, <2>2, <2>3 DEF Places, Inside
  <2>6. proc' \in [Procs -> [plan : Seq(Items), at : Places, got : Files]]
    BY <1>2, <2>3, <2>5 DEF TypeInv, ProcInv
  <2> QED BY <1>1, <1>2, <2>1, <2>2, <2>3, <2>4, <2>6 DEF TypeInv, ProcInv, Item
<1>3. CASE archived' = archived /\ proc' = [proc EXCEPT ![p].at = "unlock", ![p].got = Nothing]
  <2>1. /\ proc'[p] = [proc[p] EXCEPT !.at = "unlock", !.got = Nothing]
        /\ \A q \in Procs \ {p} : proc'[q] = proc[q]
    BY <1>3 DEF TypeInv, ProcInv
  <2>2. proc'[p].at = "unlock" /\ proc'[p].plan = proc[p].plan
    BY <1>1, <2>1
  <2>3. proc'[p] \in [plan : Seq(Items), at : Places, got : Files]
    BY <1>1, <2>1, ItemTypes DEF Places, Inside
  <2>4. proc' \in [Procs -> [plan : Seq(Items), at : Places, got : Files]]
    BY <1>3, <2>1, <2>3 DEF TypeInv, ProcInv
  <2> QED BY <1>1, <1>3, <2>1, <2>2, <2>4 DEF TypeInv, ProcInv, Item
<1> QED BY <1>2, <1>3 DEF Archive

(* What the runner's loop follows after a load: nothing, or a plan for nodes
   that the file it has just read shows to be eligible.                      *)
Controls == {Do("load"), Do("judge")}

Loaded(plan) ==
    \/ plan = <<>>
    \/ /\ ~ file.torn /\ file.status = "running"
       /\ plan \in Seq(WaveItems(Eligible(file.nodes)) \cup Controls)

(* The runner's unlocked reads lead to a plan about eligible nodes. *)
LEMMA LoadEffect ==
    ASSUME TypeInv, Load \/ LoadOnce \/ Judge
    PROVE  /\ \E plan \in Seq(Items) : Follow(Runner, plan) /\ Loaded(plan)
           /\ verdict' \in Verdicts
<1> DEFINE E == Eligible(file.nodes)
           T == WaveItems(E) \cup Controls
<1>1. E \subseteq Nodes /\ T \subseteq Items /\ <<>> \in Seq(T) /\ <<>> \in Seq(Items)
  <2>1. E \subseteq Nodes
    BY DEF Eligible
  <2> HIDE DEF E
  <2> QED BY <2>1, PlanTypes, ItemTypes, EmptySeq DEF Controls, Ops, Locked
<1>2. \A S \in SUBSET E : Wave(Ready(S)) \in Seq(T) /\ MarkSkipped(Ready(S)) \in Seq(T)
  <2> SUFFICES ASSUME NEW S \in SUBSET E
               PROVE  Wave(Ready(S)) \in Seq(T) /\ MarkSkipped(Ready(S)) \in Seq(T)
    OBVIOUS
  <2>1. S \subseteq Nodes /\ WaveItems(S) \subseteq T
    BY <1>1 DEF WaveItems
  <2> HIDE DEF T
  <2> QED BY <2>1, PlanTypes, SeqMonotonic
<1>3. \A plan \in Seq(T) : plan \in Seq(Items)
  BY <1>1, SeqMonotonic
<1>4. <<Do("load")>> \in Seq(T) /\ <<Do("judge")>> \in Seq(T)
  BY DEF Controls
<1>5. verdict \in Verdicts /\ (\A all : Verdict(all) \in Verdicts) /\ "error" \in Verdicts
      /\ file.status \in TERMINAL \cup {"running", "paused", Gone}
  BY DEF TypeInv, TypeOK, Verdict, Verdicts, TERMINAL
<1> DEFINE Good(plan) == plan \in Seq(Items) /\ Follow(Runner, plan) /\ Loaded(plan)
<1>6. ASSUME NEW v \in Verdicts, Return(v) PROVE (\E plan : Good(plan)) /\ verdict' \in Verdicts
  BY <1>1, <1>6 DEF Return, Loaded
<1>7. ASSUME NEW plan \in Seq(T), Follow(Runner, plan), ~ file.torn, file.status = "running"
      PROVE  \E pl : Good(pl)
  BY <1>3, <1>7 DEF Loaded
<1> HIDE DEF T, E, Good
<1>8. CASE Judge
  <2>1. PICK v \in Verdicts : Return(v)
    BY <1>5, <1>8 DEF Judge
  <2> QED BY <1>6, <2>1 DEF Good
<1>9. CASE LoadOnce
  <2>1. verdict' = verdict
    BY <1>9 DEF LoadOnce
  <2>2. CASE file.torn \/ file.status # "running"
    BY <1>1, <1>5, <1>9, <2>1, <2>2 DEF LoadOnce, Loaded
  <2>3. CASE ~ (file.torn \/ file.status # "running")
    <3>1. PICK false \in SUBSET (E \cap Conditional) :
              Follow(Runner, MarkSkipped(Ready(false)) \o Wave(Ready(E \ false)))
      BY <1>9, <2>3 DEF LoadOnce, E
    <3>2. MarkSkipped(Ready(false)) \o Wave(Ready(E \ false)) \in Seq(T)
      BY <1>2, ConcatProperties
    <3> QED BY <1>5, <1>7, <2>1, <2>3, <3>1, <3>2 DEF Good
  <2> QED BY <2>2, <2>3
<1>10. CASE Load
  <2>1. CASE Return("error")
    BY <1>5, <1>6, <2>1 DEF Good
  <2>2. CASE file.status \in TERMINAL \cup {"paused"} /\ Return(file.status)
    <3>1. file.status \in Verdicts
      BY <2>2 DEF Verdicts
    <3> QED BY <1>6, <2>2, <3>1 DEF Good
  <2>3. ASSUME ~ file.torn, file.status = "running", NEW false \in SUBSET (E \cap Conditional),
               LET ready == Ready(E \ false)
                   skips == MarkSkipped(Ready(false))
               IN  \/ /\ ready = <<>> /\ false = {}
                      /\ Return(Verdict(Range(file.nodes)))
                   \/ /\ ready = <<>> /\ false # {}
                      /\ Follow(Runner, skips \o <<Do("judge")>>)
                      /\ UNCHANGED verdict
                   \/ /\ ready # <<>>
                      /\ Follow(Runner, skips \o Wave(ready) \o <<Do("load")>>)
                      /\ UNCHANGED verdict
                   \/ /\ Len(ready) > 1
                      /\ Follow(Runner, skips \o MarkSkipped(ready) \o <<Do("load")>>)
                      /\ UNCHANGED verdict
        PROVE  (\E plan : Good(plan)) /\ verdict' \in Verdicts
    <3> DEFINE ready == Ready(E \ false)
               skips == MarkSkipped(Ready(false))
    <3>1. skips \in Seq(T) /\ Wave(ready) \in Seq(T) /\ MarkSkipped(ready) \in Seq(T)
      BY <1>2
    <3>2. /\ skips \o <<Do("judge")>> \in Seq(T)
          /\ skips \o Wave(ready) \o <<Do("load")>> \in Seq(T)
          /\ skips \o MarkSkipped(ready) \o <<Do("load")>> \in Seq(T)
      <4> HIDE DEF ready, skips
      <4> QED BY <1>4, <3>1, ConcatProperties
    <3>3. CASE Return(Verdict(Range(file.nodes)))
      BY <1>5, <1>6, <3>3
    <3>4. CASE /\ UNCHANGED verdict
               /\ \/ Follow(Runner, skips \o <<Do("judge")>>)
                  \/ Follow(Runner, skips \o Wave(ready) \o <<Do("load")>>)
                  \/ Follow(Runner, skips \o MarkSkipped(ready) \o <<Do("load")>>)
      BY <1>5, <1>7, <2>3, <3>2, <3>4
    <3> QED BY <2>3, <3>3, <3>4
  <2> QED BY <1>10, <2>1, <2>2, <2>3 DEF Load, Good, E
<1> QED BY <1>8, <1>9, <1>10

(* What the runner and the commands do to the plan of their process. *)
LEMMA PlanEffect ==
    ASSUME TypeInv,
           NEW p \in Procs,
           \/ p = Runner /\ (StartRun \/ Load \/ LoadOnce \/ Judge \/ InvokeNode)
           \/ p \in Users /\ (Command(p) \/ NextCommand(p))
    PROVE  /\ p \notin dead
           /\ \E plan \in Seq(Items) : Follow(p, plan)
           /\ UNCHANGED <<file, lock, dead, archived, slow, robbed, spilled, touched>>
           /\ verdict' \in Verdicts /\ budget' \in 0..MaxCommands
           /\ proc[p].at = "out"
<1> USE DEF TypeInv
<1>0. /\ budget \in 0..MaxCommands /\ verdict \in Verdicts /\ "none" \in Verdicts /\ MaxCommands \in Nat
      /\ \A q \in dead : proc[q].plan = <<>> 
  BY GraphAssumption DEF TypeOK, Verdicts, Resting
<1>1. CASE p = Runner /\ StartRun
  <2>1. \A op \in {"load", "load_once"} : <<Do(op)>> \in Seq(Items)
    BY ItemTypes DEF Ops, Locked
  <2>2. \E plan \in Seq(Items) : Follow(p, plan)
    BY <1>1, <2>1 DEF StartRun
  <2>3. proc[p].at = "out" /\ p \notin dead
    BY <1>1 DEF StartRun, Busy, ProcInv
  <2>4. budget' \in 0..MaxCommands
    BY <1>0, <1>1 DEF StartRun
  <2> QED BY <1>0, <1>1, <2>2, <2>3, <2>4 DEF StartRun
<1>2. CASE p = Runner /\ (Load \/ LoadOnce \/ Judge)
  BY <1>0, <1>2, LoadEffect DEF Load, LoadOnce, Judge, At, Busy
<1>3. CASE p = Runner /\ InvokeNode
  <2>1. At(Runner, "invoke")
    BY <1>3 DEF InvokeNode
  <2>2. proc[Runner].plan \in Seq(Items) /\ proc[Runner].plan # <<>>
    BY <1>3, <2>1 DEF ProcInv, At, Busy
  <2>3. Item(Runner) \in Items /\ Tail(proc[Runner].plan) \in Seq(Items)
    BY <2>2, HeadTailProperties DEF Item
  <2>0. PICK n \in Item(Runner).ns : \E s \in Outcomes(n) \cup {"failed"} :
            Follow(Runner, <<Set(n, s)>> \o Tail(proc[Runner].plan))
    BY <1>3 DEF InvokeNode
  <2>4. PICK s \in Outcomes(n) \cup {"failed"} :
            Follow(Runner, <<Set(n, s)>> \o Tail(proc[Runner].plan))
    BY <2>0
  <2>5. n \in Nodes /\ s \in NodeStatuses
    BY <2>3 DEF Items, Outcomes, NodeStatuses
  <2>6. <<Set(n, s)>> \in Seq(Items)
    BY <2>5, ItemTypes
  <2>7. <<Set(n, s)>> \o Tail(proc[Runner].plan) \in Seq(Items)
    BY <2>3, <2>6, ConcatProperties
  <2> QED BY <1>0, <1>3, <2>1, <2>4, <2>7 DEF InvokeNode, At, Busy
<1>4. CASE p \in Users /\ Command(p)
  <2>1. \A u \in Updates : <<Set(u[1], u[2])>> \in Seq(Items)
    BY ItemTypes, GraphAssumption DEF NodeStatuses
  <2>2. \A op \in {"pause", "resume", "abort", "start"} : <<Do(op)>> \in Seq(Items)
    BY ItemTypes DEF Ops, Locked
  <2>3. \E plan \in Seq(Items) : Follow(p, plan)
    BY <1>4, <2>1, <2>2 DEF Command
  <2>4. proc[p].at = "out" /\ p \notin dead
    BY <1>4 DEF Command, Busy, ProcInv
  <2>5. budget' \in 0..MaxCommands
    BY <1>0, <1>4 DEF Command
  <2> QED BY <1>0, <1>4, <2>3, <2>4, <2>5 DEF Command
<1>5. CASE p \in Users /\ NextCommand(p)
  <2> DEFINE E == Eligible(file.nodes)
  <2>1. E \subseteq Nodes
    BY DEF Eligible
  <2>2. PICK false \in SUBSET (E \cap Conditional) :
            LET skips == IF false = {} THEN <<>> ELSE <<Skip(false)>>
            IN  \/ Follow(p, skips)
                \/ Follow(p, Append(skips, Skip(E \ false)))
    BY <1>5 DEF NextCommand
  <2> HIDE DEF E
  <2>3. Skip(false) \in Items /\ Skip(E \ false) \in Items
    BY <2>1, ItemTypes
  <2> DEFINE skips == IF false = {} THEN <<>> ELSE <<Skip(false)>>
  <2>4. skips \in Seq(Items)
    BY <2>3
  <2>5. Append(skips, Skip(E \ false)) \in Seq(Items)
    BY <2>3, <2>4, AppendProperties
  <2>6. \E plan \in Seq(Items) : Follow(p, plan)
    BY <2>2, <2>4, <2>5
  <2> QED BY <1>0, <1>5, <2>6 DEF NextCommand, Busy, ProcInv
<1> QED BY <1>1, <1>2, <1>3, <1>4, <1>5

(* What the steps around the lock do to the process that takes them. *)
LEMMA LockEffect ==
    ASSUME TypeInv, NEW p \in Procs
    PROVE  /\ Acquire(p) => /\ ProcInv' /\ \A q \in Procs \ {p} : proc'[q] = proc[q]
                            /\ proc[p].at = "out" /\ Item(p).op \in Locked
                            /\ proc'[p].at = "read" /\ proc'[p].plan = proc[p].plan
           /\ Overdue(p) => /\ ProcInv' /\ \A q \in Procs \ {p} : proc'[q] = proc[q]
                            /\ proc[p].at = "out" /\ Item(p).op \in Locked
                            /\ proc'[p].at = "overdue" /\ proc'[p].plan = proc[p].plan
           /\ Steal(p) => /\ ProcInv' /\ \A q \in Procs \ {p} : proc'[q] = proc[q]
                          /\ proc'[p].at = "reopen" /\ proc'[p].plan = proc[p].plan
           /\ Reopen(p) => /\ ProcInv' /\ \A q \in Procs \ {p} : proc'[q] = proc[q]
                           /\ \/ /\ ~ lock /\ lock'
                                 /\ proc'[p].at = "read" /\ proc'[p].plan = proc[p].plan
                              \/ lock' = lock /\ proc'[p] = Resting
           /\ Truncate(p) => /\ ProcInv' /\ \A q \in Procs \ {p} : proc'[q] = proc[q]
                             /\ proc'[p].at = "fill" /\ proc'[p].plan = proc[p].plan
                             /\ proc'[p].got = proc[p].got
           /\ Unlock(p) => /\ ProcInv' /\ \A q \in Procs \ {p} : proc'[q] = proc[q]
                           /\ proc'[p].at = "out" /\ proc'[p].plan = Tail(proc[p].plan)
           /\ Release(p) => /\ ProcInv' /\ \A q \in Procs \ {p} : proc'[q] = proc[q]
                            /\ proc'[p].at = "snapshot" /\ proc'[p].plan = proc[p].plan
                            /\ proc'[p].got = proc[p].got
           /\ TruncateAgain(p) => /\ ProcInv' /\ \A q \in Procs \ {p} : proc'[q] = proc[q]
                                  /\ proc'[p].at = "context" /\ proc'[p].plan = proc[p].plan
                                  /\ proc'[p].got = proc[p].got
           /\ SkipContext(p) \/ FillAgain(p) =>
                  /\ ProcInv' /\ \A q \in Procs \ {p} : proc'[q] = proc[q]
                  /\ proc'[p].at = "out" /\ proc'[p].plan = Tail(proc[p].plan)
           /\ Die(p) => /\ ProcInv' /\ \A q \in Procs \ {p} : proc'[q] = proc[q]
                        /\ proc'[p] = Resting
<1> USE DEF TypeInv
<1>0. {"read", "overdue", "reopen", "fill", "snapshot", "context"} \subseteq Places \ {"out"}
  BY DEF Places, Inside
<1>1. ASSUME proc[p].at # "out" PROVE proc[p].plan # <<>> /\ Item(p).op \in Locked \cup {"prune"}
  BY <1>1 DEF ProcInv
<1>2. <<>> \in Seq(Items) /\ ProcInv /\ dead \subseteq Procs
  BY EmptySeq DEF ProcInv
<1>3. ASSUME Acquire(p) \/ Overdue(p) PROVE WantsLock(p) /\ proc[p].plan # <<>> /\ Item(p).op \in Locked
  BY <1>3 DEF Acquire, Overdue, WantsLock, Busy
<1>4. ASSUME Follow(p, <<>>), dead' \subseteq Procs PROVE ProcInv' /\ proc'[p] = Resting
  <2>1. ProcInv' /\ proc'[p] = [plan |-> <<>>, at |-> "out", got |-> Nothing]
    BY <1>2, <1>4, FollowType
  <2> QED BY <2>1 DEF Resting
<1>10. ASSUME Acquire(p)
       PROVE  /\ ProcInv' /\ \A q \in Procs \ {p} : proc'[q] = proc[q]
              /\ proc[p].at = "out" /\ Item(p).op \in Locked
              /\ proc'[p].at = "read" /\ proc'[p].plan = proc[p].plan
  BY <1>0, <1>2, <1>3, <1>10, MoveType DEF Acquire, WantsLock
<1>11. ASSUME Overdue(p)
       PROVE  /\ ProcInv' /\ \A q \in Procs \ {p} : proc'[q] = proc[q]
              /\ proc[p].at = "out" /\ Item(p).op \in Locked
              /\ proc'[p].at = "overdue" /\ proc'[p].plan = proc[p].plan
  BY <1>0, <1>2, <1>3, <1>11, MoveType DEF Overdue, WantsLock
<1>12. ASSUME Steal(p)
       PROVE  /\ ProcInv' /\ \A q \in Procs \ {p} : proc'[q] = proc[q]
              /\ proc'[p].at = "reopen" /\ proc'[p].plan = proc[p].plan
  BY <1>0, <1>1, <1>2, <1>12, MoveType DEF Steal
<1>13. ASSUME Reopen(p)
       PROVE  /\ ProcInv' /\ \A q \in Procs \ {p} : proc'[q] = proc[q]
              /\ \/ /\ ~ lock /\ lock'
                    /\ proc'[p].at = "read" /\ proc'[p].plan = proc[p].plan
                 \/ lock' = lock /\ proc'[p] = Resting
  <2>1. dead' = dead /\ proc[p].at = "reopen"
    BY <1>13 DEF Reopen
  <2>2. CASE ~ lock /\ lock' = TRUE /\ Move(p, "read")
    BY <1>0, <1>1, <1>2, <2>1, <2>2, MoveType
  <2>3. CASE lock' = lock /\ Follow(p, <<>>)
    BY <1>2, <1>4, <2>1, <2>3, FollowType
  <2> QED BY <1>13, <2>2, <2>3 DEF Reopen
<1>14. ASSUME Truncate(p)
       PROVE  /\ ProcInv' /\ \A q \in Procs \ {p} : proc'[q] = proc[q]
              /\ proc'[p].at = "fill" /\ proc'[p].plan = proc[p].plan
              /\ proc'[p].got = proc[p].got
  BY <1>0, <1>1, <1>2, <1>14, MoveType DEF Truncate
<1>15. ASSUME Unlock(p) \/ SkipContext(p) \/ FillAgain(p)
       PROVE  /\ ProcInv' /\ \A q \in Procs \ {p} : proc'[q] = proc[q]
              /\ proc'[p].at = "out" /\ proc'[p].plan = Tail(proc[p].plan)
  <2>1. proc[p].plan \in Seq(Items) /\ proc[p].plan # <<>> /\ dead' = dead
    BY <1>1, <1>15 DEF Unlock, SkipContext, FillAgain, ProcInv
  <2>2. Tail(proc[p].plan) \in Seq(Items)
    BY <2>1, HeadTailProperties
  <2>3. Follow(p, Tail(proc[p].plan))
    BY <1>15 DEF Unlock, SkipContext, FillAgain, Done
  <2>4. /\ ProcInv' /\ \A q \in Procs \ {p} : proc'[q] = proc[q]
        /\ proc'[p] = [plan |-> Tail(proc[p].plan), at |-> "out", got |-> Nothing]
    BY <1>2, <2>1, <2>2, <2>3, FollowType
  <2> QED BY <2>4
<1>17. ASSUME Release(p)
       PROVE  /\ ProcInv' /\ \A q \in Procs \ {p} : proc'[q] = proc[q]
              /\ proc'[p].at = "snapshot" /\ proc'[p].plan = proc[p].plan
              /\ proc'[p].got = proc[p].got
  BY <1>0, <1>1, <1>2, <1>17, MoveType DEF Release
<1>18. ASSUME TruncateAgain(p)
       PROVE  /\ ProcInv' /\ \A q \in Procs \ {p} : proc'[q] = proc[q]
              /\ proc'[p].at = "context" /\ proc'[p].plan = proc[p].plan
              /\ proc'[p].got = proc[p].got
  BY <1>0, <1>1, <1>2, <1>18, MoveType DEF TruncateAgain
<1>16. ASSUME Die(p)
       PROVE  /\ ProcInv' /\ \A q \in Procs \ {p} : proc'[q] = proc[q]
              /\ proc'[p] = Resting
  <2>1. Follow(p, <<>>) /\ dead' \subseteq Procs
    BY <1>2, <1>16 DEF Die
  <2> QED BY <1>2, <1>4, <2>1, FollowType
<1> QED BY <1>10, <1>11, <1>12, <1>13, <1>14, <1>15, <1>16, <1>17, <1>18

(* Every step keeps the state well typed. *)
LEMMA NextTypeInv == TypeInv /\ [Next]_vars => TypeInv'
<1> SUFFICES ASSUME TypeInv, [Next]_vars PROVE TypeInv'
  OBVIOUS
<1>0. /\ file \in Files /\ lock \in BOOLEAN /\ archived \in BOOLEAN /\ verdict \in Verdicts
      /\ budget \in 0..MaxCommands /\ slow \in 0..MaxSlow /\ MaxSlow \in Nat
      /\ Torn \in Files /\ "error" \in Verdicts
  BY ItemTypes, GraphAssumption DEF TypeInv, TypeOK, Files, Verdicts
<1>1. ASSUME ProcInv', file' \in Files, lock' \in BOOLEAN, archived' \in BOOLEAN, verdict' \in Verdicts,
             budget' \in 0..MaxCommands, slow' \in 0..MaxSlow, \A p \in dead' : proc'[p] = Resting
      PROVE  TypeInv'
  <2>1. \A p \in Procs : /\ proc'[p].at \in Places
                         /\ proc'[p].at # "out" => proc'[p].plan # <<>>
    BY <1>1 DEF ProcInv
  <2> QED BY <1>1, <2>1 DEF TypeInv, TypeOK, Files, Places
<1>2. ASSUME NEW p \in Procs, dead' = dead, \A q \in Procs \ {p} : proc'[q] = proc[q],
             proc[p].at # "out" \/ proc[p].plan # <<>> \/ p \notin dead
      PROVE  \A q \in dead' : proc'[q] = Resting
  BY <1>2 DEF TypeInv, TypeOK, ProcInv, Resting
<1>3. ASSUME NEW p \in Procs,
             \/ p = Runner /\ (StartRun \/ Load \/ LoadOnce \/ Judge \/ InvokeNode)
             \/ p \in Users /\ (Command(p) \/ NextCommand(p))
      PROVE  TypeInv'
  <2>1. PICK plan \in Seq(Items) : Follow(p, plan)
    BY <1>3, PlanEffect
  <2>2. /\ p \notin dead /\ UNCHANGED <<file, lock, dead, archived, slow, robbed, spilled, touched>>
        /\ verdict' \in Verdicts /\ budget' \in 0..MaxCommands
    BY <1>3, PlanEffect
  <2>3. ProcInv' /\ \A q \in Procs \ {p} : proc'[q] = proc[q]
    BY <2>1, <2>2, FollowType DEF TypeInv, ProcInv
  <2>4. \A q \in dead' : proc'[q] = Resting
    BY <1>2, <2>2, <2>3
  <2> QED BY <1>0, <1>1, <2>2, <2>3, <2>4
<1>4. ASSUME NEW p \in Procs,
             \/ Acquire(p) \/ Overdue(p) \/ Steal(p) \/ Reopen(p) \/ Truncate(p) \/ Unlock(p)
             \/ Release(p) \/ SkipContext(p) \/ TruncateAgain(p) \/ FillAgain(p)
      PROVE  TypeInv'
  <2>1. ProcInv' /\ \A q \in Procs \ {p} : proc'[q] = proc[q]
    BY <1>4, LockEffect
  <2>2. dead' = dead /\ (proc[p].at # "out" \/ proc[p].plan # <<>>)
    BY <1>4 DEF Acquire, Overdue, Steal, Reopen, Truncate, Unlock,
       Release, SkipContext, TruncateAgain, FillAgain, WantsLock, Busy
  <2>3. \A q \in dead' : proc'[q] = Resting
    BY <1>2, <2>1, <2>2
  <2>4. file' \in Files
    BY <1>0, <1>4 DEF TypeInv, ProcInv, Acquire, Overdue, Steal, Reopen, Truncate, Unlock,
       Release, SkipContext, TruncateAgain, FillAgain
  <2>5. lock' \in BOOLEAN /\ archived' \in BOOLEAN
    BY <1>0, <1>4 DEF Acquire, Overdue, Steal, Reopen, Truncate, Unlock,
       Release, SkipContext, TruncateAgain, FillAgain
  <2>6. verdict' \in Verdicts
    BY <1>0, <1>4 DEF Acquire, Overdue, Steal, Reopen, Truncate, Unlock,
       Release, SkipContext, TruncateAgain, FillAgain
  <2>7. budget' \in 0..MaxCommands /\ slow' \in 0..MaxSlow
    BY <1>0, <1>4 DEF Acquire, Overdue, Steal, Reopen, Truncate, Unlock,
       Release, SkipContext, TruncateAgain, FillAgain
  <2> QED BY <1>1, <2>1, <2>3, <2>4, <2>5, <2>6, <2>7
<1>5. ASSUME NEW p \in Procs, Read(p) \/ Fill(p) \/ Archive(p) PROVE TypeInv'
  <2>1. ProcInv' /\ \A q \in Procs \ {p} : proc'[q] = proc[q]
    BY <1>5, ReadEffect, FillEffect, ArchiveEffect
  <2>2. file' \in Files
    BY <1>0, <1>5, FillEffect DEF Read, Archive
  <2>3. /\ dead' = dead /\ proc[p].at # "out"
        /\ UNCHANGED <<lock, verdict, budget, slow>> /\ archived' \in BOOLEAN
    BY <1>0, <1>5 DEF Read, Fill, Archive
  <2>4. \A q \in dead' : proc'[q] = Resting
    BY <1>2, <2>1, <2>3
  <2> QED BY <1>0, <1>1, <2>1, <2>2, <2>3, <2>4
<1>6. ASSUME NEW p \in Procs, Die(p) PROVE TypeInv'
  <2>1. ProcInv' /\ proc'[p] = Resting /\ \A q \in Procs \ {p} : proc'[q] = proc[q]
    BY <1>6, LockEffect
  <2>2. \A q \in dead' : proc'[q] = Resting
    BY <1>6, <2>1 DEF Die, TypeInv, TypeOK, ProcInv
  <2> QED BY <1>0, <1>1, <1>6, <2>1, <2>2 DEF Die
<1>7. CASE UNCHANGED vars
  <2>1. ProcInv'
    BY <1>7 DEF vars, TypeInv, ProcInv, Item
  <2> QED BY <1>0, <1>1, <1>7, <2>1 DEF vars, TypeInv, TypeOK
<1> QED BY <1>3, <1>4, <1>5, <1>6, <1>7 DEF Next, Step, Update, Procs

(* The first state is well typed. *)
LEMMA InitTypeInv == Init => TypeInv
<1> SUFFICES ASSUME Init PROVE TypeInv
  OBVIOUS
<1>1. Resting \in [plan : Seq(Items), at : Places, got : Files]
  BY ItemTypes, EmptySeq DEF Resting, Places
<1>2. ProcInv
  BY <1>1 DEF Init, ProcInv, Resting
<1>3. file \in Files /\ verdict \in Verdicts /\ budget \in 0..MaxCommands /\ slow \in 0..MaxSlow
  BY ItemTypes, GraphAssumption DEF Init, Verdicts
<1> QED BY <1>2, <1>3 DEF Init, TypeInv, TypeOK, Files, Resting

(* The entry, the verdicts and every process's place stay well typed, and a
   dead process holds nothing.                                               *)
THEOREM WorkflowTypeCorrect == Spec => []TypeOK
<1>1. TypeInv => TypeOK
  BY DEF TypeInv
<1> QED BY <1>1, InitTypeInv, NextTypeInv, PTL DEF Spec

-----------------------------------------------------------------------------
(* The invariants.                                                          *)

(* As long as no waiter has removed a live process's lock, and no start has written
   its copy of the file beside a holder or after a change: one process at a time
   is inside, the lock file exists while it is, what it is about to write back, or
   to archive, is what the file holds, and a start that writes again is the only
   one that writes.                                                          *)
LockInv ==
    \/ robbed \/ spilled
    \/ /\ \A p, q \in Procs : proc[p].at \in Inside /\ proc[q].at \in Inside => p = q
       /\ \A p \in Procs : proc[p].at \in Inside => lock
       /\ \A p \in Procs : proc[p].at \in {"truncate", "archive"} => proc[p].got = file
       /\ \A p \in Procs : proc[p].at \in {"fill", "context"} => file.torn
       /\ \A p, q \in Procs :
            proc[p].at = "context" /\ proc[q].at \in {"fill", "context"} => p = q

(* Where a process carries the entry it has read, or made of it. *)
Carrying == {"truncate", "fill", "archive", "release", "snapshot", "context"}

(* Where a pruned entry can come from, locks or no locks. *)
PruneInv ==
    /\ PrunedIsArchived
    /\ \A p \in Procs :
        /\ proc[p].at \in Carrying =>
             /\ ~ proc[p].got.torn
             /\ proc[p].got.status = Gone => archived
        /\ proc[p].at # "out" /\ Item(p).op = "prune" => archived

(* The nodes a plan starts, and the nodes it writes. *)
Starts(plan) == UNION {i.ns : i \in {j \in Range(plan) : j.to = "running"}}
Writes(plan) == UNION {i.ns : i \in Range(plan)}

(* The dependencies of n are met, and not by nodes that W may still change. *)
Keeps(nodes, n, W) ==
    \/ DependsOn[n] = {}
    \/ /\ TriggerRule[n] = "all_success" /\ DependsOn[n] \cap W = {}
       /\ \A d \in DependsOn[n] : nodes[d] \in {"completed", "unverified"}
    \/ /\ TriggerRule[n] = "all_done" /\ DependsOn[n] \cap W = {}
       /\ \A d \in DependsOn[n] : nodes[d] \in {"completed", "failed", "skipped", "unverified"}
    \/ /\ TriggerRule[n] = "one_success"
       /\ \E d \in DependsOn[n] \ W : nodes[d] = "completed"

(* The entry f, unless it is gone, lets the runner start n. *)
Lets(f, n) == f.status # Gone => Keeps(f.nodes, n, Writes(proc[Runner].plan))

(* Where a process is about to write the file. *)
Writing == {"truncate", "fill", "context"}

(* Every node the runner has still to start may be started by what the file
   holds and by what any process is about to write back.                     *)
ReadyInv ==
    /\ \A p \in Procs :
        proc[p].at \in {"truncate", "fill"} /\ proc[p].got.status = Gone =>
            Item(p).op \in {"skip", "start", "prune"}
    /\ \/ robbed \/ spilled
       \/ \A n \in Starts(proc[Runner].plan) :
            \/ touched \cap DependsOn[n] # {}
            \/ /\ file.torn \/ Lets(file, n)
               /\ \A p \in Procs : proc[p].at \in Writing => Lets(proc[p].got, n)

-----------------------------------------------------------------------------
(* Pruning.                                                                 *)

(* Only a prune makes an entry gone, and an update never tears the file. *)
LEMMA ApplyGone ==
    ASSUME NEW i \in Items, i.op \in Locked \cup {"prune"}, NEW f \in Files, ~ f.torn
    PROVE  /\ ~ Apply(i, f).torn
           /\ Apply(i, f).status = Gone => i.op = "prune" \/ f.status = Gone
<1> DEFINE set == [f EXCEPT !.nodes = Rewrite(f, i.ns, i.to)]
<1>1. set.torn = f.torn /\ set.status = f.status /\ [set EXCEPT !.status = Overall(set)].torn = f.torn
      /\ [set EXCEPT !.status = Overall(set)].status = Overall(set)
  BY DEF Files
<1>2. Overall(set) \in {"completed", "completed_with_failures", f.status}
  BY <1>1 DEF Overall
<1>3. CASE i.op = "set"
  BY <1>1, <1>2, <1>3 DEF Apply, Gone
<1>4. CASE i.op = "skip"
  BY <1>1, <1>4 DEF Apply
<1>5. CASE i.op \in {"pause", "resume", "start", "prune", "abort"}
  BY <1>5 DEF Apply, Files, Gone, Nothing
<1> QED BY <1>3, <1>4, <1>5 DEF Locked

(* Every step keeps PruneInv. *)
LEMMA NextPrune == TypeInv /\ PruneInv /\ [Next]_vars => PruneInv'
<1> SUFFICES ASSUME TypeInv, PruneInv, [Next]_vars PROVE PruneInv'
  OBVIOUS
<1> DEFINE Clean(p) ==
        /\ proc[p].at \in Carrying =>
             /\ ~ proc[p].got.torn
             /\ proc[p].got.status = Gone => archived
        /\ proc[p].at # "out" /\ Item(p).op = "prune" => archived
<1> USE DEF Carrying
<1>1. ASSUME NEW p \in Procs, \A q \in Procs \ {p} : proc'[q] = proc[q],
             archived => archived', PrunedIsArchived', Clean(p)'
      PROVE  PruneInv'
  <2>1. ASSUME NEW q \in Procs \ {p} PROVE Clean(q)'
    BY <1>1, <2>1 DEF PruneInv, Item
  <2> QED BY <1>1, <2>1 DEF PruneInv
<1>2. \A p \in Procs : Clean(p)
  BY DEF PruneInv
<1>3. ASSUME NEW p \in Procs,
             \/ p = Runner /\ (StartRun \/ Load \/ LoadOnce \/ Judge \/ InvokeNode)
             \/ p \in Users /\ (Command(p) \/ NextCommand(p))
      PROVE  PruneInv'
  <2>1. PICK plan \in Seq(Items) : Follow(p, plan)
    BY <1>3, PlanEffect
  <2>2. UNCHANGED <<file, archived, dead>>
    BY <1>3, PlanEffect
  <2>3. /\ proc'[p] = [plan |-> plan, at |-> "out", got |-> Nothing]
        /\ \A q \in Procs \ {p} : proc'[q] = proc[q]
    BY <2>1, <2>2, FollowType DEF TypeInv, ProcInv
  <2>4. proc'[p].at = "out"
    BY <2>3
  <2> QED BY <1>1, <2>2, <2>3, <2>4 DEF PruneInv, PrunedIsArchived
<1>4. ASSUME NEW p \in Procs,
             Acquire(p) \/ Overdue(p) \/ Steal(p) \/ Reopen(p) \/ Unlock(p) \/ SkipContext(p) \/ Die(p)
      PROVE  PruneInv'
  <2>1. file' = file /\ archived' = archived
    BY <1>4 DEF Acquire, Overdue, Steal, Reopen, Unlock, SkipContext, Die
  <2>2. /\ \A q \in Procs \ {p} : proc'[q] = proc[q]
        /\ proc'[p].at \notin Carrying
    BY <1>4, LockEffect DEF Resting
  <2>3. proc'[p].at # "out" =>
            proc'[p].plan = proc[p].plan /\ (proc[p].at # "out" \/ Item(p).op \in Locked)
    <3>1. CASE Acquire(p) \/ Overdue(p)
      BY <3>1, LockEffect
    <3>2. CASE Steal(p) \/ Reopen(p)
      <4>1. proc[p].at # "out"
        BY <3>2 DEF Steal, Reopen
      <4> QED BY <3>2, <4>1, LockEffect DEF Resting
    <3>3. CASE Unlock(p) \/ SkipContext(p) \/ Die(p)
      BY <3>3, LockEffect DEF Resting
    <3> QED BY <1>4, <3>1, <3>2, <3>3
  <2>4. proc'[p].at # "out" /\ Item(p)'.op = "prune" => archived
    BY <1>2, <2>3 DEF Item, Locked
  <2> QED BY <1>1, <2>1, <2>2, <2>4 DEF PruneInv, PrunedIsArchived
<1>5. ASSUME NEW p \in Procs, Truncate(p) PROVE PruneInv'
  <2>1. file' = Torn /\ archived' = archived /\ proc[p].at = "truncate"
    BY <1>5 DEF Truncate
  <2>2. PrunedIsArchived'
    BY <2>1 DEF PrunedIsArchived, Torn, Nothing
  <2> QED BY <1>1, <1>2, <1>5, <2>1, <2>2, LockEffect DEF Item
<1>6. ASSUME NEW p \in Procs, Read(p) PROVE PruneInv'
  <2>1. file' = file /\ archived' = archived /\ proc[p].at = "read"
    BY <1>6 DEF Read
  <2>2. PrunedIsArchived /\ PrunedIsArchived'
    BY <2>1 DEF PruneInv, PrunedIsArchived
  <2>3. Clean(p)'
    BY <1>2, <1>6, <2>1, <2>2, ReadEffect DEF Item, PrunedIsArchived
  <2> QED BY <1>1, <1>6, <2>1, <2>2, <2>3, ReadEffect
<1>7. ASSUME NEW p \in Procs, Fill(p) PROVE PruneInv'
  <2>1. archived' = archived /\ proc[p].at = "fill" /\ file' = Apply(Item(p), proc[p].got)
    BY <1>7, FillEffect DEF Fill
  <2>2. Item(p) \in Items /\ Item(p).op \in Locked \cup {"prune"} /\ proc[p].got \in Files
    BY <2>1, HeadTailProperties DEF TypeInv, ProcInv, Item
  <2>3. ~ file'.torn /\ (file'.status = Gone => archived)
    BY <1>2, <2>1, <2>2, ApplyGone
  <2>4. Clean(p)'
    BY <1>2, <1>7, <2>1, <2>3, FillEffect DEF Item
  <2> QED BY <1>1, <1>7, <2>1, <2>3, <2>4, FillEffect DEF PrunedIsArchived
<1>8. ASSUME NEW p \in Procs, Archive(p) PROVE PruneInv'
  <2>1. file' = file /\ proc[p].at = "archive"
    BY <1>8 DEF Archive
  <2>2. archived => archived'
    BY <1>8, ArchiveEffect
  <2>3. PrunedIsArchived'
    BY <2>1, <2>2 DEF PruneInv, PrunedIsArchived
  <2>4. Clean(p)'
    BY <1>2, <1>8, <2>1, ArchiveEffect DEF Item
  <2> QED BY <1>1, <1>8, <2>2, <2>3, <2>4, ArchiveEffect
<1>10. ASSUME NEW p \in Procs, Release(p) PROVE PruneInv'
  <2>1. file' = file /\ archived' = archived /\ proc[p].at = "release"
    BY <1>10 DEF Release
  <2>2. PrunedIsArchived'
    BY <2>1 DEF PruneInv, PrunedIsArchived
  <2> QED BY <1>1, <1>2, <1>10, <2>1, <2>2, LockEffect DEF Item
<1>11. ASSUME NEW p \in Procs, TruncateAgain(p) PROVE PruneInv'
  <2>1. file' = Torn /\ archived' = archived /\ proc[p].at = "snapshot"
    BY <1>11 DEF TruncateAgain
  <2>2. PrunedIsArchived'
    BY <2>1 DEF PrunedIsArchived, Torn, Nothing
  <2> QED BY <1>1, <1>2, <1>11, <2>1, <2>2, LockEffect DEF Item
<1>12. ASSUME NEW p \in Procs, FillAgain(p) PROVE PruneInv'
  <2>1. file' = proc[p].got /\ archived' = archived /\ proc[p].at = "context"
    BY <1>12 DEF FillAgain
  <2>2. PrunedIsArchived'
    BY <1>2, <2>1 DEF PrunedIsArchived
  <2> QED BY <1>1, <1>2, <1>12, <2>1, <2>2, LockEffect
<1>9. CASE UNCHANGED vars
  BY <1>9 DEF vars, PruneInv, PrunedIsArchived, Item
<1> QED BY <1>3, <1>4, <1>5, <1>6, <1>7, <1>8, <1>9, <1>10, <1>11, <1>12
        DEF Next, Step, Update, Procs

(* A workflow leaves workflows.json only after its completion events are in the
   spool, wherever a process dies and whoever removed whose lock.            *)
THEOREM PrunedWorkflowsAreArchived == Spec => []PrunedIsArchived
<1>1. Init => PruneInv
  BY DEF Init, PruneInv, PrunedIsArchived, Carrying, Resting, Started, Nothing, Gone
<1>2. PruneInv => PrunedIsArchived
  BY DEF PruneInv
<1> QED BY <1>1, <1>2, InitTypeInv, NextTypeInv, NextPrune, PTL DEF Spec

-----------------------------------------------------------------------------
(* The lock.                                                                *)

(* What was noted of the past stays noted. *)
LEMMA HistoryStays == [Next]_vars => (robbed => robbed') /\ (spilled => spilled')
<1> SUFFICES ASSUME [Next]_vars PROVE (robbed => robbed') /\ (spilled => spilled')
  OBVIOUS
<1>1. CASE StartRun
  BY <1>1, Zenon DEF StartRun
<1>2. CASE Load \/ LoadOnce \/ Judge \/ InvokeNode
  <2>1. CASE Load
    BY <2>1, Zenon DEF Load
  <2>2. CASE LoadOnce
    BY <2>2, Zenon DEF LoadOnce
  <2>3. CASE Judge
    BY <2>3, Zenon DEF Judge
  <2>4. CASE InvokeNode
    BY <2>4, Zenon DEF InvokeNode
  <2> QED BY <1>2, <2>1, <2>2, <2>3, <2>4
<1>3. ASSUME NEW p \in Users, Command(p) \/ NextCommand(p)
      PROVE  (robbed => robbed') /\ (spilled => spilled')
  <2>1. CASE Command(p)
    BY <2>1, Zenon DEF Command
  <2>2. CASE NextCommand(p)
    BY <2>2, Zenon DEF NextCommand
  <2> QED BY <1>3, <2>1, <2>2
<1>4. ASSUME NEW p \in Procs, Update(p) \/ Die(p)
      PROVE  (robbed => robbed') /\ (spilled => spilled')
  <2>1. CASE Acquire(p)
    BY <2>1, Zenon DEF Acquire
  <2>2. CASE Overdue(p)
    BY <2>2, Zenon DEF Overdue
  <2>3. CASE Steal(p)
    BY <2>3, Zenon DEF Steal
  <2>4. CASE Reopen(p)
    BY <2>4, Zenon DEF Reopen
  <2>5. CASE Read(p)
    BY <2>5, Zenon DEF Read
  <2>6. CASE Truncate(p)
    BY <2>6, Zenon DEF Truncate
  <2>7. CASE Fill(p)
    BY <2>7, Zenon DEF Fill
  <2>8. CASE Archive(p)
    BY <2>8, Zenon DEF Archive
  <2>9. CASE Unlock(p)
    BY <2>9, Zenon DEF Unlock
  <2>10. CASE Release(p)
    BY <2>10, Zenon DEF Release
  <2>11. CASE SkipContext(p)
    BY <2>11, Zenon DEF SkipContext
  <2>12. CASE TruncateAgain(p)
    BY <2>12, Zenon DEF TruncateAgain
  <2>13. CASE FillAgain(p)
    BY <2>13, Zenon DEF FillAgain
  <2>14. CASE Die(p)
    BY <2>14, Zenon DEF Die
  <2> QED BY <1>4, <2>1, <2>2, <2>3, <2>4, <2>5, <2>6, <2>7, <2>8, <2>9, <2>10, <2>11, <2>12, <2>13, <2>14 DEF Update
<1>5. CASE UNCHANGED vars
  BY <1>5 DEF vars
<1> QED BY <1>1, <1>2, <1>3, <1>4, <1>5 DEF Next, Step


(* Every step keeps LockInv: a lock is created only where there is none, and
   the holder alone moves the file.                                          *)
LEMMA NextLock == TypeInv /\ PruneInv /\ LockInv /\ [Next]_vars => LockInv'
<1> SUFFICES ASSUME TypeInv, PruneInv, LockInv, [Next]_vars, ~ robbed', ~ spilled' PROVE LockInv'
  BY DEF LockInv
<1>0. ~ robbed /\ ~ spilled
  BY HistoryStays
<1>1. /\ \A p, q \in Procs : proc[p].at \in Inside /\ proc[q].at \in Inside => p = q
      /\ \A p \in Procs : proc[p].at \in Inside => lock
      /\ \A p \in Procs : proc[p].at \in {"truncate", "archive"} => proc[p].got = file
      /\ \A p \in Procs : proc[p].at \in {"fill", "context"} => file.torn
      /\ \A p, q \in Procs :
            proc[p].at = "context" /\ proc[q].at \in {"fill", "context"} => p = q
  BY <1>0 DEF LockInv
(* p leaves the lock, or stays outside, and does not write. *)
<1>2. ASSUME NEW p \in Procs, \A q \in Procs \ {p} : proc'[q] = proc[q], file' = file,
             proc'[p].at \notin Inside \cup {"context"}, lock' = lock \/ \A q \in Procs \ {p} : proc[q].at \notin Inside
      PROVE  LockInv'
  BY <1>1, <1>2 DEF LockInv, Inside
(* p is the one inside. *)
<1>3. ASSUME NEW p \in Procs, \A q \in Procs \ {p} : proc'[q] = proc[q],
             \A q \in Procs \ {p} : proc[q].at \notin Inside, lock',
             proc'[p].at \in {"truncate", "archive"} => proc'[p].got = file',
             proc'[p].at # "context",
             proc'[p].at = "fill" => file'.torn /\ \A q \in Procs : proc[q].at # "context",
             file' = file \/ \A q \in Procs \ {p} : proc[q].at # "context"
      PROVE  LockInv'
  BY <1>1, <1>3 DEF LockInv, Inside
<1>4. ASSUME NEW p \in Procs,
             \/ p = Runner /\ (StartRun \/ Load \/ LoadOnce \/ Judge \/ InvokeNode)
             \/ p \in Users /\ (Command(p) \/ NextCommand(p))
      PROVE  LockInv'
  <2>1. PICK plan \in Seq(Items) : Follow(p, plan)
    BY <1>4, PlanEffect
  <2>2. UNCHANGED <<file, lock, dead>>
    BY <1>4, PlanEffect
  <2>3. /\ proc'[p] = [plan |-> plan, at |-> "out", got |-> Nothing]
        /\ \A q \in Procs \ {p} : proc'[q] = proc[q]
    BY <2>1, <2>2, FollowType DEF TypeInv, ProcInv
  <2>4. proc'[p].at = "out"
    BY <2>3
  <2> QED BY <1>2, <2>2, <2>3, <2>4 DEF Inside
<1>5. ASSUME NEW p \in Procs, Acquire(p) PROVE LockInv'
  <2>1. ~ lock /\ lock' /\ file' = file PROOF BY <1>5 DEF Acquire
  <2> QED BY <1>1, <1>3, <1>5, <2>1, LockEffect
<1>6. ASSUME NEW p \in Procs, Overdue(p) PROVE LockInv'
  <2>1. file' = file /\ lock' = lock PROOF BY <1>6 DEF Overdue
  <2> QED BY <1>2, <1>6, <2>1, LockEffect DEF Inside
<1>7. ASSUME NEW p \in Procs, Steal(p) PROVE LockInv'
  <2>1. file' = file /\ (~ lock \/ Holders = {}) PROOF BY <1>7 DEF Steal
  <2>2. \A q \in Procs : proc[q].at \notin Inside
    BY <1>1, <2>1 DEF Holders
  <2> QED BY <1>2, <1>7, <2>1, <2>2, LockEffect DEF Inside
<1>8. ASSUME NEW p \in Procs, Reopen(p) PROVE LockInv'
  <2>1. file' = file PROOF BY <1>8 DEF Reopen
  <2>2. \A q \in Procs \ {p} : proc'[q] = proc[q]
    BY <1>8, LockEffect
  <2>3. CASE ~ lock /\ lock' /\ proc'[p].at = "read"
    BY <1>1, <1>3, <2>1, <2>2, <2>3
  <2>4. CASE lock' = lock /\ proc'[p] = Resting
    BY <1>2, <2>1, <2>2, <2>4 DEF Resting, Inside
  <2> QED BY <1>8, <2>3, <2>4, LockEffect
<1>9. ASSUME NEW p \in Procs, Unlock(p) \/ Release(p) \/ SkipContext(p) \/ Die(p) PROVE LockInv'
  <2>1. file' = file PROOF BY <1>9 DEF Unlock, Release, SkipContext, Die
  <2>2. proc'[p].at \notin Inside \cup {"context"} /\ \A q \in Procs \ {p} : proc'[q] = proc[q]
    BY <1>9, LockEffect DEF Inside, Resting
  <2>3. lock' = lock \/ proc[p].at \in Inside
    BY <1>9 DEF Unlock, Release, SkipContext, Die, Inside
  <2> QED BY <1>1, <1>2, <2>1, <2>2, <2>3
<1>10. ASSUME NEW p \in Procs, Truncate(p) PROVE LockInv'
  <2>1. file' = Torn /\ lock' = lock /\ proc[p].at \in Inside PROOF BY <1>10 DEF Truncate, Inside
  <2>2. file'.torn PROOF BY <2>1 DEF Torn, Nothing
  <2>3. proc[p].got = file /\ ~ proc[p].got.torn
    BY <1>1, <1>10 DEF Truncate, PruneInv, Carrying
  <2>4. \A q \in Procs : proc[q].at # "context"
    BY <1>1, <2>3
  <2> QED BY <1>1, <1>3, <1>10, <2>1, <2>2, <2>4, LockEffect
<1>11. ASSUME NEW p \in Procs, Read(p) PROVE LockInv'
  <2>1. file' = file /\ lock' = lock /\ proc[p].at \in Inside PROOF BY <1>11 DEF Read, Inside
  <2> QED BY <1>1, <1>3, <1>11, <2>1, ReadEffect
<1>12. ASSUME NEW p \in Procs, Fill(p) PROVE LockInv'
  <2>1. lock' = lock /\ proc[p].at \in Inside /\ proc[p].at = "fill" PROOF BY <1>12 DEF Fill, Inside
  <2> QED BY <1>1, <1>3, <1>12, <2>1, FillEffect
<1>13. ASSUME NEW p \in Procs, Archive(p) PROVE LockInv'
  <2>1. file' = file /\ lock' = lock /\ proc[p].at = "archive" PROOF BY <1>13 DEF Archive
  <2>2. proc[p].at \in Inside /\ proc[p].got = file PROOF BY <1>1, <2>1 DEF Inside
  <2> QED BY <1>1, <1>3, <1>13, <2>1, <2>2, ArchiveEffect
<1>15. ASSUME NEW p \in Procs, TruncateAgain(p) PROVE LockInv'
  <2>1. /\ file' = Torn /\ lock' = lock /\ proc[p].at = "snapshot"
        /\ Holders = {} /\ file = proc[p].got
    BY <1>15 DEF TruncateAgain
  <2>2. file'.torn /\ ~ file.torn
    BY <2>1 DEF Torn, Nothing, PruneInv, Carrying
  <2>3. \A q \in Procs : proc[q].at \notin Inside \cup {"context"}
    BY <1>1, <2>1, <2>2 DEF Holders
  <2>4. proc'[p].at = "context" /\ \A q \in Procs \ {p} : proc'[q] = proc[q]
    BY <1>15, LockEffect
  <2> QED BY <2>2, <2>3, <2>4 DEF LockInv, Inside
<1>16. ASSUME NEW p \in Procs, FillAgain(p) PROVE LockInv'
  <2>1. file' = proc[p].got /\ lock' = lock /\ proc[p].at = "context"
    BY <1>16 DEF FillAgain
  <2>2. proc'[p].at = "out" /\ \A q \in Procs \ {p} : proc'[q] = proc[q]
    BY <1>16, LockEffect
  <2>3. \A q \in Procs : proc[q].at \in {"truncate", "archive"} => FALSE
    BY <1>1, <2>1 DEF PruneInv, Carrying
  <2>4. \A q \in Procs \ {p} : proc[q].at \notin {"fill", "context"}
    BY <1>1, <2>1
  <2> QED BY <1>1, <2>1, <2>2, <2>3, <2>4 DEF LockInv, Inside
<1>14. CASE UNCHANGED vars
  BY <1>1, <1>14 DEF vars, LockInv
<1> QED BY <1>4, <1>5, <1>6, <1>7, <1>8, <1>9, <1>10, <1>11, <1>12, <1>13, <1>14,
           <1>15, <1>16 DEF Next, Step, Update, Procs

(* No update is lost: as long as no waiter removed the lock of a live process and
   no start wrote its copy of the file beside a holder or after a change, what
   _state_lock's holder writes back was computed from what the file holds, for
   any number of processes, starts, deaths and abandoned locks.              *)
THEOREM UpdatesAreNotLost == Spec => []NoLostUpdate
<1>1. Init => LockInv /\ PruneInv
  BY DEF Init, LockInv, PruneInv, PrunedIsArchived, Carrying, Inside, Resting, Started, Nothing, Gone
<1>2. LockInv => NoLostUpdate
  BY DEF LockInv, NoLostUpdate
<1> QED BY <1>1, <1>2, InitTypeInv, NextTypeInv, NextPrune, NextLock, PTL DEF Spec

-----------------------------------------------------------------------------
(* Waves.                                                                   *)

Settled == {"completed", "unverified", "failed", "skipped"}

(* Keeps survives a change that spares the settled dependencies outside W. *)
LEMMA KeepsStable ==
    ASSUME NEW nodes, NEW after, NEW n, NEW W, NEW V \in SUBSET W, Keeps(nodes, n, W),
           \A d \in DependsOn[n] \ W : nodes[d] \in Settled => after[d] = nodes[d]
    PROVE  Keeps(after, n, V)
<1>1. CASE TriggerRule[n] = "one_success"
  BY <1>1 DEF Keeps, Settled
<1>2. CASE TriggerRule[n] # "one_success"
  BY <1>2 DEF Keeps, Settled
<1> QED BY <1>1, <1>2

(* An eligible node keeps its dependencies whatever becomes of the eligible
   ones: they are all pending.                                               *)
LEMMA EligibleKeeps ==
    ASSUME NEW nodes, NEW n \in Eligible(nodes), NEW W \in SUBSET Eligible(nodes)
    PROVE  Keeps(nodes, n, W)
<1>1. \A d \in W : nodes[d] = "pending"
  BY DEF Eligible
<1>2. DepsMet(nodes, n)
  BY DEF Eligible
<1> QED BY <1>1, <1>2 DEF DepsMet, Keeps

(* What Keeps says is more than what the trigger rule asks. *)
LEMMA KeepsMeets ==
    ASSUME NEW nodes, NEW n, NEW W, Keeps(nodes, n, W)
    PROVE  DepsMet(nodes, n)
BY DEF DepsMet, Keeps

(* An update keeps the dependencies of a node that it does not write to, and of
   any node if it writes within W.                                           *)
LEMMA ApplyKeeps ==
    ASSUME NEW i \in Items, i.op \in Locked \cup {"prune"}, NEW f \in Files, NEW n \in Nodes, NEW W,
           i.ns \subseteq W \/ i.ns \cap DependsOn[n] = {},
           f.status = Gone => i.op \in {"skip", "start", "prune"},
           f.status # Gone => Keeps(f.nodes, n, W),
           Apply(i, f).status # Gone
    PROVE  Keeps(Apply(i, f).nodes, n, W)
<1>0. DependsOn[n] \subseteq Nodes
  BY GraphAssumption
<1> DEFINE set == [f EXCEPT !.nodes = Rewrite(f, i.ns, i.to)]
<1>1. set.nodes = Rewrite(f, i.ns, i.to) /\ [set EXCEPT !.status = Overall(set)].nodes = set.nodes
  BY DEF Files
<1>2. \A d \in DependsOn[n] \ W : set.nodes[d] = f.nodes[d]
  BY <1>0, <1>1 DEF Rewrite
<1>3. CASE i.op = "set"
  <2>1. Apply(i, f).nodes = set.nodes
    BY <1>1, <1>3 DEF Apply
  <2> QED BY <1>2, <1>3, <2>1, KeepsStable
<1>4. CASE i.op = "skip"
  <2>1. f.status # Gone /\ Apply(i, f).nodes = set.nodes
    BY <1>4 DEF Apply
  <2> QED BY <1>2, <2>1, KeepsStable
<1>5. CASE i.op \in {"pause", "resume", "start"}
  <2>1. f.status # Gone /\ Apply(i, f).nodes = f.nodes
    BY <1>5 DEF Apply, Files
  <2> QED BY <2>1
<1>6. CASE i.op = "abort"
  <2>1. Apply(i, f).nodes = Rewrite(f, {m \in Nodes : f.nodes[m] \in {"pending", "running"}}, "skipped")
    BY <1>6 DEF Apply, Files
  <2>2. \A d \in DependsOn[n] : f.nodes[d] \in Settled => Apply(i, f).nodes[d] = f.nodes[d]
    BY <1>0, <2>1 DEF Rewrite, Settled
  <2> QED BY <1>6, <2>2, KeepsStable
<1>7. CASE i.op = "prune"
  BY <1>7 DEF Apply, Nothing
<1> QED BY <1>3, <1>4, <1>5, <1>6, <1>7 DEF Locked

(* A plan with fewer items starts and writes fewer nodes. *)
LEMMA PlanShrinks ==
    ASSUME NEW plan, NEW less, Range(less) \subseteq Range(plan)
    PROVE  Starts(less) \subseteq Starts(plan) /\ Writes(less) \subseteq Writes(plan)
BY DEF Starts, Writes

(* The items of a plan's tail are the plan's, and so is its first. *)
LEMMA TailRange ==
    ASSUME NEW T, NEW plan \in Seq(T), plan # <<>>
    PROVE  /\ Range(Tail(plan)) \subseteq Range(plan)
           /\ Head(plan) \in Range(plan)
           /\ Range(<<Head(plan)>>) \subseteq Range(plan)
<1>1. Len(plan) \in Nat /\ Len(plan) > 0 /\ DOMAIN plan = 1..Len(plan)
  BY LenProperties, EmptySeq
<1>2. Head(plan) = plan[1] /\ Head(plan) \in Range(plan)
  BY <1>1 DEF Range
<1>3. Range(<<Head(plan)>>) = {Head(plan)}
  BY DEF Range
<1>4. Range(Tail(plan)) \subseteq Range(plan)
  <2>1. Tail(plan) \in Seq(T) /\ Len(Tail(plan)) = Len(plan) - 1
        /\ \A k \in 1..Len(Tail(plan)) : Tail(plan)[k] = plan[k + 1]
    BY HeadTailProperties
  <2>2. DOMAIN Tail(plan) = 1..Len(Tail(plan))
    BY <2>1, LenProperties
  <2>3. \A k \in 1..Len(Tail(plan)) : k + 1 \in 1..Len(plan)
    BY <1>1, <2>1
  <2> QED BY <1>1, <2>1, <2>2, <2>3 DEF Range
<1> QED BY <1>2, <1>3, <1>4

(* The items of a sequence over T are in T. *)
LEMMA RangeType ==
    ASSUME NEW T, NEW plan \in Seq(T)
    PROVE  Range(plan) \subseteq T
BY DEF Range

(* What the runner's own steps do to the nodes it has to start: a start of a run
   and a return leave none, an invocation leaves fewer, and a load replaces them
   by nodes that the file shows to be eligible.                              *)
LEMMA RunnerPlans ==
    ASSUME TypeInv, StartRun \/ Load \/ LoadOnce \/ Judge \/ InvokeNode
    PROVE  /\ \A q \in Procs \ {Runner} : proc'[q] = proc[q]
           /\ proc'[Runner].at = "out"
           /\ \/ Starts(proc'[Runner].plan) = {}
              \/ /\ Starts(proc'[Runner].plan) \subseteq Starts(proc[Runner].plan)
                 /\ Writes(proc'[Runner].plan) \subseteq Writes(proc[Runner].plan)
              \/ /\ ~ file.torn /\ file.status = "running"
                 /\ Starts(proc'[Runner].plan) \subseteq Eligible(file.nodes)
                 /\ Writes(proc'[Runner].plan) \subseteq Eligible(file.nodes)
<1>0. Runner \in Procs /\ ProcInv
  BY DEF Procs, TypeInv
<1>1. ASSUME NEW plan \in Seq(Items), Follow(Runner, plan)
      PROVE  /\ \A q \in Procs \ {Runner} : proc'[q] = proc[q]
             /\ proc'[Runner].at = "out" /\ proc'[Runner].plan = plan
  <2>1. dead' \subseteq Procs
    BY PlanEffect, <1>0 DEF ProcInv
  <2>2. /\ \A q \in Procs \ {Runner} : proc'[q] = proc[q]
        /\ proc'[Runner] = [plan |-> plan, at |-> "out", got |-> Nothing]
    BY <1>0, <1>1, <2>1, FollowType
  <2> QED BY <2>2
<1>2. \A op : Range(<<Do(op)>>) = {Do(op)} /\ Starts(<<Do(op)>>) = {}
  BY DEF Range, Do, Starts
<1>3. Starts(<<>>) = {}
  BY DEF Range, Starts
<1>4. CASE StartRun
  <2>1. PICK op \in {"load", "load_once"} : Follow(Runner, <<Do(op)>>)
    BY <1>4 DEF StartRun
  <2>2. <<Do(op)>> \in Seq(Items)
    BY ItemTypes DEF Ops, Locked
  <2> QED BY <1>1, <1>2, <2>1, <2>2
<1>5. CASE Load \/ LoadOnce \/ Judge
  <2>1. PICK plan \in Seq(Items) : Follow(Runner, plan) /\ Loaded(plan)
    BY <1>5, LoadEffect
  <2>2. CASE plan = <<>>
    BY <1>1, <1>3, <2>1, <2>2
  <2>3. CASE /\ ~ file.torn /\ file.status = "running"
             /\ plan \in Seq(WaveItems(Eligible(file.nodes)) \cup Controls)
    <3>1. Range(plan) \subseteq WaveItems(Eligible(file.nodes)) \cup Controls
      BY <2>3, RangeType
    <3>2. \A i \in WaveItems(Eligible(file.nodes)) : i.ns \subseteq Eligible(file.nodes)
      BY DEF WaveItems, Set, Invoke
    <3>3. \A i \in Controls : i.ns = {}
      BY DEF Controls, Do
    <3>4. Writes(plan) \subseteq Eligible(file.nodes) /\ Starts(plan) \subseteq Eligible(file.nodes)
      BY <3>1, <3>2, <3>3 DEF Writes, Starts
    <3> QED BY <1>1, <2>1, <2>3, <3>4
  <2> QED BY <2>1, <2>2, <2>3 DEF Loaded
<1>6. CASE InvokeNode
  <2>1. At(Runner, "invoke")
    BY <1>6 DEF InvokeNode
  <2>2. proc[Runner].plan \in Seq(Items) /\ proc[Runner].plan # <<>>
    BY <1>0, <2>1 DEF ProcInv, At, Busy
  <2>3. Item(Runner) \in Items /\ Tail(proc[Runner].plan) \in Seq(Items)
    BY <2>2, HeadTailProperties DEF Item
  <2>4. PICK n \in Item(Runner).ns : \E s \in Outcomes(n) \cup {"failed"} :
            Follow(Runner, <<Set(n, s)>> \o Tail(proc[Runner].plan))
    BY <1>6 DEF InvokeNode
  <2>5. PICK s \in Outcomes(n) \cup {"failed"} :
            Follow(Runner, <<Set(n, s)>> \o Tail(proc[Runner].plan))
    BY <2>4
  <2>6. n \in Nodes /\ s \in NodeStatuses /\ s # "running"
    BY <2>3 DEF Items, Outcomes, NodeStatuses
  <2>7. <<Set(n, s)>> \in Seq(Items)
    BY <2>6, ItemTypes
  <2> DEFINE tail == Tail(proc[Runner].plan)
             plan == <<Set(n, s)>> \o tail
  <2>8. plan \in Seq(Items)
    BY <2>3, <2>7, ConcatProperties
  <2>9. Range(plan) \subseteq {Set(n, s)} \cup Range(tail)
    <3>1. /\ Len(plan) = 1 + Len(tail)
          /\ \A k \in 1..Len(plan) : plan[k] = IF k <= 1 THEN Set(n, s) ELSE tail[k - 1]
      BY <2>3, <2>7, ConcatProperties
    <3>2. DOMAIN plan = 1..Len(plan) /\ DOMAIN tail = 1..Len(tail) /\ Len(tail) \in Nat
      BY <2>3, <2>8, LenProperties
    <3> HIDE DEF plan, tail
    <3> QED BY <3>1, <3>2 DEF Range
  <2>10. Range(tail) \subseteq Range(proc[Runner].plan) /\ Item(Runner) \in Range(proc[Runner].plan)
    BY <2>2, TailRange DEF Item
  <2>11. Set(n, s).ns = {n} /\ Set(n, s).to # "running"
    BY <2>6 DEF Set
  <2>12. /\ Starts(plan) \subseteq Starts(proc[Runner].plan)
         /\ Writes(plan) \subseteq Writes(proc[Runner].plan)
    <3> HIDE DEF plan, tail
    <3> QED BY <2>9, <2>10, <2>11 DEF Starts, Writes
  <2> QED BY <1>1, <2>5, <2>8, <2>12
<1> QED BY <1>4, <1>5, <1>6

(* Every step keeps ReadyInv. *)
LEMMA NextReady == TypeInv /\ LockInv /\ PruneInv /\ ReadyInv /\ [Next]_vars => ReadyInv'
<1> SUFFICES ASSUME TypeInv, LockInv, PruneInv, ReadyInv, [Next]_vars PROVE ReadyInv'
  OBVIOUS
<1> DEFINE plan == proc[Runner].plan
           Live(p) == proc[p].at \in {"truncate", "fill"} /\ proc[p].got.status = Gone =>
                          Item(p).op \in {"skip", "start", "prune"}
           May(n) == \/ touched \cap DependsOn[n] # {}
                     \/ /\ file.torn \/ Lets(file, n)
                        /\ \A p \in Procs : proc[p].at \in Writing => Lets(proc[p].got, n)
<1>0. /\ Runner \in Procs /\ plan \in Seq(Items)
      /\ \A p \in Procs : Live(p)
      /\ robbed \/ spilled \/ \A n \in Starts(plan) : May(n)
  BY DEF Procs, TypeInv, ProcInv, ReadyInv
<1>1. (robbed => robbed') /\ (spilled => spilled')
  BY HistoryStays
(* Only p moves, and the nodes to start and to write become no more. *)
<1>2. ASSUME NEW p \in Procs, \A q \in Procs \ {p} : proc'[q] = proc[q], Live(p)',
             touched \subseteq touched',
             ~ robbed' /\ ~ spilled' => /\ Starts(plan') \subseteq Starts(plan)
                          /\ Writes(plan') \subseteq Writes(plan),
             \A n \in Starts(plan) : 
                 ~ robbed /\ ~ spilled' /\ touched' \cap DependsOn[n] = {} =>
                 /\ file'.torn \/ (file'.status # Gone => Keeps(file'.nodes, n, Writes(plan)))
                 /\ proc'[p].at \in Writing =>
                      (proc'[p].got.status # Gone => Keeps(proc'[p].got.nodes, n, Writes(plan)))
      PROVE  ReadyInv'
  <2>1. \A q \in Procs : Live(q)'
    BY <1>0, <1>2 DEF Item
  <2>2. ASSUME ~ robbed', ~ spilled', NEW n \in Starts(plan'), touched' \cap DependsOn[n] = {}
        PROVE  /\ file'.torn \/ (file'.status # Gone => Keeps(file'.nodes, n, Writes(plan')))
               /\ \A q \in Procs : proc'[q].at \in Writing =>
                    (proc'[q].got.status # Gone => Keeps(proc'[q].got.nodes, n, Writes(plan')))
    <3>1. ~ robbed /\ ~ spilled /\ n \in Starts(plan) /\ touched \cap DependsOn[n] = {} /\ May(n)
      BY <1>0, <1>1, <1>2, <2>2
    <3>2. \A nodes : Keeps(nodes, n, Writes(plan)) => Keeps(nodes, n, Writes(plan'))
      BY <1>2, <2>2, KeepsStable
    <3>3. file'.torn \/ (file'.status # Gone => Keeps(file'.nodes, n, Writes(plan')))
      BY <1>2, <2>2, <3>1, <3>2
    <3>4. ASSUME NEW q \in Procs, proc'[q].at \in Writing, proc'[q].got.status # Gone
          PROVE  Keeps(proc'[q].got.nodes, n, Writes(plan'))
      <4>1. CASE q = p
        BY <1>2, <2>2, <3>1, <3>2, <3>4, <4>1
      <4>2. CASE q # p
        BY <1>2, <3>1, <3>2, <3>4, <4>2 DEF Lets
      <4> QED BY <4>1, <4>2
    <3> QED BY <3>3, <3>4
  <2> QED BY <2>1, <2>2 DEF ReadyInv, Lets
(* As <1>2, when the file and the touched nodes stay. *)
<1>3. ASSUME NEW p \in Procs, \A q \in Procs \ {p} : proc'[q] = proc[q], file' = file, touched' = touched,
             Live(p)',
             ~ robbed' /\ ~ spilled' => /\ Starts(plan') \subseteq Starts(plan)
                          /\ Writes(plan') \subseteq Writes(plan),
             proc'[p].at \in Writing => proc'[p].got = file /\ ~ file.torn
      PROVE  ReadyInv'
  <2>1. ASSUME NEW n \in Starts(plan), ~ robbed, ~ spilled', touched' \cap DependsOn[n] = {}
        PROVE  /\ file'.torn \/ (file'.status # Gone => Keeps(file'.nodes, n, Writes(plan)))
               /\ proc'[p].at \in Writing =>
                    (proc'[p].got.status # Gone => Keeps(proc'[p].got.nodes, n, Writes(plan)))
    BY <1>0, <1>1, <1>3, <2>1 DEF Lets
  <2> HIDE DEF plan, Live
  <2> QED BY <1>2, <1>3, <2>1
<1>4. ASSUME StartRun \/ Load \/ LoadOnce \/ Judge \/ InvokeNode PROVE ReadyInv'
  <2>1. UNCHANGED <<file, touched, robbed, spilled>>
    BY <1>0, <1>4, PlanEffect
  <2>2. (\A q \in Procs \ {Runner} : proc'[q] = proc[q]) /\ proc'[Runner].at = "out"
    BY <1>4, RunnerPlans
  <2>3. \A q \in Procs : Live(q)'
    BY <1>0, <2>2 DEF Item
  <2>4. CASE Starts(plan') = {}
    BY <2>3, <2>4 DEF ReadyInv
  <2>5. CASE Starts(plan') \subseteq Starts(plan) /\ Writes(plan') \subseteq Writes(plan)
    <3> HIDE DEF Live, plan
    <3> QED BY <1>0, <1>3, <2>1, <2>2, <2>3, <2>5 DEF Writing
  <2>6. CASE /\ ~ file.torn /\ file.status = "running"
             /\ Starts(plan') \subseteq Eligible(file.nodes)
             /\ Writes(plan') \subseteq Eligible(file.nodes)
    <3>1. ASSUME NEW n \in Starts(plan'), ~ robbed', ~ spilled'
          PROVE  /\ Keeps(file.nodes, n, Writes(plan'))
                 /\ \A q \in Procs : proc'[q].at \in Writing => proc'[q].got = file
      <4>1. Keeps(file.nodes, n, Writes(plan'))
        BY <2>6, EligibleKeeps
      <4>2. \A q \in Procs : proc[q].at \in Writing => proc[q].got = file
        BY <2>1, <2>6, <3>1 DEF LockInv, Writing
      <4> QED BY <2>2, <4>1, <4>2 DEF Writing
    <3> QED BY <2>1, <2>3, <3>1 DEF ReadyInv, Lets
  <2> QED BY <1>4, <2>4, <2>5, <2>6, RunnerPlans
<1>5. ASSUME NEW p \in Users, Command(p) \/ NextCommand(p) PROVE ReadyInv'
  <2>1. p \in Procs /\ p # Runner
    BY GraphAssumption DEF Procs
  <2>2. PICK pl \in Seq(Items) : Follow(p, pl)
    BY <1>5, <2>1, PlanEffect
  <2>3. UNCHANGED <<file, dead, touched, robbed, spilled>>
    BY <1>5, <2>1, PlanEffect
  <2>4. /\ proc'[p] = [plan |-> pl, at |-> "out", got |-> Nothing]
        /\ \A q \in Procs \ {p} : proc'[q] = proc[q]
    BY <2>1, <2>2, <2>3, FollowType DEF TypeInv, ProcInv
  <2>5. proc'[p].at = "out" /\ plan' = plan
    BY <1>0, <2>1, <2>4
  <2> QED BY <1>3, <2>1, <2>3, <2>4, <2>5 DEF Writing
<1>6. ASSUME NEW p \in Procs, Range(proc'[p].plan) \subseteq Range(proc[p].plan) \/ proc'[p].plan = <<>>,
             \A q \in Procs \ {p} : proc'[q] = proc[q]
      PROVE  Starts(plan') \subseteq Starts(plan) /\ Writes(plan') \subseteq Writes(plan)
  <2>1. Range(<<>>) = {}
    BY DEF Range
  <2>2. CASE p = Runner
    BY <1>6, <2>1, <2>2, PlanShrinks
  <2>3. CASE p # Runner
    BY <1>0, <1>6, <2>3
  <2> QED BY <2>2, <2>3
<1>7. ASSUME NEW p \in Procs,
             \/ Acquire(p) \/ Overdue(p) \/ Steal(p) \/ Reopen(p) \/ Unlock(p) \/ Die(p)
             \/ Release(p) \/ SkipContext(p)
      PROVE  ReadyInv'
  <2>1. file' = file /\ touched' = touched
    BY <1>7 DEF Acquire, Overdue, Steal, Reopen, Unlock, Release, SkipContext, Die
  <2>2. /\ \A q \in Procs \ {p} : proc'[q] = proc[q]
        /\ proc'[p].at \notin Writing
        /\ proc'[p].plan \in {proc[p].plan, Tail(proc[p].plan), <<>>}
    <3>1. CASE Acquire(p) \/ Overdue(p) \/ Steal(p) \/ Release(p)
      BY <3>1, LockEffect DEF Writing
    <3>2. CASE Reopen(p)
      BY <3>2, LockEffect DEF Resting, Writing
    <3>3. CASE Unlock(p) \/ SkipContext(p)
      BY <3>3, LockEffect DEF Writing
    <3>4. CASE Die(p)
      BY <3>4, LockEffect DEF Resting, Writing
    <3> QED BY <1>7, <3>1, <3>2, <3>3, <3>4
  <2>3. proc'[p].plan = Tail(proc[p].plan) /\ proc'[p].plan # <<>> /\ proc'[p].plan # proc[p].plan =>
            proc[p].plan # <<>>
    BY <1>7, LockEffect DEF Resting, Unlock, SkipContext, TypeInv, ProcInv
  <2>4. Range(proc'[p].plan) \subseteq Range(proc[p].plan) \/ proc'[p].plan = <<>>
    BY <2>2, <2>3, TailRange DEF TypeInv, ProcInv
  <2>5. Starts(plan') \subseteq Starts(plan) /\ Writes(plan') \subseteq Writes(plan)
    BY <1>6, <2>2, <2>4
  <2>6. Live(p)'
    BY <2>2 DEF Writing
  <2> QED BY <1>3, <2>1, <2>2, <2>5, <2>6
<1>8. ASSUME NEW p \in Procs, Read(p) PROVE ReadyInv'
  <2>1. file' = file /\ touched' = touched
    BY <1>8 DEF Read
  <2>2. proc[p].plan \in Seq(Items) /\ proc[p].plan # <<>>
    BY <1>8 DEF TypeInv, ProcInv, Read
  <2>3. Range(proc'[p].plan) \subseteq Range(proc[p].plan)
    BY <1>8, <2>2, ReadEffect, TailRange DEF Item
  <2>4. Starts(plan') \subseteq Starts(plan) /\ Writes(plan') \subseteq Writes(plan)
    BY <1>6, <1>8, <2>3, ReadEffect
  <2>5. Live(p)' /\ (proc'[p].at \in Writing => proc'[p].got = file /\ ~ file.torn)
    BY <1>8, ReadEffect DEF Item, Writing
  <2> QED BY <1>3, <1>8, <2>1, <2>4, <2>5, ReadEffect
<1>9. ASSUME NEW p \in Procs, Truncate(p) PROVE ReadyInv'
  <2>1. file' = Torn /\ touched' = touched /\ proc[p].at = "truncate"
    BY <1>9 DEF Truncate
  <2>2. /\ \A q \in Procs \ {p} : proc'[q] = proc[q]
        /\ proc'[p].plan = proc[p].plan /\ proc'[p].got = proc[p].got
    BY <1>9, LockEffect
  <2>3. Live(p)' /\ file'.torn
    BY <1>0, <2>1, <2>2 DEF Item, Torn, Nothing
  <2>4. Starts(plan') \subseteq Starts(plan) /\ Writes(plan') \subseteq Writes(plan)
    BY <1>6, <2>2
  <2>5. ASSUME NEW n \in Starts(plan), ~ robbed, ~ spilled', touched' \cap DependsOn[n] = {},
               proc[p].got.status # Gone
        PROVE  Keeps(proc[p].got.nodes, n, Writes(plan))
    BY <1>0, <1>1, <2>1, <2>5 DEF Lets, Writing
  <2> HIDE DEF plan, Live
  <2> QED BY <1>2, <2>1, <2>2, <2>3, <2>4, <2>5
<1>10. ASSUME NEW p \in Procs, Fill(p) PROVE ReadyInv'
  <2>1. /\ proc[p].at = "fill" /\ file' = Apply(Item(p), proc[p].got)
        /\ \A q \in Procs \ {p} : proc'[q] = proc[q]
        /\ proc'[p].plan = proc[p].plan /\ proc'[p].at \notin Writing
    BY <1>10, FillEffect DEF Fill, Writing
  <2>2. /\ Item(p) \in Items /\ Item(p).op \in Locked \cup {"prune"} /\ proc[p].got \in Files
        /\ Item(p) \in Range(proc[p].plan)
    BY <2>1, HeadTailProperties, TailRange DEF TypeInv, ProcInv, Item
  <2>3. touched' = IF p = Runner THEN touched ELSE touched \cup Item(p).ns
    BY <1>10 DEF Fill
  <2>4. Starts(plan') \subseteq Starts(plan) /\ Writes(plan') \subseteq Writes(plan)
    BY <1>6, <2>1
  <2>5. ASSUME NEW n \in Starts(plan), ~ robbed, ~ spilled', touched' \cap DependsOn[n] = {},
               file'.status # Gone
        PROVE  Keeps(file'.nodes, n, Writes(plan))
    <3>1. Item(p).ns \subseteq Writes(plan) \/ Item(p).ns \cap DependsOn[n] = {}
      BY <2>2, <2>3, <2>5 DEF Writes
    <3>2. n \in Nodes
      BY <1>0, RangeType DEF Starts, Items
    <3>3. touched \cap DependsOn[n] = {}
      BY <2>3, <2>5
    <3>4. proc[p].got.status # Gone => Keeps(proc[p].got.nodes, n, Writes(plan))
      BY <1>0, <1>1, <2>1, <2>5, <3>3 DEF Lets, Writing
    <3>5. proc[p].got.status = Gone => Item(p).op \in {"skip", "start", "prune"}
      BY <1>0, <2>1
    <3> HIDE DEF plan
    <3> QED BY <2>1, <2>2, <2>5, <3>1, <3>2, <3>4, <3>5, ApplyKeeps
  <2>6. Live(p)'
    BY <2>1 DEF Writing
  <2> HIDE DEF plan, Live
  <2> QED BY <1>2, <2>1, <2>3, <2>4, <2>5, <2>6
<1>11. ASSUME NEW p \in Procs, Archive(p) PROVE ReadyInv'
  <2>1. UNCHANGED <<file, touched, robbed, spilled>> /\ proc[p].at = "archive"
    BY <1>11 DEF Archive
  <2>2. \A q \in Procs \ {p} : proc'[q] = proc[q]
    BY <1>11, ArchiveEffect
  <2>3. CASE proc'[p].at = "unlock" /\ proc'[p].plan = proc[p].plan
    <3>1. Starts(plan') \subseteq Starts(plan) /\ Writes(plan') \subseteq Writes(plan)
      BY <1>6, <2>2, <2>3
    <3> QED BY <1>3, <2>1, <2>2, <2>3, <3>1 DEF Writing
  <2>4. CASE /\ proc'[p].at = "truncate" /\ proc'[p].got = proc[p].got
             /\ proc'[p].plan = <<Do("prune")>>
    <3>1. Live(p)'
      BY <2>4 DEF Item, Do
    <3>2. ~ robbed /\ ~ spilled => proc[p].got = file
      BY <2>1 DEF LockInv
    <3>3. ~ proc[p].got.torn
      BY <2>1 DEF PruneInv, Carrying
    <3>4. Starts(<<Do("prune")>>) = {} /\ Writes(<<Do("prune")>>) = {}
      BY DEF Range, Do, Starts, Writes
    <3>5. Starts(plan') \subseteq Starts(plan) /\ Writes(plan') \subseteq Writes(plan)
      BY <1>0, <2>2, <2>4, <3>4
    <3>6. ASSUME NEW n \in Starts(plan), ~ robbed, ~ spilled, touched \cap DependsOn[n] = {},
                 file.status # Gone
          PROVE  Keeps(file.nodes, n, Writes(plan))
      BY <1>0, <3>2, <3>3, <3>6 DEF Lets
    <3> HIDE DEF plan, Live
    <3> QED BY <1>2, <2>1, <2>2, <2>4, <3>1, <3>2, <3>5, <3>6
  <2> QED BY <1>11, <2>3, <2>4, ArchiveEffect
<1>13. ASSUME NEW p \in Procs, TruncateAgain(p) PROVE ReadyInv'
  <2>1. /\ file' = Torn /\ touched' = touched /\ proc[p].at = "snapshot"
        /\ ~ spilled' => file = proc[p].got
    BY <1>13 DEF TruncateAgain
  <2>2. /\ \A q \in Procs \ {p} : proc'[q] = proc[q]
        /\ proc'[p].plan = proc[p].plan /\ proc'[p].got = proc[p].got /\ proc'[p].at = "context"
    BY <1>13, LockEffect
  <2>3. Live(p)' /\ file'.torn /\ ~ proc[p].got.torn
    BY <2>1, <2>2 DEF Torn, Nothing, PruneInv, Carrying
  <2>4. Starts(plan') \subseteq Starts(plan) /\ Writes(plan') \subseteq Writes(plan)
    BY <1>6, <2>2
  <2>5. ASSUME NEW n \in Starts(plan), ~ robbed, ~ spilled', touched' \cap DependsOn[n] = {},
               proc[p].got.status # Gone
        PROVE  Keeps(proc[p].got.nodes, n, Writes(plan))
    BY <1>0, <1>1, <2>1, <2>3, <2>5 DEF Lets
  <2> HIDE DEF plan, Live
  <2> QED BY <1>2, <2>1, <2>2, <2>3, <2>4, <2>5
<1>14. ASSUME NEW p \in Procs, FillAgain(p) PROVE ReadyInv'
  <2>1. file' = proc[p].got /\ touched' = touched /\ proc[p].at = "context"
    BY <1>14 DEF FillAgain
  <2>2. /\ \A q \in Procs \ {p} : proc'[q] = proc[q]
        /\ proc'[p].plan = Tail(proc[p].plan) /\ proc'[p].at = "out"
        /\ proc[p].plan \in Seq(Items) /\ proc[p].plan # <<>>
    BY <1>14, <2>1, LockEffect DEF TypeInv, ProcInv
  <2>3. Live(p)' /\ proc'[p].at \notin Writing
    BY <2>2 DEF Writing
  <2>4. Starts(plan') \subseteq Starts(plan) /\ Writes(plan') \subseteq Writes(plan)
    BY <1>6, <2>2, TailRange
  <2>5. ASSUME NEW n \in Starts(plan), ~ robbed, ~ spilled', touched' \cap DependsOn[n] = {},
               file'.status # Gone
        PROVE  Keeps(file'.nodes, n, Writes(plan))
    BY <1>0, <1>1, <2>1, <2>5 DEF Lets, Writing
  <2> HIDE DEF plan, Live
  <2> QED BY <1>2, <2>1, <2>2, <2>3, <2>4, <2>5
<1>12. CASE UNCHANGED vars
  BY <1>12 DEF vars, ReadyInv, Lets, Item
<1> QED BY <1>4, <1>5, <1>7, <1>8, <1>9, <1>10, <1>11, <1>12, <1>13, <1>14
        DEF Next, Step, Update

(* The runner starts a node only while its dependencies satisfy its trigger
   rule, for any graph and any interleaving with aborts, pauses, restarts, other
   processes' deaths and the wave's own earlier nodes, as long as no start has
   written a stale copy of the file.                                         *)
THEOREM WavesStartReadyNodes == Spec => []StartsReady
<1>1. Init => LockInv /\ PruneInv /\ ReadyInv
  <2>1. Starts(<<>>) = {}
    BY DEF Range, Starts
  <2>2. Runner \in Procs
    BY DEF Procs
  <2> QED BY <2>1, <2>2 DEF Init, LockInv, PruneInv, ReadyInv, PrunedIsArchived, Carrying, Writing, Inside, Resting, Started, Nothing, Gone
<1>2. TypeInv /\ ReadyInv => StartsReady
  <2> SUFFICES ASSUME TypeInv, ReadyInv, ~ robbed, ~ spilled, proc[Runner].at = "fill", Item(Runner).to = "running",
                      NEW n \in Item(Runner).ns, touched \cap DependsOn[n] = {}
               PROVE  DepsMet(proc[Runner].got.nodes, n)
    BY DEF StartsReady
  <2>1. Runner \in Procs /\ proc[Runner].plan \in Seq(Items) /\ proc[Runner].plan # <<>>
    BY DEF Procs, TypeInv, ProcInv
  <2>2. Item(Runner) \in Range(proc[Runner].plan) /\ Item(Runner) \in Items
    BY <2>1, TailRange, RangeType DEF Item
  <2>3. n \in Starts(proc[Runner].plan) /\ Item(Runner).op = "set"
    BY <2>2 DEF Starts, Items
  <2>4. Keeps(proc[Runner].got.nodes, n, Writes(proc[Runner].plan))
    BY <2>1, <2>3 DEF ReadyInv, Lets, Writing
  <2> QED BY <2>4, KeepsMeets
<1> QED BY <1>1, <1>2, InitTypeInv, NextTypeInv, NextLock, NextPrune, NextReady, PTL DEF Spec
=============================================================================
