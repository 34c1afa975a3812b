----------------------------- MODULE HookProofs -----------------------------
(***************************************************************************)
(* Proofs about HookQueue, for any finite set of records, any set of       *)
(* draining processes, any cap and any number of faults.                   *)
(***************************************************************************)
EXTENDS HookQueue, FiniteSetTheorems, SequenceTheorems, WellFoundedInduction, TLAPS

-----------------------------------------------------------------------------
(* The order of the rotated files.                                          *)

(* Every non-empty set of naturals has a least element. *)
LEMMA LeastElement ==
    ASSUME NEW S \in SUBSET Nat, S # {}
    PROVE  \E m \in S : \A k \in S : m <= k
<1>1. PICK m \in S : \A k \in S : ~ <<k, m>> \in OpToRel(<, Nat)
  BY NatLessThanWellFounded, WFMin
<1>2. \A k \in S : ~ (k < m)
  BY <1>1 DEF OpToRel
<1> QED BY <1>2

(* u[f] lists the files of S up to f. *)
Piece(S, f) == IF f \in S THEN <<f>> ELSE <<>>
Lists(u, S, m) == u = [f \in 0..m |-> IF f = 0 THEN <<>> ELSE u[f - 1] \o Piece(S, f)]

(* The recursive function that lists the files of a set exists. *)
LEMMA ListExists ==
    ASSUME NEW S, NEW L \in Nat
    PROVE  \E u : Lists(u, S, L)
<1> DEFINE Bad == {m \in 0..L : ~ \E u : Lists(u, S, m)}
<1>0. Bad \in SUBSET Nat /\ L \in 0..L
  OBVIOUS
<1> SUFFICES ASSUME Bad # {} PROVE FALSE
  BY <1>0
<1>1. PICK m \in Bad : \A k \in Bad : m <= k
  <2> HIDE DEF Bad
  <2> QED BY <1>0, LeastElement
<1>2. m \in 0..L /\ ~ \E u : Lists(u, S, m)
  OBVIOUS
<1>3. CASE m = 0
  <2> DEFINE u == [i \in 0..0 |-> <<>>]
  <2>1. Lists(u, S, 0)
    BY DEF Lists
  <2> QED BY <1>2, <1>3, <2>1
<1>4. CASE m > 0
  <2>1. m - 1 \in 0..L /\ m - 1 \notin Bad
    <3>1. m - 1 \in 0..L /\ ~ (m <= m - 1)
      BY <1>2, <1>4
    <3> HIDE DEF Bad
    <3> QED BY <1>1, <3>1
  <2>2. PICK u : Lists(u, S, m - 1)
    BY <2>1
  <2> DEFINE v == [i \in 0..m |-> IF i = m THEN u[m - 1] \o Piece(S, m) ELSE u[i]]
  <2>3. ASSUME NEW i \in 0..m PROVE v[i] = IF i = 0 THEN <<>> ELSE v[i - 1] \o Piece(S, i)
    <3>1. CASE i = m
      <4>1. m - 1 \in 0..m /\ m - 1 # m /\ m \in 0..m /\ m # 0
        BY <1>2, <1>4
      <4> QED BY <3>1, <4>1
    <3>2. CASE i # m
      <4>1. i \in 0..(m - 1) /\ v[i] = u[i]
        BY <1>2, <1>4, <3>2
      <4>2. i # 0 => i - 1 \in 0..m /\ i - 1 # m /\ v[i - 1] = u[i - 1]
        BY <1>2, <1>4, <4>1
      <4> HIDE DEF v
      <4> QED BY <2>2, <4>1, <4>2 DEF Lists
    <3> QED BY <3>1, <3>2
  <2>4. Lists(v, S, m)
    BY <2>3 DEF Lists
  <2> QED BY <1>2, <2>4
<1> QED BY <1>2, <1>3, <1>4

(* The files listed up to m are files of S up to m, in ascending order. *)
Ascending(s, S, m) ==
    /\ s \in Seq(S \cap (1..m))
    /\ \A i, j \in 1..Len(s) : i < j => s[i] < s[j]

(* What it lists is in ascending order: a drain takes the oldest file first. *)
LEMMA ListsAscend ==
    ASSUME NEW S, NEW L \in Nat, NEW u, Lists(u, S, L)
    PROVE  Ascending(u[L], S, L)
<1> DEFINE Bad == {m \in 0..L : ~ Ascending(u[m], S, m)}
<1>0. Bad \in SUBSET Nat /\ L \in 0..L
  OBVIOUS
<1> SUFFICES ASSUME Bad # {} PROVE FALSE
  BY <1>0
<1>1. PICK m \in Bad : \A k \in Bad : m <= k
  <2> HIDE DEF Bad
  <2> QED BY <1>0, LeastElement
<1>2. m \in 0..L /\ ~ Ascending(u[m], S, m)
  OBVIOUS
<1>3. m # 0
  BY <1>2, EmptySeq DEF Lists, Ascending
<1>4. m - 1 \in 0..L /\ m - 1 \notin Bad
  <2>1. m - 1 \in 0..L /\ ~ (m <= m - 1)
    BY <1>2, <1>3
  <2> HIDE DEF Bad
  <2> QED BY <1>1, <2>1
<1> DEFINE s == u[m - 1]
           T == S \cap (1..m)
<1>5. Ascending(s, S, m - 1)
  BY <1>4
<1>6. u[m] = s \o Piece(S, m)
  BY <1>2, <1>3 DEF Lists
<1>7. s \in Seq(T) /\ \A k \in 1..Len(s) : s[k] \in 1..(m - 1)
  <2>1. S \cap (1..(m - 1)) \subseteq T
    BY <1>2, <1>3
  <2> HIDE DEF s, T
  <2> QED BY <1>5, <2>1, SeqMonotonic, ElementOfSeq DEF Ascending
<1> HIDE DEF s
<1>8. CASE m \notin S
  <2>1. u[m] = s
    BY <1>6, <1>7, <1>8, ConcatEmptySeq DEF Piece
  <2> QED BY <1>2, <1>5, <1>7, <2>1 DEF Ascending
<1>9. CASE m \in S
  <2>1. m \in T /\ u[m] = s \o <<m>>
    BY <1>2, <1>3, <1>6, <1>9 DEF Piece
  <2>2. /\ u[m] \in Seq(T) /\ Len(u[m]) = Len(s) + 1 /\ Len(s) \in Nat
        /\ \A k \in 1..Len(s) : u[m][k] = s[k]
        /\ u[m][Len(s) + 1] = m
    <3>1. <<m>> \in Seq(T) /\ Len(<<m>>) = 1 /\ <<m>>[1] = m
      BY <2>1
    <3> HIDE DEF T
    <3> QED BY <1>7, <2>1, <3>1, ConcatProperties, LenProperties
  <2>3. ASSUME NEW i \in 1..Len(u[m]), NEW j \in 1..Len(u[m]), i < j PROVE u[m][i] < u[m][j]
    <3>1. i \in 1..Len(s) /\ u[m][i] = s[i]
      BY <2>2, <2>3
    <3>2. CASE j = Len(s) + 1
      <4>1. s[i] \in 1..(m - 1) /\ m \in Nat
        BY <1>2, <1>7, <3>1
      <4> QED BY <2>2, <3>1, <3>2, <4>1
    <3>3. CASE j # Len(s) + 1
      <4>0. j \in 1..Len(s)
        <5>1. PICK n \in Nat : n = Len(s) /\ Len(u[m]) = n + 1
          BY <2>2
        <5>2. j \in 1..(n + 1) /\ j # n + 1
          BY <3>3, <5>1
        <5>3. j \in 1..n
          BY <5>2
        <5> QED BY <5>1, <5>3
      <4>1. j \in 1..Len(s) /\ u[m][j] = s[j]
        BY <2>2, <4>0
      <4> QED BY <1>5, <2>3, <3>1, <4>1 DEF Ascending
    <3> QED BY <3>2, <3>3
  <2> QED BY <1>2, <2>2, <2>3 DEF Ascending
<1> QED BY <1>8, <1>9

(* The glob of a drain names files of S, each once. *)
LEMMA SortedType ==
    ASSUME NEW S \in SUBSET (1..made), made \in Nat
    PROVE  Sorted(S) \in Seq(S) /\ IsInjective(Sorted(S))
<1> DEFINE U == CHOOSE u : u = [f \in 0..made |-> IF f = 0 THEN <<>> ELSE u[f - 1] \o (IF f \in S THEN <<f>> ELSE <<>>)]
<1>1. Sorted(S) = U[made]
  BY DEF Sorted
<1>2. \A u : Lists(u, S, made) <=>
             u = [f \in 0..made |-> IF f = 0 THEN <<>> ELSE u[f - 1] \o (IF f \in S THEN <<f>> ELSE <<>>)]
  BY DEF Lists, Piece
<1>3. \E u : Lists(u, S, made)
  BY ListExists
<1>4. Lists(U, S, made)
  BY <1>2, <1>3
<1> HIDE DEF U
<1>5. Ascending(U[made], S, made) /\ S \cap (1..made) = S
  BY <1>4, ListsAscend
<1>6. Sorted(S) \in Seq(S) /\ \A i, j \in 1..Len(Sorted(S)) : i < j => Sorted(S)[i] < Sorted(S)[j]
  BY <1>1, <1>5 DEF Ascending
<1> HIDE DEF Sorted
<1>7. PICK s : s = Sorted(S)
  OBVIOUS
<1>8. s \in Seq(S) /\ \A i, j \in 1..Len(s) : i < j => s[i] < s[j]
  BY <1>6, <1>7
<1>9. Len(s) \in Nat /\ DOMAIN s = 1..Len(s)
  BY <1>8, LenProperties
<1>10. \A i \in 1..Len(s) : s[i] \in Nat
  <2>1. S \subseteq Nat
    OBVIOUS
  <2>2. \A i \in 1..Len(s) : s[i] \in S
    BY <1>8, ElementOfSeq
  <2> QED BY <2>1, <2>2
<1>11. IsInjective(s)
  <2> SUFFICES ASSUME NEW i \in 1..Len(s), NEW j \in 1..Len(s), s[i] = s[j], i # j PROVE FALSE
    BY <1>9 DEF IsInjective
  <2>1. CASE i < j
    BY <1>8, <1>10, <2>1
  <2>2. CASE j < i
    BY <1>8, <1>10, <2>2
  <2> QED BY <1>9, <2>1, <2>2
<1> QED BY <1>7, <1>8, <1>11

-----------------------------------------------------------------------------
(* The invariants.                                                          *)

Begun == {r \in Records : writer[r].pc # "new"}

WriterInv ==
    /\ made \in Nat /\ made <= Cardinality(Begun) /\ live \in 0..made
    /\ writer \in [Records -> [pc : {"new", "open", "done"}, file : 0..made]]
    /\ \A r \in Records : writer[r].pc = "open" => writer[r].file \in 1..made

(* A drain names rotated files only, each once. *)
DrainerInv ==
    /\ drainer \in [Drainers -> [pc : {"idle", "rename", "next", "read", "unlink"},
                                 paths : Seq(1..made), pos : Nat, processed : Nat]]
    /\ \A d \in Drainers :
        /\ IsInjective(drainer[d].paths)
        /\ live \notin Range(drainer[d].paths)
        /\ drainer[d].pc \in {"read", "unlink"} => drainer[d].paths # <<>>
        /\ drainer[d].pc = "read" => drainer[d].pos <= Len(content[Head(drainer[d].paths)])

TypeInv ==
    /\ WriterInv /\ DrainerInv
    /\ content \in [Files -> Seq(Line)]
    /\ linked \subseteq 1..made /\ live \notin linked
    /\ count \in [Records -> 0..2] /\ late \subseteq Records
    /\ crossed \in BOOLEAN /\ faults \in 0..MaxFaults
    /\ unread \subseteq Records /\ stuck \subseteq 1..made

(* Lines are numbered; a record has one line at most, in a file that exists. *)
IsLine(f, i) == f \in Files /\ i \in 1..Len(content[f])

LineInv ==
    /\ \A f, i : IsLine(f, i) => f <= made /\ writer[content[f][i].record].pc = "done"
    /\ \A f, i, g, j : IsLine(f, i) /\ IsLine(g, j) /\ content[f][i].record = content[g][j].record =>
                           f = g /\ i = j

(* A line that parses, was written before its file was renamed and was not left
   behind by a read that failed.                                             *)
Due(f, i) == IsLine(f, i) /\ Parses(f, i) /\ content[f][i].record \notin late \cup unread

(* A line that is due was handled, or its file has a name; a drain has handled
   the lines it has passed, and unlinks a file when no line of it is due.    *)
LossInv ==
    /\ \A f, i : Due(f, i) => count[content[f][i].record] > 0 \/ f \in linked \/ f = live
    /\ \A d \in Drainers : drainer[d].pc = "read" =>
        LET f == Head(drainer[d].paths)
        IN  \A i \in 1..drainer[d].pos : Parses(f, i) => count[content[f][i].record] > 0
    /\ \A d \in Drainers : drainer[d].pc = "unlink" =>
        LET f == Head(drainer[d].paths)
        IN  \A i : Due(f, i) => count[content[f][i].record] > 0

(* A handled line is behind the drain that reads its file, or in a file that is
   about to be unlinked, or in one that no drain will find.                  *)
Behind(f, i) ==
    \/ f \notin linked /\ f # live
    \/ \E d \in Drainers : /\ drainer[d].paths # <<>> /\ Head(drainer[d].paths) = f
                           /\ \/ drainer[d].pc = "read" /\ i <= drainer[d].pos
                              \/ drainer[d].pc = "unlink"

(* A line of the record is in a file whose unlink failed. *)
Again(r) == \E f \in stuck : \E i : IsLine(f, i) /\ content[f][i].record = r

(* As long as drains neither overlap nor die. *)
OnceInv ==
    \/ crossed
    \/ /\ \A d, e \in Drainers : drainer[d].pc # "idle" /\ drainer[e].pc # "idle" => d = e
       /\ \A d \in Drainers : drainer[d].pc \in {"read", "unlink"} => Head(drainer[d].paths) \in linked
       /\ \A r \in Records : (count[r] <= 1 \/ Again(r)) /\ (count[r] > 0 => writer[r].pc = "done")
       /\ \A f, i : IsLine(f, i) /\ count[content[f][i].record] > 0 => Behind(f, i) \/ f \in stuck

-----------------------------------------------------------------------------
(* What the steps do.                                                       *)

Drains == [pc : {"idle", "rename", "next", "read", "unlink"}, paths : Seq(1..made), pos : Nat, processed : Nat]

(* There is room for every file that is made. *)
LEMMA FilesMade ==
    ASSUME TypeInv
    PROVE  1..made \subseteq Files /\ Cardinality(Records) \in Nat
<1>1. IsFiniteSet(Records) /\ Begun \subseteq Records
  BY QueueAssumption DEF Begun
<1>2. Cardinality(Begun) <= Cardinality(Records) /\ Cardinality(Records) \in Nat /\ Cardinality(Begun) \in Nat
  BY <1>1, FS_Subset, FS_CardinalityType
<1> QED BY <1>2 DEF TypeInv, WriterInv, Files

(* A writer opens the live file or makes the next one. *)
LEMMA OpenEffect ==
    ASSUME TypeInv, NEW r \in Records, Open(r)
    PROVE  /\ WriterInv'
           /\ writer'[r].pc = "open" /\ \A q \in Records \ {r} : writer'[q] = writer[q]
           /\ \/ made' = made /\ live' = live
              \/ made' = made + 1 /\ live' = made + 1
<1> USE DEF TypeInv, WriterInv
<1>1. /\ \/ made' = made /\ live' = live /\ live # NoFile
         \/ made' = made + 1 /\ live' = made + 1
      /\ live' \in 1..made' /\ made' \in Nat /\ made <= made'
  BY DEF Open, NoFile
<1>2. /\ writer'[r] = [pc |-> "open", file |-> live']
      /\ \A q \in Records \ {r} : writer'[q] = writer[q]
      /\ writer' \in [Records -> [pc : {"new", "open", "done"}, file : 0..made']]
  <2>1. writer' = [writer EXCEPT ![r] = [pc |-> "open", file |-> live']]
    BY DEF Open
  <2>2. [pc |-> "open", file |-> live'] \in [pc : {"new", "open", "done"}, file : 0..made']
    BY <1>1
  <2>3. \A q \in Records : writer[q] \in [pc : {"new", "open", "done"}, file : 0..made']
    BY <1>1
  <2> QED BY <2>1, <2>2, <2>3
<1>3. writer'[r].pc = "open" /\ writer'[r].file \in 1..made'
  BY <1>1, <1>2
<1>4. Begun' = Begun \cup {r} /\ r \notin Begun
  BY <1>2, <1>3 DEF Begun, Open
<1>5. IsFiniteSet(Begun)
  BY QueueAssumption, FS_Subset DEF Begun
<1>6. Cardinality(Begun') = Cardinality(Begun) + 1 /\ Cardinality(Begun) \in Nat
  BY <1>4, <1>5, FS_AddElement, FS_CardinalityType
<1>7. made' <= Cardinality(Begun')
  BY <1>1, <1>6
<1>8. \A q \in Records : writer'[q].pc = "open" => writer'[q].file \in 1..made'
  BY <1>1, <1>2, <1>3
<1> QED BY <1>1, <1>2, <1>3, <1>7, <1>8

(* One line is appended, to the file the writer has open. *)
LEMMA WriteEffect ==
    ASSUME TypeInv, NEW r \in Records, Write(r)
    PROVE  /\ WriterInv'
           /\ writer[r].pc = "open" /\ writer'[r].pc = "done"
           /\ \A q \in Records \ {r} : writer'[q] = writer[q]
           /\ \E f \in 1..made, line \in Line :
                /\ line.record = r /\ content' = [content EXCEPT ![f] = Append(@, line)]
                /\ late' = IF f = live THEN late ELSE late \cup {r}
           /\ faults' \in 0..MaxFaults
<1> USE DEF TypeInv, WriterInv
<1>1. writer[r].pc = "open" /\ writer[r].file \in 1..made
  BY DEF Write
<1>2. /\ writer'[r] = [writer[r] EXCEPT !.pc = "done"]
      /\ \A q \in Records \ {r} : writer'[q] = writer[q]
      /\ writer' \in [Records -> [pc : {"new", "open", "done"}, file : 0..made]]
  BY DEF Write
<1>3. writer'[r].pc = "done"
  BY <1>2
<1>4. Begun' = Begun /\ UNCHANGED <<made, live>>
  BY <1>1, <1>2, <1>3 DEF Begun, Write
<1>5. PICK whole \in BOOLEAN :
        /\ ~ whole => faults > 0
        /\ faults' = IF whole THEN faults ELSE faults - 1
        /\ content' = [content EXCEPT ![writer[r].file] = Append(@, [record |-> r, whole |-> whole])]
  BY DEF Write
<1>6. [record |-> r, whole |-> whole] \in Line /\ [record |-> r, whole |-> whole].record = r
  BY DEF Line
<1>7. faults' \in 0..MaxFaults
  BY <1>5, QueueAssumption
<1>8. late' = IF writer[r].file = live THEN late ELSE late \cup {r}
  BY DEF Write
<1> QED BY <1>1, <1>2, <1>3, <1>4, <1>5, <1>6, <1>7, <1>8

(* What a drain's step does to the drain: it goes on to pc, paths and pos. *)
LEMMA DrainEffect ==
    ASSUME TypeInv, NEW d \in Drainers
    PROVE  /\ StartDrain(d) => /\ drainer[d].pc = "idle" /\ drainer'[d].pc \in {"next", "rename"}
                               /\ drainer'[d].paths = Sorted(linked)
           /\ Rename(d) => /\ drainer'[d].pc = "next"
                           /\ drainer'[d].paths =
                                IF live = NoFile THEN drainer[d].paths ELSE Append(drainer[d].paths, live)
           /\ NextFile(d) => \/ drainer'[d] = Idle
                             \/ /\ drainer'[d].pc = "read" /\ drainer'[d].paths = drainer[d].paths
                                /\ drainer[d].paths # <<>> /\ Head(drainer[d].paths) \in linked
                                /\ drainer'[d].pos = 0
                             \/ /\ drainer'[d].pc = "next" /\ drainer[d].paths # <<>>
                                /\ drainer'[d].paths = Tail(drainer[d].paths)
           /\ HandleRecord(d) => /\ drainer'[d].pc = "read" /\ drainer'[d].paths = drainer[d].paths
                                 /\ drainer'[d].pos = drainer[d].pos + 1
           /\ EndOfFile(d) => drainer'[d].pc = "unlink" /\ drainer'[d].paths = drainer[d].paths
           /\ Unlink(d) => drainer'[d].pc = "next" /\ drainer'[d].paths = Tail(drainer[d].paths)
           /\ RenameFault(d) => drainer'[d].pc = "next" /\ drainer'[d].paths = drainer[d].paths
           /\ ReadFault(d) => drainer'[d].pc = "unlink" /\ drainer'[d].paths = drainer[d].paths
           /\ UnlinkFault(d) => drainer'[d].pc = "next" /\ drainer'[d].paths = Tail(drainer[d].paths)
           /\ Die(d) => drainer'[d] = Idle
           /\ Drain(d) \/ Fault(d) =>
                /\ \A e \in Drainers \ {d} : drainer'[e] = drainer[e]
                /\ drainer' \in [Drainers -> Drains] /\ made' = made
<1>0. drainer \in [Drainers -> Drains] /\ drainer[d] \in Drains /\ made \in Nat /\ live \in 0..made
  BY DEF TypeInv, DrainerInv, WriterInv, Drains
<1>1. Idle \in Drains
  BY EmptySeq DEF Idle, Drains
<1>2. Sorted(linked) \in Seq(1..made)
  <2>1. Sorted(linked) \in Seq(linked)
    BY <1>0, SortedType DEF TypeInv
  <2> QED BY <2>1, SeqMonotonic DEF TypeInv
<1>3. ASSUME drainer[d].paths # <<>> PROVE Tail(drainer[d].paths) \in Seq(1..made)
  <2>1. drainer[d].paths \in Seq(1..made)
    BY <1>0 DEF Drains
  <2> QED BY <1>3, <2>1, HeadTailProperties
<1>4. ASSUME NEW new \in Drains, drainer' = [drainer EXCEPT ![d] = new]
      PROVE  /\ drainer'[d] = new /\ \A e \in Drainers \ {d} : drainer'[e] = drainer[e]
             /\ drainer' \in [Drainers -> Drains]
  BY <1>0, <1>4
<1>10. ASSUME StartDrain(d)
       PROVE  /\ drainer[d].pc = "idle" /\ drainer'[d].pc \in {"next", "rename"}
              /\ drainer'[d].paths = Sorted(linked)
              /\ \A e \in Drainers \ {d} : drainer'[e] = drainer[e]
              /\ drainer' \in [Drainers -> Drains]
  <2>1. PICK pc \in {"next", "rename"} :
            drainer' = [drainer EXCEPT ![d] = [Idle EXCEPT !.pc = pc, !.paths = Sorted(linked)]]
    BY <1>10 DEF StartDrain
  <2> DEFINE new == [Idle EXCEPT !.pc = pc, !.paths = Sorted(linked)]
  <2>2. new \in Drains /\ new.pc = pc /\ new.paths = Sorted(linked)
    <3>1. PICK s \in Seq(1..made) : s = Sorted(linked)
      BY <1>2
    <3>2. LET n == [Idle EXCEPT !.pc = pc, !.paths = s] IN n \in Drains /\ n.pc = pc /\ n.paths = s
      BY <1>1 DEF Drains
    <3> QED BY <3>1, <3>2
  <2> HIDE DEF new
  <2>3. drainer' = [drainer EXCEPT ![d] = new]
    BY <2>1 DEF new
  <2>4. /\ drainer'[d] = new
        /\ \A e \in Drainers \ {d} : drainer'[e] = drainer[e]
        /\ drainer' \in [Drainers -> Drains]
    BY <1>4, <2>2, <2>3
  <2> QED BY <1>10, <2>2, <2>4 DEF StartDrain
<1>11. ASSUME Rename(d)
       PROVE  /\ drainer'[d].pc = "next"
              /\ drainer'[d].paths = IF live = NoFile THEN drainer[d].paths ELSE Append(drainer[d].paths, live)
              /\ \A e \in Drainers \ {d} : drainer'[e] = drainer[e]
              /\ drainer' \in [Drainers -> Drains]
  <2> DEFINE paths == IF live = NoFile THEN drainer[d].paths ELSE Append(drainer[d].paths, live)
  <2>1. paths \in Seq(1..made)
    <3>1. drainer[d].paths \in Seq(1..made)
      BY <1>0 DEF Drains
    <3>2. CASE live # NoFile
      <4>1. live \in 1..made
        BY <1>0, <3>2 DEF NoFile
      <4> QED BY <3>1, <3>2, <4>1, AppendProperties
    <3> QED BY <3>1, <3>2
  <2>2. drainer' = [drainer EXCEPT ![d] = [drainer[d] EXCEPT !.pc = "next", !.paths = paths]]
    BY <1>0, <1>11 DEF Rename
  <2> HIDE DEF paths
  <2>3. [drainer[d] EXCEPT !.pc = "next", !.paths = paths] \in Drains
    BY <1>0, <2>1 DEF Drains
  <2>4. /\ drainer'[d] = [drainer[d] EXCEPT !.pc = "next", !.paths = paths]
        /\ \A e \in Drainers \ {d} : drainer'[e] = drainer[e]
        /\ drainer' \in [Drainers -> Drains]
    BY <1>4, <2>2, <2>3
  <2>5. drainer'[d].pc = "next" /\ drainer'[d].paths = paths
    BY <1>0, <2>4 DEF Drains
  <2> QED BY <2>4, <2>5 DEF paths
<1>12. ASSUME NextFile(d)
       PROVE  /\ \/ drainer'[d] = Idle
                 \/ /\ drainer'[d].pc = "read" /\ drainer'[d].paths = drainer[d].paths
                    /\ drainer[d].paths # <<>> /\ Head(drainer[d].paths) \in linked
                    /\ drainer'[d].pos = 0
                 \/ /\ drainer'[d].pc = "next" /\ drainer[d].paths # <<>>
                    /\ drainer'[d].paths = Tail(drainer[d].paths)
              /\ \A e \in Drainers \ {d} : drainer'[e] = drainer[e]
              /\ drainer' \in [Drainers -> Drains]
  <2> DEFINE me == drainer[d]
  <2>1. \/ drainer' = [drainer EXCEPT ![d] = Idle]
        \/ /\ me.paths # <<>> /\ Head(me.paths) \in linked
           /\ drainer' = [drainer EXCEPT ![d] = [me EXCEPT !.pc = "read", !.pos = 0]]
        \/ /\ me.paths # <<>> /\ me.pc = "next"
           /\ drainer' = [drainer EXCEPT ![d] = [me EXCEPT !.paths = Tail(@)]]
    BY <1>12 DEF NextFile
  <2>2. CASE drainer' = [drainer EXCEPT ![d] = Idle]
    BY <1>1, <1>4, <2>2
  <2>3. CASE /\ me.paths # <<>> /\ Head(me.paths) \in linked
             /\ drainer' = [drainer EXCEPT ![d] = [me EXCEPT !.pc = "read", !.pos = 0]]
    <3>1. /\ [me EXCEPT !.pc = "read", !.pos = 0] \in Drains
          /\ [me EXCEPT !.pc = "read", !.pos = 0].pc = "read"
          /\ [me EXCEPT !.pc = "read", !.pos = 0].pos = 0
          /\ [me EXCEPT !.pc = "read", !.pos = 0].paths = me.paths
      BY <1>0 DEF Drains
    <3> QED BY <1>4, <2>3, <3>1
  <2>4. CASE /\ me.paths # <<>> /\ me.pc = "next"
             /\ drainer' = [drainer EXCEPT ![d] = [me EXCEPT !.paths = Tail(@)]]
    <3>1. /\ [me EXCEPT !.paths = Tail(@)] \in Drains
          /\ [me EXCEPT !.paths = Tail(@)].pc = "next"
          /\ [me EXCEPT !.paths = Tail(@)].paths = Tail(me.paths)
      BY <1>0, <1>3, <2>4 DEF Drains
    <3> QED BY <1>4, <2>4, <3>1
  <2> QED BY <2>1, <2>2, <2>3, <2>4
<1>13. ASSUME HandleRecord(d)
       PROVE  /\ drainer'[d].pc = "read" /\ drainer'[d].paths = drainer[d].paths
              /\ drainer'[d].pos = drainer[d].pos + 1
              /\ \A e \in Drainers \ {d} : drainer'[e] = drainer[e]
              /\ drainer' \in [Drainers -> Drains]
  <2> DEFINE me == drainer[d]
             n == IF Parses(Head(me.paths), me.pos + 1) /\ me.processed < MaxPerDrain
                  THEN me.processed + 1 ELSE me.processed
  <2>1. n \in Nat
    BY <1>0 DEF Drains
  <2>2. me.pc = "read" /\ drainer' = [drainer EXCEPT ![d] = [me EXCEPT !.pos = me.pos + 1, !.processed = n]]
    BY <1>0, <1>13 DEF HandleRecord
  <2>4. me.pos + 1 \in Nat
    BY <1>0 DEF Drains
  <2> HIDE DEF n
  <2>3. /\ [me EXCEPT !.pos = me.pos + 1, !.processed = n] \in Drains
        /\ [me EXCEPT !.pos = me.pos + 1, !.processed = n].pc = "read"
        /\ [me EXCEPT !.pos = me.pos + 1, !.processed = n].pos = me.pos + 1
        /\ [me EXCEPT !.pos = me.pos + 1, !.processed = n].paths = me.paths
    BY <1>0, <2>1, <2>2, <2>4 DEF Drains
  <2> QED BY <1>4, <2>2, <2>3
<1>14. ASSUME EndOfFile(d)
       PROVE  /\ drainer'[d].pc = "unlink" /\ drainer'[d].paths = drainer[d].paths
              /\ \A e \in Drainers \ {d} : drainer'[e] = drainer[e]
              /\ drainer' \in [Drainers -> Drains]
  <2>1. drainer' = [drainer EXCEPT ![d] = [drainer[d] EXCEPT !.pc = "unlink", !.pos = 0]]
    BY <1>0, <1>14 DEF EndOfFile
  <2>2. /\ [drainer[d] EXCEPT !.pc = "unlink", !.pos = 0] \in Drains
        /\ [drainer[d] EXCEPT !.pc = "unlink", !.pos = 0].pc = "unlink"
        /\ [drainer[d] EXCEPT !.pc = "unlink", !.pos = 0].paths = drainer[d].paths
    BY <1>0 DEF Drains
  <2> QED BY <1>4, <2>1, <2>2
<1>15. ASSUME Unlink(d)
       PROVE  /\ drainer'[d].pc = "next" /\ drainer'[d].paths = Tail(drainer[d].paths)
              /\ \A e \in Drainers \ {d} : drainer'[e] = drainer[e]
              /\ drainer' \in [Drainers -> Drains]
  <2>1. drainer' = [drainer EXCEPT ![d] = [drainer[d] EXCEPT !.pc = "next", !.paths = Tail(@)]]
    BY <1>0, <1>15 DEF Unlink
  <2>2. drainer[d].paths # <<>>
    BY <1>15 DEF Unlink, TypeInv, DrainerInv
  <2>3. /\ [drainer[d] EXCEPT !.pc = "next", !.paths = Tail(@)] \in Drains
        /\ [drainer[d] EXCEPT !.pc = "next", !.paths = Tail(@)].pc = "next"
        /\ [drainer[d] EXCEPT !.pc = "next", !.paths = Tail(@)].paths = Tail(drainer[d].paths)
    BY <1>0, <1>3, <2>2 DEF Drains
  <2> QED BY <1>4, <2>1, <2>3
<1>16. ASSUME Die(d)
       PROVE  /\ drainer'[d] = Idle
              /\ \A e \in Drainers \ {d} : drainer'[e] = drainer[e]
              /\ drainer' \in [Drainers -> Drains]
  BY <1>1, <1>4, <1>16 DEF Die
<1>17. ASSUME RenameFault(d)
       PROVE  /\ drainer'[d].pc = "next" /\ drainer'[d].paths = drainer[d].paths
              /\ \A e \in Drainers \ {d} : drainer'[e] = drainer[e]
              /\ drainer' \in [Drainers -> Drains]
  <2>1. drainer' = [drainer EXCEPT ![d] = [drainer[d] EXCEPT !.pc = "next"]]
    BY <1>0, <1>17 DEF RenameFault
  <2>2. /\ [drainer[d] EXCEPT !.pc = "next"] \in Drains
        /\ [drainer[d] EXCEPT !.pc = "next"].pc = "next"
        /\ [drainer[d] EXCEPT !.pc = "next"].paths = drainer[d].paths
    BY <1>0 DEF Drains
  <2> QED BY <1>4, <2>1, <2>2
<1>18. ASSUME ReadFault(d)
       PROVE  /\ drainer'[d].pc = "unlink" /\ drainer'[d].paths = drainer[d].paths
              /\ \A e \in Drainers \ {d} : drainer'[e] = drainer[e]
              /\ drainer' \in [Drainers -> Drains]
  <2>1. drainer' = [drainer EXCEPT ![d] = [drainer[d] EXCEPT !.pc = "unlink", !.pos = 0]]
    BY <1>0, <1>18 DEF ReadFault
  <2>2. /\ [drainer[d] EXCEPT !.pc = "unlink", !.pos = 0] \in Drains
        /\ [drainer[d] EXCEPT !.pc = "unlink", !.pos = 0].pc = "unlink"
        /\ [drainer[d] EXCEPT !.pc = "unlink", !.pos = 0].paths = drainer[d].paths
    BY <1>0 DEF Drains
  <2> QED BY <1>4, <2>1, <2>2
<1>19. ASSUME UnlinkFault(d)
       PROVE  /\ drainer'[d].pc = "next" /\ drainer'[d].paths = Tail(drainer[d].paths)
              /\ \A e \in Drainers \ {d} : drainer'[e] = drainer[e]
              /\ drainer' \in [Drainers -> Drains]
  <2>1. drainer' = [drainer EXCEPT ![d] = [drainer[d] EXCEPT !.pc = "next", !.paths = Tail(@)]]
    BY <1>0, <1>19 DEF UnlinkFault
  <2>2. drainer[d].paths # <<>>
    BY <1>19 DEF UnlinkFault, TypeInv, DrainerInv
  <2>3. /\ [drainer[d] EXCEPT !.pc = "next", !.paths = Tail(@)] \in Drains
        /\ [drainer[d] EXCEPT !.pc = "next", !.paths = Tail(@)].pc = "next"
        /\ [drainer[d] EXCEPT !.pc = "next", !.paths = Tail(@)].paths = Tail(drainer[d].paths)
    BY <1>0, <1>3, <2>2 DEF Drains
  <2> QED BY <1>4, <2>1, <2>3
<1>20. Drain(d) \/ Fault(d) => made' = made
  BY DEF Drain, StartDrain, Rename, NextFile, HandleRecord, EndOfFile, Unlink, Fault, RenameFault, ReadFault, UnlinkFault, Die
<1> QED BY <1>10, <1>11, <1>12, <1>13, <1>14, <1>15, <1>16, <1>17, <1>18, <1>19, <1>20 DEF Drain, Fault

(* The appended line is the only new one, and the others stay as they were. *)
LEMMA WriteLines ==
    ASSUME TypeInv, NEW f \in 1..made, NEW line \in Line, content' = [content EXCEPT ![f] = Append(@, line)]
    PROVE  /\ content' \in [Files -> Seq(Line)]
           /\ \A g \in Files : Len(content[g]) <= Len(content'[g])
           /\ \A g, i : IsLine(g, i) => /\ IsLine(g, i)' /\ content'[g][i] = content[g][i]
                                        /\ Parses(g, i)' = Parses(g, i)
           /\ \A g, i : IsLine(g, i)' /\ ~ IsLine(g, i) =>
                            g = f /\ i = Len(content[f]) + 1 /\ content'[g][i] = line
<1>1. f \in Files /\ content \in [Files -> Seq(Line)]
  BY FilesMade DEF TypeInv
<1>2. content' \in [Files -> Seq(Line)]
  BY <1>1, AppendProperties
<1>3. \A g \in Files : g # f => content'[g] = content[g]
  BY <1>1
<1>4. PICK L \in Nat : L = Len(content[f])
  BY <1>1, LenProperties
<1>5. /\ Len(content'[f]) = L + 1 /\ content'[f][L + 1] = line
      /\ \A i \in 1..L : content'[f][i] = content[f][i]
  <2>1. content'[f] = Append(content[f], line) /\ content[f] \in Seq(Line)
    BY <1>1
  <2> QED BY <1>4, <2>1, AppendProperties
<1>6. \A g \in Files : Len(content[g]) \in Nat
  BY <1>1, LenProperties
<1>7. ASSUME NEW g, NEW i, IsLine(g, i)
      PROVE  /\ IsLine(g, i)' /\ content'[g][i] = content[g][i]
             /\ Parses(g, i)' = Parses(g, i)
  <2>1. g \in Files /\ i \in 1..Len(content[g])
    BY <1>7 DEF IsLine
  <2>2. /\ content'[g][i] = content[g][i] /\ i \in 1..Len(content'[g])
        /\ i > 1 => content'[g][i - 1] = content[g][i - 1]
    <3>1. CASE g = f
      BY <1>4, <1>5, <2>1, <3>1
    <3>2. CASE g # f
      BY <1>3, <2>1, <3>2
    <3> QED BY <3>1, <3>2
  <2> QED BY <2>1, <2>2 DEF IsLine, Parses, Files
<1>8. ASSUME NEW g, NEW i, IsLine(g, i)', ~ IsLine(g, i)
      PROVE  g = f /\ i = Len(content[f]) + 1 /\ content'[g][i] = line
  <2>1. g \in Files /\ i \in 1..Len(content'[g]) /\ i \notin 1..Len(content[g])
    BY <1>8 DEF IsLine, Files
  <2>2. g = f
    BY <1>3, <2>1
  <2> QED BY <1>4, <1>5, <2>1, <2>2
<1>9. \A g \in Files : Len(content[g]) <= Len(content'[g])
  BY <1>3, <1>4, <1>5, <1>6
<1> QED BY <1>2, <1>7, <1>8, <1>9

(* A list without its head, and one with a new last element. *)
LEMMA ListChanges ==
    ASSUME NEW T, NEW s \in Seq(T), IsInjective(s)
    PROVE  /\ s # <<>> => IsInjective(Tail(s)) /\ Range(Tail(s)) \subseteq Range(s)
           /\ s # <<>> => Head(s) \in Range(s) /\ Range(s) \subseteq T
           /\ \A x \in T : x \notin Range(s) => IsInjective(Append(s, x)) /\ Range(Append(s, x)) = Range(s) \cup {x}
<1>1. PICK L \in Nat : L = Len(s) /\ DOMAIN s = 1..L
  BY LenProperties
<1>2. ASSUME s # <<>> PROVE IsInjective(Tail(s)) /\ Range(Tail(s)) \subseteq Range(s)
  <2>1. Tail(s) \in Seq(T) /\ Len(Tail(s)) = L - 1 /\ \A k \in 1..Len(Tail(s)) : Tail(s)[k] = s[k + 1]
    BY <1>1, <1>2, HeadTailProperties
  <2>2. DOMAIN Tail(s) = 1..(L - 1) /\ L # 0
    BY <1>1, <1>2, <2>1, LenProperties, EmptySeq
  <2>3. \A k \in 1..(L - 1) : k + 1 \in 1..L /\ Tail(s)[k] = s[k + 1]
    BY <2>1
  <2>4. IsInjective(Tail(s))
    <3> SUFFICES ASSUME NEW i \in 1..(L - 1), NEW j \in 1..(L - 1), Tail(s)[i] = Tail(s)[j] PROVE i = j
      BY <2>2 DEF IsInjective
    <3>1. i + 1 = j + 1
      BY <1>1, <2>3 DEF IsInjective
    <3> QED BY <3>1
  <2> QED BY <1>1, <2>2, <2>3, <2>4 DEF Range
<1>3. ASSUME s # <<>> PROVE Head(s) \in Range(s) /\ Range(s) \subseteq T
  BY <1>1, <1>3, HeadTailProperties, EmptySeq, ElementOfSeq DEF Range
<1>4. ASSUME NEW x \in T, x \notin Range(s)
      PROVE  IsInjective(Append(s, x)) /\ Range(Append(s, x)) = Range(s) \cup {x}
  <2>1. PICK t : t = Append(s, x)
    OBVIOUS
  <2>2. t \in Seq(T) /\ Len(t) = L + 1 /\ t[L + 1] = x /\ \A k \in 1..L : t[k] = s[k]
    BY <1>1, <2>1, AppendProperties
  <2>3. DOMAIN t = 1..(L + 1)
    BY <2>2, LenProperties
  <2>4. \A k \in 1..L : s[k] # x
    BY <1>1, <1>4 DEF Range
  <2>5. \A k \in 1..(L + 1) : k \in 1..L \/ k = L + 1
    OBVIOUS
  <2>6. IsInjective(t)
    BY <1>1, <2>2, <2>3, <2>4, <2>5 DEF IsInjective
  <2>7. Range(t) = Range(s) \cup {x}
    <3>1. \A k \in 1..L : k \in 1..(L + 1)
      OBVIOUS
    <3>2. L + 1 \in 1..(L + 1)
      OBVIOUS
    <3> QED BY <1>1, <2>2, <2>3, <2>5, <3>1, <3>2 DEF Range
  <2> QED BY <2>1, <2>6, <2>7
<1> QED BY <1>2, <1>3, <1>4

-----------------------------------------------------------------------------
(* Type correctness.                                                        *)

(* A step of a writer keeps the drains as they are. *)
LEMMA DrainersStay ==
    ASSUME TypeInv, drainer' = drainer, made' \in Nat, made <= made', live' = live \/ live' = made + 1,
           content' \in [Files -> Seq(Line)], \A g \in Files : Len(content[g]) <= Len(content'[g])
    PROVE  DrainerInv'
<1>1. 1..made \subseteq 1..made' /\ made \in Nat
  BY DEF TypeInv, WriterInv
<1>2. ASSUME NEW d \in Drainers
      PROVE  /\ drainer[d] \in [pc : {"idle", "rename", "next", "read", "unlink"},
                                paths : Seq(1..made'), pos : Nat, processed : Nat]
             /\ live' \notin Range(drainer[d].paths)
             /\ drainer[d].pc = "read" => drainer[d].pos <= Len(content'[Head(drainer[d].paths)])
  <2>1. /\ drainer[d] \in [pc : {"idle", "rename", "next", "read", "unlink"},
                           paths : Seq(1..made), pos : Nat, processed : Nat]
        /\ live \notin Range(drainer[d].paths)
        /\ drainer[d].pc \in {"read", "unlink"} => drainer[d].paths # <<>>
        /\ drainer[d].pc = "read" => drainer[d].pos <= Len(content[Head(drainer[d].paths)])
    BY DEF TypeInv, DrainerInv
  <2>2. Range(drainer[d].paths) \subseteq 1..made
    <3>1. PICK s \in Seq(1..made) : s = drainer[d].paths
      BY <2>1
    <3>2. \A k \in DOMAIN s : s[k] \in 1..made
      BY <3>1, LenProperties, ElementOfSeq
    <3> QED BY <3>1, <3>2 DEF Range
  <2>3. made + 1 \notin 1..made
    BY <1>1
  <2>4. drainer[d].paths \in Seq(1..made')
    BY <1>1, <2>1, SeqMonotonic
  <2>5. ASSUME drainer[d].pc = "read" PROVE drainer[d].pos <= Len(content'[Head(drainer[d].paths)])
    <3>1. PICK f : f = Head(drainer[d].paths)
      OBVIOUS
    <3>2. f \in Files
      BY <2>1, <2>5, <3>1, HeadTailProperties, FilesMade
    <3>3. content[f] \in Seq(Line) /\ Len(content[f]) \in Nat /\ Len(content[f]) <= Len(content'[f])
      BY <3>2, LenProperties DEF TypeInv
    <3>4. drainer[d].pos <= Len(content[f]) /\ drainer[d].pos \in Nat
      BY <2>1, <2>5, <3>1
    <3>5. Len(content'[f]) \in Nat
      BY <3>2, LenProperties
    <3> QED BY <3>1, <3>3, <3>4, <3>5
  <2> QED BY <2>1, <2>2, <2>3, <2>4, <2>5
<1> QED BY <1>2 DEF TypeInv, DrainerInv

(* A step of a drain keeps the drains well typed. *)
LEMMA DrainersMove ==
    ASSUME TypeInv, NEW d \in Drainers, Drain(d) \/ Fault(d)
    PROVE  DrainerInv'
<1>0. /\ \A e \in Drainers \ {d} : drainer'[e] = drainer[e]
      /\ drainer' \in [Drainers -> Drains] /\ made' = made /\ content' = content
      /\ made \in Nat /\ live \in 0..made /\ live' \in {live, NoFile}
  BY DrainEffect
     DEF TypeInv, WriterInv, Drain, StartDrain, Rename, NextFile, HandleRecord, EndOfFile, Unlink,
         Fault, RenameFault, ReadFault, UnlinkFault, Die
<1> DEFINE Fine(e) ==
        /\ IsInjective(drainer[e].paths)
        /\ live \notin Range(drainer[e].paths)
        /\ drainer[e].pc \in {"read", "unlink"} => drainer[e].paths # <<>>
        /\ drainer[e].pc = "read" => drainer[e].pos <= Len(content[Head(drainer[e].paths)])
<1>1. \A e \in Drainers : Fine(e) /\ drainer[e] \in Drains
  BY DEF TypeInv, DrainerInv, Drains
<1>2. \A e \in Drainers : NoFile \notin Range(drainer[e].paths)
  <2> SUFFICES ASSUME NEW e \in Drainers PROVE NoFile \notin Range(drainer[e].paths)
    OBVIOUS
  <2>1. PICK s \in Seq(1..made) : s = drainer[e].paths
    BY <1>1 DEF Drains
  <2>2. \A k \in DOMAIN s : s[k] \in 1..made
    BY <2>1, LenProperties, ElementOfSeq
  <2> QED BY <2>1, <2>2 DEF Range, NoFile
<1>3. ASSUME NEW e \in Drainers \ {d} PROVE Fine(e)'
  BY <1>0, <1>1, <1>2, <1>3
<1>4. PICK s \in Seq(1..made) : s = drainer[d].paths
  BY <1>1 DEF Drains
<1>5. IsInjective(s) /\ live \notin Range(s) /\ NoFile \notin Range(s)
  BY <1>1, <1>2, <1>4
<1>6. Range(<<>>) = {} /\ IsInjective(<<>>)
  BY DEF Range, IsInjective
<1>7. Idle.paths = <<>> /\ Idle.pc = "idle"
  BY DEF Idle
<1>8. ASSUME s # <<>>, drainer'[d].paths = Tail(s), drainer'[d].pc = "next" PROVE Fine(d)'
  <2>1. IsInjective(Tail(s)) /\ Range(Tail(s)) \subseteq Range(s)
    BY <1>5, <1>8, ListChanges
  <2> QED BY <1>0, <1>5, <1>8, <2>1
<1>9. CASE StartDrain(d)
  <2>1. live' = live /\ linked \subseteq 1..made /\ live \notin linked
    BY <1>9 DEF StartDrain, TypeInv
  <2>2. Sorted(linked) \in Seq(linked) /\ IsInjective(Sorted(linked))
    BY <1>0, <2>1, SortedType
  <2>3. PICK t : t = Sorted(linked)
    OBVIOUS
  <2>4. Range(t) \subseteq linked
    <3>1. t \in Seq(linked)
      BY <2>2, <2>3
    <3>2. \A k \in DOMAIN t : t[k] \in linked
      BY <3>1, LenProperties, ElementOfSeq
    <3> QED BY <3>2 DEF Range
  <2>5. drainer'[d].paths = t /\ drainer'[d].pc \in {"next", "rename"} /\ IsInjective(t)
    BY <1>9, <2>2, <2>3, DrainEffect
  <2>6. Fine(d)'
    BY <2>1, <2>4, <2>5
  <2> QED BY <1>0, <1>3, <2>6 DEF DrainerInv, Drains
<1>10. CASE Rename(d)
  <2>1. live' = NoFile /\ drainer'[d].pc = "next"
    BY <1>10, DrainEffect DEF Rename
  <2>2. CASE live = NoFile
    <3>1. drainer'[d].paths = s
      BY <1>4, <1>10, <2>2, DrainEffect
    <3>2. Fine(d)'
      BY <1>5, <2>1, <3>1
    <3> QED BY <1>0, <1>3, <3>2 DEF DrainerInv, Drains
  <2>3. CASE live # NoFile
    <3>1. live \in 1..made /\ live # NoFile
      BY <1>0, <2>3 DEF NoFile
    <3>2. drainer'[d].paths = Append(s, live)
      BY <1>4, <1>10, <2>3, DrainEffect
    <3>3. IsInjective(Append(s, live)) /\ Range(Append(s, live)) = Range(s) \cup {live}
      <4>1. PICK T : T = 1..made
        OBVIOUS
      <4>2. s \in Seq(T) /\ live \in T
        BY <3>1, <4>1
      <4> QED BY <1>5, <4>2, ListChanges
    <3>4. Fine(d)'
      BY <1>5, <2>1, <3>1, <3>2, <3>3
    <3> QED BY <1>0, <1>3, <3>4 DEF DrainerInv, Drains
  <2> QED BY <2>2, <2>3
<1>11. CASE NextFile(d)
  <2>1. CASE drainer'[d] = Idle
    <3>1. live' \notin {} /\ Fine(d)'
      BY <1>6, <1>7, <2>1
    <3> QED BY <1>0, <1>3, <3>1 DEF DrainerInv, Drains
  <2>2. CASE /\ drainer'[d].pc = "read" /\ drainer'[d].paths = s /\ s # <<>> /\ drainer'[d].pos = 0
    <3>1. PICK f : f = Head(s)
      OBVIOUS
    <3>2. f \in Files
      BY <2>2, <3>1, HeadTailProperties, FilesMade
    <3>3. Len(content[f]) \in Nat
      BY <3>2, LenProperties DEF TypeInv
    <3>4. Fine(d)'
      BY <1>0, <1>5, <2>2, <3>1, <3>3
    <3> QED BY <1>0, <1>3, <3>4 DEF DrainerInv, Drains
  <2>3. CASE drainer'[d].pc = "next" /\ s # <<>> /\ drainer'[d].paths = Tail(s)
    <3>1. Fine(d)'
      BY <1>8, <2>3
    <3> QED BY <1>0, <1>3, <3>1 DEF DrainerInv, Drains
  <2> QED BY <1>4, <1>11, <2>1, <2>2, <2>3, DrainEffect
<1>12. CASE HandleRecord(d)
  <2>1. PICK f : f = Head(s)
    OBVIOUS
  <2>2. drainer[d].pc = "read" /\ drainer[d].pos < Len(content[f]) /\ live' = live
    BY <1>4, <1>12, <2>1 DEF HandleRecord
  <2>3. s # <<>> /\ f \in Files /\ drainer[d].pos \in Nat
    <3>1. s # <<>> /\ drainer[d].pos \in Nat
      BY <1>1, <1>4, <2>2 DEF Drains
    <3> QED BY <2>1, <3>1, HeadTailProperties, FilesMade
  <2>4. Len(content[f]) \in Nat
    BY <2>3, LenProperties DEF TypeInv
  <2>5. drainer[d].pos + 1 <= Len(content[f])
    BY <2>2, <2>3, <2>4
  <2>6. drainer'[d].pc = "read" /\ drainer'[d].paths = s /\ drainer'[d].pos = drainer[d].pos + 1
    BY <1>4, <1>12, DrainEffect
  <2>7. Fine(d)'
    BY <1>0, <1>5, <2>1, <2>2, <2>3, <2>5, <2>6
  <2> QED BY <1>0, <1>3, <2>7 DEF DrainerInv, Drains
<1>13. CASE EndOfFile(d) \/ ReadFault(d)
  <2>1. drainer[d].paths # <<>> /\ live' = live
    BY <1>1, <1>13 DEF EndOfFile, ReadFault
  <2>2. drainer'[d].pc = "unlink" /\ drainer'[d].paths = s /\ s # <<>>
    BY <1>4, <1>13, <2>1, DrainEffect
  <2>3. Fine(d)'
    BY <1>5, <2>1, <2>2
  <2> QED BY <1>0, <1>3, <2>3 DEF DrainerInv, Drains
<1>14. CASE Unlink(d) \/ UnlinkFault(d)
  <2>1. drainer[d].pc = "unlink"
    BY <1>14 DEF Unlink, UnlinkFault
  <2>2. drainer'[d].pc = "next" /\ drainer'[d].paths = Tail(s) /\ s # <<>>
    BY <1>1, <1>4, <1>14, <2>1, DrainEffect
  <2>3. Fine(d)'
    BY <1>8, <2>2
  <2> QED BY <1>0, <1>3, <2>3 DEF DrainerInv, Drains
<1>15. CASE Die(d)
  <2>1. drainer'[d] = Idle
    BY <1>15, DrainEffect
  <2>2. Fine(d)'
    BY <1>6, <1>7, <2>1
  <2> QED BY <1>0, <1>3, <2>2 DEF DrainerInv, Drains
<1>16. CASE RenameFault(d)
  <2>1. drainer'[d].pc = "next" /\ drainer'[d].paths = s
    BY <1>4, <1>16, DrainEffect
  <2>2. Fine(d)'
    BY <1>0, <1>5, <2>1
  <2> QED BY <1>0, <1>3, <2>2 DEF DrainerInv, Drains
<1> QED BY <1>9, <1>10, <1>11, <1>12, <1>13, <1>14, <1>15, <1>16 DEF Drain, Fault

(* Handling line i of a file counts its record if it parses, and no other. *)
LEMMA HandledEffect ==
    ASSUME TypeInv, NEW f, NEW i, IsLine(f, i), count' = Handled(f, i)
    PROVE  /\ count' \in [Records -> 0..2]
           /\ content[f][i].record \in Records
           /\ \A r \in Records : count[r] > 0 => count'[r] > 0
           /\ Parses(f, i) => count'[content[f][i].record] > 0
           /\ \A r \in Records : count'[r] # count[r] =>
                  r = content[f][i].record /\ count'[r] = count[r] + 1
<1>1. content[f][i] \in Line /\ count \in [Records -> 0..2]
  BY ElementOfSeq DEF TypeInv, IsLine
<1>2. PICK q \in Records : q = content[f][i].record
  BY <1>1 DEF Line
<1>3. count[q] \in 0..2
  BY <1>1
<1>4. CASE Parses(f, i) /\ count[q] < 2
  BY <1>1, <1>2, <1>3, <1>4 DEF Handled
<1>5. CASE ~ (Parses(f, i) /\ count[q] < 2)
  BY <1>1, <1>2, <1>3, <1>5 DEF Handled
<1> QED BY <1>4, <1>5

(* The line a drain is about to handle. *)
LEMMA NextLine ==
    ASSUME TypeInv, NEW d \in Drainers, HandleRecord(d)
    PROVE  /\ IsLine(Head(drainer[d].paths), drainer[d].pos + 1) /\ drainer[d].pos \in Nat
           /\ Head(drainer[d].paths) \in 1..made
<1>1. /\ drainer[d].pc = "read" /\ drainer[d].pos < Len(content[Head(drainer[d].paths)])
      /\ drainer[d].paths \in Seq(1..made) /\ drainer[d].paths # <<>> /\ drainer[d].pos \in Nat
  BY DEF HandleRecord, TypeInv, DrainerInv
<1>2. PICK f : f = Head(drainer[d].paths)
  OBVIOUS
<1>3. f \in 1..made /\ f \in Files
  BY <1>1, <1>2, HeadTailProperties, FilesMade
<1>4. Len(content[f]) \in Nat
  BY <1>3, LenProperties DEF TypeInv
<1> QED BY <1>1, <1>2, <1>3, <1>4 DEF IsLine

(* The record of a line is a record. *)
LEMMA LineRecord ==
    ASSUME TypeInv
    PROVE  \A f, i : IsLine(f, i) => content[f][i].record \in Records
<1> SUFFICES ASSUME NEW f, NEW i, IsLine(f, i) PROVE content[f][i].record \in Records
  OBVIOUS
<1>1. content[f][i] \in Line
  BY ElementOfSeq DEF TypeInv, IsLine
<1> QED BY <1>1 DEF Line

(* Every step keeps the state well typed. *)
LEMMA NextTypeInv == TypeInv /\ [Next]_vars => TypeInv'
<1> SUFFICES ASSUME TypeInv, [Next]_vars PROVE TypeInv'
  OBVIOUS
<1>0. /\ made \in Nat /\ live \in 0..made /\ linked \subseteq 1..made /\ live \notin linked
      /\ content \in [Files -> Seq(Line)] /\ WriterInv /\ DrainerInv
      /\ \A g \in Files : Len(content[g]) \in Nat
      /\ count \in [Records -> 0..2] /\ late \subseteq Records /\ crossed \in BOOLEAN /\ faults \in 0..MaxFaults
      /\ unread \subseteq Records /\ stuck \subseteq 1..made
  BY LenProperties DEF TypeInv, WriterInv
<1>1. ASSUME NEW r \in Records, Open(r) PROVE TypeInv'
  <2>1. UNCHANGED <<content, linked, drainer, count, late, crossed, unread, stuck, faults>>
    BY <1>1 DEF Open
  <2>2. /\ WriterInv' /\ made' \in Nat /\ made <= made'
        /\ live' = live \/ live' = made + 1
    BY <1>0, <1>1, OpenEffect DEF WriterInv
  <2>3. DrainerInv'
    BY <1>0, <2>1, <2>2, DrainersStay
  <2>4. linked \subseteq 1..made' /\ live' \notin linked /\ stuck \subseteq 1..made'
    BY <1>0, <2>2
  <2> QED BY <1>0, <2>1, <2>2, <2>3, <2>4 DEF TypeInv
<1>2. ASSUME NEW r \in Records, Write(r) PROVE TypeInv'
  <2>1. UNCHANGED <<live, made, linked, drainer, count, crossed, unread, stuck>>
    BY <1>2 DEF Write
  <2>2. PICK f \in 1..made : \E line \in Line :
            /\ content' = [content EXCEPT ![f] = Append(@, line)]
            /\ late' = IF f = live THEN late ELSE late \cup {r}
    BY <1>2, WriteEffect
  <2>3. content' \in [Files -> Seq(Line)] /\ \A g \in Files : Len(content[g]) <= Len(content'[g])
    BY <2>2, WriteLines
  <2>4. WriterInv' /\ faults' \in 0..MaxFaults
    BY <1>2, WriteEffect
  <2>5. DrainerInv'
    BY <1>0, <2>1, <2>3, DrainersStay
  <2> QED BY <1>0, <2>1, <2>2, <2>3, <2>4, <2>5 DEF TypeInv
<1>3. ASSUME NEW d \in Drainers, Drain(d) \/ Fault(d) PROVE TypeInv'
  <2>1. UNCHANGED <<made, content, writer, late>>
    BY <1>3 DEF Drain, StartDrain, Rename, NextFile, HandleRecord, EndOfFile, Unlink,
                Fault, RenameFault, ReadFault, UnlinkFault, Die
  <2>2. DrainerInv'
    BY <1>3, DrainersMove
  <2>3. live' \in {live, NoFile} /\ linked' \subseteq 1..made /\ live' \notin linked'
    BY <1>0, <1>3 DEF Drain, StartDrain, Rename, NextFile, HandleRecord, EndOfFile, Unlink,
                Fault, RenameFault, ReadFault, UnlinkFault, Die, NoFile
  <2>4. WriterInv'
    BY <1>0, <2>1, <2>3 DEF WriterInv, Begun, NoFile
  <2>5. crossed' \in BOOLEAN /\ faults' \in 0..MaxFaults
    <3>1. CASE Fault(d)
      <4>1. crossed' \in BOOLEAN /\ faults' = faults - 1 /\ faults > 0
        BY <1>0, <3>1 DEF Fault, RenameFault, ReadFault, UnlinkFault, Die
      <4> QED BY <1>0, <4>1, QueueAssumption
    <3>2. CASE Drain(d)
      <4>1. faults' = faults /\ crossed' \in BOOLEAN
        BY <1>0, <3>2 DEF Drain, StartDrain, Rename, NextFile, HandleRecord, EndOfFile, Unlink
      <4> QED BY <1>0, <4>1
    <3> QED BY <1>3, <3>1, <3>2
  <2>6. count' \in [Records -> 0..2]
    <3>1. CASE HandleRecord(d)
      <4>1. count' = Handled(Head(drainer[d].paths), drainer[d].pos + 1)
        BY <3>1 DEF HandleRecord
      <4> QED BY <3>1, <4>1, NextLine, HandledEffect
    <3>2. CASE ~ HandleRecord(d)
      BY <1>0, <1>3, <3>2 DEF Drain, StartDrain, Rename, NextFile, EndOfFile, Unlink,
                Fault, RenameFault, ReadFault, UnlinkFault, Die
    <3> QED BY <3>1, <3>2
  <2>7. unread' \subseteq Records /\ stuck' \subseteq 1..made
    <3>1. CASE Drain(d) \/ RenameFault(d) \/ Die(d)
      <4>1. UNCHANGED <<unread, stuck>>
        BY <3>1 DEF Drain, StartDrain, Rename, NextFile, HandleRecord, EndOfFile, Unlink, RenameFault, Die
      <4> QED BY <1>0, <4>1
    <3>2. CASE ReadFault(d)
      <4>1. PICK n \in Nat : n = IF drainer[d].pc = "read" THEN drainer[d].pos ELSE 0
        BY DEF TypeInv, DrainerInv
      <4>2. PICK f : f = Head(drainer[d].paths)
        OBVIOUS
      <4>3. unread' = unread \cup {content[f][i].record : i \in (n + 1)..Len(content[f])} /\ stuck' = stuck
        BY <3>2, <4>1, <4>2 DEF ReadFault
      <4>4. f \in Files
        <5>1. drainer[d].paths \in Seq(1..made) /\ drainer[d].paths # <<>>
          BY <3>2 DEF ReadFault, TypeInv, DrainerInv
        <5> QED BY <4>2, <5>1, HeadTailProperties, FilesMade
      <4>5. \A i \in (n + 1)..Len(content[f]) : IsLine(f, i)
        BY <1>0, <4>4 DEF IsLine
      <4> QED BY <1>0, <4>3, <4>5, LineRecord
    <3>3. CASE UnlinkFault(d)
      <4>1. drainer[d].paths \in Seq(1..made) /\ drainer[d].paths # <<>>
        BY <3>3 DEF UnlinkFault, TypeInv, DrainerInv
      <4>2. Head(drainer[d].paths) \in 1..made
        BY <4>1, HeadTailProperties
      <4> QED BY <1>0, <3>3, <4>2 DEF UnlinkFault
    <3> QED BY <1>3, <3>1, <3>2, <3>3 DEF Fault
  <2> QED BY <1>0, <2>1, <2>2, <2>3, <2>4, <2>5, <2>6, <2>7 DEF TypeInv
<1>4. CASE UNCHANGED vars
  BY <1>4 DEF vars, TypeInv, WriterInv, DrainerInv, Begun
<1> QED BY <1>1, <1>2, <1>3, <1>4 DEF Next, Hook

(* The first state is well typed. *)
LEMMA InitTypeInv == Init => TypeInv
<1> SUFFICES ASSUME Init PROVE TypeInv
  OBVIOUS
<1>1. Cardinality(Begun) = 0
  <2>1. Begun = {}
    BY DEF Init, Begun
  <2> QED BY <2>1, FS_EmptySet
<1>2. WriterInv
  BY <1>1 DEF Init, WriterInv, NoFile
<1>3. DrainerInv
  <2>1. Range(<<>>) = {} /\ IsInjective(<<>>)
    BY DEF Range, IsInjective
  <2>2. Idle \in [pc : {"idle", "rename", "next", "read", "unlink"},
                  paths : Seq(1..made), pos : Nat, processed : Nat] /\ Idle.paths = <<>> /\ Idle.pc = "idle"
    BY EmptySeq DEF Idle
  <2> QED BY <2>1, <2>2 DEF Init, DrainerInv
<1>4. content \in [Files -> Seq(Line)]
  BY EmptySeq DEF Init
<1>5. count \in [Records -> 0..2] /\ faults \in 0..MaxFaults
  BY QueueAssumption DEF Init
<1>6. /\ linked \subseteq 1..made /\ live \notin linked /\ late \subseteq Records /\ crossed \in BOOLEAN
      /\ unread \subseteq Records /\ stuck \subseteq 1..made
  BY DEF Init
<1> QED BY <1>2, <1>3, <1>4, <1>5, <1>6 DEF TypeInv

(* Files, lines, writers and drains stay well typed: a drain lists each rotated
   file once, and never the live one.                                        *)
THEOREM HookTypeCorrect == Spec => []TypeOK
<1>1. TypeInv => TypeOK
  <2> SUFFICES ASSUME TypeInv PROVE TypeOK
    OBVIOUS
  <2>1. made \in Nat /\ 1..made \subseteq Files /\ Cardinality(Records) \in Nat
    BY FilesMade DEF TypeInv, WriterInv
  <2>2. made \in 0..Cardinality(Records)
    BY <2>1 DEF Files
  <2>3. live \in Files \cup {NoFile}
    BY <2>1 DEF TypeInv, WriterInv, NoFile
  <2>4. ASSUME NEW d \in Drainers, drainer[d].pc = "read"
        PROVE  drainer[d].pos \in 0..Len(content[Head(drainer[d].paths)])
    <3>1. /\ drainer[d].paths \in Seq(1..made) /\ drainer[d].paths # <<>> /\ drainer[d].pos \in Nat
          /\ drainer[d].pos <= Len(content[Head(drainer[d].paths)])
      BY <2>4 DEF TypeInv, DrainerInv
    <3>2. PICK f : f = Head(drainer[d].paths)
      OBVIOUS
    <3>3. f \in Files
      BY <2>1, <3>1, <3>2, HeadTailProperties
    <3>4. Len(content[f]) \in Nat
      BY <3>3, LenProperties DEF TypeInv
    <3> QED BY <3>1, <3>2, <3>4
  <2>5. \A r \in Records : writer[r].pc \in {"new", "open", "done"} /\ writer[r].file \in 0..made
    BY DEF TypeInv, WriterInv
  <2>6. \A d \in Drainers : /\ drainer[d].pc \in {"idle", "rename", "next", "read", "unlink"}
                            /\ drainer[d].paths \in Seq(1..made) /\ IsInjective(drainer[d].paths)
    BY DEF TypeInv, DrainerInv
  <2> QED BY <2>2, <2>3, <2>4, <2>5, <2>6 DEF TypeInv, TypeOK
<1> QED BY <1>1, InitTypeInv, NextTypeInv, PTL DEF Spec

-----------------------------------------------------------------------------
(* No record is lost.                                                       *)

(* Every step keeps LineInv: a process writes one line and is done. *)
LEMMA NextLineInv == TypeInv /\ LineInv /\ [Next]_vars => LineInv'
<1> SUFFICES ASSUME TypeInv, LineInv, [Next]_vars PROVE LineInv'
  OBVIOUS
<1>0. made \in Nat
  BY DEF TypeInv, WriterInv
<1>1. ASSUME content' = content, made' \in Nat, made <= made',
             \A r \in Records : writer[r].pc = "done" => writer'[r].pc = "done"
      PROVE  LineInv'
  <2>1. \A f, i : IsLine(f, i)' <=> IsLine(f, i)
    BY <1>1 DEF IsLine, Files
  <2>2. \A f, i : IsLine(f, i) => content[f][i].record \in Records /\ f \in Nat
    BY LineRecord DEF IsLine, Files
  <2> QED BY <1>0, <1>1, <2>1, <2>2 DEF LineInv
<1>2. ASSUME NEW r \in Records, Open(r) PROVE LineInv'
  <2>1. content' = content /\ writer[r].pc = "new"
    BY <1>2 DEF Open
  <2> QED BY <1>0, <1>1, <1>2, <2>1, OpenEffect DEF WriterInv
<1>3. ASSUME NEW r \in Records, Write(r) PROVE LineInv'
  <2>1. PICK f \in 1..made : \E line \in Line :
            line.record = r /\ content' = [content EXCEPT ![f] = Append(@, line)]
    BY <1>3, WriteEffect
  <2>2. PICK line \in Line : line.record = r /\ content' = [content EXCEPT ![f] = Append(@, line)]
    BY <2>1
  <2>3. /\ \A g, i : IsLine(g, i) => content'[g][i] = content[g][i]
        /\ \A g, i : IsLine(g, i)' /\ ~ IsLine(g, i) =>
                         g = f /\ i = Len(content[f]) + 1 /\ content'[g][i] = line
    BY <2>2, WriteLines
  <2>4. made' = made /\ writer[r].pc = "open" /\ writer'[r].pc = "done"
        /\ \A q \in Records \ {r} : writer'[q] = writer[q]
    BY <1>3, WriteEffect DEF Write
  <2>5. \A g, i : IsLine(g, i) => content[g][i].record \in Records \ {r}
    BY <2>4, LineRecord DEF LineInv
  <2>6. ASSUME NEW g, NEW i, IsLine(g, i)' PROVE g <= made /\ writer'[content'[g][i].record].pc = "done"
    <3>1. CASE IsLine(g, i)
      BY <2>3, <2>4, <2>5, <3>1 DEF LineInv
    <3>2. CASE ~ IsLine(g, i)
      BY <1>0, <2>2, <2>3, <2>4, <2>6, <3>2
    <3> QED BY <3>1, <3>2
  <2>7. ASSUME NEW g, NEW i, NEW h, NEW j, IsLine(g, i)', IsLine(h, j)',
               content'[g][i].record = content'[h][j].record
        PROVE  g = h /\ i = j
    <3>1. CASE IsLine(g, i) /\ IsLine(h, j)
      BY <2>3, <2>7, <3>1 DEF LineInv
    <3>2. CASE ~ IsLine(g, i) /\ ~ IsLine(h, j)
      BY <2>3, <2>7, <3>2
    <3>3. CASE IsLine(g, i) /\ ~ IsLine(h, j)
      <4>1. content'[h][j] = line
        BY <2>3, <2>7, <3>3
      <4>2. content'[g][i] = content[g][i] /\ content[g][i].record # r
        BY <2>3, <2>5, <3>3
      <4> QED BY <2>2, <2>7, <4>1, <4>2
    <3>4. CASE ~ IsLine(g, i) /\ IsLine(h, j)
      <4>1. content'[g][i] = line
        BY <2>3, <2>7, <3>4
      <4>2. content'[h][j] = content[h][j] /\ content[h][j].record # r
        BY <2>3, <2>5, <3>4
      <4> QED BY <2>2, <2>7, <4>1, <4>2
    <3> QED BY <3>1, <3>2, <3>3, <3>4
  <2> QED BY <2>4, <2>6, <2>7 DEF LineInv
<1>4. ASSUME NEW d \in Drainers, Drain(d) \/ Fault(d) PROVE LineInv'
  <2>1. UNCHANGED <<made, content, writer>>
    BY <1>4 DEF Drain, StartDrain, Rename, NextFile, HandleRecord, EndOfFile, Unlink,
                Fault, RenameFault, ReadFault, UnlinkFault, Die
  <2> QED BY <1>0, <1>1, <2>1
<1>5. CASE UNCHANGED vars
  BY <1>0, <1>1, <1>5 DEF vars
<1> QED BY <1>2, <1>3, <1>4, <1>5 DEF Next, Hook

(* Every step keeps LossInv. *)
LEMMA NextLoss == TypeInv /\ LossInv /\ [Next]_vars => LossInv'
<1> SUFFICES ASSUME TypeInv, LossInv, [Next]_vars PROVE LossInv'
  OBVIOUS
<1> DEFINE Found(f, i) == Due(f, i) => count[content[f][i].record] > 0 \/ f \in linked \/ f = live
           Passed(d, f) == drainer[d].pc = "read" /\ Head(drainer[d].paths) = f =>
                \A i \in 1..drainer[d].pos : Parses(f, i) => count[content[f][i].record] > 0
           Spent(d, f) == drainer[d].pc = "unlink" /\ Head(drainer[d].paths) = f =>
                \A i : Due(f, i) => count[content[f][i].record] > 0
<1>0. LossInv <=> (\A f, i : Found(f, i)) /\ \A d \in Drainers : \A f : Passed(d, f) /\ Spent(d, f)
  BY DEF LossInv
<1>1. LossInv' <=> (\A f, i : Found(f, i)') /\ \A d \in Drainers : \A f : Passed(d, f)' /\ Spent(d, f)'
  BY DEF LossInv
<1>2. /\ \A f, i : Found(f, i)
      /\ \A d \in Drainers : \A f : Passed(d, f) /\ Spent(d, f)
  BY <1>0
<1>3. /\ made \in Nat /\ live \in 0..made /\ \A f \in Files : f # NoFile /\ Len(content[f]) \in Nat
      /\ \A f, i : IsLine(f, i) => content[f][i].record \in Records
  BY LineRecord, LenProperties DEF TypeInv, WriterInv, Files, NoFile
<1>4. ASSUME NEW d \in Drainers, \A e \in Drainers \ {d} : drainer'[e] = drainer[e],
             UNCHANGED <<content, late>>, unread \subseteq unread',
             \A r \in Records : count[r] > 0 => count'[r] > 0,
             \A f, i : Found(f, i)', \A f : Passed(d, f)' /\ Spent(d, f)'
      PROVE  LossInv'
  <2>1. \A f, i : (Parses(f, i)' <=> Parses(f, i)) /\ (IsLine(f, i)' <=> IsLine(f, i)) /\ (Due(f, i)' => Due(f, i))
    BY <1>4 DEF Parses, IsLine, Due, Files
  <2>2. ASSUME NEW e \in Drainers \ {d}, NEW f PROVE Passed(e, f)' /\ Spent(e, f)'
    <3>1. ASSUME drainer[e].pc = "read", Head(drainer[e].paths) = f, NEW i \in 1..drainer[e].pos
          PROVE  IsLine(f, i)
      <4>1. /\ drainer[e].paths \in Seq(1..made) /\ drainer[e].paths # <<>> /\ drainer[e].pos \in Nat
            /\ drainer[e].pos <= Len(content[f])
        BY <3>1 DEF TypeInv, DrainerInv
      <4>2. f \in Files
        BY <3>1, <4>1, HeadTailProperties, FilesMade
      <4> QED BY <1>3, <4>1, <4>2 DEF IsLine
    <3>2. Passed(e, f)'
      BY <1>2, <1>3, <1>4, <2>1, <3>1
    <3>3. Spent(e, f)'
      BY <1>2, <1>3, <1>4, <2>1 DEF Due
    <3> QED BY <3>2, <3>3
  <2> QED BY <1>1, <1>4, <2>2
<1>5. ASSUME NEW d \in Drainers, \A e \in Drainers \ {d} : drainer'[e] = drainer[e],
             UNCHANGED <<content, late, count>>, unread \subseteq unread',
             linked \subseteq linked', live' = live \/ live \in linked' \cup {NoFile},
             \A f : Passed(d, f)' /\ Spent(d, f)'
      PROVE  LossInv'
  <2>1. \A f, i : (IsLine(f, i)' <=> IsLine(f, i)) /\ (Due(f, i)' => Due(f, i))
    BY <1>5 DEF Parses, IsLine, Due, Files
  <2>2. \A f, i : Found(f, i)'
    BY <1>2, <1>3, <1>5, <2>1 DEF Due, IsLine
  <2> QED BY <1>4, <1>5, <2>2
<1>6. ASSUME NEW r \in Records, Open(r) PROVE LossInv'
  <2>1. UNCHANGED <<content, linked, drainer, count, late, unread>> /\ (live # NoFile => live' = live)
    BY <1>6 DEF Open
  <2>2. \A f, i : (Parses(f, i)' <=> Parses(f, i)) /\ (IsLine(f, i)' <=> IsLine(f, i)) /\ (Due(f, i)' <=> Due(f, i))
    BY <2>1 DEF Parses, IsLine, Due, Files
  <2>3. \A f, i : Found(f, i)'
    BY <1>2, <1>3, <2>1, <2>2 DEF Due, IsLine
  <2> QED BY <1>1, <1>2, <2>1, <2>2, <2>3
<1>7. ASSUME NEW r \in Records, Write(r) PROVE LossInv'
  <2>1. PICK h \in 1..made : \E line \in Line :
            /\ line.record = r /\ content' = [content EXCEPT ![h] = Append(@, line)]
            /\ late' = IF h = live THEN late ELSE late \cup {r}
    BY <1>7, WriteEffect
  <2>2. PICK line \in Line : line.record = r /\ content' = [content EXCEPT ![h] = Append(@, line)]
    BY <2>1
  <2>3. /\ \A g, i : IsLine(g, i) => /\ IsLine(g, i)' /\ content'[g][i] = content[g][i]
                                     /\ Parses(g, i)' = Parses(g, i)
        /\ \A g, i : IsLine(g, i)' /\ ~ IsLine(g, i) =>
                         g = h /\ i = Len(content[h]) + 1 /\ content'[g][i] = line
    BY <2>2, WriteLines
  <2>4. UNCHANGED <<live, made, linked, drainer, count, unread>> /\ late \subseteq late'
    BY <1>7, <2>1 DEF Write
  <2>5. \A g, i : IsLine(g, i) /\ Due(g, i)' => Due(g, i)
    BY <2>3, <2>4 DEF Due
  <2>6. ASSUME NEW g, NEW i, IsLine(g, i)', ~ IsLine(g, i), Due(g, i)' PROVE g = live
    <3>1. g = h /\ content'[g][i].record = r
      BY <2>2, <2>3, <2>6
    <3>2. r \notin late'
      BY <2>6, <3>1 DEF Due
    <3> QED BY <2>1, <3>1, <3>2
  <2>7. ASSUME NEW g, NEW i PROVE Found(g, i)'
    <3> SUFFICES ASSUME Due(g, i)' PROVE count[content'[g][i].record] > 0 \/ g \in linked \/ g = live
      BY <2>4
    <3>1. IsLine(g, i)'
      BY DEF Due
    <3>2. CASE IsLine(g, i)
      BY <1>2, <2>3, <2>5, <3>2
    <3>3. CASE ~ IsLine(g, i)
      BY <2>6, <3>1, <3>3
    <3> QED BY <3>2, <3>3
  <2>8. ASSUME NEW e \in Drainers, NEW g, Head(drainer[e].paths) = g, drainer[e].pc \in {"read", "unlink"}
        PROVE  /\ g \in Files /\ g # live
               /\ drainer[e].pc = "read" => drainer[e].pos \in Nat /\ drainer[e].pos <= Len(content[g])
    <3>1. /\ drainer[e].paths \in Seq(1..made) /\ drainer[e].paths # <<>> /\ drainer[e].pos \in Nat
          /\ IsInjective(drainer[e].paths) /\ live \notin Range(drainer[e].paths)
          /\ drainer[e].pc = "read" => drainer[e].pos <= Len(content[g])
      BY <2>8 DEF TypeInv, DrainerInv
    <3>2. Head(drainer[e].paths) \in Range(drainer[e].paths) /\ Head(drainer[e].paths) \in 1..made
      BY <3>1, ListChanges, HeadTailProperties
    <3> QED BY <2>8, <3>1, <3>2, FilesMade
  <2>9. ASSUME NEW e \in Drainers, NEW g PROVE Passed(e, g)'
    <3> SUFFICES ASSUME drainer[e].pc = "read", Head(drainer[e].paths) = g,
                        NEW i \in 1..drainer[e].pos, Parses(g, i)'
                 PROVE  count[content'[g][i].record] > 0
      BY <2>4
    <3>1. IsLine(g, i)
      BY <1>3, <2>8 DEF IsLine
    <3> QED BY <1>2, <2>3, <3>1
  <2>10. ASSUME NEW e \in Drainers, NEW g PROVE Spent(e, g)'
    <3> SUFFICES ASSUME drainer[e].pc = "unlink", Head(drainer[e].paths) = g, NEW i, Due(g, i)'
                 PROVE  count[content'[g][i].record] > 0
      BY <2>4
    <3>1. IsLine(g, i)' /\ g # live
      BY <2>8 DEF Due
    <3>2. IsLine(g, i)
      BY <2>6, <3>1
    <3> QED BY <1>2, <2>3, <2>5, <3>2
  <2> QED BY <1>1, <2>7, <2>9, <2>10
<1>8. ASSUME NEW d \in Drainers, StartDrain(d) \/ Rename(d) \/ RenameFault(d) \/ UnlinkFault(d) \/ Die(d)
      PROVE  LossInv'
  <2>1. UNCHANGED <<content, late, count, unread>> /\ linked \subseteq linked'
    BY <1>8 DEF StartDrain, Rename, RenameFault, UnlinkFault, Die
  <2>2. live' = live \/ live \in linked' \cup {NoFile}
    BY <1>8 DEF StartDrain, Rename, RenameFault, UnlinkFault, Die
  <2>3. drainer'[d].pc \in {"idle", "next", "rename"} /\ \A e \in Drainers \ {d} : drainer'[e] = drainer[e]
    BY <1>8, DrainEffect DEF Idle, Drain, Fault
  <2>4. \A f : Passed(d, f)' /\ Spent(d, f)'
    BY <2>3
  <2> HIDE DEF Passed, Spent
  <2> QED BY <1>5, <2>1, <2>2, <2>3, <2>4
<1>9. ASSUME NEW d \in Drainers, NextFile(d) PROVE LossInv'
  <2>1. UNCHANGED <<content, late, count, live, linked, unread>>
    BY <1>9 DEF NextFile
  <2>2. /\ drainer'[d].pc \in {"idle", "next"} \/ (drainer'[d].pc = "read" /\ drainer'[d].pos = 0)
        /\ \A e \in Drainers \ {d} : drainer'[e] = drainer[e]
    BY <1>9, DrainEffect DEF Idle, Drain
  <2>3. \A f : Passed(d, f)' /\ Spent(d, f)'
    BY <2>2
  <2> HIDE DEF Passed, Spent
  <2> QED BY <1>5, <2>1, <2>2, <2>3
<1>10. ASSUME NEW d \in Drainers, HandleRecord(d) PROVE LossInv'
  <2>1. UNCHANGED <<content, late, live, linked, unread>> /\ drainer[d].pc = "read"
    BY <1>10 DEF HandleRecord
  <2>2. PICK f : f = Head(drainer[d].paths)
    OBVIOUS
  <2>3. PICK k \in Nat : k = drainer[d].pos
    BY <1>10, NextLine
  <2>4. IsLine(f, k + 1) /\ count' = Handled(f, k + 1)
    BY <1>10, <2>2, <2>3, NextLine DEF HandleRecord
  <2>5. /\ \A r \in Records : count[r] > 0 => count'[r] > 0
        /\ Parses(f, k + 1) => count'[content[f][k + 1].record] > 0
    BY <2>4, HandledEffect
  <2>6. /\ drainer'[d].pc = "read" /\ drainer'[d].paths = drainer[d].paths /\ drainer'[d].pos = k + 1
        /\ \A e \in Drainers \ {d} : drainer'[e] = drainer[e]
    BY <1>10, <2>3, DrainEffect DEF Drain
  <2>7. \A g, i : (Parses(g, i)' <=> Parses(g, i)) /\ (IsLine(g, i)' <=> IsLine(g, i)) /\ (Due(g, i)' => Due(g, i))
    BY <2>1 DEF Parses, IsLine, Due, Files
  <2>8. \A g, i : Found(g, i)'
    BY <1>2, <1>3, <2>1, <2>5, <2>7 DEF Due
  <2>9. \A i \in 1..(k + 1) : IsLine(f, i) /\ (i \in 1..k \/ i = k + 1)
    BY <1>3, <2>4 DEF IsLine
  <2>10. ASSUME NEW i \in 1..(k + 1), Parses(f, i) PROVE count'[content[f][i].record] > 0
    BY <1>2, <1>3, <2>1, <2>2, <2>3, <2>5, <2>9, <2>10
  <2>11. \A g : Passed(d, g)' /\ Spent(d, g)'
    BY <2>1, <2>2, <2>6, <2>7, <2>10
  <2> HIDE DEF Passed, Spent, Found
  <2> QED BY <1>4, <2>1, <2>5, <2>6, <2>8, <2>11
<1>11. ASSUME NEW d \in Drainers, EndOfFile(d) PROVE LossInv'
  <2>1. UNCHANGED <<content, late, count, live, linked, unread>> /\ drainer[d].pc = "read"
    BY <1>11 DEF EndOfFile
  <2>2. PICK f : f = Head(drainer[d].paths)
    OBVIOUS
  <2>3. drainer[d].pos = Len(content[f])
    BY <1>11, <2>2 DEF EndOfFile
  <2>4. /\ drainer'[d].pc = "unlink" /\ drainer'[d].paths = drainer[d].paths
        /\ \A e \in Drainers \ {d} : drainer'[e] = drainer[e]
    BY <1>11, DrainEffect DEF Drain
  <2>5. \A i : Due(f, i) => count[content[f][i].record] > 0
    BY <1>2, <2>1, <2>2, <2>3 DEF Due, IsLine
  <2>6. \A g, i : Due(g, i)' => Due(g, i)
    BY <2>1 DEF Parses, IsLine, Due, Files
  <2>7. \A g : Passed(d, g)' /\ Spent(d, g)'
    BY <2>1, <2>2, <2>4, <2>5, <2>6
  <2> HIDE DEF Passed, Spent
  <2> QED BY <1>5, <2>1, <2>4, <2>7
<1>12. ASSUME NEW d \in Drainers, Unlink(d) PROVE LossInv'
  <2>1. UNCHANGED <<content, late, count, live, unread>> /\ drainer[d].pc = "unlink"
    BY <1>12 DEF Unlink
  <2>2. PICK f : f = Head(drainer[d].paths)
    OBVIOUS
  <2>3. linked' = linked \ {f}
    BY <1>12, <2>2 DEF Unlink
  <2>4. drainer'[d].pc = "next" /\ \A e \in Drainers \ {d} : drainer'[e] = drainer[e]
    BY <1>12, DrainEffect DEF Drain
  <2>5. \A g, i : Due(g, i)' => Due(g, i)
    BY <2>1 DEF Parses, IsLine, Due, Files
  <2>6. \A i : Due(f, i) => count[content[f][i].record] > 0
    BY <1>2, <2>1, <2>2
  <2>7. \A g, i : Found(g, i)'
    BY <1>2, <2>1, <2>3, <2>5, <2>6
  <2>8. \A g : Passed(d, g)' /\ Spent(d, g)'
    BY <2>4
  <2> HIDE DEF Passed, Spent, Found
  <2> QED BY <1>4, <2>1, <2>4, <2>7, <2>8
<1>14. ASSUME NEW d \in Drainers, ReadFault(d) PROVE LossInv'
  <2>1. UNCHANGED <<content, late, count, live, linked>> /\ drainer[d].pc \in {"read", "next"}
    BY <1>14 DEF ReadFault
  <2>2. PICK f : f = Head(drainer[d].paths)
    OBVIOUS
  <2>3. PICK n \in Nat : n = IF drainer[d].pc = "read" THEN drainer[d].pos ELSE 0
    BY DEF TypeInv, DrainerInv
  <2>4. unread' = unread \cup {content[f][i].record : i \in (n + 1)..Len(content[f])}
    BY <1>14, <2>2, <2>3 DEF ReadFault
  <2>5. /\ drainer'[d].pc = "unlink" /\ drainer'[d].paths = drainer[d].paths
        /\ \A e \in Drainers \ {d} : drainer'[e] = drainer[e]
    BY <1>14, DrainEffect DEF Fault
  <2>6. \A g, i : (IsLine(g, i)' <=> IsLine(g, i)) /\ (Due(g, i)' => Due(g, i) /\ content[g][i].record \notin unread')
    BY <2>1, <2>4 DEF Parses, IsLine, Due, Files
  <2>7. ASSUME NEW i, Due(f, i)' PROVE count[content[f][i].record] > 0
    <3>1. IsLine(f, i) /\ Parses(f, i) /\ content[f][i].record \notin unread'
      BY <2>6, <2>7 DEF Due
    <3>2. i \in 1..n
      BY <1>3, <2>4, <3>1 DEF IsLine
    <3>3. drainer[d].pc = "read" /\ n = drainer[d].pos
      BY <2>3, <3>2
    <3> QED BY <1>2, <2>2, <3>1, <3>2, <3>3
  <2>8. \A g : Passed(d, g)' /\ Spent(d, g)'
    BY <2>1, <2>2, <2>5, <2>7
  <2> HIDE DEF Passed, Spent
  <2> QED BY <1>5, <2>1, <2>4, <2>5, <2>8
<1>13. CASE UNCHANGED vars
  BY <1>13 DEF vars, LossInv, Due, IsLine, Parses, Files
<1> QED BY <1>6, <1>7, <1>8, <1>9, <1>10, <1>11, <1>12, <1>13, <1>14 DEF Next, Hook, Drain, Fault

(* A record written whole to the live queue is in a file that the next drain
   will find, or its handlers have run, or a read of its file failed before it:
   whatever drains list, rename, read and unlink at the same time, and wherever
   they fail or die.                                                         *)
THEOREM RecordsAreNotLost == Spec => []NoRecordLost
<1>1. Init => LossInv
  BY DEF Init, LossInv, Due, IsLine, Idle, Files
<1>2. TypeInv /\ LossInv => NoRecordLost
  <2> SUFFICES ASSUME TypeInv, LossInv, NEW r \in Records, Sound(r), ~ (count[r] > 0), r \notin unread PROVE Queued(r)
    BY DEF NoRecordLost
  <2>1. PICK f \in Files : \E i \in DOMAIN content[f] : content[f][i].record = r /\ Parses(f, i)
    BY DEF Sound
  <2>2. PICK i \in DOMAIN content[f] : content[f][i].record = r /\ Parses(f, i)
    BY <2>1
  <2>3. content[f] \in Seq(Line)
    BY DEF TypeInv
  <2>4. Due(f, i)
    BY <2>2, <2>3, LenProperties DEF Due, IsLine, Sound
  <2>5. f \in linked \/ (f = live /\ f # NoFile)
    BY <2>2, <2>4 DEF LossInv, Files, NoFile
  <2> QED BY <2>2, <2>5 DEF Queued
<1> QED BY <1>1, <1>2, InitTypeInv, NextTypeInv, NextLoss, PTL DEF Spec

-----------------------------------------------------------------------------
(* A record is handled once.                                                *)

(* Every step keeps OnceInv. *)
LEMMA NextOnce == TypeInv /\ LineInv /\ OnceInv /\ [Next]_vars => OnceInv'
<1> SUFFICES ASSUME TypeInv, LineInv, OnceInv, [Next]_vars, ~ crossed' PROVE OnceInv'
  BY DEF OnceInv
<1>0. ~ crossed
  BY DEF Next, Hook, Open, Write, Drain, StartDrain, Rename, NextFile, HandleRecord, EndOfFile, Unlink,
         Fault, RenameFault, ReadFault, UnlinkFault, Die, vars
<1> DEFINE Reads(d, f, i) == /\ drainer[d].paths # <<>> /\ Head(drainer[d].paths) = f
                             /\ \/ drainer[d].pc = "read" /\ i <= drainer[d].pos
                                \/ drainer[d].pc = "unlink"
<1>1. /\ \A d, e \in Drainers : drainer[d].pc # "idle" /\ drainer[e].pc # "idle" => d = e
      /\ \A d \in Drainers : drainer[d].pc \in {"read", "unlink"} => Head(drainer[d].paths) \in linked
      /\ \A r \in Records : (count[r] <= 1 \/ Again(r)) /\ (count[r] > 0 => writer[r].pc = "done")
      /\ \A f, i : IsLine(f, i) /\ count[content[f][i].record] > 0 => Behind(f, i) \/ f \in stuck
  BY <1>0 DEF OnceInv
<1>2. /\ \A f, i : Behind(f, i) <=> (f \notin linked /\ f # live) \/ \E d \in Drainers : Reads(d, f, i)
      /\ \A f, i : Behind(f, i)' <=> (f \notin linked' /\ f # live') \/ \E d \in Drainers : Reads(d, f, i)'
  BY DEF Behind
<1>3. /\ made \in Nat /\ live \in 0..made /\ count \in [Records -> 0..2]
      /\ \A f, i : IsLine(f, i) => content[f][i].record \in Records /\ f \in 1..made
  BY LineRecord DEF TypeInv, WriterInv, LineInv, IsLine, Files
(* Drain d moves, and the others are idle. *)
<1>4. ASSUME NEW d \in Drainers, \A e \in Drainers \ {d} : drainer'[e] = drainer[e] /\ drainer[e].pc = "idle",
             UNCHANGED <<content, writer>>, stuck \subseteq stuck',
             drainer'[d].pc \in {"read", "unlink"} => Head(drainer'[d].paths) \in linked',
             \A r \in Records : (count'[r] <= 1 \/ Again(r)) /\ (count'[r] > 0 => writer[r].pc = "done"),
             \A f, i : IsLine(f, i) /\ count'[content[f][i].record] > 0 =>
                            (f \notin linked' /\ f # live') \/ Reads(d, f, i)' \/ f \in stuck'
      PROVE  OnceInv'
  <2>1. \A f, i : IsLine(f, i)' <=> IsLine(f, i)
    BY <1>4 DEF IsLine, Files
  <2>2. \A f, i : IsLine(f, i)' /\ count'[content'[f][i].record] > 0 => Behind(f, i)' \/ f \in stuck'
    BY <1>2, <1>4, <2>1
  <2>3. \A a, e \in Drainers : drainer'[a].pc # "idle" /\ drainer'[e].pc # "idle" => a = e
    BY <1>4
  <2>4. \A e \in Drainers : drainer'[e].pc \in {"read", "unlink"} => Head(drainer'[e].paths) \in linked'
    BY <1>4
  <2>5. \A r \in Records : (count'[r] <= 1 \/ Again(r)') /\ (count'[r] > 0 => writer'[r].pc = "done")
    BY <1>4, <2>1 DEF Again
  <2> QED BY <2>2, <2>3, <2>4, <2>5 DEF OnceInv
<1>5. ASSUME NEW d \in Drainers, Drain(d) \/ Fault(d)
      PROVE  /\ \A e \in Drainers \ {d} : drainer'[e] = drainer[e] /\ drainer[e].pc = "idle"
             /\ UNCHANGED <<content, writer>>
  <2>1. \A e \in Drainers \ {d} : drainer[e].pc = "idle"
    <3>1. CASE StartDrain(d)
      BY <3>1 DEF StartDrain
    <3>2. CASE ~ StartDrain(d)
      <4>1. drainer[d].pc # "idle"
        BY <1>5, <3>2 DEF Drain, Rename, NextFile, HandleRecord, EndOfFile, Unlink, Fault, RenameFault, ReadFault, UnlinkFault, Die
      <4> QED BY <1>1, <4>1
    <3> QED BY <3>1, <3>2
  <2> QED BY <1>5, <2>1, DrainEffect DEF Drain, StartDrain, Rename, NextFile, HandleRecord, EndOfFile, Unlink,
                                         Fault, RenameFault, ReadFault, UnlinkFault, Die
<1>6. ASSUME NEW d \in Drainers, \A e \in Drainers \ {d} : drainer[e].pc = "idle", NEW f, NEW i,
             IsLine(f, i), count[content[f][i].record] > 0
      PROVE  (f \notin linked /\ f # live) \/ Reads(d, f, i) \/ f \in stuck
  BY <1>1, <1>2, <1>6
<1>7. ASSUME NEW r \in Records, Open(r) PROVE OnceInv'
  <2>1. UNCHANGED <<content, linked, drainer, count, stuck>> /\ writer[r].pc = "new"
    BY <1>7 DEF Open
  <2>2. live' = live \/ live' = made + 1
    BY <1>7, OpenEffect
  <2>3. \A f, i : IsLine(f, i)' <=> IsLine(f, i)
    BY <2>1 DEF IsLine, Files
  <2>4. \A f, i : IsLine(f, i) /\ Behind(f, i) => Behind(f, i)'
    BY <1>2, <1>3, <2>1, <2>2
  <2>5. \A q \in Records : writer[q].pc = "done" => writer'[q].pc = "done"
    BY <1>7, <2>1, OpenEffect
  <2>6. \A q \in Records : Again(q) => Again(q)'
    BY <2>1, <2>3 DEF Again
  <2>7. \A f, i : IsLine(f, i)' /\ count'[content'[f][i].record] > 0 => Behind(f, i)' \/ f \in stuck'
    BY <1>1, <2>1, <2>3, <2>4
  <2>8. \A q \in Records : (count'[q] <= 1 \/ Again(q)') /\ (count'[q] > 0 => writer'[q].pc = "done")
    BY <1>1, <2>1, <2>5, <2>6
  <2> QED BY <1>1, <2>1, <2>7, <2>8 DEF OnceInv
<1>8. ASSUME NEW r \in Records, Write(r) PROVE OnceInv'
  <2>1. UNCHANGED <<live, linked, drainer, count, stuck>> /\ writer[r].pc = "open"
    BY <1>8, WriteEffect DEF Write
  <2>2. PICK h \in 1..made : \E line \in Line :
            line.record = r /\ content' = [content EXCEPT ![h] = Append(@, line)]
    BY <1>8, WriteEffect
  <2>3. PICK line \in Line : line.record = r /\ content' = [content EXCEPT ![h] = Append(@, line)]
    BY <2>2
  <2>4. /\ \A g, i : IsLine(g, i) => content'[g][i] = content[g][i]
        /\ \A g, i : IsLine(g, i)' /\ ~ IsLine(g, i) =>
                         g = h /\ i = Len(content[h]) + 1 /\ content'[g][i] = line
    BY <2>3, WriteLines
  <2>5. \A f, i : Behind(f, i) => Behind(f, i)'
    BY <1>2, <2>1
  <2>6. ~ (count[r] > 0)
    BY <1>1, <2>1
  <2>7. ASSUME NEW f, NEW i, IsLine(f, i)', count[content'[f][i].record] > 0
        PROVE  Behind(f, i)' \/ f \in stuck'
    <3>1. IsLine(f, i)
      BY <2>3, <2>4, <2>6, <2>7
    <3> QED BY <1>1, <2>1, <2>4, <2>5, <2>7, <3>1
  <2>8. \A q \in Records : writer[q].pc = "done" => writer'[q].pc = "done"
    BY <1>8, WriteEffect
  <2>9. \A q \in Records : Again(q) => Again(q)'
    <3>1. \A g, i : IsLine(g, i) => IsLine(g, i)' /\ content'[g][i] = content[g][i]
      BY <2>3, WriteLines
    <3> QED BY <2>1, <3>1 DEF Again
  <2>10. \A q \in Records : (count'[q] <= 1 \/ Again(q)') /\ (count'[q] > 0 => writer'[q].pc = "done")
    BY <1>1, <2>1, <2>8, <2>9
  <2> QED BY <1>1, <2>1, <2>7, <2>10 DEF OnceInv
<1>9. ASSUME NEW d \in Drainers, StartDrain(d) \/ Rename(d) \/ NextFile(d) \/ RenameFault(d) PROVE OnceInv'
  <2>0. Drain(d) \/ Fault(d)
    BY <1>9 DEF Drain, Fault
  <2>1. count' = count /\ stuck' = stuck /\ drainer[d].pc \notin {"read", "unlink"}
    BY <1>9 DEF StartDrain, Rename, NextFile, RenameFault
  <2>2. \A f \in 1..made : f \notin linked /\ f # live => f \notin linked' /\ f # live'
    BY <1>9 DEF StartDrain, Rename, NextFile, RenameFault, NoFile
  <2>3. drainer'[d].pc \in {"read", "unlink"} => Head(drainer'[d].paths) \in linked'
    <3>1. CASE StartDrain(d) \/ Rename(d) \/ RenameFault(d)
      BY <3>1, DrainEffect
    <3>2. CASE NextFile(d)
      <4>1. linked' = linked
        BY <3>2 DEF NextFile
      <4> QED BY <3>2, <4>1, DrainEffect DEF Idle
    <3> QED BY <1>9, <3>1, <3>2
  <2>4. ASSUME NEW f, NEW i, IsLine(f, i), count[content[f][i].record] > 0
        PROVE  (f \notin linked' /\ f # live') \/ f \in stuck'
    BY <1>3, <1>5, <1>6, <2>0, <2>1, <2>2, <2>4
  <2> HIDE DEF Reads
  <2> QED BY <1>1, <1>4, <1>5, <2>0, <2>1, <2>3, <2>4
<1>10. ASSUME NEW d \in Drainers, HandleRecord(d) PROVE OnceInv'
  <2>0. Drain(d) \/ Fault(d)
    BY <1>10 DEF Drain
  <2>1. UNCHANGED <<live, linked, stuck>> /\ drainer[d].pc = "read"
    BY <1>10 DEF HandleRecord
  <2>2. PICK f : f = Head(drainer[d].paths)
    OBVIOUS
  <2>3. PICK k \in Nat : k = drainer[d].pos
    BY <1>10, NextLine
  <2>4. IsLine(f, k + 1) /\ count' = Handled(f, k + 1) /\ f \in linked
    BY <1>1, <1>10, <2>1, <2>2, <2>3, NextLine DEF HandleRecord
  <2>5. PICK q \in Records : q = content[f][k + 1].record
    BY <1>3, <2>4
  <2>6. \A r \in Records : count'[r] # count[r] => r = q /\ count'[r] = count[r] + 1
    BY <2>4, <2>5, HandledEffect
  <2>7. count[q] = 0 \/ f \in stuck
    <3> SUFFICES ASSUME count[q] > 0, f \notin stuck PROVE FALSE
      BY <1>3
    <3>1. Reads(d, f, k + 1)
      BY <1>5, <1>6, <2>0, <2>4, <2>5
    <3> QED BY <2>1, <2>3, <3>1
  <2>8. /\ drainer'[d].pc = "read" /\ drainer'[d].paths = drainer[d].paths /\ drainer'[d].pos = k + 1
        /\ drainer[d].paths # <<>>
    BY <1>10, <2>1, <2>3, DrainEffect DEF TypeInv, DrainerInv
  <2>9. ASSUME NEW g, NEW i, IsLine(g, i), count'[content[g][i].record] > 0
        PROVE  (g \notin linked' /\ g # live') \/ Reads(d, g, i)' \/ g \in stuck'
    <3>1. PICK r \in Records : r = content[g][i].record
      BY <1>3, <2>9
    <3>2. CASE count[r] > 0
      <4>1. (g \notin linked /\ g # live) \/ Reads(d, g, i) \/ g \in stuck
        BY <1>5, <1>6, <2>0, <2>9, <3>1, <3>2
      <4>2. i \in Nat
        BY <2>9 DEF IsLine
      <4>3. CASE Reads(d, g, i)
        BY <2>1, <2>3, <2>8, <4>2, <4>3
      <4> QED BY <2>1, <4>1, <4>3
    <3>3. CASE ~ (count[r] > 0)
      <4>1. r = q
        BY <2>6, <2>9, <3>1, <3>3
      <4>2. g = f /\ i = k + 1
        BY <2>4, <2>5, <2>9, <3>1, <4>1 DEF LineInv
      <4> QED BY <2>2, <2>8, <4>2
    <3> QED BY <3>2, <3>3
  <2>10. \A r \in Records : (count'[r] <= 1 \/ Again(r)) /\ (count'[r] > 0 => writer[r].pc = "done")
    <3>1. writer[q].pc = "done"
      BY <2>4, <2>5 DEF LineInv
    <3>2. f \in stuck => Again(q)
      BY <2>4, <2>5 DEF Again
    <3> QED BY <1>1, <2>6, <2>7, <3>1, <3>2
  <2> HIDE DEF Reads
  <2> QED BY <1>4, <1>5, <2>0, <2>1, <2>2, <2>4, <2>8, <2>9, <2>10
<1>11. ASSUME NEW d \in Drainers, EndOfFile(d) \/ ReadFault(d) PROVE OnceInv'
  <2>0. Drain(d) \/ Fault(d)
    BY <1>11 DEF Drain, Fault
  <2>1. /\ UNCHANGED <<live, linked, count, stuck>>
        /\ drainer[d].pc = "read" \/ (drainer[d].pc = "next" /\ Head(drainer[d].paths) \in linked)
    BY <1>11 DEF EndOfFile, ReadFault
  <2>2. drainer'[d].pc = "unlink" /\ drainer'[d].paths = drainer[d].paths
    BY <1>11, DrainEffect
  <2>3. ASSUME NEW g, NEW i, IsLine(g, i), count[content[g][i].record] > 0
        PROVE  (g \notin linked' /\ g # live') \/ Reads(d, g, i)' \/ g \in stuck'
    <3>1. (g \notin linked /\ g # live) \/ Reads(d, g, i) \/ g \in stuck
      BY <1>5, <1>6, <2>0, <2>3
    <3> QED BY <2>1, <2>2, <3>1
  <2>4. Head(drainer'[d].paths) \in linked'
    BY <1>1, <2>1, <2>2
  <2> HIDE DEF Reads
  <2> QED BY <1>1, <1>4, <1>5, <2>0, <2>1, <2>3, <2>4
<1>12. ASSUME NEW d \in Drainers, Unlink(d) PROVE OnceInv'
  <2>0. Drain(d) \/ Fault(d)
    BY <1>12 DEF Drain
  <2>1. UNCHANGED <<live, count, stuck>> /\ drainer[d].pc = "unlink" /\ linked' = linked \ {Head(drainer[d].paths)}
    BY <1>12 DEF Unlink
  <2>2. drainer'[d].pc = "next"
    BY <1>12, DrainEffect
  <2>3. Head(drainer[d].paths) # live
    <3>1. /\ drainer[d].paths \in Seq(1..made) /\ drainer[d].paths # <<>>
          /\ IsInjective(drainer[d].paths) /\ live \notin Range(drainer[d].paths)
      BY <2>1 DEF TypeInv, DrainerInv
    <3> QED BY <3>1, ListChanges
  <2>4. ASSUME NEW g, NEW i, IsLine(g, i), count[content[g][i].record] > 0
        PROVE  (g \notin linked' /\ g # live') \/ g \in stuck'
    <3>1. (g \notin linked /\ g # live) \/ Reads(d, g, i) \/ g \in stuck
      BY <1>5, <1>6, <2>0, <2>4
    <3> QED BY <2>1, <2>3, <3>1
  <2> HIDE DEF Reads
  <2> QED BY <1>1, <1>4, <1>5, <2>0, <2>1, <2>2, <2>4
<1>13. ASSUME NEW d \in Drainers, UnlinkFault(d) PROVE OnceInv'
  <2>0. Drain(d) \/ Fault(d)
    BY <1>13 DEF Fault
  <2>1. UNCHANGED <<live, linked, count>> /\ stuck' = stuck \cup {Head(drainer[d].paths)}
    BY <1>13 DEF UnlinkFault
  <2>2. drainer'[d].pc = "next"
    BY <1>13, DrainEffect
  <2>3. ASSUME NEW g, NEW i, IsLine(g, i), count[content[g][i].record] > 0
        PROVE  (g \notin linked' /\ g # live') \/ g \in stuck'
    <3>1. (g \notin linked /\ g # live) \/ Reads(d, g, i) \/ g \in stuck
      BY <1>5, <1>6, <2>0, <2>3
    <3> QED BY <2>1, <3>1
  <2> HIDE DEF Reads
  <2> QED BY <1>1, <1>4, <1>5, <2>0, <2>1, <2>2, <2>3
<1>14. ASSUME NEW d \in Drainers, Die(d) PROVE FALSE
  BY <1>14 DEF Die
<1>15. CASE UNCHANGED vars
  BY <1>15 DEF vars, OnceInv, Again, Behind, IsLine, Files
<1> QED BY <1>7, <1>8, <1>9, <1>10, <1>11, <1>12, <1>13, <1>14, <1>15 DEF Next, Hook, Drain, Fault

(* As long as drains neither overlap nor die, a record reaches its handlers at
   most once unless the unlink of its file failed, although a drain stops at its
   cap and leaves files to the next, and renames and reads may fail.         *)
THEOREM RecordsAreHandledOnce == Spec => []HandledOnce
<1>1. Init => LineInv /\ OnceInv
  BY DEF Init, LineInv, OnceInv, IsLine, Idle, Files
<1>2. TypeInv /\ OnceInv => HandledOnce
  <2> SUFFICES ASSUME TypeInv, OnceInv, ~ crossed, NEW r \in Records, ~ Stuck(r) PROVE count[r] < 2
    BY DEF HandledOnce
  <2>1. count[r] \in 0..2 /\ (count[r] <= 1 \/ Again(r))
    BY DEF TypeInv, OnceInv
  <2>2. ~ Again(r)
    <3> SUFFICES ASSUME NEW f \in stuck, NEW i, IsLine(f, i), content[f][i].record = r PROVE FALSE
      BY DEF Again
    <3>1. i \in DOMAIN content[f]
      BY LenProperties DEF IsLine, TypeInv
    <3> QED BY <3>1 DEF Stuck
  <2> QED BY <2>1, <2>2
<1> QED BY <1>1, <1>2, InitTypeInv, NextTypeInv, NextLineInv, NextOnce, PTL DEF Spec
=============================================================================
