-------------------------- MODULE CollectionProofs --------------------------
(***************************************************************************)
(* What holds of the collection for every number of processes, keys,       *)
(* properties and values: its types, its primary keys, and what it stores. *)
(* Then the secondary indexes, and what find, reIndex and ensureIndex      *)
(* promise of them.  The inductive invariant says of a record which        *)
(* somebody is writing that each of its entries is there or that its turn  *)
(* in __update_index is still to come; of a find or a reIndex, what it has *)
(* of the records that stay as they are up to its cursor.                  *)
(***************************************************************************)
EXTENDS Collection, CollectionHistory, FiniteSetTheorems, TLAPS

\* A set of natural numbers that is not empty has a smallest member: that of
\* the smallest of the intervals 1..x.
LEMMA SmallestMember ==
  ASSUME NEW S \in SUBSET Nat, S # {}
  PROVE  \E x \in S : \A y \in S : x <= y
<1> DEFINE T == {1..x : x \in S}
           R == StrictSubsetOrdering(Nat)
           F == FiniteSubsetsOf(Nat)
<1>1. IsWellFoundedOn(R, F)
  BY FS_StrictSubsetOrderingWellFounded
<1>2. T \subseteq F
  <2>1. \A x \in S : 1..x \subseteq Nat /\ IsFiniteSet(1..x)
    BY FS_Interval
  <2> QED BY <2>1 DEF FiniteSubsetsOf
<1>3. T # {}
  OBVIOUS
<1>4. PICK t \in T : \A u \in T : <<u, t>> \notin R
  <2> HIDE DEF R, F, T
  <2> QED BY <1>1, <1>2, <1>3, WFMin
<1>5. PICK x \in S : t = 1..x
  OBVIOUS
<1>6. ASSUME NEW y \in S, ~(x <= y)
      PROVE  FALSE
  <2>1. 1..y \subseteq 1..x
    BY <1>6
  <2>2. x \in 1..x /\ x \notin 1..y
    BY <1>6
  <2>3. <<1..y, 1..x>> \in R
    BY <2>1, <2>2 DEF StrictSubsetOrdering
  <2> QED BY <1>4, <1>5, <2>3
<1> QED BY <1>6

\* $ORDER answers with a member of the set beyond the cursor, and with 0 only
\* when there is none.
LEMMA OrderNext ==
  ASSUME NEW S \in SUBSET (Nat \ {0}), NEW c \in Nat
  PROVE  /\ Order(S, c) \in S \cup {0}
         /\ Order(S, c) # 0 => Order(S, c) > c
         /\ Order(S, c) = 0 <=> \A x \in S : x <= c
         /\ \A x \in S : x > c => Order(S, c) # 0 /\ Order(S, c) <= x
<1> DEFINE T == {x \in S : x > c}
<1>1. CASE T = {}
  <2>1. \A x \in S : ~(x > c)
    BY <1>1
  <2>2. Order(S, c) = 0
    BY <2>1 DEF Order
  <2> QED BY <2>1, <2>2
<1>2. CASE T # {}
  <2>1. PICK m \in T : \A y \in T : m <= y
    BY <1>2, SmallestMember
  <2>2. Order(S, c) = CHOOSE x \in S : x > c /\ \A y \in S : y > c => x <= y
    BY <2>1 DEF Order
  <2>3. /\ Order(S, c) \in S
        /\ Order(S, c) > c
        /\ \A y \in S : y > c => Order(S, c) <= y
    BY <2>1, <2>2
  <2> QED BY <2>3
<1> QED BY <1>1, <1>2

-----------------------------------------------------------------------------
(* The type invariant.  A loop of update_index is inside its two bounds,   *)
(* an add that has drawn a key holds its object under that key alone.      *)

Defs == Seq(Seq(Props) \ {<<>>})

FrameOK(f, defs) ==
  /\ f.at \in {"setIndex", "killIndex"} =>
       f.cursor \in RowIds(f) /\ f.j \in DOMAIN defs
  /\ f.at = "addUpdate" =>
       /\ f.op = "add"
       /\ f.cursor \in Ids
       /\ RowIds(f) = {f.cursor}
  /\ f.at = "setSys" =>
       defs # <<>> /\ f.j \in DOMAIN defs[Len(defs)]

TypeInv == TypeOK /\ \A p \in Procs : FrameOK(call[p], indexes[p])

LEMMA IdleOK ==
  /\ Idle \in Frames
  /\ Off \in Frames
  /\ Idle.at = "idle" /\ Off.at = "off"
  /\ \A defs : FrameOK(Idle, defs) /\ FrameOK(Off, defs)
BY ConstantsAssumption DEF Idle, Off, Frames, NoRows, FrameOK

\* Assignments to the fields of a frame.
LEMMA FrameAt ==
  ASSUME NEW f \in Frames,
         NEW at \in {"off", "idle", "load", "addUpdate", "setIndex",
                     "killIndex", "setSys", "indexScan", "scan", "fetch"}
  PROVE  LET g == [f EXCEPT !.at = at] IN
         /\ g \in Frames /\ g.at = at
         /\ g.op = f.op /\ g.query = f.query /\ g.ids = f.ids
         /\ g.rows = f.rows /\ g.cursor = f.cursor /\ g.j = f.j
BY DEF Frames

LEMMA FrameOp ==
  ASSUME NEW f \in Frames,
         NEW op \in {"none", "open", "add", "save", "remove", "ensureIndex",
                     "find", "reIndex"}
  PROVE  LET g == [f EXCEPT !.op = op] IN
         /\ g \in Frames /\ g.op = op
         /\ g.at = f.at /\ g.query = f.query /\ g.ids = f.ids
         /\ g.rows = f.rows /\ g.cursor = f.cursor /\ g.j = f.j
BY DEF Frames

LEMMA FrameQuery ==
  ASSUME NEW f \in Frames, NEW q \in Queries
  PROVE  LET g == [f EXCEPT !.query = q] IN
         /\ g \in Frames /\ g.query = q
         /\ g.at = f.at /\ g.op = f.op /\ g.ids = f.ids
         /\ g.rows = f.rows /\ g.cursor = f.cursor /\ g.j = f.j
BY DEF Frames

LEMMA FrameIds ==
  ASSUME NEW f \in Frames, NEW S \in SUBSET Ids
  PROVE  LET g == [f EXCEPT !.ids = S] IN
         /\ g \in Frames /\ g.ids = S
         /\ g.at = f.at /\ g.op = f.op /\ g.query = f.query
         /\ g.rows = f.rows /\ g.cursor = f.cursor /\ g.j = f.j
BY DEF Frames

LEMMA FrameRows ==
  ASSUME NEW f \in Frames, NEW r \in [Ids -> Objects \cup {Missing}]
  PROVE  LET g == [f EXCEPT !.rows = r] IN
         /\ g \in Frames /\ g.rows = r
         /\ g.at = f.at /\ g.op = f.op /\ g.query = f.query
         /\ g.ids = f.ids /\ g.cursor = f.cursor /\ g.j = f.j
BY DEF Frames

LEMMA FrameCursor ==
  ASSUME NEW f \in Frames, NEW c \in Nat
  PROVE  LET g == [f EXCEPT !.cursor = c] IN
         /\ g \in Frames /\ g.cursor = c
         /\ g.at = f.at /\ g.op = f.op /\ g.query = f.query
         /\ g.ids = f.ids /\ g.rows = f.rows /\ g.j = f.j
BY DEF Frames

LEMMA FrameJ ==
  ASSUME NEW f \in Frames, NEW j \in Nat \ {0}
  PROVE  LET g == [f EXCEPT !.j = j] IN
         /\ g \in Frames /\ g.j = j
         /\ g.at = f.at /\ g.op = f.op /\ g.query = f.query
         /\ g.ids = f.ids /\ g.rows = f.rows /\ g.cursor = f.cursor
BY DEF Frames

LEMMA IdsNat == Ids \subseteq Nat \ {0}
BY ConstantsAssumption DEF Ids

LEMMA WritingFrame ==
  \A op \in {"add", "save", "remove"}, at \in {"addUpdate", "setIndex", "killIndex"},
     i \in Ids, o \in Objects : Writing(op, at, i, o) \in Frames
<1> SUFFICES ASSUME NEW op \in {"add", "save", "remove"},
                    NEW at \in {"addUpdate", "setIndex", "killIndex"},
                    NEW i \in Ids, NEW o \in Objects
             PROVE  Writing(op, at, i, o) \in Frames
  OBVIOUS
<1> DEFINE r == [NoRows EXCEPT ![i] = o]
           f1 == [Idle EXCEPT !.op = op]
           f2 == [f1 EXCEPT !.at = at]
           f3 == [f2 EXCEPT !.cursor = i]
           f4 == [f3 EXCEPT !.rows = r]
<1>1. r \in [Ids -> Objects \cup {Missing}]
  BY DEF NoRows
<1>2. f1 \in Frames
  BY IdleOK, FrameOp
<1>3. f2 \in Frames
  <2> HIDE DEF f1
  <2> QED BY <1>2, FrameAt
<1>4. f3 \in Frames
  <2> HIDE DEF f2
  <2> QED BY <1>3, FrameCursor, IdsNat
<1>5. f4 \in Frames
  <2> HIDE DEF f3, r
  <2> QED BY <1>1, <1>4, FrameRows
<1>6. Writing(op, at, i, o) = f4
  BY DEF Writing
<1> QED BY <1>5, <1>6

LEMMA WritingOK ==
  ASSUME NEW op, op \in {"add", "save", "remove"},
         NEW at, at \in {"addUpdate", "setIndex", "killIndex"},
         NEW i \in Ids, NEW o \in Objects
  PROVE  LET f == Writing(op, at, i, o) IN
         /\ f \in Frames
         /\ f.op = op /\ f.at = at /\ f.cursor = i /\ f.j = 1
         /\ \A k \in Ids : f.rows[k] = IF k = i THEN o ELSE Missing
         /\ RowIds(f) = {i}
<1> USE ConstantsAssumption
<1> DEFINE f == Writing(op, at, i, o)
<1>1. /\ f.op = op /\ f.at = at /\ f.cursor = i /\ f.j = 1
      /\ \A k \in Ids : f.rows[k] = IF k = i THEN o ELSE Missing
  BY DEF Writing, Idle, NoRows
<1>2. RowIds(f) = {i}
  BY <1>1 DEF RowIds, NoRows
<1>3. f \in Frames
  BY WritingFrame
<1> QED BY <1>1, <1>2, <1>3

LEMMA RowIdsOrder ==
  ASSUME NEW f \in Frames, NEW c \in Nat
  PROVE  Order(RowIds(f), c) \in RowIds(f) \cup {0}
<1>1. RowIds(f) \in SUBSET (Nat \ {0})
  BY IdsNat DEF RowIds
<1> QED BY <1>1, OrderNext

LEMMA IndexLoopOK ==
  ASSUME NEW f \in Frames, NEW at \in {"setIndex", "killIndex"},
         NEW defs \in Defs
  PROVE  LET g == IndexLoop(f, at, defs) IN
         /\ g \in Frames
         /\ FrameOK(g, defs)
         /\ g.at \in {at, "idle"}
         /\ g.at = at => g.op = f.op /\ g.rows = f.rows
<1> DEFINE g == IndexLoop(f, at, defs)
<1>1. CASE RowIds(f) = {} \/ defs = <<>>
  BY <1>1, IdleOK DEF IndexLoop
<1>2. CASE ~(RowIds(f) = {} \/ defs = <<>>)
  <2>1. g = [f EXCEPT !.at = at, !.cursor = Order(RowIds(f), 0), !.j = 1]
    BY <1>2 DEF IndexLoop
  <2>2. Order(RowIds(f), 0) \in RowIds(f)
    <3>1. RowIds(f) \in SUBSET (Nat \ {0})
      BY IdsNat DEF RowIds
    <3>2. PICK i \in RowIds(f) : i > 0
      BY <1>2, <3>1
    <3> QED BY <3>1, <3>2, OrderNext
  <2>3. Order(RowIds(f), 0) \in Nat
    BY <2>2, IdsNat DEF RowIds
  <2>4. g \in Frames /\ g.rows = f.rows /\ g.op = f.op /\ g.at = at
        /\ g.cursor = Order(RowIds(f), 0) /\ g.j = 1
    <3> DEFINE f1 == [f EXCEPT !.at = at]
               f2 == [f1 EXCEPT !.cursor = Order(RowIds(f), 0)]
    <3>1. f1 \in Frames /\ f1.rows = f.rows /\ f1.op = f.op /\ f1.at = at
      BY DEF Frames
    <3>2. f2 \in Frames /\ f2.rows = f.rows /\ f2.op = f.op /\ f2.at = at
          /\ f2.cursor = Order(RowIds(f), 0)
      <4> HIDE DEF f1
      <4> QED BY <2>3, <3>1, FrameCursor
    <3>3. g = [f2 EXCEPT !.j = 1]
      BY <2>1
    <3>4. 1 \in Nat \ {0} /\ g = [f2 EXCEPT !.j = 1] /\ f2 \in Frames
      BY <3>2, <3>3
    <3> QED
      <4> HIDE DEF f2, g
      <4> QED BY <3>2, <3>4, FrameJ
  <2>5. RowIds(g) = RowIds(f)
    BY <2>4 DEF RowIds
  <2>6. 1 \in DOMAIN defs
    BY <1>2 DEF Defs
  <2> QED BY <2>2, <2>4, <2>5, <2>6 DEF FrameOK
<1> QED BY <1>1, <1>2

LEMMA NextTurnOK ==
  ASSUME NEW f \in Frames, NEW defs \in Defs, FrameOK(f, defs),
         f.at \in {"setIndex", "killIndex"}
  PROVE  LET g == NextTurn(f, defs) IN
         /\ g \in Frames
         /\ FrameOK(g, defs)
         /\ g.at \in {f.at, "idle"}
         /\ g.at = f.at => g.op = f.op /\ g.rows = f.rows
<1> DEFINE g == NextTurn(f, defs)
           n == Order(RowIds(f), f.cursor)
<1>0. f.cursor \in RowIds(f) /\ f.j \in DOMAIN defs /\ f.j \in Nat \ {0}
      /\ Len(defs) \in Nat /\ f.cursor \in Nat
  BY DEF FrameOK, Defs, Frames
<1>1. CASE f.j < Len(defs)
  <2>1. g = [f EXCEPT !.j = f.j + 1]
    BY <1>1 DEF NextTurn
  <2>2. g \in Frames /\ g.rows = f.rows /\ g.op = f.op /\ g.at = f.at
        /\ g.cursor = f.cursor /\ g.j = f.j + 1
    BY <2>1, <1>0 DEF Frames
  <2>3. RowIds(g) = RowIds(f)
    BY <2>2 DEF RowIds
  <2>4. f.j + 1 \in DOMAIN defs
    BY <1>0, <1>1 DEF Defs
  <2> QED BY <1>0, <2>2, <2>3, <2>4 DEF FrameOK
<1>2. CASE ~(f.j < Len(defs)) /\ n = 0
  BY <1>2, IdleOK DEF NextTurn
<1>3. CASE ~(f.j < Len(defs)) /\ n # 0
  <2>1. g = [f EXCEPT !.cursor = n, !.j = 1]
    BY <1>3 DEF NextTurn
  <2>2. n \in RowIds(f)
    BY <1>0, <1>3, RowIdsOrder
  <2>3. n \in Nat
    BY <2>2, IdsNat DEF RowIds
  <2>4. g \in Frames /\ g.rows = f.rows /\ g.op = f.op /\ g.at = f.at
        /\ g.cursor = n /\ g.j = 1
    <3> DEFINE f1 == [f EXCEPT !.cursor = n]
    <3>1. f1 \in Frames /\ f1.rows = f.rows /\ f1.op = f.op /\ f1.at = f.at
          /\ f1.cursor = n
      BY <2>3, FrameCursor
    <3>2. g = [f1 EXCEPT !.j = 1]
      BY <2>1
    <3> QED
      <4> HIDE DEF f1, g
      <4> QED BY <3>1, <3>2, FrameJ
  <2>5. RowIds(g) = RowIds(f)
    BY <2>4 DEF RowIds
  <2>6. 1 \in DOMAIN defs
    BY <1>0 DEF Defs
  <2> QED BY <2>2, <2>4, <2>5, <2>6 DEF FrameOK
<1> QED BY <1>1, <1>2, <1>3

LEMMA TurnEntryOK ==
  ASSUME NEW f \in Frames, NEW defs \in Defs, FrameOK(f, defs),
         f.at \in {"setIndex", "killIndex"}
  PROVE  TurnEntry(f, defs) \subseteq Entries
<1>1. f.cursor \in RowIds(f) /\ f.j \in DOMAIN defs
  BY DEF FrameOK
<1>2. TurnProp(f, defs) \in Props
  <2>1. defs[f.j] \in Seq(Props) \ {<<>>}
    BY <1>1 DEF Defs
  <2> QED BY <2>1 DEF TurnProp
<1>3. f.cursor \in Ids /\ f.rows[f.cursor] \in Objects
  BY <1>1 DEF RowIds, Frames
<1> QED BY <1>2, <1>3 DEF TurnEntry, Entries, Objects

LEMMA OrderedOK ==
  ASSUME NEW f \in Frames, NEW S \in SUBSET Ids,
         f.at \in {"scan", "indexScan"}
  PROVE  LET g == Ordered(f, S) IN
         g \in Frames /\ g.at \in {"scan", "indexScan", "fetch"}
         /\ g.op = f.op /\ g.rows = f.rows
<1>1. Order(S, f.cursor) \in S \cup {0}
  <2>1. S \in SUBSET (Nat \ {0}) /\ f.cursor \in Nat
    BY IdsNat DEF Frames
  <2> QED BY <2>1, OrderNext
<1>2. CASE Order(S, f.cursor) # 0
  <2>1. Order(S, f.cursor) \in Ids /\ Order(S, f.cursor) \in Nat
    BY <1>1, <1>2, IdsNat
  <2> QED BY <1>2, <2>1 DEF Ordered, Frames
<1>3. CASE Order(S, f.cursor) = 0
  BY <1>3 DEF Ordered, Frames
<1> QED BY <1>2, <1>3

\* A step that changes the frame of one process, and its index list at most.
LEMMA TypeUpdate ==
  ASSUME TypeInv, NEW p \in Procs, NEW f \in Frames, NEW d \in Defs,
         FrameOK(f, d),
         call' = [call EXCEPT ![p] = f],
         indexes' = [indexes EXCEPT ![p] = d],
         counter' \in 0..MaxId,
         data' \in [Ids -> Objects \cup {Missing}],
         idx' \subseteq Entries, sys' \subseteq Props, held' \subseteq Ids
  PROVE  TypeInv'
<1>1. TypeOK'
  BY DEF TypeInv, TypeOK, Defs
<1>2. ASSUME NEW q \in Procs
      PROVE  FrameOK(call[q], indexes[q])'
  <2>1. CASE q = p
    <3>1. call'[q] = f /\ indexes'[q] = d
      BY <2>1 DEF TypeInv, TypeOK
    <3> QED BY <3>1 DEF FrameOK, RowIds
  <2>2. CASE q # p
    <3>1. call'[q] = call[q] /\ indexes'[q] = indexes[q]
      BY <2>2 DEF TypeInv, TypeOK
    <3> QED BY <3>1 DEF TypeInv, FrameOK, RowIds
  <2> QED BY <2>1, <2>2
<1> QED BY <1>1, <1>2 DEF TypeInv

LEMMA UnchangedIndexes ==
  ASSUME TypeInv, NEW p \in Procs
  PROVE  indexes = [indexes EXCEPT ![p] = indexes[p]] /\ indexes[p] \in Defs
BY DEF TypeInv, TypeOK, Defs

LEMMA StoredOK ==
  ASSUME TypeInv
  PROVE  /\ Stored \subseteq Ids
         /\ \A x, v : IndexIds(x, v) \subseteq Ids
         /\ \A i \in Ids : Retrieved(i) \in Objects
BY DEF TypeInv, TypeOK, Stored, IndexIds, Retrieved, Objects

LEMMA UpdatedOK ==
  ASSUME NEW old \in Objects \cup {Missing}, NEW o \in Objects,
         NEW n \in Updated(old, o)
  PROVE  n \in Objects
BY DEF Updated, Merged, Objects

LEMMA OpenType ==
  ASSUME TypeInv, NEW p \in Procs, Open(p)
  PROVE  TypeInv'
<1> DEFINE f1 == [Idle EXCEPT !.op = "open"]
           f == [f1 EXCEPT !.at = "load"]
<1>1. f1 \in Frames
  BY IdleOK, FrameOp
<1>2. f \in Frames /\ f.at = "load"
  <2> HIDE DEF f1
  <2> QED BY <1>1, FrameAt
<1>3. FrameOK(f, <<>>) /\ <<>> \in Defs
  <2> HIDE DEF f
  <2> QED BY <1>2 DEF FrameOK, Defs
<1>4. call' = [call EXCEPT ![p] = f] /\ indexes' = [indexes EXCEPT ![p] = <<>>]
  BY DEF Open
<1> HIDE DEF f
<1> QED BY <1>2, <1>3, <1>4, TypeUpdate DEF Open, store, TypeInv, TypeOK

LEMMA LoadIndexType ==
  ASSUME TypeInv, NEW p \in Procs, LoadIndex(p)
  PROVE  TypeInv'
<1> DEFINE x == Order(sys, call[p].cursor)
<1>0. call[p] \in Frames /\ call[p].cursor \in Nat /\ call[p].at = "load"
  BY DEF TypeInv, TypeOK, Frames, LoadIndex
<1>1. CASE x = 0
  BY <1>1, TypeUpdate, UnchangedIndexes, IdleOK
     DEF LoadIndex, store, TypeInv, TypeOK
<1>2. CASE x # 0
  <2> DEFINE f == [call[p] EXCEPT !.cursor = x]
             d == Append(indexes[p], <<x>>)
  <2>1. x \in Props /\ x \in Nat
    <3>1. sys \in SUBSET (Nat \ {0})
      BY ConstantsAssumption DEF TypeInv, TypeOK
    <3>2. x \in sys
      BY <1>0, <1>2, <3>1, OrderNext
    <3> QED BY <3>1, <3>2 DEF TypeInv, TypeOK
  <2>2. f \in Frames /\ f.at = "load"
    BY <1>0, <2>1, FrameCursor
  <2>3. d \in Defs
    <3>1. <<x>> \in Seq(Props) \ {<<>>}
      BY <2>1
    <3> QED BY <3>1, UnchangedIndexes DEF Defs
  <2>4. FrameOK(f, d)
    BY <2>2 DEF FrameOK
  <2>5. call' = [call EXCEPT ![p] = f] /\ indexes' = [indexes EXCEPT ![p] = d]
    BY <1>2 DEF LoadIndex
  <2> HIDE DEF f, d
  <2> QED BY <2>2, <2>3, <2>4, <2>5, TypeUpdate
          DEF LoadIndex, store, TypeInv, TypeOK
<1> QED BY <1>1, <1>2

LEMMA AddIncrementType ==
  ASSUME TypeInv, NEW p \in Procs, NEW o \in Objects, AddIncrement(p, o)
  PROVE  TypeInv'
<1> DEFINE f == Writing("add", "addUpdate", counter + 1, o)
<1>1. counter + 1 \in Ids /\ counter' \in 0..MaxId
  BY ConstantsAssumption DEF TypeInv, TypeOK, Ids, AddIncrement
<1>2. f \in Frames /\ f.at = "addUpdate" /\ f.op = "add"
      /\ f.cursor = counter + 1 /\ RowIds(f) = {counter + 1}
  <2>1. \A i \in Ids : LET g == Writing("add", "addUpdate", i, o) IN
          /\ g \in Frames /\ g.at = "addUpdate" /\ g.op = "add"
          /\ g.cursor = i /\ RowIds(g) = {i}
    BY WritingOK
  <2> QED BY <1>1, <2>1
<1>3. FrameOK(f, indexes[p])
  BY <1>1, <1>2 DEF FrameOK
<1> HIDE DEF f
<1> QED BY <1>1, <1>2, <1>3, TypeUpdate, UnchangedIndexes
        DEF AddIncrement, TypeInv, TypeOK, f

LEMMA AddUpdateType ==
  ASSUME TypeInv, NEW p \in Procs, AddUpdate(p)
  PROVE  TypeInv'
<1> DEFINE i == call[p].cursor
           f == IndexLoop(call[p], "setIndex", indexes[p])
<1>1. call[p] \in Frames /\ i \in Ids /\ call[p].rows[i] \in Objects
  BY DEF TypeInv, TypeOK, AddUpdate, FrameOK, RowIds, Frames
<1>2. f \in Frames /\ FrameOK(f, indexes[p])
  BY <1>1, UnchangedIndexes, IndexLoopOK
<1>3. data' \in [Ids -> Objects \cup {Missing}]
  <2>1. PICK o \in Updated(data[i], call[p].rows[i]) :
          data' = [data EXCEPT ![i] = o]
    BY DEF AddUpdate
  <2>2. o \in Objects
    BY <1>1, <2>1, UpdatedOK DEF TypeInv, TypeOK
  <2> QED BY <2>1, <2>2 DEF TypeInv, TypeOK
<1>4. call' = [call EXCEPT ![p] = f]
  BY DEF AddUpdate
<1>5. held' \subseteq Ids
  BY <1>1 DEF AddUpdate, TypeInv, TypeOK
<1> HIDE DEF f
<1> QED BY <1>2, <1>3, <1>4, <1>5, TypeUpdate, UnchangedIndexes
        DEF AddUpdate, TypeInv, TypeOK

LEMMA AddUpdateFailsType ==
  ASSUME TypeInv, NEW p \in Procs, AddUpdateFails(p)
  PROVE  TypeInv'
<1>1. call[p].cursor \in Ids
  BY DEF TypeInv, AddUpdateFails, FrameOK
<1> QED BY <1>1, TypeUpdate, UnchangedIndexes, IdleOK
        DEF AddUpdateFails, store, TypeInv, TypeOK

LEMMA SaveType ==
  ASSUME TypeInv, NEW p \in Procs, NEW i \in Ids, NEW o \in Objects,
         Save(p, i, o)
  PROVE  TypeInv'
<1> DEFINE w == Writing("save", "setIndex", i, o)
           f == IndexLoop(w, "setIndex", indexes[p])
<1>1. w \in Frames
  BY WritingOK
<1>2. f \in Frames /\ FrameOK(f, indexes[p])
  <2> HIDE DEF w
  <2> QED BY <1>1, UnchangedIndexes, IndexLoopOK
<1>3. data' \in [Ids -> Objects \cup {Missing}]
  <2>1. PICK n \in Updated(data[i], o) : data' = [data EXCEPT ![i] = n]
    BY DEF Save
  <2>2. n \in Objects
    BY <2>1, UpdatedOK DEF TypeInv, TypeOK
  <2> QED BY <2>1, <2>2 DEF TypeInv, TypeOK
<1>4. call' = [call EXCEPT ![p] = f]
  BY DEF Save
<1> HIDE DEF f
<1> QED BY <1>2, <1>3, <1>4, TypeUpdate, UnchangedIndexes
        DEF Save, TypeInv, TypeOK

LEMMA RemoveType ==
  ASSUME TypeInv, NEW p \in Procs, NEW i \in Ids, NEW o \in Objects,
         Remove(p, i, o)
  PROVE  TypeInv'
<1> DEFINE w == Writing("remove", "killIndex", i, o)
           f == IndexLoop(w, "killIndex", indexes[p])
<1>1. w \in Frames
  BY WritingOK
<1>2. f \in Frames /\ FrameOK(f, indexes[p])
  <2> HIDE DEF w
  <2> QED BY <1>1, UnchangedIndexes, IndexLoopOK
<1>3. data' \in [Ids -> Objects \cup {Missing}]
  BY DEF Remove, TypeInv, TypeOK
<1>4. call' = [call EXCEPT ![p] = f]
  BY DEF Remove
<1> HIDE DEF f
<1> QED BY <1>2, <1>3, <1>4, TypeUpdate, UnchangedIndexes
        DEF Remove, TypeInv, TypeOK

LEMMA RemoveAllType ==
  ASSUME TypeInv, NEW p \in Procs, RemoveAll(p)
  PROVE  TypeInv'
<1>1. TypeOK'
  BY ConstantsAssumption DEF RemoveAll, TypeInv, TypeOK, NoRows
<1>2. \A q \in Procs : FrameOK(call[q], indexes[q])'
  BY DEF RemoveAll, TypeInv, FrameOK, RowIds
<1> QED BY <1>1, <1>2 DEF TypeInv

LEMMA SetIndexType ==
  ASSUME TypeInv, NEW p \in Procs, SetIndex(p) \/ KillIndex(p)
  PROVE  TypeInv'
<1> DEFINE f == NextTurn(call[p], indexes[p])
<1>1. call[p] \in Frames /\ FrameOK(call[p], indexes[p])
      /\ call[p].at \in {"setIndex", "killIndex"}
  BY DEF TypeInv, TypeOK, SetIndex, KillIndex
<1>2. f \in Frames /\ FrameOK(f, indexes[p])
  BY <1>1, UnchangedIndexes, NextTurnOK
<1>3. idx' \subseteq Entries
  <2>1. TurnEntry(call[p], indexes[p]) \subseteq Entries
    BY <1>1, UnchangedIndexes, TurnEntryOK
  <2> QED BY <2>1 DEF SetIndex, KillIndex, TypeInv, TypeOK
<1>4. call' = [call EXCEPT ![p] = f]
  BY DEF SetIndex, KillIndex
<1>5. UNCHANGED <<counter, data, sys, indexes, held>>
  BY DEF SetIndex, KillIndex
<1> HIDE DEF f
<1> QED BY <1>2, <1>3, <1>4, <1>5, TypeUpdate, UnchangedIndexes
        DEF TypeInv, TypeOK

LEMMA EnsureIndexType ==
  ASSUME TypeInv, NEW p \in Procs, NEW d \in IndexDefs, EnsureIndex(p, d)
  PROVE  TypeInv'
<1> DEFINE f1 == [Idle EXCEPT !.op = "ensureIndex"]
           f == [f1 EXCEPT !.at = "setSys"]
           ds == Append(indexes[p], d)
<1>1. f1 \in Frames /\ f1.j = 1
  BY IdleOK, FrameOp DEF Idle
<1>2. f \in Frames /\ f.at = "setSys" /\ f.j = 1
  <2> HIDE DEF f1
  <2> QED BY <1>1, FrameAt
<1>3. d \in Seq(Props) \ {<<>>}
  BY ConstantsAssumption
<1>4. ds \in Defs /\ ds # <<>> /\ ds[Len(ds)] = d
  BY <1>3, UnchangedIndexes DEF Defs
<1>5. FrameOK(f, ds)
  <2>1. 1 \in DOMAIN d
    BY <1>3
  <2> HIDE DEF f, ds
  <2> QED BY <1>2, <1>4, <2>1 DEF FrameOK
<1>6. call' = [call EXCEPT ![p] = f] /\ indexes' = [indexes EXCEPT ![p] = ds]
  BY DEF EnsureIndex
<1> HIDE DEF f, ds
<1> QED BY <1>2, <1>4, <1>5, <1>6, TypeUpdate
        DEF EnsureIndex, store, TypeInv, TypeOK

LEMMA SetSysType ==
  ASSUME TypeInv, NEW p \in Procs, SetSys(p)
  PROVE  TypeInv'
<1> DEFINE d == indexes[p][Len(indexes[p])]
           f == NextProp(call[p], d)
<1>1. call[p] \in Frames /\ call[p].at = "setSys" /\ indexes[p] # <<>>
      /\ call[p].j \in DOMAIN d /\ call[p].j \in Nat \ {0}
  BY DEF TypeInv, TypeOK, SetSys, FrameOK, Frames
<1>2. d \in Seq(Props) \ {<<>>}
  <2>1. Len(indexes[p]) \in DOMAIN indexes[p]
    BY <1>1, UnchangedIndexes DEF Defs
  <2> QED BY <2>1, UnchangedIndexes DEF Defs
<1>3. d[call[p].j] \in Props
  BY <1>1, <1>2
<1>4. f \in Frames /\ FrameOK(f, indexes[p])
  <2>1. CASE call[p].j < Len(d)
    <3>1. call[p].j + 1 \in DOMAIN d /\ call[p].j + 1 \in Nat \ {0}
      BY <1>1, <1>2, <2>1
    <3>2. f \in Frames /\ f.at = "setSys" /\ f.j = call[p].j + 1
      <4>1. f = [call[p] EXCEPT !.j = call[p].j + 1]
        BY <2>1 DEF NextProp
      <4> HIDE DEF f
      <4> QED BY <1>1, <3>1, <4>1, FrameJ
    <3> HIDE DEF f
    <3> QED BY <1>1, <3>1, <3>2 DEF FrameOK
  <2>2. CASE ~(call[p].j < Len(d))
    BY <2>2, IdleOK DEF NextProp
  <2> QED BY <2>1, <2>2
<1>5. call' = [call EXCEPT ![p] = f]
  BY DEF SetSys
<1>6. sys' \subseteq Props
  BY <1>3 DEF SetSys, TypeInv, TypeOK
<1> HIDE DEF f
<1> QED BY <1>4, <1>5, <1>6, TypeUpdate, UnchangedIndexes
        DEF SetSys, TypeInv, TypeOK

LEMMA FindType ==
  ASSUME TypeInv, NEW p \in Procs, NEW q \in Queries, Find(p, q)
  PROVE  TypeInv'
<1> DEFINE at == IF IndexedTerm(indexes[p], q) = 0 THEN "scan" ELSE "indexScan"
           f1 == [Idle EXCEPT !.op = "find"]
           f2 == [f1 EXCEPT !.query = q]
           f == [f2 EXCEPT !.at = at]
<1>1. f1 \in Frames
  BY IdleOK, FrameOp
<1>2. f2 \in Frames
  <2> HIDE DEF f1
  <2> QED BY <1>1, FrameQuery
<1>3. f \in Frames /\ f.at \in {"scan", "indexScan"}
  <2>1. at \in {"scan", "indexScan"}
    OBVIOUS
  <2> HIDE DEF f2, at
  <2> QED BY <1>2, <2>1 DEF Frames
<1>4. call' = [call EXCEPT ![p] = f]
  BY DEF Find
<1> HIDE DEF f
<1>5. FrameOK(f, indexes[p])
  BY <1>3 DEF FrameOK
<1> QED BY <1>3, <1>4, <1>5, TypeUpdate, UnchangedIndexes
        DEF Find, store, TypeInv, TypeOK

LEMMA ReIndexType ==
  ASSUME TypeInv, NEW p \in Procs, ReIndex(p)
  PROVE  TypeInv'
<1> DEFINE f1 == [Idle EXCEPT !.op = "reIndex"]
           f == [f1 EXCEPT !.at = "scan"]
<1>1. f1 \in Frames
  BY IdleOK, FrameOp
<1>2. f \in Frames /\ f.at = "scan"
  <2> HIDE DEF f1
  <2> QED BY <1>1, FrameAt
<1>3. call' = [call EXCEPT ![p] = f]
  BY DEF ReIndex
<1> HIDE DEF f
<1>4. FrameOK(f, indexes[p])
  BY <1>2 DEF FrameOK
<1> QED BY <1>2, <1>3, <1>4, TypeUpdate, UnchangedIndexes
        DEF ReIndex, store, TypeInv, TypeOK

LEMMA ScanType ==
  ASSUME TypeInv, NEW p \in Procs, IndexScan(p) \/ Scan(p)
  PROVE  TypeInv'
<1>1. PICK S \in SUBSET Ids : call' = [call EXCEPT ![p] = Ordered(call[p], S)]
  BY StoredOK DEF IndexScan, Scan
<1> DEFINE f == Ordered(call[p], S)
<1>2. call[p] \in Frames /\ call[p].at \in {"scan", "indexScan"}
  BY DEF TypeInv, TypeOK, IndexScan, Scan
<1>3. f \in Frames /\ f.at \in {"scan", "indexScan", "fetch"}
  BY <1>2, OrderedOK
<1>4. UNCHANGED <<store, indexes, held>>
  BY DEF IndexScan, Scan
<1> HIDE DEF f
<1>5. FrameOK(f, indexes[p])
  BY <1>3 DEF FrameOK
<1> QED BY <1>1, <1>3, <1>4, <1>5, TypeUpdate, UnchangedIndexes
        DEF store, TypeInv, TypeOK, f

LEMMA FetchType ==
  ASSUME TypeInv, NEW p \in Procs, Fetch(p)
  PROVE  TypeInv'
<1> DEFINE i == Order(call[p].ids, call[p].cursor)
           r == [call[p].rows EXCEPT ![i] = Retrieved(i)]
           f1 == [call[p] EXCEPT !.cursor = i]
           f == [f1 EXCEPT !.rows = r]
<1>1. call[p] \in Frames /\ call[p].at = "fetch"
  BY DEF TypeInv, TypeOK, Fetch
<1>2. i \in Ids
  <2>1. call[p].ids \in SUBSET (Nat \ {0}) /\ call[p].cursor \in Nat
    BY <1>1, IdsNat DEF Frames
  <2>2. i \in call[p].ids
    <3>1. i \in call[p].ids \cup {0}
      BY <2>1, OrderNext
    <3>2. i # 0
      BY DEF Fetch
    <3> QED BY <3>1, <3>2
  <2> QED BY <1>1, <2>2 DEF Frames
<1>3. r \in [Ids -> Objects \cup {Missing}]
  BY <1>1, <1>2, StoredOK DEF Frames
<1>4. f1 \in Frames /\ f1.at = "fetch" /\ f1.rows = call[p].rows
  <2> HIDE DEF i, r
  <2> QED BY <1>1, <1>2, IdsNat, FrameCursor
<1>5. f \in Frames /\ f.at = "fetch"
  <2> HIDE DEF f1, r
  <2> QED BY <1>3, <1>4, FrameRows
<1>6. call' = [call EXCEPT ![p] = f]
  BY <1>1 DEF Fetch, TypeInv, TypeOK, Frames
<1> HIDE DEF f
<1>7. FrameOK(f, indexes[p])
  BY <1>5 DEF FrameOK
<1> QED BY <1>5, <1>6, <1>7, TypeUpdate, UnchangedIndexes
        DEF Fetch, store, TypeInv, TypeOK

LEMMA FetchEndType ==
  ASSUME TypeInv, NEW p \in Procs, FetchEnd(p)
  PROVE  TypeInv'
<1>1. CASE call[p].op = "find"
  <2>1. call' = [call EXCEPT ![p] = Idle]
    BY <1>1 DEF FetchEnd
  <2> QED BY <2>1, TypeUpdate, UnchangedIndexes, IdleOK
          DEF FetchEnd, store, TypeInv, TypeOK
<1>2. CASE call[p].op # "find"
  <2> DEFINE f == IndexLoop(call[p], "setIndex", indexes[p])
  <2>1. call' = [call EXCEPT ![p] = f]
    BY <1>2 DEF FetchEnd
  <2>2. f \in Frames /\ FrameOK(f, indexes[p])
    BY UnchangedIndexes, IndexLoopOK DEF TypeInv, TypeOK
  <2> HIDE DEF f
  <2> QED BY <2>1, <2>2, TypeUpdate, UnchangedIndexes
          DEF FetchEnd, store, TypeInv, TypeOK
<1> QED BY <1>1, <1>2

LEMMA CrashType ==
  ASSUME TypeInv, NEW p \in Procs, Crash(p)
  PROVE  TypeInv'
<1>1. <<>> \in Defs
  BY DEF Defs
<1> QED BY <1>1, TypeUpdate, IdleOK DEF Crash, store, TypeInv, TypeOK

LEMMA TypeStep ==
  ASSUME TypeInv, NEW p \in Procs, Step(p)
  PROVE  TypeInv'
BY OpenType, LoadIndexType, AddIncrementType, AddUpdateType,
   AddUpdateFailsType, SaveType, RemoveType, RemoveAllType, SetIndexType,
   EnsureIndexType, SetSysType, FindType, ReIndexType, ScanType, FetchType,
   FetchEndType, CrashType
   DEF Step

\* Every collection, whatever the number of processes and keys, keeps the
\* types of its globals and of the calls in progress.
THEOREM TypeCorrect == Spec => []TypeOK
<1>1. Init => TypeInv
  <2> SUFFICES ASSUME Init PROVE TypeInv
    OBVIOUS
  <2>1. TypeOK
    BY ConstantsAssumption, IdleOK DEF Init, TypeOK, NoRows
  <2>2. \A p \in Procs : FrameOK(call[p], indexes[p])
    BY IdleOK DEF Init
  <2> QED BY <2>1, <2>2 DEF TypeInv
<1>2. TypeInv /\ [Next]_vars => TypeInv'
  <2> SUFFICES ASSUME TypeInv, [Next]_vars PROVE TypeInv'
    OBVIOUS
  <2>1. CASE Next
    BY <2>1, TypeStep DEF Next
  <2>2. CASE UNCHANGED vars
    BY <2>2 DEF vars, TypeInv, TypeOK, FrameOK, RowIds
  <2> QED BY <2>1, <2>2
<1>3. TypeInv => TypeOK
  BY DEF TypeInv
<1> QED BY <1>1, <1>2, <1>3, PTL DEF Spec

-----------------------------------------------------------------------------
(* Primary keys: without a remove of the whole collection and without keys *)
(* that applications make up, no two records share one, and the collection *)
(* implements the store of records by key.                                 *)

KeyAssumption == "removeAll" \notin Ops /\ Forged = {}

\* What the keys of records, of applications and of adds in flight have to do
\* with each other: `increment' has handed all of them out, and an add's key
\* is nobody else's.
KeyInv ==
  /\ TypeInv
  /\ Stored \subseteq held
  /\ \A i \in held : i <= counter
  /\ \A p \in Procs : Adding(p) =>
       call[p].cursor <= counter /\ call[p].cursor \notin held
  /\ OwnKeys

\* The add of p ends, or p takes a step with no add in flight.
LEMMA KeyUpdate ==
  ASSUME KeyInv, TypeInv', NEW p \in Procs, NEW f \in Frames,
         call' = [call EXCEPT ![p] = f], f.at # "addUpdate",
         counter' = counter,
         held' = held \/ (Adding(p) /\ held' = held \cup {call[p].cursor}),
         Stored' \subseteq held'
  PROVE  KeyInv'
<1>1. /\ ~Adding(p)'
      /\ \A q \in Procs \ {p} : /\ Adding(q)' <=> Adding(q)
                                /\ call'[q] = call[q]
  BY DEF KeyInv, TypeInv, TypeOK, Adding
<1>2. \A i \in held' : i <= counter'
  BY DEF KeyInv
<1>3. \A q \in Procs : Adding(q)' =>
        call'[q].cursor <= counter' /\ call'[q].cursor \notin held'
  BY <1>1 DEF KeyInv, OwnKeys
<1>4. OwnKeys'
  BY <1>1 DEF KeyInv, OwnKeys
<1> QED BY <1>2, <1>3, <1>4 DEF KeyInv

\* A step of p that is neither an add's nor a write of a record.
Quiet(p) ==
  \/ Open(p) \/ LoadIndex(p) \/ SetIndex(p) \/ KillIndex(p)
  \/ \E d \in IndexDefs : EnsureIndex(p, d)
  \/ SetSys(p)
  \/ \E q \in Queries : Find(p, q)
  \/ ReIndex(p) \/ IndexScan(p) \/ Scan(p) \/ Fetch(p) \/ FetchEnd(p)
  \/ Crash(p)

LEMMA QuietFrame ==
  ASSUME TypeInv, TypeInv', NEW p \in Procs, Quiet(p)
  PROVE  /\ counter' = counter /\ held' = held /\ data' = data
         /\ \E f \in Frames :
              call' = [call EXCEPT ![p] = f] /\ f.at # "addUpdate"
<1>0. /\ call \in [Procs -> Frames]
      /\ call' \in [Procs -> Frames]
      /\ FrameOK(call[p], indexes[p])
      /\ indexes[p] \in Defs
  BY UnchangedIndexes DEF TypeInv, TypeOK
<1>1. counter' = counter /\ held' = held /\ data' = data
  BY DEF Quiet, store, Open, LoadIndex, SetIndex, KillIndex, EnsureIndex, SetSys,
         Find, ReIndex, IndexScan, Scan, Fetch, FetchEnd, Crash
<1>2. PICK f \in Frames : call' = [call EXCEPT ![p] = f]
  <2>1. PICK f : call' = [call EXCEPT ![p] = f]
    BY <1>0 DEF Quiet, Open, LoadIndex, SetIndex, KillIndex, EnsureIndex,
         SetSys, Find, ReIndex, IndexScan, Scan, Fetch, FetchEnd, Crash
  <2>2. call'[p] = f
    BY <1>0, <2>1
  <2> QED BY <1>0, <2>1, <2>2
<1>3. f.at # "addUpdate"
  <2>0. f = call'[p]
    BY <1>0, <1>2
  <2>1. CASE Open(p)
    BY <1>0, <2>0, <2>1 DEF Open, Idle
  <2>2. CASE LoadIndex(p)
    <3>1. PICK x : f = Idle \/ f = [call[p] EXCEPT !.cursor = x]
      BY <1>0, <2>0, <2>2 DEF LoadIndex
    <3>2. call[p].at = "load" /\ call[p] \in Frames
      BY <1>0, <2>2 DEF LoadIndex
    <3>3. [call[p] EXCEPT !.cursor = x].at = "load"
      BY <3>2 DEF Frames
    <3> QED BY <3>1, <3>3, IdleOK
  <2>3. CASE SetIndex(p) \/ KillIndex(p)
    <3>1. f = NextTurn(call[p], indexes[p])
      BY <1>0, <2>0, <2>3 DEF SetIndex, KillIndex
    <3>2. call[p] \in Frames /\ call[p].at \in {"setIndex", "killIndex"}
      BY <1>0, <2>3 DEF SetIndex, KillIndex
    <3> QED BY <1>0, <3>1, <3>2, NextTurnOK
  <2>4. CASE \E d \in IndexDefs : EnsureIndex(p, d)
    BY <1>0, <2>0, <2>4 DEF EnsureIndex, Idle
  <2>5. CASE SetSys(p)
    <3>1. PICK d : f = NextProp(call[p], d) /\ call[p].at = "setSys"
      BY <1>0, <2>0, <2>5 DEF SetSys
    <3> QED BY <1>0, <3>1, IdleOK DEF NextProp, Frames
  <2>6. CASE \E q \in Queries : Find(p, q)
    BY <1>0, <2>0, <2>6 DEF Find, Idle
  <2>7. CASE ReIndex(p)
    BY <1>0, <2>0, <2>7 DEF ReIndex, Idle
  <2>8. CASE IndexScan(p) \/ Scan(p)
    <3>1. PICK S \in SUBSET Ids : f = Ordered(call[p], S)
      BY <1>0, <2>0, <2>8, StoredOK DEF IndexScan, Scan
    <3>2. call[p] \in Frames /\ call[p].at \in {"scan", "indexScan"}
      BY <1>0, <2>8 DEF IndexScan, Scan
    <3> QED BY <3>1, <3>2, OrderedOK
  <2>9. CASE Fetch(p)
    BY <1>0, <2>0, <2>9 DEF Fetch, Frames
  <2>10. CASE FetchEnd(p)
    <3>1. f = Idle \/ f = IndexLoop(call[p], "setIndex", indexes[p])
      BY <1>0, <2>0, <2>10 DEF FetchEnd
    <3> QED BY <1>0, <3>1, IdleOK, IndexLoopOK
  <2>11. CASE Crash(p)
    BY <1>0, <2>0, <2>11, IdleOK DEF Crash
  <2> QED BY <2>1, <2>2, <2>3, <2>4, <2>5, <2>6, <2>7, <2>8, <2>9, <2>10,
             <2>11 DEF Quiet
<1> QED BY <1>1, <1>2, <1>3

LEMMA KeyQuiet ==
  ASSUME KeyInv, TypeInv', NEW p \in Procs, Quiet(p)
  PROVE  KeyInv'
<1>1. TypeInv
  BY DEF KeyInv
<1>2. PICK f \in Frames : call' = [call EXCEPT ![p] = f] /\ f.at # "addUpdate"
  BY <1>1, QuietFrame
<1>3. counter' = counter /\ held' = held /\ data' = data
  BY <1>1, QuietFrame
<1>4. Stored' \subseteq held'
  BY <1>3 DEF Stored, KeyInv
<1> QED BY <1>2, <1>3, <1>4, KeyUpdate

LEMMA KeyAddIncrement ==
  ASSUME KeyInv, TypeInv', NEW p \in Procs, NEW o \in Objects,
         AddIncrement(p, o)
  PROVE  KeyInv'
<1> DEFINE f == Writing("add", "addUpdate", counter + 1, o)
<1>1. f.at = "addUpdate" /\ f.cursor = counter + 1
  BY DEF Writing, Idle
<1>2. call' = [call EXCEPT ![p] = f] /\ counter' = counter + 1
      /\ held' = held /\ data' = data /\ counter \in Nat /\ held \subseteq Nat
  BY IdsNat DEF AddIncrement, KeyInv, TypeInv, TypeOK
<1> HIDE DEF f
<1>3. /\ call'[p] = f
      /\ \A q \in Procs \ {p} : call'[q] = call[q]
  BY <1>2 DEF KeyInv, TypeInv, TypeOK
<1>4. Stored' \subseteq held'
  BY <1>2 DEF Stored, KeyInv
<1>5. \A i \in held' : i <= counter'
  BY <1>2 DEF KeyInv
<1>6. \A q \in Procs : Adding(q)' =>
        call'[q].cursor <= counter' /\ call'[q].cursor \notin held'
  <2>1. counter + 1 \notin held
    BY <1>2 DEF KeyInv
  <2>2. \A q \in Procs : call[q].cursor \in Nat
    BY DEF KeyInv, TypeInv, TypeOK, Frames
  <2> QED BY <1>1, <1>2, <1>3, <2>1, <2>2 DEF KeyInv, Adding
<1>7. OwnKeys'
  <2>1. \A q \in Procs : Adding(q) => call[q].cursor # counter + 1
    <3>1. \A q \in Procs : call[q].cursor \in Nat
      BY DEF KeyInv, TypeInv, TypeOK, Frames
    <3> QED BY <1>2, <3>1 DEF KeyInv
  <2> QED BY <1>1, <1>3, <2>1 DEF KeyInv, OwnKeys, Adding
<1> QED BY <1>4, <1>5, <1>6, <1>7 DEF KeyInv

LEMMA KeyAddUpdate ==
  ASSUME KeyInv, TypeInv', NEW p \in Procs, AddUpdate(p)
  PROVE  KeyInv'
<1> DEFINE f == IndexLoop(call[p], "setIndex", indexes[p])
<1>1. f \in Frames /\ f.at # "addUpdate"
  <2>1. call[p] \in Frames /\ indexes[p] \in Defs
    BY UnchangedIndexes DEF KeyInv, TypeInv, TypeOK
  <2> QED BY <2>1, IndexLoopOK
<1>2. call' = [call EXCEPT ![p] = f]
  BY DEF AddUpdate
<1>3. Adding(p) /\ held' = held \cup {call[p].cursor} /\ counter' = counter
  BY DEF AddUpdate, Adding
<1>4. Stored' \subseteq held'
  <2>1. \A i \in Ids \ {call[p].cursor} : data'[i] = data[i]
    BY DEF AddUpdate, KeyInv, TypeInv, TypeOK
  <2> QED BY <1>3, <2>1 DEF Stored, KeyInv
<1> HIDE DEF f
<1> QED BY <1>1, <1>2, <1>3, <1>4, KeyUpdate

LEMMA KeyAddUpdateFails ==
  ASSUME KeyInv, TypeInv', NEW p \in Procs, AddUpdateFails(p)
  PROVE  KeyInv'
<1>1. Adding(p) /\ held' = held \cup {call[p].cursor} /\ counter' = counter
      /\ call' = [call EXCEPT ![p] = Idle] /\ data' = data
  BY DEF AddUpdateFails, Adding, store
<1>2. Stored' \subseteq held'
  BY <1>1 DEF Stored, KeyInv
<1> QED BY <1>1, <1>2, IdleOK, KeyUpdate

LEMMA KeySave ==
  ASSUME KeyAssumption, KeyInv, TypeInv', NEW p \in Procs, NEW i \in Ids,
         NEW o \in Objects, Save(p, i, o) \/ Remove(p, i, o)
  PROVE  KeyInv'
<1> PICK op \in {"save", "remove"}, at \in {"setIndex", "killIndex"} :
      call' = [call EXCEPT ![p] =
                 IndexLoop(Writing(op, at, i, o), at, indexes[p])]
  BY DEF Save, Remove
<1> DEFINE w == Writing(op, at, i, o)
           f == IndexLoop(w, at, indexes[p])
<1>1. f \in Frames /\ f.at # "addUpdate"
  <2>1. indexes[p] \in Defs
    BY UnchangedIndexes DEF KeyInv
  <2>2. w \in Frames
    BY WritingFrame
  <2> HIDE DEF w
  <2> QED BY <2>1, <2>2, IndexLoopOK
<1>2. counter' = counter /\ held' = held /\ i \in held
  BY DEF Save, Remove, Keys, KeyAssumption
<1>3. Stored' \subseteq held'
  <2>1. \A k \in Ids \ {i} : data'[k] = data[k]
    BY DEF Save, Remove, KeyInv, TypeInv, TypeOK
  <2> QED BY <1>2, <2>1 DEF Stored, KeyInv
<1> HIDE DEF f
<1> QED BY <1>1, <1>2, <1>3, KeyUpdate DEF f

LEMMA KeyStep ==
  ASSUME KeyAssumption, KeyInv, NEW p \in Procs, Step(p)
  PROVE  KeyInv'
<1>1. TypeInv'
  BY TypeStep DEF KeyInv
<1>2. ~RemoveAll(p)
  BY DEF RemoveAll, KeyAssumption
<1> QED BY <1>1, <1>2, KeyAddIncrement, KeyAddUpdate, KeyAddUpdateFails,
           KeySave, KeyQuiet DEF Step, Quiet

LEMMA KeyInit == Init => KeyInv
<1> SUFFICES ASSUME Init PROVE KeyInv
  OBVIOUS
<1>1. TypeInv
  <2>1. TypeOK
    BY ConstantsAssumption, IdleOK DEF Init, TypeOK, NoRows
  <2> QED BY <2>1, IdleOK DEF Init, TypeInv
<1>2. Stored = {} /\ held = {}
  BY DEF Init, Stored, NoRows
<1>3. \A p \in Procs : ~Adding(p)
  BY IdleOK DEF Init, Adding
<1> QED BY <1>1, <1>2, <1>3 DEF KeyInv, OwnKeys

LEMMA KeyStutter == KeyInv /\ UNCHANGED vars => KeyInv'
BY DEF vars, KeyInv, TypeInv, TypeOK, FrameOK, RowIds, Stored, Adding, OwnKeys

LEMMA KeyInvariant ==
  ASSUME KeyAssumption
  PROVE  Spec => []KeyInv
<1>1. KeyInv /\ [Next]_vars => KeyInv'
  BY KeyStep, KeyStutter DEF Next
<1> QED BY <1>1, KeyInit, PTL DEF Spec

\* The key an add has drawn names no record and is known to no application,
\* however many processes add, save, remove and end.
THEOREM KeysAreFresh ==
  ASSUME KeyAssumption
  PROVE  Spec => []FreshIds
<1>1. KeyInv => FreshIds
  <2> SUFFICES ASSUME KeyInv, NEW p \in Procs, Adding(p)
               PROVE  data[call[p].cursor] = Missing
                      /\ call[p].cursor \notin held
    BY DEF FreshIds
  <2>1. call[p].cursor \in Ids
    BY DEF KeyInv, TypeInv, FrameOK, Adding
  <2> QED BY <2>1 DEF KeyInv, Stored
<1> QED BY <1>1, KeyInvariant, PTL

\* No two adds in flight have drawn one key.
THEOREM KeysAreOwn ==
  ASSUME KeyAssumption
  PROVE  Spec => []OwnKeys
<1>1. KeyInv => OwnKeys
  BY DEF KeyInv
<1> QED BY <1>1, KeyInvariant, PTL

-----------------------------------------------------------------------------
(* The refinement: what the two mapped variables do in each kind of step.  *)

LEMMA PendingOwn ==
  ASSUME KeyInv, NEW p \in Procs, Adding(p)
  PROVE  /\ call[p].cursor \in Ids
         /\ Pending(call[p].cursor) = {p}
         /\ InFlight[call[p].cursor] = call[p].rows[call[p].cursor]
         /\ InFlight[call[p].cursor] \in Objects
<1> DEFINE k == call[p].cursor
<1>1. k \in Ids /\ call[p].rows[k] \in Objects
  BY DEF KeyInv, TypeInv, TypeOK, FrameOK, Adding, RowIds, Frames
<1>2. Pending(k) = {p}
  BY DEF Pending, KeyInv, OwnKeys
<1>3. InFlight[k] = call[p].rows[k]
  BY <1>1, <1>2 DEF InFlight, One
<1> QED BY <1>1, <1>2, <1>3

LEMMA NoAddMapped ==
  ASSUME KeyInv, NEW p \in Procs, NEW f \in Frames, ~Adding(p),
         call' = [call EXCEPT ![p] = f], f.at # "addUpdate",
         counter' = counter
  PROVE  InFlight' = InFlight /\ Spent' = Spent
<1>1. /\ ~Adding(p)'
      /\ \A q \in Procs \ {p} : call'[q] = call[q]
  BY DEF KeyInv, TypeInv, TypeOK, Adding
<1>2. \A i : Pending(i)' = Pending(i)
  BY <1>1 DEF Pending, Adding
<1>3. \A i : \A q \in Pending(i) : call'[q] = call[q]
  BY <1>1 DEF Pending
<1>4. InFlight' = InFlight
  <2>1. ASSUME NEW i \in Ids
        PROVE  InFlight'[i] = InFlight[i]
    <3>1. CASE Pending(i) = {}
      BY <1>2, <3>1 DEF InFlight
    <3>2. CASE Pending(i) # {}
      <4>1. One(Pending(i)) \in Pending(i)
        BY <3>2 DEF One
      <4> QED BY <1>2, <1>3, <3>2, <4>1 DEF InFlight
    <3> QED BY <3>1, <3>2
  <2> QED BY <2>1 DEF InFlight
<1>5. Spent' = Spent
  BY <1>2 DEF Spent
<1> QED BY <1>4, <1>5

\* The add of p ends: stored, failed, or its process gone.
LEMMA AddEndsMapped ==
  ASSUME KeyInv, KeyInv', NEW p \in Procs, NEW f \in Frames, Adding(p),
         call' = [call EXCEPT ![p] = f], f.at # "addUpdate",
         counter' = counter
  PROVE  Records!Spend(call[p].cursor)
<1> PICK k : k = call[p].cursor
  OBVIOUS
<1>0. k \in Ids /\ Pending(k) = {p} /\ InFlight[k] \in Objects /\ k <= counter
  BY PendingOwn DEF KeyInv
<1>1. /\ ~Adding(p)'
      /\ \A q \in Procs \ {p} : call'[q] = call[q]
  BY DEF KeyInv, TypeInv, TypeOK, Adding
<1>2. Pending(k)' = {}
  BY <1>0, <1>1 DEF Pending, Adding
<1>3. \A i \in Ids \ {k} : Pending(i)' = Pending(i)
  BY <1>1 DEF Pending, Adding
<1>4. \A i \in Ids \ {k} : InFlight'[i] = InFlight[i]
  <2>1. ASSUME NEW i \in Ids \ {k}
        PROVE  InFlight'[i] = InFlight[i]
    <3>1. CASE Pending(i) = {}
      BY <1>3, <3>1 DEF InFlight
    <3>2. CASE Pending(i) # {}
      <4>1. One(Pending(i)) \in Pending(i)
        BY <3>2 DEF One
      <4>2. \A q \in Pending(i) : call'[q] = call[q]
        BY <1>1 DEF Pending
      <4> QED BY <1>3, <3>2, <4>1, <4>2 DEF InFlight
    <3> QED BY <3>1, <3>2
  <2> QED BY <2>1
<1>5. InFlight'[k] = Missing
  BY <1>0, <1>2 DEF InFlight
<1>6. InFlight' = [InFlight EXCEPT ![k] = Missing]
  <2>1. /\ InFlight = [i \in Ids |-> InFlight[i]]
        /\ InFlight' = [i \in Ids |-> InFlight'[i]]
    BY DEF InFlight
  <2> QED BY <1>0, <1>4, <1>5, <2>1
<1>7. Spent' = Spent \cup {k}
  BY <1>0, <1>2, <1>3 DEF Spent
<1>8. InFlight[k] # Missing
  BY <1>0, ConstantsAssumption
<1> QED BY <1>6, <1>7, <1>8 DEF Records!Spend

LEMMA QuietMaps ==
  ASSUME KeyInv, TypeInv', NEW p \in Procs, ~Adding(p), Quiet(p)
  PROVE  UNCHANGED Records!rvars
<1>1. TypeInv
  BY DEF KeyInv
<1>2. PICK f \in Frames : call' = [call EXCEPT ![p] = f] /\ f.at # "addUpdate"
  BY <1>1, QuietFrame
<1>3. counter' = counter /\ data' = data
  BY <1>1, QuietFrame
<1> QED BY <1>2, <1>3, NoAddMapped DEF Records!rvars

LEMMA AddIncrementMaps ==
  ASSUME KeyInv, KeyInv', NEW p \in Procs, NEW o \in Objects,
         AddIncrement(p, o)
  PROVE  Records!Draw(counter + 1, o) /\ counter + 1 \in Ids
<1> PICK k : k = counter + 1
  OBVIOUS
<1> DEFINE f == Writing("add", "addUpdate", k, o)
<1>1. k \in Ids /\ counter' = k /\ data' = data /\ counter \in Nat
  BY ConstantsAssumption
     DEF KeyInv, TypeInv, TypeOK, Ids, AddIncrement
<1>2. f.at = "addUpdate" /\ f.cursor = k /\ f.rows[k] = o
  BY <1>1 DEF Writing, Idle, NoRows
<1>3. /\ call'[p] = f /\ ~Adding(p)
      /\ \A q \in Procs \ {p} : call'[q] = call[q]
  BY DEF AddIncrement, KeyInv, TypeInv, TypeOK, Adding
<1>4. Pending(k) = {} /\ k \notin Spent
  <2>1. \A q \in Procs : call[q].cursor \in Nat
    BY DEF KeyInv, TypeInv, TypeOK, Frames
  <2> QED BY <1>1, <2>1 DEF Pending, Spent, KeyInv
<1> HIDE DEF f
<1>5. Pending(k)' = {p}
  BY <1>2, <1>3, <1>4 DEF Pending, Adding
<1>6. \A i \in Ids \ {k} : Pending(i)' = Pending(i)
  BY <1>2, <1>3 DEF Pending, Adding
<1>7. \A i \in Ids \ {k} : InFlight'[i] = InFlight[i]
  <2>1. ASSUME NEW i \in Ids \ {k}
        PROVE  InFlight'[i] = InFlight[i]
    <3>1. CASE Pending(i) = {}
      BY <1>6, <3>1 DEF InFlight
    <3>2. CASE Pending(i) # {}
      <4>1. One(Pending(i)) \in Pending(i)
        BY <3>2 DEF One
      <4>2. \A q \in Pending(i) : call'[q] = call[q]
        BY <1>3 DEF Pending
      <4> QED BY <1>6, <3>2, <4>1, <4>2 DEF InFlight
    <3> QED BY <3>1, <3>2
  <2> QED BY <2>1
<1>8. InFlight'[k] = o
  <2>1. One({p}) = p
    BY DEF One
  <2> QED BY <1>1, <1>2, <1>3, <1>5, <2>1 DEF InFlight
<1>9. InFlight[k] = Missing
  BY <1>1, <1>4 DEF InFlight
<1>10. InFlight' = [InFlight EXCEPT ![k] = o]
  BY <1>1, <1>7, <1>8 DEF InFlight
<1>11. Spent' = Spent
  <2>1. \A i \in Ids : i <= counter' <=> i <= counter \/ i = k
    BY <1>1, IdsNat
  <2>2. \A i \in Ids : i \in Spent' <=> i \in Spent
    <3>1. k \notin Spent'
      BY <1>5 DEF Spent
    <3> QED BY <1>4, <1>6, <2>1, <3>1 DEF Spent
  <2> QED BY <2>2 DEF Spent
<1> QED BY <1>1, <1>4, <1>9, <1>10, <1>11 DEF Records!Draw

LEMMA AddUpdateMaps ==
  ASSUME KeyInv, KeyInv', NEW p \in Procs, AddUpdate(p)
  PROVE  Records!Insert(call[p].cursor) /\ call[p].cursor \in Ids
<1> PICK k : k = call[p].cursor
  OBVIOUS
<1> DEFINE f == IndexLoop(call[p], "setIndex", indexes[p])
<1>1. Adding(p) /\ counter' = counter /\ call' = [call EXCEPT ![p] = f]
  BY DEF AddUpdate, Adding
<1>2. f \in Frames /\ f.at # "addUpdate"
  <2>1. call[p] \in Frames /\ indexes[p] \in Defs
    BY UnchangedIndexes DEF KeyInv, TypeInv, TypeOK
  <2> QED BY <2>1, IndexLoopOK
<1> HIDE DEF f
<1>3. Records!Spend(k)
  BY <1>1, <1>2, AddEndsMapped
<1>4. k \in Ids /\ InFlight[k] = call[p].rows[k]
  BY <1>1, PendingOwn
<1>5. data[k] = Missing
  BY <1>1, <1>4 DEF KeyInv, Stored
<1>6. data' = [data EXCEPT ![k] = InFlight[k]]
  BY <1>4, <1>5 DEF AddUpdate, Updated, Merged
<1> QED BY <1>3, <1>4, <1>5, <1>6 DEF Records!Insert

LEMMA AddEndsMaps ==
  ASSUME KeyInv, KeyInv', NEW p \in Procs, Adding(p),
         AddUpdateFails(p) \/ Crash(p)
  PROVE  Records!Fail(call[p].cursor) /\ call[p].cursor \in Ids
<1>1. counter' = counter /\ data' = data
  BY DEF AddUpdateFails, Crash, store
<1>2. PICK f \in {Idle, Off} : call' = [call EXCEPT ![p] = f]
  BY DEF AddUpdateFails, Crash
<1>3. f \in Frames /\ f.at # "addUpdate"
  BY <1>2, IdleOK
<1>4. Records!Spend(call[p].cursor)
  BY <1>1, <1>2, <1>3, AddEndsMapped
<1> QED BY <1>1, <1>4, PendingOwn DEF Records!Fail

LEMMA SaveMaps ==
  ASSUME KeyAssumption, KeyInv, KeyInv', NEW p \in Procs, NEW i \in Ids,
         NEW o \in Objects, Save(p, i, o) \/ Remove(p, i, o)
  PROVE  Records!Delete(i) \/ \E n \in Objects : Records!Replace(i, n)
<1> PICK op \in {"save", "remove"}, at \in {"setIndex", "killIndex"} :
      call' = [call EXCEPT ![p] =
                 IndexLoop(Writing(op, at, i, o), at, indexes[p])]
  BY DEF Save, Remove
<1> DEFINE w == Writing(op, at, i, o)
           f == IndexLoop(w, at, indexes[p])
<1>1. f \in Frames /\ f.at # "addUpdate"
  <2>1. w \in Frames /\ indexes[p] \in Defs
    BY WritingOK, UnchangedIndexes DEF KeyInv
  <2> HIDE DEF w
  <2> QED BY <2>1, IndexLoopOK
<1>2. counter' = counter /\ ~Adding(p)
  BY DEF Save, Remove, Adding
<1> HIDE DEF f
<1>3. InFlight' = InFlight /\ Spent' = Spent
  BY <1>1, <1>2, NoAddMapped DEF f
<1>4. i \in Spent
  <2>1. i \in held
    BY DEF Save, Remove, Keys, KeyAssumption
  <2> QED BY <2>1 DEF Spent, Pending, KeyInv
<1>5. CASE Save(p, i, o)
  <2>1. PICK n \in Updated(data[i], o) : data' = [data EXCEPT ![i] = n]
    BY <1>5 DEF Save
  <2>2. n \in Objects
    BY <2>1, UpdatedOK DEF KeyInv, TypeInv, TypeOK
  <2> QED BY <1>3, <1>4, <2>1, <2>2 DEF Records!Replace
<1>6. CASE Remove(p, i, o)
  BY <1>3, <1>4, <1>6 DEF Remove, Records!Delete, Records!Replace
<1> QED BY <1>5, <1>6

LEMMA StepMaps ==
  ASSUME KeyAssumption, KeyInv, KeyInv', NEW p \in Procs, Step(p)
  PROVE  [Records!RNext]_(Records!rvars)
<1>1. TypeInv'
  BY DEF KeyInv
<1>2. ASSUME NEW o \in Objects, AddIncrement(p, o)
      PROVE  Records!RNext
  BY <1>2, AddIncrementMaps DEF Records!RNext
<1>3. ASSUME AddUpdate(p)
      PROVE  Records!RNext
  BY <1>3, AddUpdateMaps DEF Records!RNext
<1>4. ASSUME AddUpdateFails(p) \/ (Adding(p) /\ Crash(p))
      PROVE  Records!RNext
  <2>1. Adding(p)
    BY <1>4 DEF AddUpdateFails, Adding
  <2> QED BY <1>4, <2>1, AddEndsMaps DEF Records!RNext
<1>5. ASSUME NEW i \in Ids, NEW o \in Objects, Save(p, i, o) \/ Remove(p, i, o)
      PROVE  Records!RNext
  BY <1>5, SaveMaps DEF Records!RNext
<1>6. ASSUME Quiet(p), ~(Adding(p) /\ Crash(p))
      PROVE  UNCHANGED Records!rvars
  <2>1. ~Adding(p)
    BY <1>6 DEF Quiet, Adding, Open, LoadIndex, SetIndex, KillIndex,
         EnsureIndex, SetSys, Find, ReIndex, IndexScan, Scan, Fetch, FetchEnd
  <2> QED BY <1>1, <1>6, <2>1, QuietMaps
<1>7. ~RemoveAll(p)
  BY DEF RemoveAll, KeyAssumption
<1> QED BY <1>2, <1>3, <1>4, <1>5, <1>6, <1>7 DEF Step, Quiet

\* The collection implements the store of records by key: whatever the calls
\* of the processes do to each other, an add draws a key that was never
\* drawn, stores its object whole under it or loses the key, and save and
\* remove touch only records whose add is over.
THEOREM CollectionStoresRecords ==
  ASSUME KeyAssumption
  PROVE  Spec => StoresRecords
<1>1. Init => Records!RInit
  <2> SUFFICES ASSUME Init PROVE Records!RInit
    OBVIOUS
  <2>1. \A p \in Procs : ~Adding(p)
    BY IdleOK DEF Init, Adding
  <2>2. \A i : Pending(i) = {}
    BY <2>1 DEF Pending
  <2>3. InFlight = [i \in Ids |-> Missing]
    BY <2>2 DEF InFlight
  <2>4. Spent = {}
    <3>1. counter = 0
      BY DEF Init
    <3>2. \A i \in Ids : ~(i <= counter)
      BY <3>1, IdsNat
    <3> QED BY <3>2 DEF Spent
  <2> QED BY <2>3, <2>4 DEF Init, NoRows, Records!RInit
<1>2. KeyInv /\ KeyInv' /\ [Next]_vars => [Records!RNext]_(Records!rvars)
  <2> SUFFICES ASSUME KeyInv, KeyInv', [Next]_vars
               PROVE  [Records!RNext]_(Records!rvars)
    OBVIOUS
  <2>1. CASE Next
    BY <2>1, StepMaps DEF Next
  <2>2. CASE UNCHANGED vars
    BY <2>2 DEF vars, Records!rvars, InFlight, Spent, Pending, Adding
  <2> QED BY <2>1, <2>2
<1> QED BY <1>1, <1>2, KeyInvariant, PTL
        DEF Spec, StoresRecords, Records!RSpec

-----------------------------------------------------------------------------
(* The indexes. *)

\* The applications of the run Index: none makes up keys, drops the collection,
\* creates an index while others write, ends within a write or fails to write
\* an entry; and two writers of one record take turns.
IndexAssumption ==
  /\ Ops \cap {"removeAll", "ensureIndex"} = {}
  /\ Faults \subseteq {"update"}
  /\ Forged = {}
  /\ Exclusive

\* The applications of MCIndex's owner: there is one process, its indexes are
\* of one property each, and it makes up no keys, does not drop the collection,
\* and neither ends within a write nor fails to write an entry.
OwnerAssumption ==
  /\ \A p, q \in Procs : p = q
  /\ "removeAll" \notin Ops
  /\ Faults \subseteq {"update"}
  /\ Forged = {}
  /\ \A d \in IndexDefs : Len(d) = 1

\* What the two have in common.
WriterAssumption ==
  /\ "removeAll" \notin Ops
  /\ Faults \subseteq {"update"}
  /\ Forged = {}
  /\ Exclusive \/ \A p, q \in Procs : p = q

\* p is between the write of a record, or the increment of an add, and the end.
Writes(p) == call[p].op \in {"add", "save", "remove"}

\* x is the first property of an index of p.
Knows(p, x) == \E d \in DOMAIN indexes[p] : Head(indexes[p][d]) = x

\* A write is at its one row, and the record of a remove is gone until its
\* entries are; a process that has read the indexes knows all of them, and one
\* that names an index in ^foo5gdb has it at the end of its list.
CallOK(p) ==
  /\ call[p].at = "setSys" =>
       /\ "ensureIndex" \in Ops /\ ~Writes(p)
       /\ indexes[p] # <<>> /\ indexes[p][Len(indexes[p])] \in IndexDefs
  /\ Writes(p) =>
       /\ call[p].at \in {"addUpdate", "setIndex", "killIndex"}
       /\ RowIds(call[p]) = {call[p].cursor}
       /\ ~Adding(p) => call[p].cursor \in held
       /\ call[p].op = "remove" => call[p].at = "killIndex"
  /\ call[p].at = "killIndex" =>
       call[p].op = "remove" /\ data[call[p].cursor] = Missing
  /\ call[p].at # "off" =>
       \A x \in sys : (call[p].at = "load" => x <= call[p].cursor) => Knows(p, x)

\* Writes of one record are one after the other.
OneWriter ==
  \A p, q \in Procs : Writes(p) /\ Writes(q) /\ p # q =>
    call[p].cursor # call[q].cursor

\* The writer of i has the turn of the entry still before it.
Due(p, i, x) ==
  /\ Writes(p) /\ call[p].at = "setIndex" /\ call[p].cursor = i
  /\ call[p].rows[i][x] = data[i][x]
  /\ \E d \in DOMAIN indexes[p] : d >= call[p].j /\ Head(indexes[p][d]) = x

\* Each entry is there, excused by X or due; and so after the step, with Y.
EntriesDue(X) ==
  \A i \in Stored, x \in sys : data[i][x] # Absent /\ <<x, i>> \notin X =>
    <<x, data[i][x], i>> \in idx \/ \E p \in Procs : Due(p, i, x)

DueNext(Y) ==
  \A i \in Stored', x \in sys' : data'[i][x] # Absent /\ <<x, i>> \notin Y =>
    <<x, data'[i][x], i>> \in idx' \/ \E p \in Procs : Due(p, i, x)'

\* Only what the step writes is excused no more.
Excuses(X, Y) ==
  \A i \in Ids, x \in sys : data'[i] # Missing /\ <<x, i>> \notin Y =>
    \/ <<x, i>> \notin X
    \/ data[i] = Missing
    \/ data'[i][x] # data[i][x]

CallsInv == KeyInv /\ (\A p \in Procs : CallOK(p)) /\ OneWriter

IndexInv == CallsInv /\ EntriesDue({})

LEMMA IndexIsKey ==
  /\ IndexAssumption \/ OwnerAssumption => WriterAssumption
  /\ WriterAssumption => KeyAssumption
BY DEF IndexAssumption, OwnerAssumption, WriterAssumption, KeyAssumption

\* A step of p, which leaves the calls of the others and what they rely on.
LEMMA IndexUpdate ==
  ASSUME CallsInv, KeyInv', NEW p \in Procs, NEW f,
         call' = [call EXCEPT ![p] = f],
         \A q \in Procs \ {p} : indexes'[q] = indexes[q],
         sys' = sys, held \subseteq held',
         CallOK(p)',
         \A q \in Procs \ {p} : call[q].at = "killIndex" =>
           data'[call[q].cursor] = data[call[q].cursor],
         f.op \in {"add", "save", "remove"} =>
           \A q \in Procs \ {p} : Writes(q) => call[q].cursor # f.cursor
  PROVE  CallsInv'
<1>1. call \in [Procs -> Frames]
  BY DEF CallsInv, KeyInv, TypeInv, TypeOK
<1>2. call'[p] = f /\ \A q \in Procs \ {p} : call'[q] = call[q]
  BY <1>1
<1>3. ASSUME NEW q \in Procs \ {p}
      PROVE  CallOK(q)'
  <2>1. CallOK(q) /\ call'[q] = call[q] /\ indexes'[q] = indexes[q]
    BY <1>2 DEF CallsInv
  <2> QED BY <2>1 DEF CallOK, Writes, Adding, Knows, RowIds
<1>4. OneWriter'
  BY <1>2 DEF CallsInv, OneWriter, Writes
<1> QED BY <1>3, <1>4 DEF CallsInv

LEMMA QuietKeeps ==
  ASSUME CallsInv, KeyInv', NEW p \in Procs, NEW f,
         call' = [call EXCEPT ![p] = f],
         \A q \in Procs \ {p} : indexes'[q] = indexes[q],
         data' = data, sys' = sys, held \subseteq held',
         f.op \notin {"add", "save", "remove"},
         f.at \notin {"setSys", "killIndex"},
         f.at # "off" =>
           \A x \in sys : (f.at = "load" => x <= f.cursor) => Knows(p, x)'
  PROVE  CallsInv'
<1>1. call'[p] = f
  BY DEF CallsInv, KeyInv, TypeInv, TypeOK
<1>2. CallOK(p)'
  BY <1>1 DEF CallOK, Writes
<1> QED BY <1>2, IndexUpdate

\* The same for a call that keeps the list of indexes and has read it.
LEMMA QuietKnowing ==
  ASSUME CallsInv, KeyInv', NEW p \in Procs, NEW f,
         call' = [call EXCEPT ![p] = f], indexes' = indexes,
         call[p].at \notin {"off", "load"}, data' = data, sys' = sys, held \subseteq held',
         f.op \notin {"add", "save", "remove"},
         f.at \notin {"setSys", "killIndex", "load"}
  PROVE  CallsInv'
<1>1. \A x \in sys : Knows(p, x)
  BY DEF CallsInv, CallOK
<1>2. \A x \in sys : Knows(p, x)'
  BY <1>1 DEF Knows
<1> QED BY <1>2, QuietKeeps

-----------------------------------------------------------------------------
LEMMA IndexOpen ==
  ASSUME CallsInv, KeyInv', NEW p \in Procs, Open(p)
  PROVE  CallsInv'
<1> DEFINE f == [Idle EXCEPT !.op = "open", !.at = "load"]
<1>1. f.op = "open" /\ f.at = "load" /\ f.cursor = 0
  BY DEF Idle
<1>2. call' = [call EXCEPT ![p] = f] /\ indexes' = [indexes EXCEPT ![p] = <<>>]
      /\ UNCHANGED <<data, idx, sys, held>>
  BY DEF Open, store
<1>3. ~Writes(p)
  BY DEF Open, CallsInv, CallOK
<1>4. \A x \in sys : ~(x <= 0)
  BY ConstantsAssumption DEF CallsInv, KeyInv, TypeInv, TypeOK
<1>5. \A q \in Procs \ {p} : indexes'[q] = indexes[q]
  BY <1>2 DEF CallsInv, KeyInv, TypeInv, TypeOK
<1> HIDE DEF f
<1> QED BY <1>1, <1>2, <1>3, <1>4, <1>5, QuietKeeps

LEMMA IndexLoad ==
  ASSUME CallsInv, KeyInv', NEW p \in Procs, LoadIndex(p)
  PROVE  CallsInv'
<1> DEFINE c == call[p].cursor
           x == Order(sys, c)
<1>1. /\ call[p] \in Frames /\ c \in Nat /\ call[p].at = "load" /\ indexes[p] \in Defs
      /\ indexes \in [Procs -> Defs] /\ sys \in SUBSET (Nat \ {0}) /\ sys \subseteq Props
  BY ConstantsAssumption
     DEF CallsInv, KeyInv, TypeInv, TypeOK, Frames, LoadIndex, Defs
<1>2. ~Writes(p) /\ \A y \in sys : y <= c => Knows(p, y)
  BY <1>1 DEF CallsInv, CallOK
<1>3. UNCHANGED <<data, idx, sys, held>>
  BY DEF LoadIndex, store
<1>4. CASE x = 0
  <2>1. \A y \in sys : y <= c
    <3>1. sys \in SUBSET (Nat \ {0}) /\ c \in Nat /\ Order(sys, c) = 0
      BY <1>1, <1>4
    <3> HIDE DEF c, x
    <3> QED BY <3>1, OrderNext
  <2>2. call' = [call EXCEPT ![p] = Idle] /\ indexes' = indexes
    BY <1>4 DEF LoadIndex
  <2>3. \A y \in sys : Knows(p, y)'
    BY <1>2, <2>1, <2>2 DEF Knows
  <2>4. Idle.op = "none" /\ Idle.at = "idle"
    BY DEF Idle
  <2> QED BY <1>2, <1>3, <2>2, <2>3, <2>4, QuietKeeps
<1>5. CASE x # 0
  <2> DEFINE f == [call[p] EXCEPT !.cursor = x]
             d == Append(indexes[p], <<x>>)
  <2>1. x \in sys /\ x > c /\ \A y \in sys : y > c => x <= y
    <3>1. sys \in SUBSET (Nat \ {0}) /\ c \in Nat /\ x = Order(sys, c) /\ x # 0
      BY <1>1, <1>5
    <3>2. x \in sys /\ x > c
      <4> HIDE DEF c, x
      <4> QED BY <3>1, OrderNext
    <3>3. \A y \in sys : y > c => x <= y
      <4> HIDE DEF c, x
      <4> QED BY <3>1, OrderNext
    <3> QED BY <3>2, <3>3
  <2>2. call' = [call EXCEPT ![p] = f] /\ indexes' = [indexes EXCEPT ![p] = d]
    BY <1>5 DEF LoadIndex
  <2>3. f.op = call[p].op /\ f.at = "load" /\ f.cursor = x
    BY <1>1, <2>1 DEF Frames
  <2>4. indexes'[p] = d
    BY <1>1, <2>2
  <2>5. /\ DOMAIN indexes[p] \subseteq DOMAIN d
        /\ \A k \in DOMAIN indexes[p] : d[k] = indexes[p][k]
        /\ Len(d) \in DOMAIN d /\ d[Len(d)] = <<x>>
    BY <1>1 DEF Defs
  <2>6. \A y \in sys : y <= x => Knows(p, y)'
    <3> SUFFICES ASSUME NEW y \in sys, y <= x PROVE Knows(p, y)'
      OBVIOUS
    <3>1. CASE y <= c
      <4>1. PICK k \in DOMAIN indexes[p] : Head(indexes[p][k]) = y
        BY <1>2, <3>1 DEF Knows
      <4> HIDE DEF d
      <4> QED BY <2>4, <2>5, <4>1 DEF Knows
    <3>2. CASE ~(y <= c)
      <4>1. y = x
        BY <1>1, <2>1, <3>2
      <4>2. Head(d[Len(d)]) = x
        BY <2>5
      <4> HIDE DEF d
      <4> QED BY <2>4, <2>5, <4>1, <4>2 DEF Knows
    <3> QED BY <3>1, <3>2
  <2>7. \A q \in Procs \ {p} : indexes'[q] = indexes[q]
    BY <1>1, <2>2
  <2>8. f.op \notin {"add", "save", "remove"}
    BY <1>2, <2>3 DEF Writes
  <2> HIDE DEF f, d
  <2> QED BY <1>3, <1>2, <2>2, <2>3, <2>6, <2>7, <2>8, QuietKeeps
<1> QED BY <1>4, <1>5

LEMMA IndexFind ==
  ASSUME CallsInv, KeyInv', NEW p \in Procs, NEW q \in Queries, Find(p, q)
  PROVE  CallsInv'
<1> DEFINE f == [Idle EXCEPT !.op = "find", !.query = q,
                   !.at = IF IndexedTerm(indexes[p], q) = 0 THEN "scan" ELSE "indexScan"]
<1>1. f.op = "find" /\ f.at \in {"scan", "indexScan"}
  BY DEF Idle
<1>2. UNCHANGED <<store, indexes, held>> /\ call[p].at = "idle"
      /\ call' = [call EXCEPT ![p] = f]
  BY DEF Find
<1>3. ~Writes(p)
  BY <1>2 DEF CallsInv, CallOK
<1> HIDE DEF f
<1> QED BY <1>1, <1>2, <1>3, QuietKnowing DEF store

LEMMA IndexReIndex ==
  ASSUME CallsInv, KeyInv', NEW p \in Procs, ReIndex(p)
  PROVE  CallsInv'
<1> DEFINE f == [Idle EXCEPT !.op = "reIndex", !.at = "scan"]
<1>1. f.op = "reIndex" /\ f.at = "scan"
  BY DEF Idle
<1>2. UNCHANGED <<store, indexes, held>> /\ call[p].at = "idle"
      /\ call' = [call EXCEPT ![p] = f]
  BY DEF ReIndex
<1>3. ~Writes(p)
  BY <1>2 DEF CallsInv, CallOK
<1> HIDE DEF f
<1> QED BY <1>1, <1>2, <1>3, QuietKnowing DEF store

LEMMA IndexScans ==
  ASSUME CallsInv, KeyInv', NEW p \in Procs, IndexScan(p) \/ Scan(p)
  PROVE  CallsInv'
<1>0. TypeInv
  BY DEF CallsInv, KeyInv
<1>1. PICK S \in SUBSET Ids : call' = [call EXCEPT ![p] = Ordered(call[p], S)]
  BY <1>0, StoredOK DEF IndexScan, Scan
<1> DEFINE f == Ordered(call[p], S)
<1>2. call[p] \in Frames /\ call[p].at \in {"scan", "indexScan"}
  BY <1>0 DEF TypeInv, TypeOK, IndexScan, Scan
<1>3. f.op = call[p].op /\ f.at \in {"scan", "indexScan", "fetch"}
  BY <1>2, OrderedOK
<1>4. UNCHANGED <<store, indexes, held>>
  BY DEF IndexScan, Scan
<1>5. ~Writes(p)
  BY <1>2 DEF CallsInv, CallOK
<1>6. f.op \notin {"add", "save", "remove"}
  BY <1>3, <1>5 DEF Writes
<1>7. call' = [call EXCEPT ![p] = f]
  BY <1>1
<1> HIDE DEF f
<1> QED BY <1>2, <1>3, <1>4, <1>5, <1>6, <1>7, QuietKnowing DEF store

LEMMA IndexFetch ==
  ASSUME CallsInv, KeyInv', NEW p \in Procs, Fetch(p)
  PROVE  CallsInv'
<1> DEFINE f == call'[p]
<1>1. call[p] \in Frames /\ call[p].at = "fetch" /\ call \in [Procs -> Frames]
  BY DEF Fetch, CallsInv, KeyInv, TypeInv, TypeOK
<1>2. call' = [call EXCEPT ![p] = f] /\ f.op = call[p].op /\ f.at = "fetch"
  BY <1>1 DEF Fetch, Frames
<1>3. UNCHANGED <<store, indexes, held>>
  BY DEF Fetch
<1>4. ~Writes(p)
  BY <1>1 DEF CallsInv, CallOK
<1>5. f.op \notin {"add", "save", "remove"}
  BY <1>2, <1>4 DEF Writes
<1> HIDE DEF f
<1> QED BY <1>1, <1>2, <1>3, <1>4, <1>5, QuietKnowing DEF store

LEMMA IndexFetchEnd ==
  ASSUME CallsInv, KeyInv', NEW p \in Procs, FetchEnd(p)
  PROVE  CallsInv'
<1>1. call[p] \in Frames /\ call[p].at = "fetch" /\ indexes[p] \in Defs
  BY UnchangedIndexes DEF FetchEnd, CallsInv, KeyInv, TypeInv, TypeOK
<1>2. ~Writes(p)
  BY <1>1 DEF CallsInv, CallOK
<1>3. UNCHANGED <<store, indexes, held>>
  BY DEF FetchEnd
<1>4. PICK f : /\ call' = [call EXCEPT ![p] = f]
               /\ f = Idle \/ f = IndexLoop(call[p], "setIndex", indexes[p])
  BY DEF FetchEnd
<1>5. f.at \in {"idle", "setIndex"} /\ (f.at = "setIndex" => f.op = call[p].op)
  BY <1>1, <1>4, IndexLoopOK, IdleOK
<1>6. f.at = "idle" => f.op = "none"
  <2>1. Idle.op = "none"
    BY DEF Idle
  <2>2. IndexLoop(call[p], "setIndex", indexes[p]).at = "idle" =>
          IndexLoop(call[p], "setIndex", indexes[p]) = Idle
    BY <1>1 DEF IndexLoop, Frames
  <2> QED BY <1>4, <2>1, <2>2
<1>7. f.op \notin {"add", "save", "remove"}
  BY <1>2, <1>5, <1>6 DEF Writes
<1> QED BY <1>1, <1>2, <1>3, <1>4, <1>5, <1>7, QuietKnowing DEF store

-----------------------------------------------------------------------------
LEMMA WritingIs ==
  ASSUME NEW op \in {"add", "save", "remove"},
         NEW at \in {"addUpdate", "setIndex", "killIndex"},
         NEW i \in Ids, NEW o \in Objects, NEW g, g = Writing(op, at, i, o)
  PROVE  /\ g \in Frames /\ g.op = op /\ g.at = at /\ g.cursor = i
         /\ g.rows[i] = o /\ RowIds(g) = {i}
<1>1. g \in Frames
  <2>1. Writing(op, at, i, o) \in Frames
    BY WritingFrame
  <2> QED BY <2>1
<1>2. g.op = op /\ g.at = at /\ g.cursor = i /\ g.rows = [NoRows EXCEPT ![i] = o]
  BY DEF Writing, Idle
<1>3. \A k \in Ids : g.rows[k] = IF k = i THEN o ELSE Missing
  BY <1>2 DEF NoRows
<1>4. RowIds(g) = {i}
  BY <1>3, ConstantsAssumption DEF RowIds
<1> QED BY <1>1, <1>2, <1>3, <1>4

LEMMA NextTurnOne ==
  ASSUME NEW f \in Frames, NEW defs \in Defs, FrameOK(f, defs),
         f.at \in {"setIndex", "killIndex"}, RowIds(f) = {f.cursor},
         NEW g, g = NextTurn(f, defs)
  PROVE  \/ /\ f.j < Len(defs) /\ g.j = f.j + 1 /\ g.at = f.at /\ g.op = f.op
            /\ g.cursor = f.cursor /\ g.rows = f.rows
         \/ f.j = Len(defs) /\ g = Idle
<1>1. f.j \in DOMAIN defs /\ DOMAIN defs = 1..Len(defs) /\ f.j \in Nat \ {0} /\ Len(defs) \in Nat
  BY DEF FrameOK, Defs, Frames
<1>2. CASE f.j < Len(defs)
  <2>1. g = [f EXCEPT !.j = f.j + 1]
    BY <1>2 DEF NextTurn
  <2>2. f.j + 1 \in Nat \ {0}
    BY <1>1
  <2> QED BY <1>2, <2>1, <2>2, FrameJ
<1>3. CASE ~(f.j < Len(defs))
  <2>1. f.cursor \in Nat /\ RowIds(f) \in SUBSET (Nat \ {0})
    BY IdsNat DEF Frames, RowIds
  <2>2. Order(RowIds(f), f.cursor) = 0
    BY <2>1, OrderNext
  <2> QED BY <1>1, <1>3, <2>2 DEF NextTurn
<1> QED BY <1>2, <1>3

LEMMA IndexLoopOne ==
  ASSUME NEW f \in Frames, NEW defs \in Defs, NEW at \in {"setIndex", "killIndex"},
         NEW i \in Ids, RowIds(f) = {i},
         NEW g, g = IndexLoop(f, at, defs)
  PROVE  \/ defs = <<>> /\ g = Idle
         \/ /\ g.j = 1 /\ g.at = at /\ g.op = f.op /\ g.cursor = i /\ g.rows = f.rows
<1>1. CASE defs = <<>>
  BY <1>1 DEF IndexLoop
<1>2. CASE defs # <<>>
  <2>1. g = [f EXCEPT !.at = at, !.cursor = Order(RowIds(f), 0), !.j = 1]
    BY <1>2 DEF IndexLoop
  <2>2. g.at = at /\ g.j = 1
    BY <2>1 DEF Frames
  <2>3. FrameOK(g, defs) /\ g.op = f.op /\ g.rows = f.rows
    BY <2>2, IndexLoopOK
  <2>4. g.cursor = i
    BY <2>2, <2>3 DEF FrameOK, RowIds
  <2> QED BY <2>2, <2>3, <2>4
<1> QED BY <1>1, <1>2

\* Every key in a write has been handed out.
LEMMA WritesDrawn ==
  ASSUME CallsInv, NEW p \in Procs, Writes(p)
  PROVE  call[p].cursor \in Ids /\ call[p].cursor <= counter
<1>1. CallOK(p) /\ TypeInv
  BY DEF CallsInv, KeyInv
<1>2. call[p].cursor \in Ids
  BY <1>1 DEF CallOK, RowIds
<1> QED BY <1>1, <1>2 DEF CallOK, CallsInv, KeyInv

LEMMA IndexAddIncrement ==
  ASSUME CallsInv, KeyInv', NEW p \in Procs, NEW o \in Objects, AddIncrement(p, o)
  PROVE  CallsInv'
<1> DEFINE f == Writing("add", "addUpdate", counter + 1, o)
<1>1. counter + 1 \in Ids /\ counter \in Nat
  BY ConstantsAssumption DEF CallsInv, KeyInv, TypeInv, TypeOK, Ids, AddIncrement
<1>2. f.at = "addUpdate" /\ f.op = "add" /\ f.cursor = counter + 1 /\ RowIds(f) = {counter + 1}
  <2> PICK k : k = counter + 1 /\ k \in Ids
    BY <1>1
  <2> QED BY WritingIs
<1>3. /\ call' = [call EXCEPT ![p] = f] /\ call[p].at = "idle"
      /\ UNCHANGED <<data, idx, sys, indexes, held>>
  BY DEF AddIncrement
<1> HIDE DEF f
<1>4. call'[p] = f
  BY <1>3 DEF CallsInv, KeyInv, TypeInv, TypeOK
<1>5. CallOK(p)'
  <2>1. \A x \in sys : Knows(p, x)
    BY <1>3 DEF CallsInv, CallOK
  <2>2. \A x \in sys' : Knows(p, x)'
    BY <1>3, <2>1 DEF Knows
  <2> QED BY <1>2, <1>4, <2>2 DEF CallOK, Writes, Adding, RowIds
<1>6. \A q \in Procs : Writes(q) => call[q].cursor # f.cursor
  <2> SUFFICES ASSUME NEW q \in Procs, Writes(q), call[q].cursor = counter + 1
               PROVE  FALSE
    BY <1>2
  <2>1. call[q].cursor <= counter
    BY WritesDrawn
  <2> QED BY <1>1, <2>1
<1> QED BY <1>3, <1>5, <1>6, IndexUpdate

LEMMA IndexAddUpdateFails ==
  ASSUME CallsInv, KeyInv', NEW p \in Procs, AddUpdateFails(p)
  PROVE  CallsInv'
<1>1. Idle.op = "none" /\ Idle.at = "idle"
  BY DEF Idle
<1>2. /\ UNCHANGED <<store, indexes>> /\ held \subseteq held'
      /\ call' = [call EXCEPT ![p] = Idle] /\ call[p].at = "addUpdate"
  BY DEF AddUpdateFails
<1> QED BY <1>1, <1>2, QuietKnowing DEF store

\* p has written n under i, as `update' does with the object of the call g.
WriteBegins(p, g, i, n) ==
  /\ g.op \in {"add", "save"} /\ RowIds(g) = {i}
  /\ call[p].at \in {"idle", "addUpdate"}
  /\ data' = [data EXCEPT ![i] = n]
  /\ call' = [call EXCEPT ![p] = IndexLoop(g, "setIndex", indexes[p])]
  /\ UNCHANGED <<idx, sys, indexes>> /\ held \subseteq held' /\ i \in held'
  /\ \A q \in Procs \ {p} : Writes(q) => call[q].cursor # i
  /\ Writes(p) => data[i] = Missing

LEMMA WriteKeeps ==
  ASSUME CallsInv, KeyInv', NEW p \in Procs, NEW g \in Frames, NEW i \in Ids,
         NEW n \in Updated(data[i], g.rows[i]), WriteBegins(p, g, i, n)
  PROVE  CallsInv'
<1> USE DEF WriteBegins
<1> DEFINE f == IndexLoop(g, "setIndex", indexes[p])
<1>0. /\ call \in [Procs -> Frames] /\ data \in [Ids -> Objects \cup {Missing}]
      /\ indexes[p] \in Defs
  BY UnchangedIndexes DEF CallsInv, KeyInv, TypeInv, TypeOK
<1>1. \/ indexes[p] = <<>> /\ f = Idle
      \/ f.j = 1 /\ f.at = "setIndex" /\ f.op = g.op /\ f.cursor = i /\ f.rows = g.rows
  BY <1>0, IndexLoopOne
<1>2. Idle.op = "none" /\ Idle.at = "idle"
  BY DEF Idle
<1>3. call' = [call EXCEPT ![p] = f]
  OBVIOUS
<1> HIDE DEF f
<1>4. call'[p] = f /\ \A q \in Procs \ {p} : call'[q] = call[q]
  BY <1>0, <1>3
<1>5. \A x \in sys : Knows(p, x)
  BY DEF CallsInv, CallOK
<1>6. CallOK(p)'
  <2>1. \A x \in sys' : Knows(p, x)'
    BY <1>5 DEF Knows
  <2>2. f.at = "setIndex" => RowIds(f) = {i}
    BY <1>1, <1>2 DEF RowIds
  <2> QED BY <1>1, <1>2, <1>4, <2>1, <2>2 DEF CallOK, Writes, Adding, RowIds
<1>8. \A q \in Procs \ {p} : call[q].at = "killIndex" => data'[call[q].cursor] = data[call[q].cursor]
  <2> SUFFICES ASSUME NEW q \in Procs \ {p}, call[q].at = "killIndex"
               PROVE  data'[call[q].cursor] = data[call[q].cursor]
    OBVIOUS
  <2>1. Writes(q)
    BY DEF CallsInv, CallOK, Writes
  <2> QED BY <1>0, <2>1
<1>9. f.op \in {"add", "save", "remove"} =>
        \A q \in Procs \ {p} : Writes(q) => call[q].cursor # f.cursor
  BY <1>1, <1>2
<1>10. sys' = sys /\ indexes' = indexes
  OBVIOUS
<1> QED BY <1>3, <1>6, <1>8, <1>9, <1>10, IndexUpdate

LEMMA AddUpdateBegins ==
  ASSUME CallsInv, NEW p \in Procs, AddUpdate(p)
  PROVE  \E n \in Updated(data[call[p].cursor], call[p].rows[call[p].cursor]) :
           WriteBegins(p, call[p], call[p].cursor, n)
<1> DEFINE i == call[p].cursor
           g == call[p]
<1>1. /\ g \in Frames /\ call[p].at = "addUpdate" /\ g.op = "add"
      /\ i \in Ids /\ RowIds(g) = {i}
  BY DEF AddUpdate, CallsInv, KeyInv, TypeInv, TypeOK, FrameOK
<1>2. data[i] = Missing
  BY <1>1 DEF CallsInv, KeyInv, Adding, Stored
<1>3. PICK n \in Updated(data[i], g.rows[i]) : data' = [data EXCEPT ![i] = n]
  BY DEF AddUpdate
<1>4. \A q \in Procs \ {p} : Writes(q) => call[q].cursor # i
  BY <1>1 DEF CallsInv, OneWriter, Writes
<1>5. /\ call' = [call EXCEPT ![p] = IndexLoop(g, "setIndex", indexes[p])]
      /\ UNCHANGED <<idx, sys, indexes>> /\ held \subseteq held' /\ i \in held'
  BY DEF AddUpdate
<1>6. g.op \in {"add", "save"} /\ call[p].at \in {"idle", "addUpdate"}
  BY <1>1
<1> QED BY <1>1, <1>2, <1>3, <1>4, <1>5, <1>6 DEF WriteBegins

LEMMA IndexAddUpdate ==
  ASSUME CallsInv, KeyInv', NEW p \in Procs, AddUpdate(p)
  PROVE  CallsInv'
<1>1. call[p] \in Frames /\ call[p].cursor \in Ids
  BY DEF AddUpdate, CallsInv, KeyInv, TypeInv, TypeOK, FrameOK
<1> QED BY <1>1, AddUpdateBegins, WriteKeeps

\* With Exclusive nobody else is writing the record.
LEMMA MayWriteAlone ==
  ASSUME WriterAssumption, CallsInv, NEW p \in Procs, NEW i, MayWrite(p, i)
  PROVE  \A q \in Procs \ {p} : Writes(q) => call[q].cursor # i
<1> SUFFICES ASSUME NEW q \in Procs \ {p}, Writes(q), call[q].cursor = i
             PROVE  FALSE
  OBVIOUS
<1>1. i \in RowIds(call[q])
  BY DEF CallsInv, CallOK
<1> QED BY <1>1 DEF MayWrite, Writes, WriterAssumption

LEMMA SaveBegins ==
  ASSUME WriterAssumption, CallsInv, NEW p \in Procs, NEW i \in Ids, NEW o \in Objects,
         Save(p, i, o)
  PROVE  \E n \in Updated(data[i], o) : WriteBegins(p, Writing("save", "setIndex", i, o), i, n)
<1> DEFINE g == Writing("save", "setIndex", i, o)
<1>1. g \in Frames /\ g.op = "save" /\ g.rows[i] = o /\ RowIds(g) = {i}
  BY WritingIs
<1>2. PICK n \in Updated(data[i], o) : data' = [data EXCEPT ![i] = n]
  BY DEF Save
<1>3. /\ call' = [call EXCEPT ![p] = IndexLoop(g, "setIndex", indexes[p])]
      /\ UNCHANGED <<idx, sys, indexes, held>> /\ i \in held /\ call[p].at = "idle"
  BY DEF Save, Keys, WriterAssumption
<1>4. ~Writes(p)
  BY <1>3 DEF CallsInv, CallOK
<1>5. \A q \in Procs \ {p} : Writes(q) => call[q].cursor # i
  BY MayWriteAlone DEF Save
<1> HIDE DEF g
<1>6. WriteBegins(p, g, i, n)
  BY <1>1, <1>2, <1>3, <1>4, <1>5 DEF WriteBegins
<1> QED BY <1>6 DEF g

LEMMA IndexSave ==
  ASSUME WriterAssumption, CallsInv, KeyInv', NEW p \in Procs, NEW i \in Ids, NEW o \in Objects,
         Save(p, i, o)
  PROVE  CallsInv'
<1> DEFINE g == Writing("save", "setIndex", i, o)
<1>1. g \in Frames /\ g.rows[i] = o
  BY WritingIs
<1>2. PICK n \in Updated(data[i], o) : WriteBegins(p, g, i, n)
  BY SaveBegins
<1> HIDE DEF g
<1> QED BY <1>1, <1>2, WriteKeeps

LEMMA IndexRemove ==
  ASSUME WriterAssumption, CallsInv, KeyInv', NEW p \in Procs, NEW i \in Ids, NEW o \in Objects,
         Remove(p, i, o)
  PROVE  CallsInv'
<1> DEFINE g == Writing("remove", "killIndex", i, o)
           f == IndexLoop(g, "killIndex", indexes[p])
<1>0. /\ call \in [Procs -> Frames] /\ data \in [Ids -> Objects \cup {Missing}]
      /\ indexes[p] \in Defs
  BY UnchangedIndexes DEF CallsInv, KeyInv, TypeInv, TypeOK
<1>1. g \in Frames /\ g.op = "remove" /\ RowIds(g) = {i}
  BY WritingIs
<1>2. /\ call' = [call EXCEPT ![p] = f] /\ data' = [data EXCEPT ![i] = Missing]
      /\ UNCHANGED <<idx, sys, indexes, held>> /\ i \in held /\ call[p].at = "idle"
  BY DEF Remove, Keys, WriterAssumption
<1>3. ~Writes(p) /\ \A x \in sys : Knows(p, x)
  BY <1>2 DEF CallsInv, CallOK
<1>4. \A q \in Procs \ {p} : Writes(q) => call[q].cursor # i
  BY MayWriteAlone DEF Remove
<1> HIDE DEF g
<1>5. \/ f = Idle
      \/ f.j = 1 /\ f.at = "killIndex" /\ f.op = "remove" /\ f.cursor = i /\ f.rows = g.rows
  BY <1>0, <1>1, IndexLoopOne
<1>6. Idle.op = "none" /\ Idle.at = "idle"
  BY DEF Idle
<1> HIDE DEF f
<1>7. call'[p] = f /\ \A q \in Procs \ {p} : call'[q] = call[q]
  BY <1>0, <1>2
<1>8. data'[i] = Missing /\ \A k \in Ids \ {i} : data'[k] = data[k]
  BY <1>0, <1>2
<1>9. CallOK(p)'
  <2>1. \A x \in sys' : Knows(p, x)'
    BY <1>2, <1>3 DEF Knows
  <2>2. f.at = "killIndex" => RowIds(f) = {i}
    BY <1>1, <1>5, <1>6 DEF RowIds
  <2> QED BY <1>2, <1>5, <1>6, <1>7, <1>8, <2>1, <2>2 DEF CallOK, Writes, Adding, RowIds
<1>11. \A q \in Procs \ {p} : call[q].at = "killIndex" => data'[call[q].cursor] = data[call[q].cursor]
  <2> SUFFICES ASSUME NEW q \in Procs \ {p}, call[q].at = "killIndex"
               PROVE  data'[call[q].cursor] = data[call[q].cursor]
    OBVIOUS
  <2>1. Writes(q)
    BY DEF CallsInv, CallOK, Writes
  <2> QED BY <1>0, <1>2, <1>4, <2>1
<1>12. f.op \in {"add", "save", "remove"} => f.cursor = i
  BY <1>5, <1>6
<1> QED BY <1>2, <1>4, <1>9, <1>11, <1>12, IndexUpdate

\* The entry of the turn is set: it is due no more.
LEMMA IndexSet ==
  ASSUME WriterAssumption, CallsInv, KeyInv', NEW p \in Procs, SetIndex(p)
  PROVE  CallsInv'
<1> DEFINE e == call[p]
           f == NextTurn(e, indexes[p])
<1>0. /\ call \in [Procs -> Frames] /\ e \in Frames /\ e.at = "setIndex"
      /\ indexes[p] \in Defs /\ FrameOK(e, indexes[p])
  BY UnchangedIndexes DEF SetIndex, CallsInv, KeyInv, TypeInv, TypeOK
<1>1. /\ idx' = idx \cup TurnEntry(e, indexes[p]) /\ call' = [call EXCEPT ![p] = f]
      /\ UNCHANGED <<counter, data, sys, indexes, held>>
  BY DEF SetIndex, WriterAssumption
<1>2. Idle.op = "none" /\ Idle.at = "idle"
  BY DEF Idle
<1>3. CASE ~Writes(p)
  <2>1. f.at \in {"setIndex", "idle"} /\ (f.at = "setIndex" => f.op = e.op)
    BY <1>0, NextTurnOK
  <2>2. f.at = "idle" => f = Idle
    BY <1>0 DEF NextTurn, Frames
  <2>3. f.op \notin {"add", "save", "remove"}
    BY <1>2, <1>3, <2>1, <2>2 DEF Writes
  <2> HIDE DEF f
  <2> QED BY <1>0, <1>1, <1>3, <2>1, <2>3, QuietKnowing
<1>4. CASE Writes(p)
  <2>1. RowIds(e) = {e.cursor} /\ e.cursor \in held /\ e.op \in {"add", "save"}
        /\ \A x \in sys : Knows(p, x)
    BY <1>0, <1>4 DEF CallsInv, CallOK, Writes, Adding
  <2>2. \/ /\ e.j < Len(indexes[p]) /\ f.j = e.j + 1 /\ f.at = "setIndex" /\ f.op = e.op
           /\ f.cursor = e.cursor /\ f.rows = e.rows
        \/ e.j = Len(indexes[p]) /\ f = Idle
    BY <1>0, <2>1, NextTurnOne
  <2> HIDE DEF f
  <2>3. call'[p] = f /\ \A q \in Procs \ {p} : call'[q] = call[q]
    BY <1>0, <1>1
  <2>4. CallOK(p)'
    <3>1. \A x \in sys' : Knows(p, x)'
      BY <1>1, <2>1 DEF Knows
    <3>2. f.at = "setIndex" => RowIds(f) = {f.cursor}
      BY <1>2, <2>1, <2>2 DEF RowIds
    <3> QED BY <1>1, <1>2, <2>1, <2>2, <2>3, <3>1, <3>2 DEF CallOK, Writes, Adding, RowIds
  <2>6. f.op \in {"add", "save", "remove"} =>
          \A q \in Procs \ {p} : Writes(q) => call[q].cursor # f.cursor
    BY <1>2, <1>4, <2>2 DEF CallsInv, OneWriter
  <2> QED BY <1>1, <2>4, <2>6, IndexUpdate
<1> QED BY <1>3, <1>4

\* Entries are killed of a record that is gone.
LEMMA IndexKill ==
  ASSUME WriterAssumption, CallsInv, KeyInv', NEW p \in Procs, KillIndex(p)
  PROVE  CallsInv'
<1> DEFINE e == call[p]
           f == NextTurn(e, indexes[p])
<1>0. /\ call \in [Procs -> Frames] /\ e \in Frames /\ e.at = "killIndex"
      /\ indexes[p] \in Defs /\ FrameOK(e, indexes[p])
  BY UnchangedIndexes DEF KillIndex, CallsInv, KeyInv, TypeInv, TypeOK
<1>1. /\ idx' = idx \ TurnEntry(e, indexes[p]) /\ call' = [call EXCEPT ![p] = f]
      /\ UNCHANGED <<counter, data, sys, indexes, held>>
  BY DEF KillIndex, WriterAssumption
<1>2. Idle.op = "none" /\ Idle.at = "idle"
  BY DEF Idle
<1>3. /\ e.op = "remove" /\ data[e.cursor] = Missing /\ Writes(p)
      /\ RowIds(e) = {e.cursor} /\ e.cursor \in held
      /\ \A x \in sys : Knows(p, x)
  BY <1>0 DEF CallsInv, CallOK, Writes, Adding
<1>4. \/ /\ f.at = "killIndex" /\ f.op = e.op /\ f.cursor = e.cursor /\ f.rows = e.rows
      \/ f = Idle
  BY <1>0, <1>3, NextTurnOne
<1> HIDE DEF f
<1>5. call'[p] = f /\ \A q \in Procs \ {p} : call'[q] = call[q]
  BY <1>0, <1>1
<1>6. CallOK(p)'
  <2>1. \A x \in sys' : Knows(p, x)'
    BY <1>1, <1>3 DEF Knows
  <2>2. f.at = "killIndex" => RowIds(f) = {f.cursor}
    BY <1>2, <1>3, <1>4 DEF RowIds
  <2> QED BY <1>1, <1>2, <1>3, <1>4, <1>5, <2>1, <2>2 DEF CallOK, Writes, Adding, RowIds
<1>8. f.op \in {"add", "save", "remove"} =>
        \A q \in Procs \ {p} : Writes(q) => call[q].cursor # f.cursor
  BY <1>2, <1>3, <1>4 DEF CallsInv, OneWriter
<1> QED BY <1>1, <1>6, <1>8, IndexUpdate

LEMMA IndexEnsure ==
  ASSUME CallsInv, KeyInv', NEW p \in Procs, NEW d \in IndexDefs, EnsureIndex(p, d)
  PROVE  CallsInv'
<1> DEFINE f == [Idle EXCEPT !.op = "ensureIndex", !.at = "setSys"]
           l == Append(indexes[p], d)
<1>0. /\ call \in [Procs -> Frames] /\ indexes \in [Procs -> Defs] /\ indexes[p] \in Defs
      /\ d \in Seq(Props) \ {<<>>}
  BY UnchangedIndexes, ConstantsAssumption DEF CallsInv, KeyInv, TypeInv, TypeOK, Defs
<1>1. f.op = "ensureIndex" /\ f.at = "setSys"
  BY DEF Idle
<1>2. /\ call' = [call EXCEPT ![p] = f] /\ indexes' = [indexes EXCEPT ![p] = l]
      /\ call[p].at = "idle" /\ "ensureIndex" \in Ops /\ UNCHANGED <<data, sys, held>>
  BY DEF EnsureIndex, store
<1>3. call'[p] = f /\ indexes'[p] = l /\ \A q \in Procs \ {p} : indexes'[q] = indexes[q]
  BY <1>0, <1>2
<1>4. /\ DOMAIN indexes[p] \subseteq DOMAIN l /\ \A k \in DOMAIN indexes[p] : l[k] = indexes[p][k]
      /\ l # <<>> /\ l[Len(l)] = d
  <2> DEFINE m == indexes[p]
  <2>1. m \in Seq(Seq(Props) \ {<<>>}) /\ d \in Seq(Props) \ {<<>>}
    BY <1>0 DEF Defs
  <2> HIDE DEF m
  <2>2. /\ Len(m) \in Nat /\ DOMAIN m = 1..Len(m)
        /\ Len(Append(m, d)) = Len(m) + 1 /\ DOMAIN Append(m, d) = 1..(Len(m) + 1)
    BY <2>1
  <2>3. \A k \in 1..Len(m) : Append(m, d)[k] = m[k]
    BY <2>1
  <2>4. Append(m, d)[Len(m) + 1] = d
    BY <2>1
  <2>5. Append(m, d) # <<>>
    <3> DEFINE n == Append(m, d)
    <3>1. Len(n) \in Nat /\ Len(n) # 0
      BY <2>2
    <3> HIDE DEF n
    <3>2. n # <<>>
      BY <3>1
    <3> QED BY <3>2 DEF n
  <2>6. DOMAIN m \subseteq DOMAIN Append(m, d)
    BY <2>2
  <2> QED BY <2>2, <2>3, <2>4, <2>5, <2>6 DEF m
<1> HIDE DEF f, l
<1>5. CallOK(p)'
  <2>1. \A x \in sys : Knows(p, x)
    BY <1>2 DEF CallsInv, CallOK
  <2>2. \A x \in sys' : Knows(p, x)'
    BY <1>2, <1>3, <1>4, <2>1 DEF Knows
  <2> QED BY <1>1, <1>2, <1>3, <1>4, <2>2 DEF CallOK, Writes
<1> QED BY <1>1, <1>2, <1>3, <1>5, IndexUpdate

\* The one process knows the property it names.
LEMMA IndexSetSys ==
  ASSUME OwnerAssumption, CallsInv, KeyInv', NEW p \in Procs, SetSys(p)
  PROVE  CallsInv'
<1> DEFINE e == call[p]
           d == indexes[p][Len(indexes[p])]
<1>0. /\ call \in [Procs -> Frames] /\ e \in Frames /\ e.at = "setSys"
      /\ indexes[p] \in Defs /\ FrameOK(e, indexes[p]) /\ CallOK(p)
  BY UnchangedIndexes DEF SetSys, CallsInv, KeyInv, TypeInv, TypeOK
<1>1. d \in IndexDefs /\ Len(d) = 1 /\ e.j = 1 /\ indexes[p] # <<>>
  <2>1. d \in IndexDefs /\ Len(d) = 1 /\ indexes[p] # <<>> /\ e.j \in DOMAIN d
    BY <1>0 DEF CallOK, OwnerAssumption, FrameOK
  <2>2. DOMAIN d = 1..1
    BY <2>1, ConstantsAssumption
  <2> QED BY <2>1, <2>2
<1>2. /\ sys' = sys \cup {d[1]} /\ call' = [call EXCEPT ![p] = Idle]
      /\ UNCHANGED <<data, indexes, held>>
  BY <1>1 DEF SetSys, NextProp
<1>3. Head(d) = d[1] /\ Len(indexes[p]) \in DOMAIN indexes[p]
  BY <1>0, <1>1, ConstantsAssumption DEF Defs
<1>4. \A x \in sys' : Knows(p, x)'
  <2>1. \A x \in sys : Knows(p, x)
    BY <1>0 DEF CallOK
  <2>2. Knows(p, d[1])
    BY <1>3 DEF Knows
  <2> HIDE DEF d
  <2> QED BY <1>2, <2>1, <2>2 DEF Knows
<1>5. call'[p] = Idle
  BY <1>0, <1>2
<1>6. CallOK(p)'
  BY <1>4, <1>5 DEF CallOK, Writes, Idle
<1>7. \A q \in Procs : q = p
  BY DEF OwnerAssumption
<1>8. OneWriter'
  BY <1>7 DEF OneWriter
<1> QED BY <1>6, <1>7, <1>8 DEF CallsInv

LEMMA CallsStep ==
  ASSUME WriterAssumption, CallsInv, NEW p \in Procs, Step(p), ~SetSys(p)
  PROVE  CallsInv'
<1>1. KeyInv'
  BY KeyStep, IndexIsKey DEF CallsInv
<1>2. ~RemoveAll(p) /\ ~Crash(p)
  BY DEF RemoveAll, Crash, WriterAssumption
<1> QED BY <1>1, <1>2, IndexOpen, IndexLoad, IndexAddIncrement, IndexAddUpdate,
           IndexAddUpdateFails, IndexSave, IndexRemove, IndexSet, IndexKill, IndexFind,
           IndexReIndex, IndexScans, IndexFetch, IndexFetchEnd, IndexEnsure DEF Step

-----------------------------------------------------------------------------
(* The entries, step by step. *)

\* A step of p leaves the calls and the lists of the others alone.
LEMMA StepOthers ==
  ASSUME TypeInv, NEW p \in Procs, Step(p), NEW q \in Procs \ {p}
  PROVE  call'[q] = call[q] /\ indexes'[q] = indexes[q]
<1>1. q # p /\ q \in DOMAIN call /\ q \in DOMAIN indexes
  BY DEF TypeInv, TypeOK
<1>2. ASSUME Open(p) \/ LoadIndex(p) \/ Crash(p) \/ SetSys(p)
      PROVE  call'[q] = call[q] /\ indexes'[q] = indexes[q]
  BY <1>1, <1>2 DEF Open, LoadIndex, Crash, SetSys
<1>3. ASSUME NEW d, EnsureIndex(p, d)
      PROVE  call'[q] = call[q] /\ indexes'[q] = indexes[q]
  BY <1>1, <1>3 DEF EnsureIndex
<1>4. ASSUME NEW o, AddIncrement(p, o)
      PROVE  call'[q] = call[q] /\ indexes'[q] = indexes[q]
  BY <1>1, <1>4 DEF AddIncrement
<1>5. ASSUME AddUpdate(p) \/ AddUpdateFails(p) \/ RemoveAll(p)
      PROVE  call'[q] = call[q] /\ indexes'[q] = indexes[q]
  BY <1>1, <1>5 DEF AddUpdate, AddUpdateFails, RemoveAll
<1>6. ASSUME NEW i, NEW o, Save(p, i, o) \/ Remove(p, i, o)
      PROVE  call'[q] = call[q] /\ indexes'[q] = indexes[q]
  BY <1>1, <1>6 DEF Save, Remove
<1>7. ASSUME SetIndex(p) \/ KillIndex(p)
      PROVE  call'[q] = call[q] /\ indexes'[q] = indexes[q]
  BY <1>1, <1>7 DEF SetIndex, KillIndex
<1>8. ASSUME NEW w, Find(p, w)
      PROVE  call'[q] = call[q] /\ indexes'[q] = indexes[q]
  BY <1>1, <1>8 DEF Find
<1>9. ASSUME ReIndex(p) \/ IndexScan(p) \/ Scan(p) \/ Fetch(p) \/ FetchEnd(p)
      PROVE  call'[q] = call[q] /\ indexes'[q] = indexes[q]
  BY <1>1, <1>9 DEF ReIndex, IndexScan, Scan, Fetch, FetchEnd
<1> QED BY <1>2, <1>3, <1>4, <1>5, <1>6, <1>7, <1>8, <1>9 DEF Step

\* Records stay as they are, entries at most get more, and p has no turn.
LEMMA EntriesQuiet ==
  ASSUME CallsInv, NEW p \in Procs, Step(p), NEW X, NEW Y, EntriesDue(X), Excuses(X, Y),
         Writes(p) => call[p].at # "setIndex",
         data' = data, sys' = sys, idx \subseteq idx'
  PROVE  DueNext(Y)
<1>1. \A q \in Procs \ {p} : call'[q] = call[q] /\ indexes'[q] = indexes[q]
  BY StepOthers DEF CallsInv, KeyInv
<1>2. \A q \in Procs : \A i, x : Due(q, i, x) => Due(q, i, x)'
  BY <1>1 DEF Due, Writes
<1>3. Stored' = Stored
  BY DEF Stored
<1> SUFFICES ASSUME NEW i \in Stored, NEW x \in sys, data[i][x] # Absent, <<x, i>> \notin Y
             PROVE  <<x, data[i][x], i>> \in idx' \/ \E q \in Procs : Due(q, i, x)'
  BY <1>3 DEF DueNext
<1>4. <<x, i>> \notin X
  BY DEF Excuses, Stored
<1> QED BY <1>2, <1>4 DEF EntriesDue

\* The turn of each entry of the written record is to come, or the entry is that of
\* a property that the update left as it was.
LEMMA EntriesWrite ==
  ASSUME CallsInv, NEW p \in Procs, Step(p), NEW X, NEW Y, EntriesDue(X), Excuses(X, Y),
         NEW g \in Frames, NEW i \in Ids, NEW n \in Updated(data[i], g.rows[i]),
         WriteBegins(p, g, i, n)
  PROVE  DueNext(Y)
<1> DEFINE f == IndexLoop(g, "setIndex", indexes[p])
<1>0. /\ call \in [Procs -> Frames] /\ data \in [Ids -> Objects \cup {Missing}]
      /\ indexes[p] \in Defs
  BY UnchangedIndexes DEF CallsInv, KeyInv, TypeInv, TypeOK
<1>1. \/ indexes[p] = <<>> /\ f = Idle
      \/ f.j = 1 /\ f.at = "setIndex" /\ f.op = g.op /\ f.cursor = i /\ f.rows = g.rows
  BY <1>0, IndexLoopOne DEF WriteBegins
<1>2. call' = [call EXCEPT ![p] = f] /\ UNCHANGED <<idx, sys, indexes>>
      /\ data' = [data EXCEPT ![i] = n] /\ g.op \in {"add", "save"} /\ RowIds(g) = {i}
  BY DEF WriteBegins
<1> HIDE DEF f
<1>3. call'[p] = f /\ \A q \in Procs \ {p} : call'[q] = call[q]
  BY <1>0, <1>2
<1>4. \A x \in sys : Knows(p, x)
  BY DEF CallsInv, CallOK, WriteBegins
<1> SUFFICES ASSUME NEW k \in Stored', NEW x \in sys, data'[k][x] # Absent, <<x, k>> \notin Y,
                    <<x, data'[k][x], k>> \notin idx
             PROVE  \E q \in Procs : Due(q, k, x)'
  BY <1>2 DEF DueNext
<1>6. k \in Ids /\ data'[k] # Missing
  BY DEF Stored
<1>7. CASE k # i
  <2>1. data'[k] = data[k] /\ k \in Stored
    BY <1>0, <1>2, <1>6, <1>7 DEF Stored
  <2>2. <<x, k>> \notin X
    BY <1>6, <2>1 DEF Excuses, Stored
  <2>3. PICK q \in Procs : Due(q, k, x)
    BY <2>1, <2>2 DEF EntriesDue
  <2>4. q # p
    BY <2>3 DEF Due, WriteBegins
  <2> QED BY <1>2, <1>3, <2>1, <2>3, <2>4 DEF Due, Writes
<1>8. CASE k = i /\ n[x] = g.rows[i][x]
  <2>1. PICK d \in DOMAIN indexes[p] : Head(indexes[p][d]) = x
    BY <1>4 DEF Knows
  <2>2. f.j = 1 /\ f.at = "setIndex" /\ f.op = g.op /\ f.cursor = i /\ f.rows = g.rows
    BY <1>1, <2>1
  <2>3. d >= f.j
    BY <1>0, <2>1, <2>2 DEF Defs
  <2>4. data'[i] = n
    BY <1>0, <1>2
  <2> QED BY <1>2, <1>3, <1>8, <2>1, <2>2, <2>3, <2>4 DEF Due, Writes
<1>9. CASE k = i /\ n[x] # g.rows[i][x]
  <2>1. g.rows[i] \in Objects /\ x \in Props
    BY <1>2 DEF RowIds, Frames, CallsInv, KeyInv, TypeInv, TypeOK
  <2>2. data[i] # Missing /\ n[x] = data[i][x]
    BY <1>9, <2>1 DEF Updated, Merged, Objects
  <2>3. data'[i] = n /\ i \in Stored
    BY <1>0, <1>2, <2>2 DEF Stored
  <2>4. <<x, i>> \notin X
    BY <1>6, <1>9, <2>2, <2>3 DEF Excuses
  <2>5. PICK q \in Procs : Due(q, i, x)
    BY <1>9, <2>2, <2>3, <2>4 DEF EntriesDue
  <2>6. q # p
    BY <2>5 DEF Due, WriteBegins
  <2> QED BY <1>2, <1>3, <1>9, <2>2, <2>3, <2>5, <2>6 DEF Due, Writes
<1> QED BY <1>7, <1>8, <1>9

LEMMA EntriesRemove ==
  ASSUME CallsInv, NEW p \in Procs, Step(p), NEW X, NEW Y, EntriesDue(X), Excuses(X, Y),
         NEW i \in Ids, NEW o \in Objects, Remove(p, i, o)
  PROVE  DueNext(Y)
<1>1. /\ data \in [Ids -> Objects \cup {Missing}] /\ data' = [data EXCEPT ![i] = Missing]
      /\ UNCHANGED <<idx, sys>> /\ call[p].at = "idle"
  BY DEF Remove, CallsInv, KeyInv, TypeInv, TypeOK
<1>2. \A q \in Procs \ {p} : call'[q] = call[q] /\ indexes'[q] = indexes[q]
  BY StepOthers DEF CallsInv, KeyInv
<1> SUFFICES ASSUME NEW k \in Stored', NEW x \in sys, data'[k][x] # Absent, <<x, k>> \notin Y,
                    <<x, data'[k][x], k>> \notin idx
             PROVE  \E q \in Procs : Due(q, k, x)'
  BY <1>1 DEF DueNext
<1>3. k \in Ids \ {i} /\ data'[k] = data[k] /\ k \in Stored
  BY <1>1 DEF Stored
<1>4. <<x, k>> \notin X
  BY <1>3 DEF Excuses, Stored
<1>5. PICK q \in Procs : Due(q, k, x)
  BY <1>3, <1>4 DEF EntriesDue
<1>6. q # p
  BY <1>1, <1>5 DEF Due
<1> QED BY <1>2, <1>3, <1>5, <1>6 DEF Due, Writes

\* The entry of the turn is set: it is due no more.
LEMMA EntriesSet ==
  ASSUME WriterAssumption, CallsInv, NEW p \in Procs, Step(p), NEW X, NEW Y, EntriesDue(X),
         Excuses(X, Y), SetIndex(p), Writes(p)
  PROVE  DueNext(Y)
<1> DEFINE e == call[p]
           f == NextTurn(e, indexes[p])
<1>0. /\ call \in [Procs -> Frames] /\ e \in Frames /\ e.at = "setIndex"
      /\ indexes[p] \in Defs /\ FrameOK(e, indexes[p])
  BY UnchangedIndexes DEF SetIndex, CallsInv, KeyInv, TypeInv, TypeOK
<1>1. /\ idx' = idx \cup TurnEntry(e, indexes[p]) /\ call' = [call EXCEPT ![p] = f]
      /\ UNCHANGED <<counter, data, sys, indexes, held>>
  BY DEF SetIndex, WriterAssumption
<1>2. RowIds(e) = {e.cursor}
  BY DEF CallsInv, CallOK
<1>3. \/ /\ e.j < Len(indexes[p]) /\ f.j = e.j + 1 /\ f.at = "setIndex" /\ f.op = e.op
         /\ f.cursor = e.cursor /\ f.rows = e.rows
      \/ e.j = Len(indexes[p]) /\ f = Idle
  BY <1>0, <1>2, NextTurnOne
<1> HIDE DEF f
<1>4. call'[p] = f /\ \A q \in Procs \ {p} : call'[q] = call[q]
  BY <1>0, <1>1
<1> SUFFICES ASSUME NEW k \in Stored, NEW x \in sys, data[k][x] # Absent, <<x, k>> \notin Y,
                    <<x, data[k][x], k>> \notin idx'
             PROVE  \E q \in Procs : Due(q, k, x)'
  BY <1>1 DEF DueNext, Stored
<1>5. <<x, k>> \notin X
  BY <1>1 DEF Excuses, Stored
<1>6. PICK q \in Procs : Due(q, k, x)
  BY <1>1, <1>5 DEF EntriesDue
<1>7. CASE q # p
  BY <1>1, <1>4, <1>6, <1>7 DEF Due, Writes
<1>8. CASE q = p
  <2>1. /\ e.cursor = k /\ e.rows[k][x] = data[k][x]
    BY <1>6, <1>8 DEF Due
  <2>2. PICK d \in DOMAIN indexes[p] : d >= e.j /\ Head(indexes[p][d]) = x
    BY <1>6, <1>8 DEF Due
  <2>3. d # e.j
    <3> SUFFICES ASSUME d = e.j PROVE FALSE
      OBVIOUS
    <3>1. TurnEntry(e, indexes[p]) = {<<x, data[k][x], k>>}
      BY <2>1, <2>2 DEF TurnEntry, TurnProp
    <3> QED BY <1>1, <3>1
  <2>4. d \in Nat /\ d <= Len(indexes[p]) /\ e.j \in Nat /\ Len(indexes[p]) \in Nat
    BY <1>0, <2>2 DEF Defs, Frames
  <2>5. e.j < Len(indexes[p]) /\ d >= e.j + 1
    BY <2>2, <2>3, <2>4
  <2>6. f.j = e.j + 1 /\ f.at = "setIndex" /\ f.op = e.op
        /\ f.cursor = e.cursor /\ f.rows = e.rows
    BY <1>3, <2>4, <2>5
  <2> QED BY <1>1, <1>4, <2>1, <2>2, <2>5, <2>6 DEF Due, Writes
<1> QED BY <1>7, <1>8

\* Entries are killed of a record that is gone.
LEMMA EntriesKill ==
  ASSUME CallsInv, NEW p \in Procs, Step(p), NEW X, NEW Y, EntriesDue(X), Excuses(X, Y),
         KillIndex(p)
  PROVE  DueNext(Y)
<1>1. /\ idx' = idx \/ idx' = idx \ TurnEntry(call[p], indexes[p])
      /\ UNCHANGED <<data, sys>> /\ call[p].at = "killIndex"
  BY DEF KillIndex
<1>2. data[call[p].cursor] = Missing
  BY <1>1 DEF CallsInv, CallOK
<1>3. \A q \in Procs \ {p} : call'[q] = call[q] /\ indexes'[q] = indexes[q]
  BY StepOthers DEF CallsInv, KeyInv
<1> SUFFICES ASSUME NEW k \in Stored, NEW x \in sys, data[k][x] # Absent, <<x, k>> \notin Y,
                    <<x, data[k][x], k>> \notin idx'
             PROVE  \E q \in Procs : Due(q, k, x)'
  BY <1>1 DEF DueNext, Stored
<1>4. k # call[p].cursor /\ <<x, k>> \notin X
  BY <1>1, <1>2 DEF Stored, Excuses
<1>5. <<x, data[k][x], k>> \notin idx
  BY <1>1, <1>4 DEF TurnEntry
<1>6. PICK q \in Procs : Due(q, k, x)
  BY <1>4, <1>5 DEF EntriesDue
<1>7. q # p
  BY <1>1, <1>6 DEF Due
<1> QED BY <1>1, <1>3, <1>6, <1>7 DEF Due, Writes

LEMMA EntriesStep ==
  ASSUME WriterAssumption, CallsInv, NEW p \in Procs, Step(p), ~SetSys(p), NEW X, NEW Y,
         EntriesDue(X), Excuses(X, Y)
  PROVE  DueNext(Y)
<1>1. CASE AddUpdate(p)
  <2>1. /\ call[p] \in Frames /\ call[p].op = "add" /\ call[p].cursor \in Ids
    BY <1>1 DEF AddUpdate, CallsInv, KeyInv, TypeInv, TypeOK, FrameOK
  <2>2. PICK n \in Updated(data[call[p].cursor], call[p].rows[call[p].cursor]) :
          WriteBegins(p, call[p], call[p].cursor, n)
    BY <1>1, AddUpdateBegins DEF CallsInv
  <2> QED BY <2>1, <2>2, EntriesWrite
<1>2. ASSUME NEW i \in Ids, NEW o \in Objects, Save(p, i, o)
      PROVE  DueNext(Y)
  <2> DEFINE g == Writing("save", "setIndex", i, o)
  <2>1. g \in Frames /\ g.rows[i] = o
    BY WritingIs
  <2>2. PICK n \in Updated(data[i], o) : WriteBegins(p, g, i, n)
    BY <1>2, SaveBegins DEF CallsInv
  <2> HIDE DEF g
  <2> QED BY <2>1, <2>2, EntriesWrite
<1>3. ASSUME NEW i \in Ids, NEW o \in Objects, Remove(p, i, o)
      PROVE  DueNext(Y)
  BY <1>3, EntriesRemove
<1>4. CASE SetIndex(p) /\ Writes(p)
  BY <1>4, EntriesSet
<1>5. CASE KillIndex(p)
  BY <1>5, EntriesKill
<1>6. ASSUME data' = data, sys' = sys, idx \subseteq idx', ~(SetIndex(p) /\ Writes(p)),
             call[p].at = "setIndex" => SetIndex(p)
      PROVE  DueNext(Y)
  BY <1>6, EntriesQuiet
<1>7. CASE SetIndex(p) /\ ~Writes(p)
  <2>1. data' = data /\ sys' = sys /\ idx \subseteq idx'
    BY <1>7 DEF SetIndex
  <2> QED BY <1>6, <1>7, <2>1
<1>8. CASE \/ Open(p) \/ LoadIndex(p) \/ AddUpdateFails(p) \/ ReIndex(p) \/ IndexScan(p)
           \/ Scan(p) \/ Fetch(p) \/ FetchEnd(p)
  <2>1. data' = data /\ sys' = sys /\ idx' = idx /\ call[p].at # "setIndex"
    BY <1>8 DEF Open, LoadIndex, AddUpdateFails, ReIndex, IndexScan, Scan, Fetch, FetchEnd, store
  <2> QED BY <1>6, <2>1 DEF SetIndex
<1>9. ASSUME \/ \E o \in Objects : AddIncrement(p, o)
             \/ \E q \in Queries : Find(p, q)
             \/ \E d \in IndexDefs : EnsureIndex(p, d)
      PROVE  DueNext(Y)
  <2>1. data' = data /\ sys' = sys /\ idx' = idx /\ call[p].at # "setIndex"
    BY <1>9 DEF AddIncrement, Find, EnsureIndex, store
  <2> QED BY <1>6, <2>1 DEF SetIndex
<1>10. ~RemoveAll(p) /\ ~Crash(p)
  BY DEF RemoveAll, Crash, WriterAssumption
<1> QED BY <1>1, <1>2, <1>3, <1>4, <1>5, <1>7, <1>8, <1>9, <1>10 DEF Step

LEMMA IndexStep ==
  ASSUME IndexAssumption, IndexInv, NEW p \in Procs, Step(p)
  PROVE  IndexInv'
<1>1. ~SetSys(p)
  BY DEF SetSys, IndexAssumption, IndexInv, CallsInv, CallOK
<1>2. CallsInv'
  BY <1>1, CallsStep, IndexIsKey DEF IndexInv
<1>3. Excuses({}, {})
  BY DEF Excuses
<1>4. DueNext({})
  BY <1>1, <1>3, EntriesStep, IndexIsKey DEF IndexInv
<1> QED BY <1>2, <1>4 DEF IndexInv, DueNext, EntriesDue

\* A record that no one writes has all its entries but those excused.
LEMMA DueNow ==
  ASSUME CallsInv, NEW X, EntriesDue(X), NEW i \in Stored, NEW x \in sys, Writers(i) = {},
         data[i][x] # Absent, <<x, i>> \notin X
  PROVE  <<x, data[i][x], i>> \in idx
<1> SUFFICES ASSUME NEW p \in Procs, Due(p, i, x) PROVE FALSE
  BY DEF EntriesDue
<1>1. i \in RowIds(call[p])
  BY DEF Due, CallsInv, CallOK
<1> QED BY <1>1 DEF Due, Writes, Writers, RowIds

LEMMA InvComplete == IndexInv => IndexComplete
BY DueNow DEF IndexInv, IndexComplete

LEMMA CallsInit == Init => CallsInv /\ EntriesDue({})
<1> SUFFICES ASSUME Init PROVE CallsInv /\ EntriesDue({})
  OBVIOUS
<1>1. Off.op = "none" /\ Off.at = "off"
  BY DEF Off, Idle
<1>2. \A p \in Procs : call[p] = Off /\ ~Writes(p)
  BY <1>1 DEF Init, Writes
<1>3. \A p \in Procs : CallOK(p)
  BY <1>1, <1>2 DEF CallOK
<1>4. OneWriter
  BY <1>2 DEF OneWriter
<1>5. EntriesDue({})
  BY DEF Init, EntriesDue, Stored, NoRows
<1> QED BY <1>3, <1>4, <1>5, KeyInit DEF CallsInv

LEMMA IndexInit == Init => IndexInv
BY CallsInit DEF IndexInv

LEMMA IndexStutter == IndexInv /\ UNCHANGED vars => IndexInv'
BY KeyStutter DEF vars, IndexInv, CallsInv, CallOK, Writes, Adding, Knows, RowIds, OneWriter,
   EntriesDue, Due, Stored

\* A record nobody is writing has all its entries, for any number of processes,
\* keys, properties and values, whatever adds of theirs fail: when writers of one
\* record take turns, every process has read the indexes, none makes up keys,
\* drops the collection, ends within a write or fails to write an entry.
THEOREM IndexIsComplete ==
  ASSUME IndexAssumption
  PROVE  Spec => []IndexComplete
<1>1. Init => IndexInv
  BY IndexInit
<1>2. IndexInv /\ [Next]_vars => IndexInv'
  <2> SUFFICES ASSUME IndexInv, [Next]_vars PROVE IndexInv'
    OBVIOUS
  <2>1. CASE Next
    BY <2>1, IndexStep DEF Next
  <2>2. CASE UNCHANGED vars
    BY <2>2, IndexStutter
  <2> QED BY <2>1, <2>2
<1>3. IndexInv => IndexComplete
  BY InvComplete
<1> QED BY <1>1, <1>2, <1>3, PTL DEF Spec

-----------------------------------------------------------------------------
(* reIndex and find, which read keys first and records later: what holds   *)
(* of the records that nobody writes meanwhile.  Of the faults, only lost  *)
(* index entries are left out.                                             *)

\* The place of a call in its operation.
FormOK(p) ==
  /\ call[p].at = "killIndex" <=> call[p].op = "remove"
  /\ call[p].op = "find" => call[p].at \in {"scan", "indexScan", "fetch"}
  /\ call[p].op = "reIndex" =>
       call[p].at \in {"scan", "fetch", "setIndex"} /\ call[p].query = <<>>

\* The row of a remove in progress is one that it took or found gone.
RemovesGone(p) ==
  call'[p].op = "remove" =>
    \/ call[p].op = "remove" /\ RowIds(call'[p]) = RowIds(call[p])
    \/ \A i \in RowIds(call'[p]) : data'[i] = Missing

Begins(p) == ReIndex(p) \/ \E q \in Queries : Find(p, q)

StepOK(p) ==
  /\ FormOK(p)'
  /\ RemovesGone(p)
  /\ Reading(call'[p]) => Reading(call[p]) \/ Begins(p)

\* Only a remove at its turn takes an entry away, and one of its own row.
LEMMA StepEntries ==
  ASSUME TypeInv, NEW p \in Procs, Step(p), NEW x, NEW v, NEW i,
         <<x, v, i>> \in idx, <<x, v, i>> \notin idx'
  PROVE  call[p].at = "killIndex" /\ i \in RowIds(call[p])
<1>1. KillIndex(p)
  BY DEF Step, Open, LoadIndex, AddIncrement, AddUpdate, AddUpdateFails, Save, Remove,
         RemoveAll, SetIndex, EnsureIndex, SetSys, Find, ReIndex, IndexScan, Scan, Fetch,
         FetchEnd, Crash, store
<1>2. idx' = idx \ TurnEntry(call[p], indexes[p]) \/ idx' = idx
  BY <1>1 DEF KillIndex
<1>3. <<x, v, i>> \in TurnEntry(call[p], indexes[p])
  BY <1>2
<1>4. i = call[p].cursor
  BY <1>3 DEF TurnEntry
<1> QED BY <1>1, <1>4 DEF KillIndex, TypeInv, FrameOK

\* The query of a call stays as it is to the end of the call.
LEMMA IndexLoopQuery ==
  ASSUME NEW f \in Frames, NEW defs \in Defs, NEW at \in {"setIndex", "killIndex"}
  PROVE  LET g == IndexLoop(f, at, defs) IN
         \/ g = Idle /\ (RowIds(f) = {} \/ defs = <<>>)
         \/ /\ g.at = at /\ g.op = f.op /\ g.query = f.query /\ g.rows = f.rows
            /\ g.cursor = Order(RowIds(f), 0) /\ g.j = 1
            /\ RowIds(f) # {} /\ defs # <<>>
BY DEF IndexLoop, Frames

LEMMA NextTurnQuery ==
  ASSUME NEW f \in Frames, NEW defs, NEW g, g = NextTurn(f, defs)
  PROVE  \/ /\ g.at = f.at /\ g.op = f.op /\ g.query = f.query /\ g.rows = f.rows
            /\ \/ f.j < Len(defs) /\ g.j = f.j + 1 /\ g.cursor = f.cursor
               \/ /\ ~(f.j < Len(defs)) /\ Order(RowIds(f), f.cursor) # 0
                  /\ g.j = 1 /\ g.cursor = Order(RowIds(f), f.cursor)
         \/ /\ ~(f.j < Len(defs)) /\ Order(RowIds(f), f.cursor) = 0 /\ g = Idle
BY DEF NextTurn, Frames

LEMMA OrderedQuery ==
  ASSUME NEW f \in Frames, NEW S, NEW g, g = Ordered(f, S)
  PROVE  /\ g.op = f.op /\ g.query = f.query /\ g.rows = f.rows
         /\ \/ /\ Order(S, f.cursor) # 0 /\ g.at = f.at
               /\ g.cursor = Order(S, f.cursor) /\ g.ids = f.ids \cup {Order(S, f.cursor)}
            \/ /\ Order(S, f.cursor) = 0 /\ g.cursor = 0 /\ g.ids = f.ids
               /\ \/ g.at = "scan" /\ f.at = "indexScan" /\ f.ids = {}
                  \/ g.at = "fetch"
BY DEF Ordered, Frames

LEMMA IdleForm ==
  /\ Idle.at = "idle" /\ Idle.op = "none" /\ Off.at = "off" /\ Off.op = "none"
  /\ Idle.query = <<>> /\ Idle.cursor = 0 /\ Idle.ids = {}
BY DEF Idle, Off

\* A call that does not read, and removes nothing new.
LEMMA PlainForm ==
  ASSUME NEW p \in Procs,
         call'[p].op \notin {"find", "reIndex", "remove"}, call'[p].at # "killIndex"
  PROVE  StepOK(p)
BY DEF StepOK, FormOK, RemovesGone, Reading

\* The same operation goes on.
LEMMA SameForm ==
  ASSUME NEW p \in Procs, FormOK(p),
         call'[p].op = call[p].op, call'[p].query = call[p].query,
         call'[p].at = "killIndex" <=> call[p].at = "killIndex",
         RowIds(call'[p]) = RowIds(call[p]) \/ call[p].op # "remove",
         call[p].op = "find" => call'[p].at \in {"scan", "indexScan", "fetch"},
         call[p].op = "reIndex" => call'[p].at \in {"scan", "fetch", "setIndex"}
  PROVE  StepOK(p)
BY DEF StepOK, FormOK, RemovesGone, Reading

LEMMA PlainStep ==
  ASSUME TypeInv, NEW p \in Procs, FormOK(p),
         \/ Open(p) \/ LoadIndex(p) \/ AddUpdate(p) \/ AddUpdateFails(p) \/ Crash(p)
         \/ SetSys(p) \/ RemoveAll(p)
         \/ \E o \in Objects : AddIncrement(p, o)
         \/ \E d \in IndexDefs : EnsureIndex(p, d)
  PROVE  StepOK(p)
<1>0. call \in [Procs -> Frames] /\ call[p] \in Frames /\ FrameOK(call[p], indexes[p])
      /\ indexes[p] \in Defs
  BY UnchangedIndexes DEF TypeInv, TypeOK
<1>1. CASE Open(p)
  <2>1. call'[p].op = "open" /\ call'[p].at = "load"
    BY <1>0, <1>1 DEF Open, Idle
  <2> QED BY <2>1, PlainForm
<1>2. CASE LoadIndex(p)
  <2>1. \/ call'[p] = Idle
        \/ call'[p] = [call[p] EXCEPT !.cursor = Order(sys, call[p].cursor)]
    BY <1>0, <1>2 DEF LoadIndex
  <2>2. call[p].at = "load" /\ call[p].op \notin {"find", "reIndex"}
    BY <1>2 DEF LoadIndex, FormOK
  <2>3. CASE call'[p] = Idle
    BY <2>3, PlainForm, IdleForm
  <2>4. CASE call'[p] = [call[p] EXCEPT !.cursor = Order(sys, call[p].cursor)]
    <3>1. /\ call'[p].op = call[p].op /\ call'[p].at = "load" /\ call'[p].query = call[p].query
          /\ call'[p].rows = call[p].rows
      BY <1>0, <2>2, <2>4 DEF Frames
    <3>2. RowIds(call'[p]) = RowIds(call[p])
      BY <3>1 DEF RowIds
    <3> QED BY <2>2, <3>1, <3>2, SameForm
  <2> QED BY <2>1, <2>3, <2>4
<1>3. CASE AddUpdate(p)
  <2>1. call'[p] = IndexLoop(call[p], "setIndex", indexes[p]) /\ call[p].op = "add"
    BY <1>0, <1>3 DEF AddUpdate, FrameOK
  <2>2. call'[p] = Idle \/ (call'[p].op = "add" /\ call'[p].at = "setIndex")
    BY <1>0, <2>1, IndexLoopQuery
  <2> QED BY <2>2, PlainForm, IdleForm
<1>4. CASE AddUpdateFails(p) \/ Crash(p)
  <2>1. call'[p] \in {Idle, Off}
    BY <1>0, <1>4 DEF AddUpdateFails, Crash
  <2> QED BY <2>1, PlainForm, IdleForm
<1>5. CASE SetSys(p)
  <2>1. call'[p] = Idle \/ call'[p] = [call[p] EXCEPT !.j = call[p].j + 1]
    BY <1>0, <1>5 DEF SetSys, NextProp
  <2>2. call[p].at = "setSys" /\ call[p].op \notin {"find", "reIndex"}
    BY <1>5 DEF SetSys, FormOK
  <2>3. CASE call'[p] = Idle
    BY <2>3, PlainForm, IdleForm
  <2>4. CASE call'[p] = [call[p] EXCEPT !.j = call[p].j + 1]
    <3>1. /\ call'[p].op = call[p].op /\ call'[p].at = "setSys" /\ call'[p].query = call[p].query
          /\ call'[p].rows = call[p].rows
      BY <1>0, <2>2, <2>4 DEF Frames
    <3>2. RowIds(call'[p]) = RowIds(call[p])
      BY <3>1 DEF RowIds
    <3> QED BY <2>2, <3>1, <3>2, SameForm
  <2> QED BY <2>1, <2>3, <2>4
<1>6. CASE RemoveAll(p)
  <2>1. call'[p] = call[p]
    BY <1>6 DEF RemoveAll
  <2> QED BY <2>1, SameForm DEF FormOK, RowIds
<1>7. ASSUME NEW o \in Objects, AddIncrement(p, o)
      PROVE  StepOK(p)
  <2>1. call'[p] = Writing("add", "addUpdate", counter + 1, o)
    BY <1>0, <1>7 DEF AddIncrement
  <2>2. call'[p].op = "add" /\ call'[p].at = "addUpdate"
    BY <2>1 DEF Writing, Idle
  <2> QED BY <2>2, PlainForm
<1>8. ASSUME NEW d \in IndexDefs, EnsureIndex(p, d)
      PROVE  StepOK(p)
  <2>1. call'[p].op = "ensureIndex" /\ call'[p].at = "setSys"
    BY <1>0, <1>8 DEF EnsureIndex, Idle
  <2> QED BY <2>1, PlainForm
<1> QED BY <1>1, <1>2, <1>3, <1>4, <1>5, <1>6, <1>7, <1>8

LEMMA WriteStep ==
  ASSUME TypeInv, NEW p \in Procs, FormOK(p), NEW i \in Ids, NEW o \in Objects,
         Save(p, i, o) \/ Remove(p, i, o)
  PROVE  StepOK(p)
<1>0. call \in [Procs -> Frames] /\ data \in [Ids -> Objects \cup {Missing}]
      /\ indexes[p] \in Defs
  BY UnchangedIndexes DEF TypeInv, TypeOK
<1>1. CASE Save(p, i, o)
  <2> DEFINE g == Writing("save", "setIndex", i, o)
  <2>1. g \in Frames /\ g.op = "save"
    BY WritingFrame DEF Writing, Idle
  <2>2. call'[p] = IndexLoop(g, "setIndex", indexes[p])
    BY <1>0, <1>1 DEF Save
  <2> HIDE DEF g
  <2>3. call'[p] = Idle \/ (call'[p].op = "save" /\ call'[p].at = "setIndex")
    BY <1>0, <2>1, <2>2, IndexLoopQuery
  <2> QED BY <2>3, PlainForm, IdleForm
<1>2. CASE Remove(p, i, o)
  <2> DEFINE g == Writing("remove", "killIndex", i, o)
  <2>1. g \in Frames /\ g.op = "remove" /\ RowIds(g) = {i}
    BY WritingIs
  <2>2. call'[p] = IndexLoop(g, "killIndex", indexes[p]) /\ data'[i] = Missing
    BY <1>0, <1>2 DEF Remove
  <2> HIDE DEF g
  <2>3. \/ call'[p] = Idle
        \/ call'[p].op = "remove" /\ call'[p].at = "killIndex" /\ call'[p].rows = g.rows
    BY <1>0, <2>1, <2>2, IndexLoopQuery
  <2>4. CASE call'[p] = Idle
    BY <2>4, PlainForm, IdleForm
  <2>5. CASE call'[p] # Idle
    <3>1. call'[p].op = "remove" /\ call'[p].at = "killIndex" /\ RowIds(call'[p]) = {i}
      BY <2>1, <2>3, <2>5 DEF RowIds
    <3> QED BY <2>2, <3>1 DEF StepOK, FormOK, RemovesGone, Reading
  <2> QED BY <2>4, <2>5
<1> QED BY <1>1, <1>2

LEMMA TurnStep ==
  ASSUME TypeInv, NEW p \in Procs, FormOK(p), SetIndex(p) \/ KillIndex(p)
  PROVE  StepOK(p)
<1>0. call \in [Procs -> Frames] /\ call[p] \in Frames
  BY DEF TypeInv, TypeOK
<1>1. call'[p] = NextTurn(call[p], indexes[p]) /\ call[p].at \in {"setIndex", "killIndex"}
  BY <1>0 DEF SetIndex, KillIndex
<1>2. \/ call'[p] = Idle
      \/ /\ call'[p].at = call[p].at /\ call'[p].op = call[p].op
         /\ call'[p].query = call[p].query /\ call'[p].rows = call[p].rows
  BY <1>0, <1>1, NextTurnQuery
<1>3. CASE call'[p] = Idle
  BY <1>3, PlainForm, IdleForm
<1>4. CASE call'[p] # Idle
  <2>1. RowIds(call'[p]) = RowIds(call[p])
    BY <1>2, <1>4 DEF RowIds
  <2> QED BY <1>1, <1>2, <1>4, <2>1, SameForm DEF FormOK
<1> QED BY <1>3, <1>4

LEMMA BeginStep ==
  ASSUME TypeInv, NEW p \in Procs, Begins(p)
  PROVE  /\ StepOK(p)
         /\ call'[p].at \in {"scan", "indexScan"} /\ call'[p].cursor = 0
         /\ call[p].at = "idle" /\ UNCHANGED <<store, indexes, held>>
<1>0. call \in [Procs -> Frames]
  BY DEF TypeInv, TypeOK
<1>1. CASE ReIndex(p)
  <2>1. /\ call'[p].op = "reIndex" /\ call'[p].at = "scan" /\ call'[p].query = <<>>
        /\ call'[p].cursor = 0
    BY <1>0, <1>1 DEF ReIndex, Idle
  <2> QED BY <1>1, <2>1 DEF StepOK, FormOK, RemovesGone, Reading, Begins, ReIndex
<1>2. ASSUME NEW q \in Queries, Find(p, q)
      PROVE  /\ StepOK(p)
             /\ call'[p].at \in {"scan", "indexScan"} /\ call'[p].cursor = 0
             /\ call[p].at = "idle" /\ UNCHANGED <<store, indexes, held>>
  <2>1. /\ call'[p].op = "find" /\ call'[p].at \in {"scan", "indexScan"}
        /\ call'[p].cursor = 0
    BY <1>0, <1>2 DEF Find, Idle
  <2> QED BY <1>2, <2>1 DEF StepOK, FormOK, RemovesGone, Reading, Begins, Find
<1> QED BY <1>1, <1>2 DEF Begins

\* The scan of a collection or of an index, and what follows it.
LEMMA ScanStep ==
  ASSUME TypeInv, NEW p \in Procs, FormOK(p), IndexScan(p) \/ Scan(p)
  PROVE  StepOK(p)
<1>0. TypeInv /\ call \in [Procs -> Frames] /\ call[p] \in Frames
  BY DEF TypeInv, TypeOK
<1>1. PICK S \in SUBSET Ids : call' = [call EXCEPT ![p] = Ordered(call[p], S)]
  BY <1>0, StoredOK DEF IndexScan, Scan
<1>2. call'[p] = Ordered(call[p], S) /\ call[p].at \in {"scan", "indexScan"}
  BY <1>0, <1>1 DEF IndexScan, Scan
<1>3. /\ call'[p].op = call[p].op /\ call'[p].query = call[p].query
      /\ call'[p].rows = call[p].rows
      /\ call'[p].at \in {"scan", "indexScan", "fetch"}
      /\ call[p].at = "scan" => call'[p].at # "indexScan"
  BY <1>0, <1>2, OrderedQuery
<1>4. RowIds(call'[p]) = RowIds(call[p])
  BY <1>3 DEF RowIds
<1>5. call[p].op = "reIndex" => call'[p].at \in {"scan", "fetch", "setIndex"}
  BY <1>2, <1>3 DEF FormOK
<1> QED BY <1>2, <1>3, <1>4, <1>5, SameForm

LEMMA FetchStep ==
  ASSUME TypeInv, NEW p \in Procs, FormOK(p), Fetch(p) \/ FetchEnd(p)
  PROVE  StepOK(p)
<1>0. /\ call \in [Procs -> Frames] /\ call[p] \in Frames /\ call[p].at = "fetch"
      /\ indexes[p] \in Defs
  BY UnchangedIndexes DEF TypeInv, TypeOK, Fetch, FetchEnd
<1>1. call[p].op # "remove" => StepOK(p)
  <2> SUFFICES ASSUME call[p].op # "remove" PROVE StepOK(p)
    OBVIOUS
  <2>1. CASE Fetch(p)
    <3>1. /\ call'[p].op = call[p].op /\ call'[p].query = call[p].query
          /\ call'[p].at = "fetch"
      BY <1>0, <2>1 DEF Fetch, Frames
    <3> QED BY <1>0, <3>1, SameForm
  <2>2. CASE FetchEnd(p)
    <3>1. \/ call'[p] = Idle
          \/ call'[p] = IndexLoop(call[p], "setIndex", indexes[p]) /\ call[p].op # "find"
      BY <1>0, <2>2 DEF FetchEnd
    <3>2. \/ call'[p] = Idle
          \/ /\ call'[p].op = call[p].op /\ call'[p].query = call[p].query
             /\ call'[p].at = "setIndex" /\ call[p].op # "find"
      BY <1>0, <3>1, IndexLoopQuery
    <3> QED BY <1>0, <3>2, PlainForm, SameForm, IdleForm
  <2> QED BY <2>1, <2>2
<1>2. call[p].op # "remove"
  BY <1>0 DEF FormOK
<1> QED BY <1>1, <1>2

LEMMA FormStep ==
  ASSUME TypeInv, NEW p \in Procs, FormOK(p), Step(p)
  PROVE  StepOK(p)
BY PlainStep, WriteStep, TurnStep, BeginStep, ScanStep, FetchStep DEF Step, Begins

\* A calm record is there, and its row in no remove.
CalmOK(p) ==
  /\ calm[p] \subseteq Stored
  /\ \A q \in Procs : call[q].op = "remove" => RowIds(call[q]) \cap calm[p] = {}

\* The calm records the call of p has to find.
Wanted(p) == {i \in calm[p] : MatchesAll(call[p].query, data[i])}

\* Up to its cursor, a scan has found them all and a fetch has retrieved them.
Gathers(p) ==
  /\ call[p].at \in {"scan", "indexScan"} =>
       \A i \in Wanted(p) : i <= call[p].cursor => i \in call[p].ids
  /\ call[p].at = "fetch" =>
       \A i \in Wanted(p) :
         i \in call[p].ids /\ (i <= call[p].cursor => call[p].rows[i] = data[i])

\* The turn of i at the index d is over.
Before(f, i, d) == i < f.cursor \/ (i = f.cursor /\ d < f.j)

\* A reIndex that writes has all calm records, and up to its turn their entries.
Repairs(p) ==
  call[p].at = "setIndex" =>
    \A i \in calm[p] :
      /\ call[p].rows[i] = data[i]
      /\ \A d \in DOMAIN indexes[p] :
           LET x == Head(indexes[p][d]) IN
           Before(call[p], i, d) /\ data[i][x] # Absent => <<x, data[i][x], i>> \in idx

CalmInv == TypeInv /\ \A p \in Procs : FormOK(p) /\ CalmOK(p)

RepairInv ==
  CalmInv /\ \A p \in Procs : call[p].op = "reIndex" => Gathers(p) /\ Repairs(p)

\* What is calm after a step was so before, and no one has written it; or it
\* is a stored record nobody writes, when a call begins to read.
LEMMA CalmOnly ==
  ASSUME CalmInv, NEW p \in Procs, Step(p), WatchCalls, NEW q \in Procs, NEW i \in calm'[q]
  PROVE  /\ Reading(call'[q]) /\ i \in Ids /\ data'[i] = data[i]
         /\ \/ Reading(call[q]) /\ i \in calm[q]
            \/ q = p /\ Begins(p) /\ i \in Stored /\ Writers(i) = {}
<1>1. calm'[q] = IF ~Reading(call'[q]) THEN {}
                 ELSE IF Reading(call[q]) THEN calm[q] \ Changed
                 ELSE {k \in Stored : Writers(k) = {}}
  BY DEF WatchCalls
<1>2. Reading(call'[q])
  BY <1>1
<1>3. CASE Reading(call[q])
  <2>1. i \in calm[q] /\ i \notin Changed
    BY <1>1, <1>2, <1>3
  <2>2. i \in Ids
    BY <2>1 DEF CalmInv, CalmOK, Stored
  <2> QED BY <1>2, <1>3, <2>1, <2>2 DEF Changed
<1>4. CASE ~Reading(call[q])
  <2>1. i \in Stored /\ Writers(i) = {}
    BY <1>1, <1>2, <1>4
  <2>2. q = p
    <3> SUFFICES ASSUME q # p PROVE FALSE
      OBVIOUS
    <3>1. call'[q] = call[q]
      BY StepOthers DEF CalmInv
    <3> QED BY <1>2, <1>4, <3>1
  <2>3. Begins(p)
    BY <1>2, <1>4, <2>2, FormStep DEF CalmInv, StepOK
  <2>4. data' = data
    BY <2>3, BeginStep DEF CalmInv, store
  <2> QED BY <1>2, <2>1, <2>2, <2>3, <2>4 DEF Stored
<1> QED BY <1>3, <1>4

LEMMA CalmStep ==
  ASSUME CalmInv, NEW p \in Procs, Step(p), WatchCalls
  PROVE  CalmInv'
<1>0. TypeInv /\ TypeInv' /\ StepOK(p)
  BY TypeStep, FormStep DEF CalmInv
<1>1. ASSUME NEW q \in Procs PROVE FormOK(q)'
  <2>1. CASE q = p
    BY <1>0, <2>1 DEF StepOK
  <2>2. CASE q # p
    <3>1. call'[q] = call[q]
      BY <1>0, <2>2, StepOthers
    <3> QED BY <3>1 DEF CalmInv, FormOK
  <2> QED BY <2>1, <2>2
<1>2. ASSUME NEW q \in Procs PROVE CalmOK(q)'
  <2>1. calm'[q] \subseteq Stored'
    <3> SUFFICES ASSUME NEW i \in calm'[q] PROVE i \in Stored'
      OBVIOUS
    <3>1. i \in Ids /\ data'[i] = data[i] /\ (i \in calm[q] \/ i \in Stored)
      BY CalmOnly
    <3>2. i \in Stored
      BY <3>1 DEF CalmInv, CalmOK
    <3> QED BY <3>1, <3>2 DEF Stored
  <2>2. ASSUME NEW r \in Procs, call'[r].op = "remove", NEW i \in RowIds(call'[r]),
               i \in calm'[q]
        PROVE  FALSE
    <3>1. /\ data'[i] = data[i] /\ i \in Ids
          /\ \/ i \in calm[q]
             \/ q = p /\ Begins(p) /\ i \in Stored /\ Writers(i) = {}
      BY <2>2, CalmOnly
    <3>2. data'[i] # Missing
      BY <2>1, <2>2 DEF Stored
    <3>3. call[r].op = "remove" /\ RowIds(call'[r]) = RowIds(call[r])
      <4>1. CASE r = p
        BY <1>0, <2>2, <3>2, <4>1 DEF StepOK, RemovesGone
      <4>2. CASE r # p
        <5>1. call'[r] = call[r]
          BY <1>0, <4>2, StepOthers
        <5> QED BY <2>2, <5>1 DEF RowIds
      <4> QED BY <4>1, <4>2
    <3>4. i \notin calm[q]
      BY <2>2, <3>3 DEF CalmInv, CalmOK
    <3>5. r \in Writers(i)
      BY <2>2, <3>3 DEF Writers, RowIds
    <3> QED BY <3>1, <3>4, <3>5
  <2> QED BY <2>1, <2>2 DEF CalmOK
<1> QED BY <1>0, <1>1, <1>2 DEF CalmInv

\* The entries of calm records stay.
LEMMA CalmEntries ==
  ASSUME CalmInv, NEW p \in Procs, Step(p), WatchCalls, NEW q \in Procs, NEW i \in calm'[q],
         NEW x, NEW v, <<x, v, i>> \in idx
  PROVE  <<x, v, i>> \in idx'
<1> SUFFICES ASSUME <<x, v, i>> \notin idx' PROVE FALSE
  OBVIOUS
<1>1. call[p].op = "remove" /\ i \in RowIds(call[p]) /\ call[p].at = "killIndex"
  BY StepEntries DEF CalmInv, FormOK
<1>2. i \in calm[q] \/ Begins(p)
  BY CalmOnly
<1>3. ~Begins(p)
  BY <1>1, BeginStep DEF CalmInv
<1> QED BY <1>1, <1>2, <1>3 DEF CalmInv, CalmOK

LEMMA WantedOnly ==
  ASSUME CalmInv, NEW p \in Procs, Step(p), WatchCalls, NEW q \in Procs,
         call'[q].query = call[q].query, Reading(call[q]), NEW i \in Wanted(q)'
  PROVE  i \in Wanted(q) /\ data'[i] = data[i] /\ i \in Ids
<1>1. i \in calm'[q] /\ MatchesAll(call'[q].query, data'[i])
  BY DEF Wanted
<1>2. data'[i] = data[i] /\ i \in calm[q] /\ i \in Ids
  <2>1. data'[i] = data[i] /\ i \in Ids /\ (i \in calm[q] \/ (q = p /\ Begins(p)))
    BY <1>1, CalmOnly
  <2>2. ~(q = p /\ Begins(p))
    <3> SUFFICES ASSUME q = p, Begins(p) PROVE FALSE
      OBVIOUS
    <3>1. call[p].at = "idle"
      BY BeginStep DEF CalmInv
    <3> QED BY <3>1 DEF CalmInv, FormOK, Reading
  <2> QED BY <2>1, <2>2
<1> QED BY <1>1, <1>2 DEF Wanted

-----------------------------------------------------------------------------
\* One $ORDER of a scan over S, which holds all of W.
LEMMA OrderedGathers ==
  ASSUME NEW f \in Frames, NEW S \in SUBSET Ids, NEW W \in SUBSET S,
         f.at \in {"scan", "indexScan"},
         \A i \in W : i <= f.cursor => i \in f.ids
  PROVE  LET g == Ordered(f, S) IN
         /\ g.at \in {"scan", "indexScan"} =>
              \A i \in W : i <= g.cursor => i \in g.ids
         /\ g.at = "fetch" => g.cursor = 0 /\ \A i \in W : i \in g.ids
<1> DEFINE g == Ordered(f, S)
           n == Order(S, f.cursor)
<1>1. S \in SUBSET (Nat \ {0}) /\ f.cursor \in Nat
  BY IdsNat DEF Frames
<1>2. W \subseteq Nat \ {0}
  BY <1>1
<1>3. \/ n # 0 /\ g.at = f.at /\ g.cursor = n /\ g.ids = f.ids \cup {n}
      \/ /\ n = 0 /\ g.cursor = 0 /\ g.ids = f.ids
         /\ g.at = "scan" \/ g.at = "fetch"
  BY OrderedQuery
<1>4. CASE n # 0
  <2>1. \A i \in S : i > f.cursor => n <= i
    BY <1>1, OrderNext
  <2>2. n \in Nat
    <3>1. n \in S \cup {0}
      BY <1>1, OrderNext
    <3> HIDE DEF n
    <3> QED BY <1>1, <3>1
  <2>3. \A i \in W : i <= n => i <= f.cursor \/ i = n
    BY <1>1, <1>2, <2>1, <2>2
  <2>4. g.at = f.at /\ g.cursor = n /\ g.ids = f.ids \cup {n}
    BY <1>3, <1>4
  <2> HIDE DEF g, n
  <2> QED BY <2>3, <2>4 DEF g
<1>5. CASE n = 0
  <2>1. \A i \in S : i <= f.cursor
    BY <1>1, <1>5, OrderNext
  <2>2. \A i \in W : i \in f.ids
    BY <2>1
  <2>3. g.cursor = 0 /\ g.ids = f.ids
    BY <1>3, <1>5
  <2> HIDE DEF g, n
  <2> QED BY <2>2, <2>3 DEF g
<1> QED BY <1>4, <1>5

\* A call begins with nothing found, and nothing to have found.
LEMMA BeginGathers ==
  ASSUME CalmInv, NEW p \in Procs, Step(p), WatchCalls, Begins(p)
  PROVE  Gathers(p)' /\ Repairs(p)'
<1>1. call'[p].at \in {"scan", "indexScan"} /\ call'[p].cursor = 0
  BY BeginStep DEF CalmInv
<1>2. \A i \in calm'[p] : i \in Nat \ {0}
  BY CalmOnly, IdsNat
<1>3. \A i \in Wanted(p)' : ~(i <= 0)
  BY <1>2 DEF Wanted
<1> QED BY <1>1, <1>3 DEF Gathers, Repairs

LEMMA ScanGathers ==
  ASSUME CalmInv, NEW p \in Procs, Step(p), WatchCalls, Gathers(p), Reading(call[p]),
         NEW S \in SUBSET Ids, Wanted(p) \subseteq S,
         call[p].at \in {"scan", "indexScan"},
         call' = [call EXCEPT ![p] = Ordered(call[p], S)]
  PROVE  Gathers(p)'
<1>1. call[p] \in Frames /\ call'[p] = Ordered(call[p], S)
  BY DEF CalmInv, TypeInv, TypeOK
<1>2. call'[p].query = call[p].query
  BY <1>1, OrderedQuery
<1>3. Wanted(p)' \subseteq Wanted(p) /\ Wanted(p)' \subseteq Nat \ {0}
  BY <1>2, WantedOnly, IdsNat
<1>4. /\ call'[p].at \in {"scan", "indexScan"} =>
           \A i \in Wanted(p) : i <= call'[p].cursor => i \in call'[p].ids
      /\ call'[p].at = "fetch" =>
           call'[p].cursor = 0 /\ \A i \in Wanted(p) : i \in call'[p].ids
  <2>1. \A i \in Wanted(p) : i <= call[p].cursor => i \in call[p].ids
    BY DEF Gathers
  <2> QED BY <1>1, <2>1, OrderedGathers
<1>5. call'[p].at = "fetch" => \A i \in Wanted(p)' : ~(i <= call'[p].cursor)
  BY <1>3, <1>4
<1> QED BY <1>3, <1>4, <1>5 DEF Gathers

LEMMA FetchGathers ==
  ASSUME CalmInv, NEW p \in Procs, Step(p), WatchCalls, Gathers(p), Reading(call[p]), Fetch(p)
  PROVE  Gathers(p)'
<1> DEFINE n == Order(call[p].ids, call[p].cursor)
<1>1. /\ call \in [Procs -> Frames] /\ call[p] \in Frames /\ call[p].at = "fetch"
      /\ call' = [call EXCEPT ![p].cursor = n, ![p].rows[n] = Retrieved(n)]
  BY DEF CalmInv, TypeInv, TypeOK, Fetch
<1>2. /\ call[p].ids \in SUBSET (Nat \ {0}) /\ call[p].cursor \in Nat /\ call[p].ids \subseteq Ids
  BY <1>1, IdsNat DEF Frames
<1>3. /\ n \in call[p].ids /\ n \in Nat
      /\ \A i \in call[p].ids : i > call[p].cursor => n <= i
  <2>1. n # 0
    BY DEF Fetch
  <2> QED BY <1>2, <2>1, OrderNext
<1>4. /\ call'[p].cursor = n /\ call'[p].ids = call[p].ids /\ call'[p].at = "fetch"
      /\ call'[p].query = call[p].query
      /\ \A i \in Ids : call'[p].rows[i] = IF i = n THEN Retrieved(n) ELSE call[p].rows[i]
  <2> HIDE DEF n
  <2> QED BY <1>1 DEF Frames
<1>5. ASSUME NEW i \in Wanted(p)'
      PROVE  i \in call[p].ids /\ (i <= n => call'[p].rows[i] = data'[i])
  <2>1. i \in Wanted(p) /\ data'[i] = data[i] /\ i \in Ids
    BY <1>4, <1>5, WantedOnly
  <2>2. i \in call[p].ids /\ (i <= call[p].cursor => call[p].rows[i] = data[i])
    BY <1>1, <2>1 DEF Gathers
  <2>3. CASE i = n
    <3>1. data[i] # Missing
      BY <2>1 DEF Wanted, CalmInv, CalmOK, Stored
    <3> QED BY <1>4, <2>1, <2>2, <2>3, <3>1 DEF Retrieved
  <2>4. CASE i # n
    <3>1. i <= n => i <= call[p].cursor
      BY <1>2, <1>3, <2>2, <2>4
    <3> QED BY <1>4, <2>1, <2>2, <2>4, <3>1
  <2> QED BY <2>3, <2>4
<1> QED BY <1>4, <1>5 DEF Gathers

\* The steps of the others.
LEMMA OthersGather ==
  ASSUME CalmInv, NEW p \in Procs, Step(p), WatchCalls, NEW q \in Procs, q # p, Gathers(q)
  PROVE  Gathers(q)'
<1>1. call'[q] = call[q]
  BY StepOthers DEF CalmInv
<1>2. CASE Reading(call[q])
  <2>1. \A i \in Wanted(q)' : i \in Wanted(q) /\ data'[i] = data[i]
    BY <1>1, <1>2, WantedOnly
  <2> QED BY <1>1, <2>1 DEF Gathers
<1>3. CASE ~Reading(call[q])
  <2>1. calm'[q] = {}
    BY <1>1, <1>3, CalmOnly
  <2> QED BY <2>1 DEF Gathers, Wanted
<1> QED BY <1>2, <1>3

LEMMA OthersRepair ==
  ASSUME CalmInv, NEW p \in Procs, Step(p), WatchCalls, NEW q \in Procs, q # p, Repairs(q)
  PROVE  Repairs(q)'
<1>1. call'[q] = call[q] /\ indexes'[q] = indexes[q]
  BY StepOthers DEF CalmInv
<1> SUFFICES ASSUME call[q].at = "setIndex", NEW i \in calm'[q]
             PROVE  /\ call[q].rows[i] = data'[i]
                    /\ \A d \in DOMAIN indexes[q] :
                         LET x == Head(indexes[q][d]) IN
                         Before(call[q], i, d) /\ data'[i][x] # Absent =>
                           <<x, data'[i][x], i>> \in idx'
  BY <1>1 DEF Repairs, Before
<1>2. i \in calm[q] /\ data'[i] = data[i]
  BY CalmOnly
<1> QED BY <1>2, CalmEntries DEF Repairs

-----------------------------------------------------------------------------
(* reIndex. *)

LEMMA RepairBegins ==
  ASSUME CalmInv, NEW p \in Procs, Step(p), WatchCalls, FetchEnd(p), Gathers(p),
         call[p].op = "reIndex"
  PROVE  /\ Repairs(p)'
         /\ call'[p].at = "idle" =>
              \A i \in calm[p], d \in DOMAIN indexes[p] : FALSE
<1> DEFINE e == call[p]
           f == call'[p]
<1>1. /\ call \in [Procs -> Frames] /\ e \in Frames /\ e.at = "fetch" /\ e.query = <<>>
      /\ indexes[p] \in Defs /\ UNCHANGED <<store, indexes>>
  BY UnchangedIndexes DEF CalmInv, TypeInv, TypeOK, FetchEnd, FormOK
<1>2. f = IndexLoop(e, "setIndex", indexes[p])
  BY <1>1 DEF FetchEnd
<1>3. \A i \in calm[p] : i \in Wanted(p) /\ data[i] # Missing /\ i \in Ids
  BY <1>1 DEF Wanted, MatchesAll, CalmInv, CalmOK, Stored
<1>4. \A i \in calm[p] : e.rows[i] = data[i]
  <2>1. \A i \in e.ids : i <= e.cursor
    <3>1. e.ids \in SUBSET (Nat \ {0}) /\ e.cursor \in Nat /\ Order(e.ids, e.cursor) = 0
      BY <1>1, IdsNat DEF Frames, FetchEnd
    <3> HIDE DEF e
    <3> QED BY <3>1, OrderNext
  <2> QED BY <1>1, <1>3, <2>1 DEF Gathers
<1>5. calm[p] \subseteq RowIds(e)
  BY <1>3, <1>4 DEF RowIds
<1>6. \/ f = Idle /\ (RowIds(e) = {} \/ indexes[p] = <<>>)
      \/ /\ f.at = "setIndex" /\ f.rows = e.rows
         /\ f.cursor = Order(RowIds(e), 0) /\ f.j = 1
  <2> HIDE DEF e, f
  <2> QED BY <1>1, <1>2, IndexLoopQuery
<1>7. f.at = "idle" => calm[p] = {} \/ indexes[p] = <<>>
  BY <1>5, <1>6
<1>8. f.at = "setIndex" => Repairs(p)'
  <2> SUFFICES ASSUME f.at = "setIndex", NEW i \in calm'[p]
               PROVE  /\ f.rows[i] = data'[i]
                      /\ \A d \in DOMAIN indexes[p] : ~Before(f, i, d)
    BY <1>1 DEF Repairs
  <2>1. i \in calm[p] /\ data'[i] = data[i]
    <3>1. ~Begins(p)
      BY <1>1, BeginStep DEF CalmInv
    <3> QED BY <3>1, CalmOnly
  <2>2. /\ f.rows = e.rows /\ f.cursor = Order(RowIds(e), 0) /\ f.j = 1
    BY <1>6, IdleForm
  <2>3. f.cursor <= i /\ f.cursor \in Nat /\ i \in Nat
    <3>0. i \in RowIds(e) /\ RowIds(e) \in SUBSET (Nat \ {0})
      BY <1>5, <2>1, IdsNat DEF RowIds
    <3>1. RowIds(e) \in SUBSET (Nat \ {0}) /\ i \in RowIds(e) /\ i > 0
      BY <3>0
    <3>2. Order(RowIds(e), 0) <= i /\ Order(RowIds(e), 0) \in RowIds(e) \cup {0}
      <4> HIDE DEF e
      <4> QED BY <3>1, OrderNext
    <3> QED BY <2>2, <3>1, <3>2
  <2>4. \A d \in DOMAIN indexes[p] : d \in Nat /\ d >= 1
    BY <1>1 DEF Defs
  <2> QED BY <1>4, <2>1, <2>2, <2>3, <2>4 DEF Before
<1>9. indexes[p] = <<>> => DOMAIN indexes[p] = {}
  OBVIOUS
<1> QED BY <1>6, <1>7, <1>8, <1>9, IdleForm DEF Repairs

\* A turn of __update_index writes the entry it is at.
LEMMA RepairTurns ==
  ASSUME "index" \notin Faults, CalmInv, NEW p \in Procs, Step(p), WatchCalls, SetIndex(p),
         Repairs(p)
  PROVE  /\ Repairs(p)'
         /\ call'[p].at = "idle" => \A i \in calm[p], d \in DOMAIN indexes[p] :
              LET x == Head(indexes[p][d]) IN
              data[i][x] # Absent => <<x, data[i][x], i>> \in idx'
<1> DEFINE e == call[p]
           f == call'[p]
<1>1. /\ call \in [Procs -> Frames] /\ e \in Frames /\ e.at = "setIndex"
      /\ indexes[p] \in Defs /\ UNCHANGED <<data, indexes>>
      /\ idx' = idx \cup TurnEntry(e, indexes[p]) /\ f = NextTurn(e, indexes[p])
  BY UnchangedIndexes DEF CalmInv, TypeInv, TypeOK, SetIndex
<1>2. e.cursor \in RowIds(e) /\ e.cursor \in Nat /\ e.j \in 1..Len(indexes[p])
      /\ DOMAIN indexes[p] = 1..Len(indexes[p]) /\ Len(indexes[p]) \in Nat
      /\ RowIds(e) \in SUBSET (Nat \ {0})
  <2>1. FrameOK(e, indexes[p])
    BY DEF CalmInv, TypeInv
  <2>2. e.cursor \in RowIds(e) /\ RowIds(e) \in SUBSET (Nat \ {0})
    BY <1>1, <2>1, IdsNat DEF FrameOK, RowIds
  <2>3. DOMAIN indexes[p] = 1..Len(indexes[p]) /\ Len(indexes[p]) \in Nat
    BY <1>1 DEF Defs
  <2>4. e.j \in DOMAIN indexes[p]
    BY <1>1, <2>1 DEF FrameOK
  <2> HIDE DEF e
  <2> QED BY <2>2, <2>3, <2>4
<1>3. ASSUME NEW i \in calm[p], NEW d \in DOMAIN indexes[p],
             Before(e, i, d) \/ (i = e.cursor /\ d = e.j)
      PROVE  LET x == Head(indexes[p][d]) IN
             data[i][x] # Absent => <<x, data[i][x], i>> \in idx'
  <2>1. e.rows[i] = data[i]
    BY <1>1 DEF Repairs
  <2>2. CASE Before(e, i, d)
    BY <1>1, <2>2 DEF Repairs
  <2>3. CASE i = e.cursor /\ d = e.j
    BY <1>1, <2>1, <2>3 DEF TurnEntry, TurnProp
  <2> QED BY <1>3, <2>2, <2>3
<1>4. calm[p] \subseteq RowIds(e)
  BY <1>1 DEF Repairs, CalmInv, CalmOK, Stored, RowIds
<1>5. \/ /\ f.at = "setIndex" /\ f.rows = e.rows
         /\ \/ e.j < Len(indexes[p]) /\ f.j = e.j + 1 /\ f.cursor = e.cursor
            \/ /\ ~(e.j < Len(indexes[p])) /\ Order(RowIds(e), e.cursor) # 0
               /\ f.j = 1 /\ f.cursor = Order(RowIds(e), e.cursor)
      \/ ~(e.j < Len(indexes[p])) /\ Order(RowIds(e), e.cursor) = 0 /\ f = Idle
  <2> HIDE DEF e, f
  <2> QED BY <1>1, NextTurnQuery
<1>6. ASSUME f.at = "setIndex", NEW i \in calm[p], NEW d \in DOMAIN indexes[p], Before(f, i, d)
      PROVE  Before(e, i, d) \/ (i = e.cursor /\ d = e.j)
  <2>1. i \in Nat /\ i \in RowIds(e)
    BY <1>2, <1>4
  <2>2. CASE e.j < Len(indexes[p]) /\ f.j = e.j + 1 /\ f.cursor = e.cursor
    BY <1>2, <1>6, <2>1, <2>2 DEF Before
  <2>3. CASE /\ ~(e.j < Len(indexes[p])) /\ Order(RowIds(e), e.cursor) # 0
             /\ f.j = 1 /\ f.cursor = Order(RowIds(e), e.cursor)
    <3>1. i > e.cursor => Order(RowIds(e), e.cursor) <= i
      <4> HIDE DEF e
      <4> QED BY <1>2, <2>1, OrderNext
    <3>2. Order(RowIds(e), e.cursor) \in Nat
      <4> DEFINE n == Order(RowIds(e), e.cursor)
      <4>1. n \in RowIds(e) \cup {0}
        <5> HIDE DEF e
        <5> QED BY <1>2, OrderNext
      <4> SUFFICES n \in Nat
        OBVIOUS
      <4> HIDE DEF n
      <4> QED BY <1>2, <4>1
    <3>3. d >= 1 /\ d \in Nat /\ d <= Len(indexes[p])
      BY <1>2
    <3>4. i < f.cursor
      BY <1>6, <2>3, <3>3 DEF Before
    <3>5. i <= e.cursor
      BY <1>2, <2>1, <2>3, <3>1, <3>2, <3>4
    <3>6. e.j = Len(indexes[p])
      BY <1>2, <2>3
    <3> QED BY <1>2, <2>1, <3>3, <3>5, <3>6 DEF Before
  <2> QED BY <1>5, <1>6, <2>2, <2>3, IdleForm
<1>7. ASSUME f.at = "idle", NEW i \in calm[p], NEW d \in DOMAIN indexes[p]
      PROVE  Before(e, i, d) \/ (i = e.cursor /\ d = e.j)
  <2>1. ~(e.j < Len(indexes[p])) /\ Order(RowIds(e), e.cursor) = 0
    BY <1>5, <1>7
  <2>2. i <= e.cursor /\ i \in Nat
    <3>1. \A k \in RowIds(e) : k <= e.cursor
      <4> HIDE DEF e
      <4> QED BY <1>2, <2>1, OrderNext
    <3> QED BY <1>2, <1>4, <3>1
  <2> QED BY <1>2, <2>1, <2>2 DEF Before
<1>8. Repairs(p)'
  <2> SUFFICES ASSUME f.at = "setIndex", NEW i \in calm'[p]
               PROVE  /\ f.rows[i] = data[i]
                      /\ \A d \in DOMAIN indexes[p] :
                           LET x == Head(indexes[p][d]) IN
                           Before(f, i, d) /\ data[i][x] # Absent =>
                             <<x, data[i][x], i>> \in idx'
    BY <1>1 DEF Repairs, Before
  <2>1. i \in calm[p]
    <3>1. ~Begins(p)
      BY <1>1, BeginStep DEF CalmInv
    <3> QED BY <3>1, CalmOnly
  <2>2. f.rows = e.rows
    BY <1>5, IdleForm
  <2>3. e.rows[i] = data[i]
    BY <1>1, <2>1 DEF Repairs
  <2> QED BY <1>3, <1>6, <2>1, <2>2, <2>3
<1> QED BY <1>3, <1>7, <1>8

LEMMA RepairOwn ==
  ASSUME "index" \notin Faults, RepairInv, NEW p \in Procs, Step(p), WatchCalls,
         call'[p].op = "reIndex"
  PROVE  Gathers(p)' /\ Repairs(p)'
<1>0. CalmInv /\ CalmInv' /\ call \in [Procs -> Frames] /\ call[p] \in Frames
  BY CalmStep DEF RepairInv, CalmInv, TypeInv, TypeOK
<1>1. CASE Begins(p)
  BY <1>0, <1>1, BeginGathers
<1>2. CASE ~Begins(p)
  <2>1. Reading(call[p]) /\ StepOK(p)
    BY <1>0, <1>2, FormStep DEF CalmInv, StepOK, Reading
  <2>2. call[p].op = "reIndex"
    <3> SUFFICES ASSUME call[p].op = "find" PROVE FALSE
      BY <2>1 DEF Reading
    <3>1. call[p].at \in {"scan", "indexScan", "fetch"}
      BY <1>0 DEF CalmInv, FormOK
    <3>2. FetchEnd(p) => call'[p].op = "none"
      BY <1>0, IdleForm DEF FetchEnd
    <3>3. Fetch(p) => call'[p].op = "find"
      BY <1>0 DEF Fetch, Frames
    <3>4. IndexScan(p) \/ Scan(p) => call'[p].op = "find"
      BY <1>0, OrderedQuery DEF IndexScan, Scan
    <3>5. Crash(p) => call'[p].op = "none"
      BY <1>0, IdleForm DEF Crash
    <3> QED BY <3>1, <3>2, <3>3, <3>4, <3>5 DEF Step, Open, LoadIndex, AddIncrement,
               AddUpdate, AddUpdateFails, Save, Remove, RemoveAll, SetIndex, KillIndex,
               EnsureIndex, SetSys, Find, ReIndex
  <2>3. Gathers(p) /\ Repairs(p) /\ call[p].at \in {"scan", "fetch", "setIndex"}
    BY <1>0, <2>2 DEF RepairInv, CalmInv, FormOK
  <2>4. CASE Scan(p)
    <3>1. /\ call' = [call EXCEPT ![p] = Ordered(call[p], Stored)] /\ call[p].at = "scan"
          /\ Stored \in SUBSET Ids /\ Wanted(p) \subseteq Stored
      BY <1>0, <2>4 DEF Scan, Stored, Wanted, CalmInv, CalmOK
    <3>2. Gathers(p)'
      BY <1>0, <2>1, <2>3, <3>1, ScanGathers
    <3>3. call'[p].at # "setIndex"
      BY <1>0, <3>1, OrderedQuery
    <3> QED BY <3>2, <3>3 DEF Repairs
  <2>5. CASE Fetch(p)
    <3>1. Gathers(p)'
      BY <1>0, <2>1, <2>3, <2>5, FetchGathers
    <3>2. call'[p].at = "fetch"
      BY <1>0, <2>5 DEF Fetch, Frames
    <3> QED BY <3>1, <3>2 DEF Repairs
  <2>6. CASE FetchEnd(p)
    <3>1. Repairs(p)'
      BY <1>0, <2>2, <2>3, <2>6, RepairBegins
    <3>2. call'[p].at \notin {"scan", "indexScan", "fetch"}
      <4>1. call'[p] = IndexLoop(call[p], "setIndex", indexes[p]) /\ indexes[p] \in Defs
        BY <1>0, <2>2, <2>6, UnchangedIndexes DEF FetchEnd, CalmInv
      <4> QED BY <1>0, <4>1, IndexLoopQuery, IdleForm
    <3> QED BY <3>1, <3>2 DEF Gathers
  <2>7. CASE SetIndex(p)
    <3>1. Repairs(p)'
      BY <1>0, <2>3, <2>7, RepairTurns
    <3>2. call'[p].at \in {"setIndex", "idle"}
      <4>1. call'[p] = NextTurn(call[p], indexes[p]) /\ call[p].at = "setIndex"
        BY <1>0, <2>7 DEF SetIndex
      <4> QED BY <1>0, <4>1, NextTurnQuery, IdleForm
    <3> QED BY <3>1, <3>2 DEF Gathers
  <2>8. ~Crash(p)
    BY <1>0, IdleForm DEF Crash
  <2> QED BY <1>2, <2>3, <2>4, <2>5, <2>6, <2>7, <2>8 DEF Step, Open, LoadIndex, AddIncrement,
             AddUpdate, AddUpdateFails, Save, Remove, RemoveAll, KillIndex, EnsureIndex, SetSys,
             Find, ReIndex, IndexScan
<1> QED BY <1>1, <1>2

LEMMA RepairStep ==
  ASSUME "index" \notin Faults, RepairInv, NEW p \in Procs, Step(p), WatchCalls
  PROVE  RepairInv'
<1>1. CalmInv /\ CalmInv'
  BY CalmStep DEF RepairInv
<1>2. ASSUME NEW q \in Procs, call'[q].op = "reIndex"
      PROVE  Gathers(q)' /\ Repairs(q)'
  <2>1. CASE q = p
    BY <1>2, <2>1, RepairOwn
  <2>2. CASE q # p
    <3>1. call'[q] = call[q]
      BY <1>1, <2>2, StepOthers DEF CalmInv
    <3>2. Gathers(q) /\ Repairs(q)
      BY <1>2, <3>1 DEF RepairInv
    <3> QED BY <1>1, <2>2, <3>2, OthersGather, OthersRepair
  <2> QED BY <2>1, <2>2
<1> QED BY <1>1, <1>2 DEF RepairInv

\* What has to be there when the reIndex of p ends.
Repaired(p) ==
  \A i \in calm[p], d \in DOMAIN indexes[p] :
    LET x == Head(indexes[p][d]) IN
    data[i][x] # Absent => <<x, data[i][x], i>> \in idx'

LEMMA RepairEnds ==
  ASSUME "index" \notin Faults, RepairInv, NEW p \in Procs, Step(p), WatchCalls,
         NEW q \in Procs, Ends(q, "reIndex")
  PROVE  Repaired(q)
<1>0. CalmInv /\ call \in [Procs -> Frames] /\ call[q] \in Frames
      /\ call[q].op = "reIndex" /\ call'[q].at = "idle"
  BY DEF RepairInv, CalmInv, TypeInv, TypeOK, Ends
<1>1. call[q].at \in {"scan", "fetch", "setIndex"} /\ Gathers(q) /\ Repairs(q)
  BY <1>0 DEF RepairInv, CalmInv, FormOK
<1>2. q = p
  <2> SUFFICES ASSUME q # p PROVE FALSE
    OBVIOUS
  <2>1. call'[q] = call[q]
    BY <1>0, StepOthers DEF CalmInv
  <2> QED BY <1>0, <1>1, <2>1
<1>3. FetchEnd(p) \/ SetIndex(p)
  <2>1. ~Scan(p)
    BY <1>0, <1>1, <1>2, OrderedQuery DEF Scan
  <2>2. ~Fetch(p)
    BY <1>0, <1>2 DEF Fetch, Frames
  <2>3. ~Crash(p)
    BY <1>0, <1>2, IdleForm DEF Crash
  <2> QED BY <1>1, <1>2, <2>1, <2>2, <2>3 DEF Step, Open, LoadIndex, AddIncrement,
             AddUpdate, AddUpdateFails, Save, Remove, RemoveAll, KillIndex, EnsureIndex, SetSys,
             Find, ReIndex, IndexScan
<1>4. CASE FetchEnd(p)
  <2>1. \A i \in calm[p], d \in DOMAIN indexes[p] : FALSE
    BY <1>0, <1>1, <1>2, <1>4, RepairBegins
  <2> QED BY <1>2, <2>1 DEF Repaired
<1>5. CASE SetIndex(p)
  BY <1>0, <1>1, <1>2, <1>5, RepairTurns DEF Repaired
<1> QED BY <1>3, <1>4, <1>5

\* With no entry lost on the way, a reIndex leaves an entry for each record that
\* stays as it is meanwhile, under each index its process knows: whatever was
\* missing before, whatever the other processes write, drop, index or leave
\* half done, for any number of processes, keys, properties and values.
THEOREM ReIndexIsRepair ==
  ASSUME "index" \notin Faults
  PROVE  HSpec => ReIndexRepairs
<1>1. HInit => RepairInv
  <2> SUFFICES ASSUME HInit PROVE RepairInv
    OBVIOUS
  <2>1. Init /\ TypeInv /\ \A p \in Procs : call[p] = Off /\ calm[p] = {}
    BY KeyInit DEF HInit, Init, KeyInv
  <2>2. \A p \in Procs : FormOK(p) /\ CalmOK(p)
    BY <2>1, IdleForm DEF FormOK, CalmOK
  <2> QED BY <2>1, <2>2, IdleForm DEF RepairInv, CalmInv
<1>2. RepairInv /\ [HNext]_hvars => RepairInv'
  <2> SUFFICES ASSUME RepairInv, [HNext]_hvars PROVE RepairInv'
    OBVIOUS
  <2>1. CASE HNext
    BY <2>1, RepairStep DEF HNext, Next
  <2>2. CASE UNCHANGED hvars
    <3>1. UNCHANGED <<counter, data, idx, sys, indexes, call, held, calm>>
      BY <2>2 DEF hvars, vars
    <3>2. TypeInv'
      BY <3>1 DEF RepairInv, CalmInv, TypeInv, TypeOK, FrameOK, RowIds
    <3>3. \A p \in Procs : FormOK(p)' /\ CalmOK(p)'
      BY <3>1 DEF RepairInv, CalmInv, FormOK, CalmOK, Stored, RowIds
    <3>4. \A p \in Procs : call'[p].op = "reIndex" => Gathers(p)' /\ Repairs(p)'
      BY <3>1 DEF RepairInv, Gathers, Wanted, Repairs, Before
    <3> QED BY <3>2, <3>3, <3>4 DEF RepairInv, CalmInv
  <2> QED BY <2>1, <2>2
<1>3. RepairInv /\ [HNext]_hvars =>
        [\A p \in Procs : Ends(p, "reIndex") =>
           \A i \in calm[p], d \in DOMAIN indexes[p] :
             LET x == Head(indexes[p][d]) IN
             data[i][x] # Absent => <<x, data[i][x], i>> \in idx']_hvars
  BY RepairEnds DEF HNext, Next, Repaired
<1> QED BY <1>1, <1>2, <1>3, PTL DEF HSpec, ReIndexRepairs

-----------------------------------------------------------------------------
(* find, in the applications of IndexAssumption. *)

\* The indexes of p are those of the system global.
ListOK(p) == \A d \in DOMAIN indexes[p] : \E x \in sys : indexes[p][d] = <<x>>

\* The calm records have their entries.
CalmIndexed(p) ==
  \A i \in calm[p], x \in sys : data[i][x] # Absent => <<x, data[i][x], i>> \in idx

\* p goes through an index that it has.
TermOK(p) == call[p].at = "indexScan" => IndexedTerm(indexes[p], call[p].query) # 0

FindInv ==
  /\ IndexInv /\ CalmInv
  /\ \A p \in Procs : ListOK(p) /\ CalmIndexed(p) /\ TermOK(p) /\ Gathers(p)

\* The steps that the assumption leaves out.
LEMMA NotTaken ==
  ASSUME IndexAssumption, IndexInv, NEW p \in Procs, Step(p)
  PROVE  /\ ~Crash(p) /\ ~RemoveAll(p) /\ ~SetSys(p) /\ ~\E d \in IndexDefs : EnsureIndex(p, d)
         /\ sys' = sys
<1>1. ~Crash(p) /\ ~RemoveAll(p) /\ ~SetSys(p) /\ ~\E d \in IndexDefs : EnsureIndex(p, d)
  BY DEF RemoveAll, Crash, SetSys, EnsureIndex, IndexAssumption, IndexInv, CallsInv, CallOK
<1>2. sys' = sys
  BY <1>1 DEF Step, Open, LoadIndex, AddIncrement, AddUpdate, AddUpdateFails, Save, Remove,
         SetIndex, KillIndex, Find, ReIndex, IndexScan, Scan, Fetch, FetchEnd, store
<1> QED BY <1>1, <1>2

LEMMA ListStep ==
  ASSUME IndexAssumption, IndexInv, NEW p \in Procs, Step(p), NEW q \in Procs, ListOK(q)
  PROVE  ListOK(q)'
<1>0. TypeInv /\ sys' = sys /\ indexes \in [Procs -> Defs]
  BY NotTaken DEF IndexInv, CallsInv, KeyInv, TypeInv, TypeOK, Defs
<1>1. CASE indexes'[q] = indexes[q]
  BY <1>0, <1>1 DEF ListOK
<1>2. CASE q = p /\ Open(p)
  <2>1. indexes'[q] = <<>>
    BY <1>0, <1>2 DEF Open
  <2> QED BY <2>1 DEF ListOK
<1>3. CASE q = p /\ LoadIndex(p) /\ indexes'[q] # indexes[q]
  <2> DEFINE x == Order(sys, call[p].cursor)
             l == indexes[p]
  <2>1. x # 0 /\ indexes'[p] = Append(l, <<x>>) /\ l \in Defs
    BY <1>0, <1>3 DEF LoadIndex
  <2>2. x \in sys
    <3>1. sys \in SUBSET (Nat \ {0}) /\ call[p].cursor \in Nat
      BY <1>0, ConstantsAssumption DEF TypeInv, TypeOK, Frames
    <3>2. x \in sys \cup {0}
      BY <3>1, OrderNext
    <3> QED BY <2>1, <3>2
  <2>3. ASSUME NEW d \in DOMAIN Append(l, <<x>>)
        PROVE  \E y \in sys : Append(l, <<x>>)[d] = <<y>>
    <3>1. d \in 1..Len(l) \/ d = Len(l) + 1
      BY <2>1, <2>3 DEF Defs
    <3>2. CASE d \in 1..Len(l)
      <4>1. Append(l, <<x>>)[d] = l[d] /\ d \in DOMAIN l
        BY <2>1, <3>2 DEF Defs
      <4> QED BY <1>3, <4>1 DEF ListOK
    <3>3. CASE d = Len(l) + 1
      <4>1. Append(l, <<x>>)[d] = <<x>>
        BY <2>1, <3>3 DEF Defs
      <4> QED BY <2>2, <4>1
    <3> QED BY <3>1, <3>2, <3>3
  <2> QED BY <1>0, <1>3, <2>1, <2>3 DEF ListOK
<1>4. indexes'[q] = indexes[q] \/ (q = p /\ (Open(p) \/ LoadIndex(p)))
  <2>1. CASE q = p
    BY <2>1, NotTaken DEF Step, AddIncrement, AddUpdate, AddUpdateFails, Save, Remove,
           SetIndex, KillIndex, Find, ReIndex, IndexScan, Scan, Fetch, FetchEnd
  <2>2. CASE q # p
    BY <1>0, <2>2, StepOthers
  <2> QED BY <2>1, <2>2
<1> QED BY <1>1, <1>2, <1>3, <1>4

LEMMA CalmIndexStep ==
  ASSUME IndexAssumption, FindInv, NEW p \in Procs, Step(p), WatchCalls, NEW q \in Procs
  PROVE  CalmIndexed(q)'
<1>1. CalmInv /\ IndexInv /\ sys' = sys /\ CalmIndexed(q)
  BY NotTaken DEF FindInv
<1> SUFFICES ASSUME NEW i \in calm'[q], NEW x \in sys, data'[i][x] # Absent
             PROVE  <<x, data'[i][x], i>> \in idx'
  BY <1>1 DEF CalmIndexed
<1>2. /\ data'[i] = data[i]
      /\ i \in calm[q] \/ (i \in Stored /\ Writers(i) = {})
  BY <1>1, CalmOnly
<1>3. <<x, data[i][x], i>> \in idx
  BY <1>1, <1>2, InvComplete DEF CalmIndexed, IndexComplete
<1> QED BY <1>1, <1>2, <1>3, CalmEntries

LEMMA TermStep ==
  ASSUME IndexAssumption, FindInv, NEW p \in Procs, Step(p), NEW q \in Procs
  PROVE  TermOK(q)'
<1>0. /\ TypeInv /\ call \in [Procs -> Frames] /\ call[p] \in Frames /\ FormOK(p) /\ TermOK(q)
      /\ indexes[p] \in Defs
  BY UnchangedIndexes DEF FindInv, CalmInv, TypeInv, TypeOK
<1>1. CASE q # p
  <2>1. call'[q] = call[q] /\ indexes'[q] = indexes[q]
    BY <1>0, <1>1, StepOthers
  <2> QED BY <1>0, <2>1 DEF TermOK
<1>2. CASE q = p /\ call'[p].at # "indexScan"
  BY <1>2 DEF TermOK
<1>3. ASSUME NEW w \in Queries, Find(p, w), q = p
      PROVE  TermOK(q)'
  <2>1. /\ indexes' = indexes /\ call'[p].query = w
        /\ call'[p].at = IF IndexedTerm(indexes[p], w) = 0 THEN "scan" ELSE "indexScan"
    BY <1>0, <1>3 DEF Find, Idle
  <2> QED BY <1>3, <2>1 DEF TermOK
<1>4. CASE q = p /\ IndexScan(p)
  <2>1. /\ indexes' = indexes /\ call[p].at = "indexScan" /\ call'[p].query = call[p].query
    BY <1>0, <1>4, OrderedQuery DEF IndexScan
  <2> QED BY <1>0, <1>4, <2>1 DEF TermOK
<1>5. CASE q = p /\ ~IndexScan(p) /\ ~\E w \in Queries : Find(p, w)
  <2>1. call'[p].at # "indexScan"
    <3>1. ASSUME Open(p) \/ LoadIndex(p) \/ AddUpdate(p) \/ AddUpdateFails(p)
          PROVE  call'[p].at # "indexScan"
      <4>1. Open(p) => call'[p].at = "load"
        BY <1>0 DEF Open, Idle
      <4>2. LoadIndex(p) => call'[p].at \in {"load", "idle"}
        BY <1>0, IdleForm DEF LoadIndex, Frames
      <4>3. AddUpdate(p) => call'[p].at \in {"setIndex", "idle"}
        BY <1>0, IndexLoopQuery, IdleForm DEF AddUpdate
      <4>4. AddUpdateFails(p) => call'[p].at = "idle"
        BY <1>0, IdleForm DEF AddUpdateFails
      <4> QED BY <3>1, <4>1, <4>2, <4>3, <4>4
    <3>2. ASSUME NEW o \in Objects, AddIncrement(p, o) PROVE call'[p].at # "indexScan"
      BY <1>0, <3>2 DEF AddIncrement, Writing, Idle
    <3>3. ASSUME NEW i \in Ids, NEW o \in Objects, Save(p, i, o) \/ Remove(p, i, o)
          PROVE  call'[p].at # "indexScan"
      <4>1. PICK op \in {"save", "remove"}, at \in {"setIndex", "killIndex"} :
              call' = [call EXCEPT ![p] =
                         IndexLoop(Writing(op, at, i, o), at, indexes[p])]
        BY <3>3 DEF Save, Remove
      <4>2. call'[p] = IndexLoop(Writing(op, at, i, o), at, indexes[p])
        BY <1>0, <4>1
      <4>3. Writing(op, at, i, o) \in Frames
        BY WritingFrame
      <4>4. call'[p] = Idle \/ call'[p].at = at
        BY <1>0, <4>2, <4>3, IndexLoopQuery
      <4> QED BY <4>4, IdleForm
    <3>4. ASSUME SetIndex(p) \/ KillIndex(p) PROVE call'[p].at # "indexScan"
      BY <1>0, <3>4, NextTurnQuery, IdleForm DEF SetIndex, KillIndex
    <3>5. ASSUME FetchEnd(p) PROVE call'[p].at # "indexScan"
      BY <1>0, <3>5, IndexLoopQuery, IdleForm DEF FetchEnd
    <3>6. ASSUME Fetch(p) PROVE call'[p].at # "indexScan"
      BY <1>0, <3>6 DEF Fetch, Frames
    <3>7. ASSUME Scan(p) PROVE call'[p].at # "indexScan"
      BY <1>0, <3>7, OrderedQuery DEF Scan
    <3>8. ASSUME ReIndex(p) PROVE call'[p].at # "indexScan"
      BY <1>0, <3>8 DEF ReIndex, Idle
    <3>9. ~Crash(p) /\ ~RemoveAll(p) /\ ~SetSys(p) /\ ~\E d \in IndexDefs : EnsureIndex(p, d)
      BY NotTaken DEF FindInv
    <3>10. /\ \A o \in Objects : AddIncrement(p, o) => call'[p].at # "indexScan"
           /\ \A i \in Ids, o \in Objects :
                Save(p, i, o) \/ Remove(p, i, o) => call'[p].at # "indexScan"
      BY <3>2, <3>3
    <3> QED BY <1>5, <3>1, <3>4, <3>5, <3>6, <3>7, <3>8, <3>9, <3>10 DEF Step
  <2> QED BY <1>5, <2>1 DEF TermOK
<1> QED BY <1>1, <1>3, <1>4, <1>5

\* A process that goes through an index finds every wanted record in it.
LEMMA WantedIndexed ==
  ASSUME FindInv, NEW p \in Procs, call[p].at = "indexScan"
  PROVE  LET t == call[p].query[IndexedTerm(indexes[p], call[p].query)] IN
         Wanted(p) \subseteq IndexIds(t[1], t[2])
<1> DEFINE q == call[p].query
           K == {k \in DOMAIN q : \E d \in DOMAIN indexes[p] :
                                    \E n \in DOMAIN indexes[p][d] : indexes[p][d][n] = q[k][1]}
           k == IndexedTerm(indexes[p], q)
<1>1. /\ CalmInv /\ TypeInv /\ ListOK(p) /\ CalmIndexed(p) /\ k # 0
      /\ q \in Seq(Props \X Values)
  <2>1. call[p] \in Frames
    BY DEF FindInv, CalmInv, TypeInv, TypeOK
  <2> QED BY <2>1, ConstantsAssumption DEF FindInv, CalmInv, TermOK, Frames
<1>2. k \in K
  <2>1. K \in SUBSET (Nat \ {0}) /\ 0 \in Nat
    <3>1. DOMAIN q = 1..Len(q) /\ Len(q) \in Nat
      BY <1>1
    <3> QED BY <3>1
  <2>2. k = Order(K, 0)
    BY DEF IndexedTerm
  <2>3. Order(K, 0) \in K \cup {0}
    <3> HIDE DEF K
    <3> QED BY <2>1, OrderNext
  <2> QED BY <1>1, <2>2, <2>3
<1> HIDE DEF k
<1>3. q[k][1] \in sys
  <2>1. PICK d \in DOMAIN indexes[p] : \E n \in DOMAIN indexes[p][d] : indexes[p][d][n] = q[k][1]
    BY <1>2
  <2>2. PICK x \in sys : indexes[p][d] = <<x>>
    BY <1>1 DEF ListOK
  <2> QED BY <2>1, <2>2
<1>4. k \in DOMAIN q /\ q[k] \in Props \X Values
  BY <1>1, <1>2
<1>5. ASSUME NEW i \in Wanted(p)
      PROVE  i \in IndexIds(q[k][1], q[k][2])
  <2>1. i \in calm[p] /\ data[i][q[k][1]] = q[k][2] /\ i \in Ids
    BY <1>1, <1>4 DEF Wanted, MatchesAll, CalmInv, CalmOK, Stored
  <2>2. q[k][2] # Absent
    BY <1>4, ConstantsAssumption
  <2> QED BY <1>1, <1>3, <2>1, <2>2 DEF CalmIndexed, IndexIds
<1> QED BY <1>5 DEF k

\* The process's own step.
LEMMA FindOwn ==
  ASSUME IndexAssumption, FindInv, NEW p \in Procs, Step(p), WatchCalls
  PROVE  Gathers(p)'
<1>0. /\ CalmInv /\ CalmInv' /\ call \in [Procs -> Frames] /\ call[p] \in Frames
      /\ Gathers(p) /\ FormOK(p)
  BY CalmStep DEF FindInv, CalmInv, TypeInv, TypeOK
<1>1. CASE Begins(p)
  BY <1>0, <1>1, BeginGathers
<1>2. CASE ~Begins(p) /\ ~Reading(call'[p])
  <2>1. calm'[p] = {}
    BY <1>0, <1>2, CalmOnly
  <2> QED BY <2>1 DEF Gathers, Wanted
<1>3. CASE ~Begins(p) /\ Reading(call'[p])
  <2>1. Reading(call[p])
    BY <1>0, <1>3, FormStep DEF CalmInv, StepOK
  <2>2. call[p].at \in {"scan", "indexScan", "fetch", "setIndex"}
    BY <1>0, <2>1 DEF FormOK, Reading
  <2>3. CASE Scan(p)
    <3>1. /\ call' = [call EXCEPT ![p] = Ordered(call[p], Stored)] /\ call[p].at = "scan"
          /\ Stored \in SUBSET Ids /\ Wanted(p) \subseteq Stored
      BY <1>0, <2>3 DEF Scan, Stored, Wanted, CalmInv, CalmOK
    <3> QED BY <1>0, <2>1, <3>1, ScanGathers
  <2>4. CASE IndexScan(p)
    <3> DEFINE t == call[p].query[IndexedTerm(indexes[p], call[p].query)]
               S == IndexIds(t[1], t[2])
    <3>1. /\ call' = [call EXCEPT ![p] = Ordered(call[p], S)] /\ call[p].at = "indexScan"
          /\ S \in SUBSET Ids
      BY <1>0, <2>4 DEF IndexScan, IndexIds
    <3>2. Wanted(p) \subseteq S
      BY <3>1, WantedIndexed
    <3> HIDE DEF S
    <3> QED BY <1>0, <2>1, <3>1, <3>2, ScanGathers
  <2>5. CASE Fetch(p)
    BY <1>0, <2>1, <2>5, FetchGathers
  <2>6. CASE FetchEnd(p) \/ SetIndex(p)
    <3>1. FetchEnd(p) => call'[p].at \in {"setIndex", "idle"}
      <4> SUFFICES ASSUME FetchEnd(p) PROVE call'[p].at \in {"setIndex", "idle"}
        OBVIOUS
      <4>1. call'[p] = Idle \/ call'[p] = IndexLoop(call[p], "setIndex", indexes[p])
        BY <1>0 DEF FetchEnd
      <4>2. indexes[p] \in Defs
        BY <1>0, UnchangedIndexes DEF CalmInv
      <4> QED BY <1>0, <4>1, <4>2, IndexLoopQuery, IdleForm
    <3>2. SetIndex(p) => call'[p].at \in {"setIndex", "idle"}
      <4> SUFFICES ASSUME SetIndex(p) PROVE call'[p].at \in {"setIndex", "idle"}
        OBVIOUS
      <4>1. call'[p] = NextTurn(call[p], indexes[p]) /\ call[p].at = "setIndex"
        BY <1>0 DEF SetIndex
      <4> QED BY <1>0, <4>1, NextTurnQuery, IdleForm
    <3> QED BY <2>6, <3>1, <3>2 DEF Gathers
  <2>7. ~Crash(p) /\ ~SetSys(p) /\ ~RemoveAll(p) /\ \A d \in IndexDefs : ~EnsureIndex(p, d)
    BY NotTaken DEF FindInv
  <2>8. ~Find(p, <<>>) /\ \A q \in Queries : ~Find(p, q)
    BY <1>3, ConstantsAssumption DEF Begins
  <2> QED BY <1>3, <2>2, <2>3, <2>4, <2>5, <2>6, <2>7, <2>8 DEF Step, Open, LoadIndex,
             AddIncrement, AddUpdate, AddUpdateFails, Save, Remove, KillIndex, ReIndex
<1> QED BY <1>1, <1>2, <1>3

LEMMA FindStep ==
  ASSUME IndexAssumption, FindInv, NEW p \in Procs, Step(p), WatchCalls
  PROVE  FindInv'
<1>1. IndexInv /\ CalmInv /\ IndexInv' /\ CalmInv'
  BY IndexStep, CalmStep DEF FindInv
<1>2. ASSUME NEW q \in Procs
      PROVE  ListOK(q)' /\ CalmIndexed(q)' /\ TermOK(q)' /\ Gathers(q)'
  <2>1. ListOK(q)' /\ CalmIndexed(q)' /\ TermOK(q)'
    BY <1>1, ListStep, CalmIndexStep, TermStep DEF FindInv
  <2>2. Gathers(q)'
    BY <1>1, FindOwn, OthersGather DEF FindInv
  <2> QED BY <2>1, <2>2
<1> QED BY <1>1, <1>2 DEF FindInv

\* What a find returns when it ends.
LEMMA FindEnds ==
  ASSUME FindInv, NEW p \in Procs, Step(p), NEW q \in Procs, Ends(q, "find"),
         NEW i \in calm[q], MatchesAll(call[q].query, data[i])
  PROVE  i \in Results(call[q])
<1>0. CalmInv /\ call \in [Procs -> Frames] /\ call[q] \in Frames
      /\ call[q].op = "find" /\ call'[q].at = "idle" /\ Gathers(q)
  BY DEF FindInv, CalmInv, TypeInv, TypeOK, Ends
<1>1. call[q].at \in {"scan", "indexScan", "fetch"}
  BY <1>0 DEF CalmInv, FormOK
<1>2. q = p
  <2> SUFFICES ASSUME q # p PROVE FALSE
    OBVIOUS
  <2>1. call'[q] = call[q]
    BY <1>0, StepOthers DEF CalmInv
  <2> QED BY <1>0, <1>1, <2>1
<1>3. FetchEnd(p)
  <2>1. ~Scan(p) /\ ~IndexScan(p)
    BY <1>0, <1>1, <1>2, OrderedQuery DEF Scan, IndexScan
  <2>2. ~Fetch(p)
    BY <1>0, <1>2 DEF Fetch, Frames
  <2>3. ~Crash(p)
    BY <1>0, <1>2, IdleForm DEF Crash
  <2> QED BY <1>1, <1>2, <2>1, <2>2, <2>3 DEF Step, Open, LoadIndex, AddIncrement,
             AddUpdate, AddUpdateFails, Save, Remove, RemoveAll, SetIndex, KillIndex,
             EnsureIndex, SetSys, Find, ReIndex
<1>4. \A k \in call[q].ids : k <= call[q].cursor
  <2>1. /\ call[q].ids \in SUBSET (Nat \ {0}) /\ call[q].cursor \in Nat
        /\ Order(call[q].ids, call[q].cursor) = 0
    BY <1>0, <1>2, <1>3, IdsNat DEF Frames, FetchEnd
  <2> QED BY <2>1, OrderNext
<1>5. i \in Ids /\ data[i] # Missing /\ i \in Wanted(q)
  BY <1>0 DEF CalmInv, CalmOK, Stored, Wanted
<1>6. call[q].rows[i] = data[i]
  BY <1>2, <1>3, <1>4, <1>5, <1>0 DEF Gathers, FetchEnd
<1>7. Matches(call[q].query, data[i])
  <2>1. call[q].query \in Seq(Props \X Values)
    BY <1>0, ConstantsAssumption DEF Frames
  <2>2. call[q].query = <<>> \/ 1 \in DOMAIN call[q].query
    BY <2>1
  <2> QED BY <2>2 DEF Matches, MatchesAll
<1> QED BY <1>5, <1>6, <1>7 DEF Results, RowIds

LEMMA FindInit == HInit => FindInv
<1> SUFFICES ASSUME HInit PROVE FindInv
  OBVIOUS
<1>1. /\ Init /\ IndexInv /\ TypeInv
      /\ \A p \in Procs : call[p] = Off /\ calm[p] = {} /\ indexes[p] = <<>>
  BY IndexInit DEF HInit, Init, IndexInv, CallsInv, KeyInv
<1>2. \A p \in Procs : FormOK(p) /\ CalmOK(p)
  BY <1>1, IdleForm DEF FormOK, CalmOK
<1>3. \A p \in Procs : ListOK(p) /\ CalmIndexed(p)
  <2>1. DOMAIN <<>> = {}
    OBVIOUS
  <2>2. \A p \in Procs : ListOK(p)
    BY <1>1, <2>1 DEF ListOK
  <2>3. \A p \in Procs : CalmIndexed(p)
    BY <1>1 DEF CalmIndexed
  <2> QED BY <2>2, <2>3
<1>4. \A p \in Procs : TermOK(p) /\ Gathers(p)
  BY <1>1, IdleForm DEF TermOK, Gathers
<1> QED BY <1>1, <1>2, <1>3, <1>4 DEF FindInv, CalmInv

\* A find returns every record that has all the values it asks for from its first
\* call on the connection to its last, for any number of processes, keys and
\* values, any query and whichever index it goes through, although it takes the
\* keys first and the records later and others write, remove, find and reIndex in
\* between: when writers of one record take turns, every process has read the
\* indexes, none makes up keys, drops the collection, ends within a write or fails
\* to write an entry.
THEOREM FindIsStable ==
  ASSUME IndexAssumption
  PROVE  HSpec => FindSeesStable
<1>1. HInit => FindInv
  BY FindInit
<1>2. FindInv /\ [HNext]_hvars => FindInv'
  <2> SUFFICES ASSUME FindInv, [HNext]_hvars PROVE FindInv'
    OBVIOUS
  <2>1. CASE HNext
    BY <2>1, FindStep DEF HNext, Next
  <2>2. CASE UNCHANGED hvars
    <3>1. UNCHANGED <<counter, data, idx, sys, indexes, call, held, calm>> /\ UNCHANGED vars
      BY <2>2 DEF hvars, vars
    <3>2. IndexInv'
      BY <3>1, IndexStutter DEF FindInv
    <3>3. TypeInv'
      BY <3>2 DEF IndexInv, CallsInv, KeyInv
    <3>4. \A p \in Procs : FormOK(p)' /\ CalmOK(p)'
      BY <3>1 DEF FindInv, CalmInv, FormOK, CalmOK, Stored, RowIds
    <3>5. \A p \in Procs : ListOK(p)' /\ CalmIndexed(p)' /\ TermOK(p)'
      BY <3>1 DEF FindInv, ListOK, CalmIndexed, TermOK
    <3>6. \A p \in Procs : Gathers(p)'
      BY <3>1 DEF FindInv, Gathers, Wanted
    <3> QED BY <3>2, <3>3, <3>4, <3>5, <3>6 DEF FindInv, CalmInv
  <2> QED BY <2>1, <2>2
<1>3. FindInv /\ [HNext]_hvars =>
        [\A p \in Procs : Ends(p, "find") =>
           \A i \in calm[p] : MatchesAll(call[p].query, data[i]) =>
                                i \in Results(call[p])]_hvars
  <2> SUFFICES ASSUME FindInv, HNext, NEW q \in Procs, Ends(q, "find"),
                      NEW i \in calm[q], MatchesAll(call[q].query, data[i])
               PROVE  i \in Results(call[q])
    BY DEF Ends, hvars, vars
  <2>1. PICK p \in Procs : Step(p)
    BY DEF HNext, Next
  <2> QED BY <2>1, FindEnds
<1> QED BY <1>1, <1>2, <1>3, PTL DEF HSpec, FindSeesStable

-----------------------------------------------------------------------------
(* ensureIndex, in the applications of OwnerAssumption. *)

OwnerInv == CallsInv /\ EntriesDue(excused)

\* What a step excuses no more it has written, or it was not excused.
LEMMA ExcusedOnly ==
  ASSUME WatchIndexes
  PROVE  /\ Excuses(excused, excused')
         /\ \A x \in sys' \ sys, i \in Stored : <<x, i>> \in excused'
<1>1. ASSUME NEW i \in Ids, NEW x \in sys, data'[i] # Missing, <<x, i>> \notin excused',
             <<x, i>> \in excused, data[i] # Missing, data'[i][x] = data[i][x]
      PROVE  FALSE
  <2> DEFINE e == <<x, i>>
  <2>1. e \in excused /\ data[e[2]] # Missing /\ data'[e[2]][e[1]] = data[e[2]][e[1]]
    BY <1>1
  <2>2. e \in excused'
    BY <2>1 DEF WatchIndexes
  <2> QED BY <1>1, <2>2
<1>2. Excuses(excused, excused')
  BY <1>1 DEF Excuses
<1>3. ASSUME NEW x \in sys' \ sys, NEW i \in Stored
      PROVE  <<x, i>> \in excused'
  BY DEF WatchIndexes, Stored
<1> QED BY <1>2, <1>3

LEMMA OwnerStep ==
  ASSUME OwnerAssumption, OwnerInv, NEW p \in Procs, Step(p), WatchIndexes
  PROVE  OwnerInv'
<1>0. WriterAssumption /\ CallsInv /\ EntriesDue(excused)
  BY IndexIsKey DEF OwnerInv
<1>1. CASE ~SetSys(p)
  <2>1. CallsInv'
    BY <1>0, <1>1, CallsStep
  <2>2. DueNext(excused')
    BY <1>0, <1>1, EntriesStep, ExcusedOnly
  <2> QED BY <2>1, <2>2 DEF OwnerInv, DueNext, EntriesDue
<1>2. CASE SetSys(p)
  <2>1. CallsInv'
    <3>1. KeyInv'
      BY <1>0, KeyStep, IndexIsKey DEF CallsInv
    <3> QED BY <1>0, <1>2, <3>1, IndexSetSys
  <2>2. UNCHANGED <<data, idx>> /\ call[p].at = "setSys"
    BY <1>2 DEF SetSys
  <2>3. \A q \in Procs : q = p
    BY DEF OwnerAssumption
  <2> SUFFICES ASSUME NEW i \in Stored, NEW x \in sys', data[i][x] # Absent, <<x, i>> \notin excused'
               PROVE  <<x, data[i][x], i>> \in idx
    BY <2>1, <2>2 DEF OwnerInv, EntriesDue, Stored
  <2>4. x \in sys /\ <<x, i>> \notin excused
    BY <2>2, ExcusedOnly DEF Excuses, Stored
  <2>5. ~Due(p, i, x)
    BY <2>2 DEF Due
  <2> QED BY <1>0, <2>3, <2>4, <2>5 DEF EntriesDue
<1> QED BY <1>1, <1>2

\* A record written after ensureIndex has named a property has the entry of the
\* value it has there, for any number of keys, properties and values: when one
\* process makes the indexes, of a property each, and does the writing, makes up no
\* keys, does not drop the collection, and neither ends within a write nor fails to
\* write an entry.
THEOREM EnsureIndexIsKept ==
  ASSUME OwnerAssumption
  PROVE  HSpec => []FurtherWritesIndexed
<1>1. HInit => OwnerInv
  BY CallsInit DEF HInit, OwnerInv, EntriesDue
<1>2. OwnerInv /\ [HNext]_hvars => OwnerInv'
  <2> SUFFICES ASSUME OwnerInv, [HNext]_hvars PROVE OwnerInv'
    OBVIOUS
  <2>1. CASE HNext
    BY <2>1, OwnerStep DEF HNext, Next
  <2>2. CASE UNCHANGED hvars
    BY <2>2, KeyStutter DEF hvars, vars, OwnerInv, CallsInv, CallOK, Writes, Adding, Knows,
       RowIds, OneWriter, EntriesDue, Due, Stored
  <2> QED BY <2>1, <2>2
<1>3. OwnerInv => FurtherWritesIndexed
  BY DueNow DEF OwnerInv, FurtherWritesIndexed
<1> QED BY <1>1, <1>2, <1>3, PTL DEF HSpec

=============================================================================
