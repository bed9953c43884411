---------------------------- MODULE AsyncProofs ----------------------------
(***************************************************************************)
(* The asynchronous API of a collection: a find that came to its end has   *)
(* delivered every record that matched all along, and none twice; and,     *)
(* when one operation is open at a time, the entries of stored records are *)
(* lost only by asynchronous removes.  The inductive invariant says what   *)
(* the find has delivered at each of its calls, and what an answer that is *)
(* not delivered yet still says of the records that have not changed.      *)
(***************************************************************************)
EXTENDS AsyncCollection, FiniteSetTheorems, TLAPS

\* The bounds are numbers, and the marks of the model differ.
AsyncConstants ==
  /\ MaxKey \in Nat
  /\ Nothing \notin Vals
  /\ All \notin Vals \cup {Nothing}
  /\ Other \notin Vals \cup {Nothing, All}
  /\ Operator \notin Vals \cup {Nothing, All}

Finds == {"find", "findIndex"}

Frames == [kind: {"none", "find", "findIndex", "write", "remove", "drop"},
           at: Calls \cup {"none", "ended", "failed"},
           done: BOOLEAN, err: BOOLEAN, id: 0 .. MaxKey,
           val: Vals \cup {Nothing, All, Other, Operator},
           res: Vals \cup {Nothing} \cup 0 .. MaxKey, seen: Seq(RecIds)]

Answered(f) == f.done /\ ~f.err

\* The queries that equal no value: no entry has them, and no record is delivered.
Unequal == {Operator, Other}

\* The place of an operation in its kind, and the answers that fit it.
OpOK(f) ==
  /\ f.kind = "none" <=> f.at = "none"
  /\ f.kind \in Finds => f.at \in {"order", "retrieve", "ended", "failed"}
  /\ f.at = "order" =>
       /\ f.kind \in Finds
       /\ Answered(f) => f.res \in 0 .. MaxKey /\ (f.res = 0 \/ f.res > f.id)
  /\ f.at = "retrieve" =>
       /\ f.kind \in Finds /\ f.id \in RecIds
       /\ Answered(f) => f.res \in Vals \cup {Nothing}
  /\ f.at = "update" => f.kind = "write" /\ f.id \in RecIds /\ f.val \in Vals
  /\ f.at \in {"kill", "killSystem", "killIndex"} => f.kind = "remove" /\ f.id \in RecIds
  /\ f.at = "drop" => f.kind = "drop"
  /\ f.kind = "findIndex" => f.val # All
  /\ f.val \in Unequal => f.seen = <<>>
  /\ f.kind = "findIndex" /\ f.val \in Unequal =>
       f.at # "retrieve" /\ (f.at = "order" /\ Answered(f) => f.res = 0)

\* The keys delivered increase, up to the one the find is at.
SeenOK(f) ==
  /\ \A j, k \in DOMAIN f.seen : j < k => f.seen[j] < f.seen[k]
  /\ f.at = "order" => \A j \in DOMAIN f.seen : f.seen[j] <= f.id
  /\ f.at = "retrieve" => \A j \in DOMAIN f.seen : f.seen[j] < f.id

\* i is where the find f looks, and matches.
Wanted(f, i) ==
  /\ rec[i] # Nothing
  /\ f.kind = "find" => f.val \in {All, rec[i]}
  /\ f.kind = "findIndex" => rec[i] = f.val /\ <<f.val, i>> \in ent

\* The stable records are found, up to the key the find is at; an answer on its
\* way misses none of them.
Gathers(s) ==
  LET f == op[s] IN
  /\ f.kind \notin Finds => stable[s] = {}
  /\ f.at \in Calls => \A i \in stable[s] : Wanted(f, i)
  /\ f.at = "order" =>
       \A i \in stable[s] :
         /\ i <= f.id => i \in ToSet(f.seen)
         /\ Answered(f) /\ i > f.id => f.res # 0 /\ f.res <= i
  /\ f.at = "retrieve" =>
       \A i \in stable[s] :
         /\ i < f.id => i \in ToSet(f.seen)
         /\ Answered(f) /\ i = f.id => f.res = rec[i]
  /\ f.at = "ended" => stable[s] \subseteq ToSet(f.seen)

MainOK ==
  \/ main = Free
  \/ main.at \in {"save", "remove"} /\ main.id \in RecIds /\ main.val \in Vals /\ conn = "open"

AsyncInv ==
  /\ AsyncTypeOK
  /\ MainOK
  /\ \A s \in Slots : OpOK(op[s]) /\ SeenOK(op[s]) /\ Gathers(s)

\* The callback of an update that wrote the record will write its entry.
CallbackOwes(i) ==
  conn = "open" /\ \E s \in Slots : op[s].at = "update" /\ op[s].id = i /\ op[s].val = rec[i]

\* ... or the save in the main thread will.
SaveOwes(i) == main.at = "save" /\ main.id = i /\ main.val = rec[i]

\* A stored record has its entry, but for lost ones, or somebody owes it; one that a
\* synchronous remove has taken is back only by an update that owes it.
EntriesOwed ==
  known =>
    \A i \in RecIds : rec[i] # Nothing =>
      /\ <<rec[i], i>> \in ent \cup lost \/ CallbackOwes(i) \/ SaveOwes(i)
      /\ main.at = "remove" /\ main.id = i => CallbackOwes(i)

OneOpen == \A s, t \in OpenOps : s = t

OwedInv == AsyncInv /\ OneOpen /\ EntriesOwed

-----------------------------------------------------------------------------
\* A set of record keys that has a member beyond c has a smallest one there.
LEMMA SmallestAfter ==
  ASSUME MaxKey \in Nat, NEW S \in SUBSET RecIds, NEW c \in Nat, \E x \in S : x > c
  PROVE  \E x \in S : x > c /\ \A y \in S : y > c => x =< y
<1> DEFINE B == {x \in S : x > c}
           T == {1..x : x \in B}
           R == StrictSubsetOrdering(Nat)
           F == FiniteSubsetsOf(Nat)
<1>1. B \subseteq Nat /\ B # {}
  <2>1. RecIds \subseteq Nat
    BY DEF RecIds
  <2> QED BY <2>1
<1>2. IsWellFoundedOn(R, F)
  BY FS_StrictSubsetOrderingWellFounded
<1>3. T \subseteq F
  <2>1. ASSUME NEW x \in B
        PROVE  1..x \subseteq Nat /\ IsFiniteSet(1..x)
    <3>1. x \in Int /\ 1 \in Int /\ 1..x \subseteq Nat
      BY <1>1
    <3> QED BY <3>1, FS_Interval
  <2> QED BY <2>1 DEF FiniteSubsetsOf
<1>4. PICK t \in T : \A u \in T : <<u, t>> \notin R
  <2>1. T # {}
    BY <1>1
  <2> HIDE DEF R, F, T
  <2> QED BY <1>2, <1>3, <2>1, WFMin
<1>5. PICK x \in B : t = 1..x
  OBVIOUS
<1>6. ASSUME NEW y \in B, ~(x =< y)
      PROVE  FALSE
  <2>1. y < x
    BY <1>1, <1>6
  <2>2. /\ 1..y \subseteq 1..x
        /\ x \in 1..x /\ x \notin 1..y
    BY <1>1, <2>1
  <2>3. <<1..y, 1..x>> \in R
    BY <2>2, <1>1 DEF StrictSubsetOrdering
  <2> QED BY <1>4, <1>5, <2>3
<1> QED BY <1>6

\* $ORDER answers with the next key, and with 0 only when there is none.
LEMMA NextOfIs ==
  ASSUME MaxKey \in Nat, NEW S \in SUBSET RecIds, NEW c \in Nat
  PROVE  /\ NextOf(S, c) \in 0 .. MaxKey
         /\ NextOf(S, c) = 0 \/ NextOf(S, c) > c
         /\ \A y \in S : y > c => NextOf(S, c) # 0 /\ NextOf(S, c) =< y
<1>1. CASE \A x \in S : ~(x > c)
  <2>1. NextOf(S, c) = 0
    BY <1>1 DEF NextOf
  <2> QED BY <1>1, <2>1
<1>2. CASE \E x \in S : x > c
  <2>1. NextOf(S, c) = CHOOSE x \in S : x > c /\ \A y \in S : y > c => x =< y
    BY <1>2 DEF NextOf
  <2>2. /\ NextOf(S, c) \in S /\ NextOf(S, c) > c
        /\ \A y \in S : y > c => NextOf(S, c) =< y
    <3>1. \E x \in S : x > c /\ \A y \in S : y > c => x =< y
      BY <1>2, SmallestAfter
    <3> QED BY <2>1, <3>1
  <2>3. S \subseteq 1..MaxKey
    BY DEF RecIds
  <2>4. NextOf(S, c) \in 1..MaxKey
    BY <2>2, <2>3
  <2> QED BY <2>2, <2>4
<1> QED BY <1>1, <1>2

\* What Watch keeps of the records a find has to deliver.
LEMMA StillStable ==
  ASSUME AsyncTypeOK, Watch, NEW s \in Slots
  PROVE  /\ stable'[s] \in SUBSET RecIds
         /\ op'[s].kind \notin Finds => stable'[s] = {}
         /\ op'[s].kind \in Finds /\ op[s].kind # "none" /\ op[s].at \notin Calls => stable'[s] = stable[s]
         /\ op'[s].kind \in Finds /\ op[s].kind # "none" /\ op[s].at \in Calls =>
              \A i \in stable'[s] :
                i \in stable[s] /\ rec'[i] = rec[i] /\ (<<rec[i], i>> \in ent => <<rec[i], i>> \in ent')
         /\ op'[s].kind \in Finds /\ op[s].kind = "none" => stable'[s] = Due(op'[s])
<1>1. stable[s] \in SUBSET RecIds
  BY DEF AsyncTypeOK
<1>2. stable'[s] = IF op'[s].kind \notin {"find", "findIndex"} THEN {}
                   ELSE IF op[s].kind = "none" THEN Due(op'[s])
                   ELSE IF op[s].at \in Calls
                        THEN {i \in stable[s] : rec'[i] = rec[i] /\ (<<rec[i], i>> \in ent => <<rec[i], i>> \in ent')}
                   ELSE stable[s]
  BY DEF Watch
<1>3. Due(op'[s]) \in SUBSET RecIds
  BY DEF Due
<1> QED BY <1>1, <1>2, <1>3 DEF Finds

LEMMA StableType ==
  ASSUME AsyncTypeOK, Watch
  PROVE  stable' \in [Slots -> SUBSET RecIds]
<1>1. \A s \in Slots : stable'[s] \in SUBSET RecIds
  BY StillStable
<1> QED BY <1>1 DEF Watch

\* An operation a step does not touch is as it was, and the find it may be has
\* delivered what was stable, for less is.
LEMMA Untouched ==
  ASSUME AsyncInv, Watch, NEW s \in Slots, op'[s] = op[s]
  PROVE  OpOK(op'[s]) /\ SeenOK(op'[s]) /\ Gathers(s)'
<1> DEFINE f == op[s]
<1>1. OpOK(f) /\ SeenOK(f) /\ Gathers(s)
  BY DEF AsyncInv
<1>2. CASE f.kind \notin Finds
  <2>1. stable'[s] = {}
    BY <1>2, StillStable DEF AsyncInv
  <2> QED BY <1>1, <2>1 DEF Gathers
<1>3. CASE f.kind \in Finds /\ f.at \notin Calls
  <2>1. stable'[s] = stable[s]
    BY <1>3, StillStable DEF AsyncInv, Finds
  <2> QED BY <1>1, <1>3, <2>1 DEF Gathers, Calls
<1>4. CASE f.kind \in Finds /\ f.at \in Calls
  <2>1. \A i \in stable'[s] :
          i \in stable[s] /\ rec'[i] = rec[i] /\ (<<rec[i], i>> \in ent => <<rec[i], i>> \in ent')
    BY <1>4, StillStable DEF AsyncInv, Finds
  <2>2. \A i \in stable'[s] : Wanted(f, i) => Wanted(f, i)'
    BY <2>1 DEF Wanted
  <2> QED BY <1>1, <1>4, <2>1, <2>2 DEF Gathers, Calls
<1> QED BY <1>1, <1>2, <1>3, <1>4

-----------------------------------------------------------------------------
(* The steps.  A step that moves one operation leaves the others alone.    *)

OpsOK == \A s \in Slots : OpOK(op[s]) /\ SeenOK(op[s]) /\ Gathers(s)

Rest == /\ rec \in [RecIds -> Vals \cup {Nothing}]
        /\ ent \subseteq Vals \X RecIds
        /\ lastKey \in 0 .. MaxKey
        /\ known \in BOOLEAN /\ conn \in {"open", "closed"}
        /\ main \in [at: {"free", "save", "remove"}, id: 0 .. MaxKey, val: Vals \cup {Nothing}]
        /\ lost \subseteq Vals \X RecIds
        /\ MainOK

LEMMA InvParts ==
  ASSUME stable' \in [Slots -> SUBSET RecIds], Rest', op' \in [Slots -> Frames], OpsOK'
  PROVE  AsyncInv'
BY DEF AsyncInv, AsyncTypeOK, Rest, Frames, OpsOK

LEMMA OneMoves ==
  ASSUME AsyncInv, Watch, NEW s \in Slots, NEW g \in Frames,
         op' = [op EXCEPT ![s] = g], OpOK(g), SeenOK(g), Gathers(s)', Rest'
  PROVE  AsyncInv'
<1>1. op \in [Slots -> Frames] /\ AsyncTypeOK
  BY DEF AsyncInv, AsyncTypeOK, Frames
<1>2. stable' \in [Slots -> SUBSET RecIds]
  BY <1>1, StableType
<1>3. op' \in [Slots -> Frames] /\ op'[s] = g /\ \A t \in Slots : t # s => op'[t] = op[t]
  BY <1>1
<1>4. \A t \in Slots : OpOK(op'[t]) /\ SeenOK(op'[t]) /\ Gathers(t)'
  BY <1>3, Untouched
<1>5. OpsOK'
  BY <1>4 DEF OpsOK
<1> QED BY <1>2, <1>3, <1>5, InvParts

LEMMA NoneMoves ==
  ASSUME AsyncInv, Watch, op' = op, Rest'
  PROVE  AsyncInv'
<1>1. op \in [Slots -> Frames] /\ AsyncTypeOK
  BY DEF AsyncInv, AsyncTypeOK, Frames
<1>2. stable' \in [Slots -> SUBSET RecIds]
  BY <1>1, StableType
<1>3. \A t \in Slots : OpOK(op'[t]) /\ SeenOK(op'[t]) /\ Gathers(t)'
  BY Untouched
<1>4. OpsOK'
  BY <1>3 DEF OpsOK
<1> QED BY <1>1, <1>2, <1>4, InvParts

LEMMA InvHas ==
  ASSUME AsyncInv
  PROVE  AsyncTypeOK /\ Rest /\ op \in [Slots -> Frames]
         /\ \A s \in Slots : op[s] \in Frames /\ OpOK(op[s]) /\ SeenOK(op[s]) /\ Gathers(s)
BY DEF AsyncInv, AsyncTypeOK, Rest, Frames

LEMMA FrameHas ==
  ASSUME NEW g \in Frames
  PROVE  /\ g.kind \in {"none", "find", "findIndex", "write", "remove", "drop"}
         /\ g.at \in Calls \cup {"none", "ended", "failed"}
         /\ g.done \in BOOLEAN /\ g.err \in BOOLEAN /\ g.id \in 0 .. MaxKey
         /\ g.val \in Vals \cup {Nothing, All, Other, Operator}
         /\ g.res \in Vals \cup {Nothing} \cup 0 .. MaxKey /\ g.seen \in Seq(RecIds)
BY DEF Frames

Started(kind, at, i, v) == [NoOp EXCEPT !.kind = kind, !.at = at, !.id = i, !.val = v]

LEMMA NewOp ==
  ASSUME MaxKey \in Nat,
         NEW kind \in {"find", "findIndex", "write", "remove", "drop"}, NEW at \in Calls,
         NEW i \in 0 .. MaxKey, NEW v \in Vals \cup {Nothing, All, Other, Operator}
  PROVE  Started(kind, at, i, v) \in Frames
<1>1. NoOp \in Frames
  <2>1. <<>> \in Seq(RecIds) /\ 0 \in 0 .. MaxKey
    OBVIOUS
  <2> QED BY <2>1 DEF NoOp, Frames
<1> QED BY <1>1 DEF Frames, Started

\* A new operation: a find has to deliver what matches now.
LEMMA Begins ==
  ASSUME AsyncConstants, AsyncInv, Watch, NEW s \in Slots, op[s].kind = "none",
         NEW kind \in {"find", "findIndex", "write", "remove", "drop"}, NEW at \in Calls,
         NEW i \in 0 .. MaxKey, NEW v \in Vals \cup {Nothing, All, Other, Operator},
         op' = [op EXCEPT ![s] = Started(kind, at, i, v)],
         \/ kind \in Finds /\ at = "order" /\ i = 0 /\ v # Nothing /\ (kind = "findIndex" => v # All)
         \/ kind = "write" /\ at = "update" /\ i \in RecIds /\ v \in Vals
         \/ kind = "remove" /\ at = "kill" /\ i \in RecIds
         \/ kind = "drop" /\ at = "drop",
         Rest'
  PROVE  AsyncInv'
<1> DEFINE g == Started(kind, at, i, v)
<1>0. MaxKey \in Nat
  BY DEF AsyncConstants
<1>1. g.kind = kind /\ g.at = at /\ g.done = FALSE /\ g.id = i /\ g.val = v /\ g.seen = <<>>
  BY DEF Started, NoOp
<1>2. g \in Frames
  BY <1>0, NewOp
<1>3. op'[s] = g
  BY InvHas
<1> HIDE DEF g
<1>4. OpOK(g)
  BY <1>1 DEF OpOK, Answered, Finds, Calls
<1>5. SeenOK(g)
  <2>1. DOMAIN g.seen = {}
    BY <1>1
  <2> QED BY <2>1 DEF SeenOK
<1>6. Gathers(s)'
  <2>1. CASE kind \in Finds
    <3>1. stable'[s] = Due(g)
      BY <1>1, <1>3, <2>1, InvHas, StillStable
    <3>2. \A j \in stable'[s] : j \in RecIds /\ ~(j =< g.id)
      BY <1>1, <2>1, <3>1 DEF Due, RecIds, Finds
    <3>3. \A j \in stable'[s] : Wanted(g, j)'
      BY <1>1, <2>1, <3>1 DEF Due, Wanted, Finds, AsyncConstants
    <3>4. g.at = "order" /\ ~g.done
      BY <1>1, <2>1 DEF Finds
    <3> QED BY <1>3, <2>1, <1>1, <3>2, <3>3, <3>4 DEF Gathers, Answered
  <2>2. CASE kind \notin Finds
    <3>1. stable'[s] = {}
      BY <1>1, <1>3, <2>2, InvHas, StillStable
    <3> QED BY <3>1 DEF Gathers
  <2> QED BY <2>1, <2>2
<1> QED
  BY <1>2, <1>3, <1>4, <1>5, <1>6, OneMoves DEF g

LEMMA BeginStep ==
  ASSUME AsyncConstants, AsyncInv, Watch, NEW s \in Slots,
         NEW kind \in {"find", "findIndex", "write", "remove", "drop"}, NEW at \in Calls,
         NEW i \in 0 .. MaxKey, NEW v \in Vals \cup {Nothing, All, Other, Operator},
         Begin(s, kind, at, i, v), lastKey' \in 0 .. MaxKey,
         \/ kind \in Finds /\ at = "order" /\ i = 0 /\ v # Nothing /\ (kind = "findIndex" => v # All)
         \/ kind = "write" /\ at = "update" /\ i \in RecIds /\ v \in Vals
         \/ kind = "remove" /\ at = "kill" /\ i \in RecIds
         \/ kind = "drop" /\ at = "drop"
  PROVE  AsyncInv'
<1>1. /\ op[s].kind = "none"
      /\ op' = [op EXCEPT ![s] = Started(kind, at, i, v)]
      /\ UNCHANGED <<rec, ent, known, conn, main, lost>>
  BY DEF Begin, Started
<1>2. Rest'
  BY <1>1, InvHas DEF Rest, MainOK
<1> QED BY <1>1, <1>2, Begins

LEMMA FindAsyncStep ==
  ASSUME AsyncConstants, AsyncInv, Watch, NEW s \in Slots, NEW q \in Vals \cup {All, Other, Operator}, FindAsync(s, q)
  PROVE  AsyncInv'
<1> DEFINE k == IF q # All /\ known THEN "findIndex" ELSE "find"
<1>1. k \in {"find", "findIndex", "write", "remove", "drop"} /\ "order" \in Calls
      /\ 0 \in 0 .. MaxKey /\ q \in Vals \cup {Nothing, All, Other, Operator}
  BY DEF Calls, AsyncConstants
<1>2. k \in Finds /\ q # Nothing /\ (k = "findIndex" => q # All)
  BY DEF Finds, AsyncConstants
<1>3. Begin(s, k, "order", 0, q) /\ lastKey' = lastKey
  BY DEF FindAsync
<1>4. lastKey \in 0 .. MaxKey
  BY InvHas DEF Rest
<1> HIDE DEF k
<1> QED BY <1>1, <1>2, <1>3, <1>4, BeginStep

LEMMA AddAsyncStep ==
  ASSUME AsyncConstants, AsyncInv, Watch, NEW s \in Slots, NEW v \in Vals, AddAsync(s, v)
  PROVE  AsyncInv'
<1>1. lastKey \in 0 .. MaxKey /\ MaxKey \in Nat
  BY InvHas DEF Rest, AsyncConstants
<1>2. lastKey < MaxKey /\ Begin(s, "write", "update", lastKey + 1, v) /\ lastKey' = lastKey + 1
  BY DEF AddAsync
<1>3. lastKey + 1 \in RecIds /\ lastKey + 1 \in 0 .. MaxKey
  BY <1>1, <1>2 DEF RecIds
<1>4. "update" \in Calls /\ v \in Vals \cup {Nothing, All, Other, Operator}
  BY DEF Calls
<1> QED BY <1>2, <1>3, <1>4, BeginStep

LEMMA OtherBegins ==
  ASSUME AsyncConstants, AsyncInv, Watch, NEW s \in Slots,
         \/ \E v \in Vals, i \in RecIds : SaveAsync(s, i, v)
         \/ \E i \in RecIds : RemoveAsync(s, i)
         \/ DropAsync(s)
  PROVE  AsyncInv'
<1>1. lastKey \in 0 .. MaxKey /\ MaxKey \in Nat
  BY InvHas DEF Rest, AsyncConstants
<1>2. RecIds \subseteq 0 .. MaxKey /\ 0 \in 0 .. MaxKey /\ {"update", "kill", "drop"} \subseteq Calls
  BY <1>1 DEF RecIds, Calls
<1>3. ASSUME NEW v \in Vals, NEW i \in RecIds, SaveAsync(s, i, v)
      PROVE  AsyncInv'
  BY <1>1, <1>2, <1>3, BeginStep DEF SaveAsync
<1>4. ASSUME NEW i \in RecIds, RemoveAsync(s, i)
      PROVE  AsyncInv'
  BY <1>1, <1>2, <1>4, BeginStep DEF RemoveAsync
<1>5. CASE DropAsync(s)
  BY <1>1, <1>2, <1>5, BeginStep DEF DropAsync
<1> QED BY <1>3, <1>4, <1>5

\* The thread executes a call: what it answers is what the store holds then.
LEMMA ExecuteStep ==
  ASSUME AsyncConstants, AsyncInv, Watch, NEW s \in Slots, Execute(s)
  PROVE  AsyncInv'
<1> DEFINE f == op[s]
<1>1. /\ f \in Frames /\ f.at \in Calls /\ ~f.done /\ OpOK(f) /\ SeenOK(f) /\ Gathers(s)
      /\ UNCHANGED <<known, conn, main>>
      /\ MaxKey \in Nat
  BY InvHas DEF Execute, AsyncConstants
<1>2. PICK e, r : e \in BOOLEAN /\ Answer(s, e, r) /\
        \/ e = TRUE /\ r = Nothing /\ UNCHANGED <<rec, ent, lastKey, lost>>
        \/ /\ e = FALSE
           /\ r = CASE f.at = "order" -> NextOf(Subscripts(f), f.id)
                    [] f.at = "retrieve" -> rec[f.id]
                    [] OTHER -> Nothing
           /\ rec' = CASE f.at = "update" -> [rec EXCEPT ![f.id] = f.val]
                       [] f.at = "kill"   -> [rec EXCEPT ![f.id] = Nothing]
                       [] f.at = "drop"   -> [i \in RecIds |-> Nothing]
                       [] OTHER           -> rec
           /\ lastKey' = IF f.at = "drop" THEN 0 ELSE lastKey
           /\ ent' = IF f.at = "killIndex" THEN {} ELSE ent
           /\ lost' = IF f.at = "killIndex" THEN lost \cup ent ELSE lost
  BY DEF Execute
<1> DEFINE g == [f EXCEPT !.done = TRUE, !.err = e, !.res = r]
<1>3. Subscripts(f) \in SUBSET RecIds /\ f.id \in Nat
  BY <1>1, FrameHas DEF Subscripts
<1>4. \A y \in Subscripts(f) : y > f.id => NextOf(Subscripts(f), f.id) # 0 /\ NextOf(Subscripts(f), f.id) =< y
  BY <1>1, <1>3, NextOfIs
<1>5. NextOf(Subscripts(f), f.id) \in 0 .. MaxKey
      /\ (NextOf(Subscripts(f), f.id) = 0 \/ NextOf(Subscripts(f), f.id) > f.id)
  BY <1>1, <1>3, NextOfIs
<1>6. rec \in [RecIds -> Vals \cup {Nothing}]
  BY InvHas DEF Rest
<1>7. r \in Vals \cup {Nothing} \cup 0 .. MaxKey
  <2>1. CASE e = TRUE
    BY <1>2, <2>1
  <2>2. CASE e = FALSE /\ f.at = "order"
    BY <1>2, <1>5, <2>2
  <2>3. CASE e = FALSE /\ f.at = "retrieve"
    BY <1>1, <1>2, <1>6, <2>3 DEF OpOK
  <2>4. CASE e = FALSE /\ f.at \notin {"order", "retrieve"}
    BY <1>2, <2>4
  <2> QED BY <1>2, <2>1, <2>2, <2>3, <2>4
<1>8. /\ g \in Frames /\ g.kind = f.kind /\ g.at = f.at /\ g.id = f.id /\ g.val = f.val /\ g.seen = f.seen
      /\ g.err = e /\ g.res = r
  <2>1. e \in BOOLEAN
    BY <1>2
  <2> QED BY <1>1, <1>7, <2>1 DEF Frames
<1>9. op' = [op EXCEPT ![s] = g]
  BY <1>2 DEF Answer
<1>10. op'[s] = g
  BY <1>9, InvHas
<1> HIDE DEF g
<1>11. OpOK(g)
  <2>1. Answered(g) /\ f.at = "order" => r = NextOf(Subscripts(f), f.id)
    BY <1>2, <1>8 DEF Answered
  <2>2. Answered(g) /\ f.at = "retrieve" => r \in Vals \cup {Nothing}
    BY <1>1, <1>2, <1>6, <1>8 DEF Answered, OpOK
  <2>3. f.kind = "findIndex" /\ f.val \in Unequal => NextOf(Subscripts(f), f.id) = 0
    <3>1. f.val \in Unequal => f.val \notin Vals
      BY DEF Unequal, AsyncConstants
    <3>2. ent \subseteq Vals \X RecIds
      BY InvHas DEF Rest
    <3>3. f.kind = "findIndex" /\ f.val \in Unequal => Subscripts(f) = {}
      BY <3>1, <3>2 DEF Subscripts
    <3> QED BY <3>3 DEF NextOf
  <2> QED BY <1>1, <1>5, <1>8, <2>1, <2>2, <2>3 DEF OpOK
<1>12. SeenOK(g)
  BY <1>1, <1>8 DEF SeenOK
<1>13. Gathers(s)'
  <2>1. CASE f.kind \notin Finds
    <3>1. stable'[s] = {}
      BY <1>8, <1>10, <2>1, InvHas, StillStable
    <3> QED BY <3>1 DEF Gathers
  <2>2. CASE f.kind \in Finds
    <3>1. \A i \in stable'[s] : i \in stable[s] /\ i \in RecIds /\ rec'[i] = rec[i]
                                /\ (<<rec[i], i>> \in ent => <<rec[i], i>> \in ent')
      <4>1. stable'[s] \in SUBSET RecIds
        BY InvHas, StillStable
      <4> QED BY <1>1, <1>8, <1>10, <2>2, <4>1, InvHas, StillStable DEF Finds
    <3>2. \A i \in stable'[s] : Wanted(f, i) /\ Wanted(op[s], i)'
      BY <1>1, <1>8, <1>10, <2>2, <3>1 DEF Wanted, Gathers
    <3>3. ASSUME NEW i \in stable'[s], f.at = "order", i > f.id, Answered(g)
          PROVE  r # 0 /\ r =< i
      <4>1. i \in Subscripts(f)
        BY <2>2, <3>1, <3>2 DEF Wanted, Subscripts, Finds
      <4>2. r = NextOf(Subscripts(f), f.id)
        BY <1>2, <1>8, <3>3 DEF Answered
      <4> QED BY <1>4, <3>3, <4>1, <4>2
    <3>4. f.at = "retrieve" /\ Answered(g) => r = rec[f.id]
      BY <1>2, <1>8 DEF Answered
    <3>5. f.at # "ended" /\ f.at \in {"order", "retrieve"}
      BY <1>1, <2>2 DEF OpOK, Calls
    <3>6. CASE f.at = "order"
      BY <1>1, <1>8, <1>10, <2>2, <3>1, <3>2, <3>3, <3>6 DEF Gathers
    <3>7. CASE f.at = "retrieve"
      BY <1>1, <1>8, <1>10, <2>2, <3>1, <3>2, <3>4, <3>7 DEF Gathers
    <3> QED BY <3>5, <3>6, <3>7
  <2> QED BY <2>1, <2>2
<1>14. Rest'
  <2>1. rec' \in [RecIds -> Vals \cup {Nothing}]
    <3>1. f.at = "update" => f.val \in Vals
      BY <1>1 DEF OpOK
    <3> QED BY <1>2, <1>6, <3>1
  <2>2. lastKey' \in 0 .. MaxKey
    BY <1>1, <1>2, InvHas DEF Rest
  <2>3. ent' \subseteq Vals \X RecIds /\ lost' \subseteq Vals \X RecIds
    BY <1>2, InvHas DEF Rest
  <2> QED BY <1>1, <2>1, <2>2, <2>3, InvHas DEF Rest, MainOK
<1> QED BY <1>8, <1>9, <1>11, <1>12, <1>13, <1>14, OneMoves

-----------------------------------------------------------------------------
(* The callbacks. *)

\* A delivered answer moves the operation on; what Watch says of the find.
LEMMA FindHas ==
  ASSUME AsyncInv, Watch, NEW s \in Slots, op[s].kind \in Finds, op[s].at \in Calls, op'[s].kind = op[s].kind
  PROVE  \A i \in stable'[s] :
           /\ i \in stable[s] /\ i \in RecIds /\ rec'[i] = rec[i]
           /\ <<rec[i], i>> \in ent => <<rec[i], i>> \in ent'
           /\ Wanted(op[s], i)
<1>1. stable'[s] \in SUBSET RecIds
  BY InvHas, StillStable
<1>2. \A i \in stable'[s] : i \in stable[s] /\ rec'[i] = rec[i]
                            /\ (<<rec[i], i>> \in ent => <<rec[i], i>> \in ent')
  BY InvHas, StillStable DEF Finds
<1>3. \A i \in stable[s] : Wanted(op[s], i)
  BY InvHas DEF Gathers
<1> QED BY <1>1, <1>2, <1>3

LEMMA OrderFoundStep ==
  ASSUME AsyncConstants, AsyncInv, Watch, NEW s \in Slots, OrderFound(s)
  PROVE  AsyncInv'
<1> DEFINE f == op[s]
           g == [f EXCEPT !.at = "retrieve", !.id = f.res, !.done = FALSE]
<1>1. /\ f \in Frames /\ f.at = "order" /\ f.done /\ ~f.err /\ f.res # 0
      /\ OpOK(f) /\ SeenOK(f) /\ Gathers(s)
      /\ op' = [op EXCEPT ![s] = g]
      /\ UNCHANGED <<rec, ent, lastKey, known, conn, main, lost>>
  BY InvHas DEF OrderFound, Delivered, Issue
<1>2. f.res \in 0 .. MaxKey /\ f.res > f.id /\ f.kind \in Finds /\ MaxKey \in Nat /\ f.id \in 0 .. MaxKey
  BY <1>1, FrameHas DEF OpOK, Answered, AsyncConstants
<1>3. /\ g \in Frames /\ g.kind = f.kind /\ g.at = "retrieve" /\ g.id = f.res /\ g.val = f.val
      /\ g.seen = f.seen /\ g.done = FALSE
  BY <1>1, <1>2 DEF Frames, Calls
<1>4. op'[s] = g
  BY <1>1, InvHas
<1> HIDE DEF g
<1>5. OpOK(g)
  <2>1. f.kind = "findIndex" => f.val \notin Unequal
    BY <1>1 DEF OpOK, Answered
  <2> QED BY <1>1, <1>2, <1>3, <2>1 DEF OpOK, Answered, RecIds, Calls, Finds
<1>6. SeenOK(g)
  <2>1. \A j \in DOMAIN f.seen : f.seen[j] \in Nat
    <3>1. f.seen \in Seq(RecIds)
      BY <1>1, FrameHas
    <3>2. f.seen \in [1 .. Len(f.seen) -> RecIds] /\ DOMAIN f.seen = 1 .. Len(f.seen)
      BY <3>1
    <3> QED BY <3>2 DEF RecIds
  <2>2. \A j \in DOMAIN f.seen : f.seen[j] =< f.id
    BY <1>1 DEF SeenOK
  <2>3. \A j \in DOMAIN f.seen : f.seen[j] < f.res
    BY <1>2, <2>1, <2>2
  <2> QED BY <1>1, <1>3, <2>3 DEF SeenOK
<1>7. Gathers(s)'
  <2>1. \A i \in stable'[s] : i \in stable[s] /\ i \in RecIds /\ Wanted(op[s], i)'
    BY <1>1, <1>2, <1>3, <1>4, FindHas DEF Wanted, Calls
  <2>2. ASSUME NEW i \in stable'[s], i < f.res
        PROVE  i \in ToSet(f.seen)
    <3>1. i \in stable[s] /\ i \in Nat
      BY <2>1 DEF RecIds
    <3>2. i > f.id => f.res # 0 /\ f.res =< i
      BY <1>1, <3>1 DEF Gathers, Answered
    <3>3. i =< f.id
      BY <1>2, <2>2, <3>1, <3>2
    <3> QED BY <1>1, <3>1, <3>3 DEF Gathers
  <2> QED BY <1>2, <1>3, <1>4, <2>1, <2>2 DEF Gathers, Answered
<1>8. Rest'
  BY <1>1, InvHas DEF Rest, MainOK
<1> QED BY <1>1, <1>3, <1>5, <1>6, <1>7, <1>8, OneMoves

\* No key is left: what was stable lies behind, and is delivered.
LEMMA OrderEndedStep ==
  ASSUME AsyncConstants, AsyncInv, Watch, NEW s \in Slots, OrderEnded(s)
  PROVE  AsyncInv'
<1> DEFINE f == op[s]
           g == [f EXCEPT !.at = "ended", !.done = FALSE]
<1>1. /\ f \in Frames /\ f.at = "order" /\ f.done /\ ~f.err /\ f.res = 0
      /\ OpOK(f) /\ SeenOK(f) /\ Gathers(s)
      /\ op' = [op EXCEPT ![s] = g]
      /\ UNCHANGED <<rec, ent, lastKey, known, main, lost>>
  BY InvHas DEF OrderEnded, Delivered, Ended
<1>2. f.kind \in Finds /\ f.id \in 0 .. MaxKey /\ MaxKey \in Nat
  BY <1>1, FrameHas DEF OpOK, AsyncConstants
<1>3. g \in Frames /\ g.kind = f.kind /\ g.at = "ended" /\ g.seen = f.seen /\ g.val = f.val
  BY <1>1 DEF Frames
<1>4. op'[s] = g
  BY <1>1, InvHas
<1> HIDE DEF g
<1>5. OpOK(g)
  BY <1>1, <1>2, <1>3 DEF OpOK, Calls, Finds
<1>6. SeenOK(g)
  BY <1>1, <1>3 DEF SeenOK
<1>7. Gathers(s)'
  <2>1. \A i \in stable'[s] : i \in stable[s] /\ i \in RecIds
    BY <1>1, <1>2, <1>3, <1>4, FindHas DEF Calls
  <2>2. ASSUME NEW i \in stable'[s]
        PROVE  i \in ToSet(f.seen)
    <3>1. i \in stable[s] /\ i \in Nat
      BY <2>1 DEF RecIds
    <3>2. i =< f.id
      BY <1>1, <1>2, <3>1 DEF Gathers, Answered
    <3> QED BY <1>1, <3>1, <3>2 DEF Gathers
  <2>3. stable'[s] \subseteq ToSet(g.seen)
    BY <1>3, <2>2
  <2> QED BY <1>2, <1>3, <1>4, <2>3 DEF Gathers, Calls
<1>8. Rest'
  BY <1>1, InvHas DEF Rest, MainOK, OrderEnded, Delivered, JsReady
<1> QED BY <1>1, <1>3, <1>5, <1>6, <1>7, <1>8, OneMoves

\* The record goes to the program if it matches, and the find goes on behind it.
LEMMA RetrievedStep ==
  ASSUME AsyncConstants, AsyncInv, Watch, NEW s \in Slots, Retrieved(s)
  PROVE  AsyncInv'
<1> DEFINE f == op[s]
           n == IF RetrievedMatches(f) THEN Append(f.seen, f.id) ELSE f.seen
           g == [f EXCEPT !.at = "order", !.done = FALSE, !.seen = n]
<1>1. /\ f \in Frames /\ f.at = "retrieve" /\ f.done /\ ~f.err
      /\ OpOK(f) /\ SeenOK(f) /\ Gathers(s)
      /\ op' = [op EXCEPT ![s] = g]
      /\ UNCHANGED <<rec, ent, lastKey, known, conn, main, lost>>
  BY InvHas DEF Retrieved, Delivered
<1>2. f.kind \in Finds /\ f.id \in RecIds /\ MaxKey \in Nat /\ f.seen \in Seq(RecIds)
  BY <1>1, FrameHas DEF OpOK, AsyncConstants
<1>3. n \in Seq(RecIds) /\ ToSet(f.seen) \subseteq ToSet(n) /\ (RetrievedMatches(f) => f.id \in ToSet(n))
  <2>1. CASE RetrievedMatches(f)
    <3> DEFINE m == Append(f.seen, f.id)
    <3>1. /\ m \in Seq(RecIds) /\ Len(m) = Len(f.seen) + 1
          /\ \A j \in 1 .. Len(f.seen) : m[j] = f.seen[j]
          /\ m[Len(f.seen) + 1] = f.id /\ Len(f.seen) \in Nat
          /\ DOMAIN m = 1 .. Len(m) /\ DOMAIN f.seen = 1 .. Len(f.seen)
      BY <1>2
    <3> HIDE DEF m
    <3>2. f.id \in ToSet(m) /\ ToSet(f.seen) \subseteq ToSet(m)
      BY <3>1 DEF ToSet
    <3> QED BY <2>1, <3>1, <3>2 DEF m
  <2>2. CASE ~RetrievedMatches(f)
    BY <1>2, <2>2
  <2> QED BY <2>1, <2>2
<1>4. \A j, k \in DOMAIN n : j < k => n[j] < n[k]
  <2>1. CASE RetrievedMatches(f)
    <3> DEFINE m == Append(f.seen, f.id)
    <3>1. /\ m \in Seq(RecIds) /\ Len(m) = Len(f.seen) + 1
          /\ \A j \in 1 .. Len(f.seen) : m[j] = f.seen[j]
          /\ m[Len(f.seen) + 1] = f.id /\ Len(f.seen) \in Nat
          /\ DOMAIN m = 1 .. Len(m) /\ DOMAIN f.seen = 1 .. Len(f.seen)
      BY <1>2
    <3>2. /\ \A j, k \in DOMAIN f.seen : j < k => f.seen[j] < f.seen[k]
          /\ \A j \in DOMAIN f.seen : f.seen[j] < f.id
      BY <1>1 DEF SeenOK
    <3> HIDE DEF m
    <3>3. \A j, k \in DOMAIN m : j < k => m[j] < m[k]
      BY <3>1, <3>2
    <3> QED BY <2>1, <3>3 DEF m
  <2>2. CASE ~RetrievedMatches(f)
    BY <1>1, <2>2 DEF SeenOK
  <2> QED BY <2>1, <2>2
<1>5. \A j \in DOMAIN n : n[j] =< f.id
  <2>1. CASE RetrievedMatches(f)
    <3> DEFINE m == Append(f.seen, f.id)
    <3>1. /\ Len(m) = Len(f.seen) + 1 /\ f.id \in Nat
          /\ \A j \in 1 .. Len(f.seen) : m[j] = f.seen[j] /\ f.seen[j] \in Nat
          /\ m[Len(f.seen) + 1] = f.id /\ Len(f.seen) \in Nat
          /\ DOMAIN m = 1 .. Len(m) /\ DOMAIN f.seen = 1 .. Len(f.seen)
      BY <1>2 DEF RecIds
    <3>2. \A j \in DOMAIN f.seen : f.seen[j] < f.id
      BY <1>1 DEF SeenOK
    <3> HIDE DEF m
    <3>3. \A j \in DOMAIN m : m[j] =< f.id
      BY <3>1, <3>2
    <3> QED BY <2>1, <3>3 DEF m
  <2>2. CASE ~RetrievedMatches(f)
    <3>1. \A j \in DOMAIN f.seen : f.seen[j] \in Nat /\ f.id \in Nat
      BY <1>2 DEF RecIds
    <3>2. \A j \in DOMAIN f.seen : f.seen[j] < f.id
      BY <1>1 DEF SeenOK
    <3> QED BY <2>2, <3>1, <3>2
  <2> QED BY <2>1, <2>2
<1> HIDE DEF n
<1>6. /\ g \in Frames /\ g.kind = f.kind /\ g.at = "order" /\ g.id = f.id /\ g.val = f.val
      /\ g.seen = n /\ g.done = FALSE
  BY <1>1, <1>3 DEF Frames, Calls
<1>7. op'[s] = g
  BY <1>1, InvHas
<1> HIDE DEF g
<1>8. OpOK(g)
  <2>1. f.val \in Unequal => f.kind = "find" /\ f.seen = <<>>
    BY <1>1, <1>2 DEF OpOK, Finds
  <2>2. f.res \in Vals \cup {Nothing}
    BY <1>1 DEF OpOK, Answered
  <2>3. f.val \in Unequal => ~RetrievedMatches(f)
    BY <2>1, <2>2 DEF RetrievedMatches, Unequal, AsyncConstants
  <2>4. f.val \in Unequal => n = <<>>
    BY <2>1, <2>3 DEF n
  <2> QED BY <1>1, <1>2, <1>6, <2>1, <2>4 DEF OpOK, Answered, Calls, Finds
<1>9. SeenOK(g)
  BY <1>4, <1>5, <1>6 DEF SeenOK
<1>10. Gathers(s)'
  <2>1. \A i \in stable'[s] : i \in stable[s] /\ i \in RecIds /\ Wanted(op[s], i) /\ Wanted(op[s], i)'
    BY <1>1, <1>2, <1>6, <1>7, FindHas DEF Wanted, Calls
  <2>2. ASSUME NEW i \in stable'[s], i =< f.id
        PROVE  i \in ToSet(n)
    <3>1. i \in stable[s] /\ i \in Nat /\ f.id \in Nat
      BY <1>2, <2>1 DEF RecIds
    <3>2. CASE i < f.id
      BY <1>1, <1>3, <3>1, <3>2 DEF Gathers
    <3>3. CASE i = f.id
      <4>1. f.res = rec[i]
        BY <1>1, <3>1, <3>3 DEF Gathers, Answered
      <4>2. Wanted(f, i)
        BY <2>1
      <4>3. RetrievedMatches(f)
        BY <1>2, <4>1, <4>2 DEF Wanted, RetrievedMatches, Finds
      <4> QED BY <1>3, <3>3, <4>3
    <3> QED BY <2>2, <3>1, <3>2, <3>3
  <2> QED BY <1>2, <1>6, <1>7, <2>1, <2>2 DEF Gathers, Answered
<1>11. Rest'
  BY <1>1, InvHas DEF Rest, MainOK
<1> QED BY <1>1, <1>6, <1>8, <1>9, <1>10, <1>11, OneMoves

\* A find that fails is at its end, and has promised nothing.
LEMMA FindFailedStep ==
  ASSUME AsyncConstants, AsyncInv, Watch, NEW s \in Slots, FindFailed(s)
  PROVE  AsyncInv'
<1> DEFINE f == op[s]
           g == [f EXCEPT !.at = "failed", !.done = FALSE]
<1>1. /\ f \in Frames /\ f.at \in Calls /\ f.kind \in Finds
      /\ OpOK(f) /\ SeenOK(f) /\ Gathers(s)
      /\ op' = [op EXCEPT ![s] = g]
      /\ UNCHANGED <<rec, ent, lastKey, known, conn, main, lost>>
  BY InvHas DEF FindFailed, Delivered, Ended, Finds
<1>2. g \in Frames /\ g.kind = f.kind /\ g.at = "failed" /\ g.seen = f.seen /\ g.val = f.val
  BY <1>1 DEF Frames
<1>3. op'[s] = g
  BY <1>1, InvHas
<1> HIDE DEF g
<1>4. OpOK(g)
  BY <1>1, <1>2 DEF OpOK, Calls, Finds
<1>5. SeenOK(g)
  BY <1>1, <1>2 DEF SeenOK
<1>6. Gathers(s)'
  BY <1>1, <1>2, <1>3 DEF Gathers, Calls
<1>7. Rest'
  BY <1>1, InvHas DEF Rest, MainOK
<1> QED BY <1>1, <1>2, <1>4, <1>5, <1>6, <1>7, OneMoves

\* The callbacks of the other operations.
LEMMA OtherCallback ==
  ASSUME AsyncInv, Watch, NEW s \in Slots, NEW g \in Frames,
         op[s].kind \notin Finds, g.kind = op[s].kind, g.seen = op[s].seen,
         op' = [op EXCEPT ![s] = g], OpOK(g), g.at \notin {"order", "retrieve"}, Rest'
  PROVE  AsyncInv'
<1>1. op'[s] = g /\ SeenOK(op[s])
  BY InvHas
<1>2. stable'[s] = {}
  BY <1>1, InvHas, StillStable
<1>3. SeenOK(g)
  BY <1>1 DEF SeenOK
<1>4. Gathers(s)'
  BY <1>2 DEF Gathers
<1> QED BY <1>3, <1>4, OneMoves

LEMMA IndexTypes ==
  ASSUME AsyncInv, NEW i \in RecIds, NEW v \in Vals, UpdateIndex(i, v)
  PROVE  ent' \subseteq Vals \X RecIds /\ lost' \subseteq Vals \X RecIds
BY InvHas DEF Rest, UpdateIndex

LEMMA UpdatedStep ==
  ASSUME AsyncConstants, AsyncInv, Watch, NEW s \in Slots, Updated(s)
  PROVE  AsyncInv'
<1> DEFINE f == op[s]
           g == [f EXCEPT !.at = "ended", !.done = FALSE]
<1>1. /\ f \in Frames /\ f.at = "update" /\ OpOK(f)
      /\ op' = [op EXCEPT ![s] = g] /\ UpdateIndex(f.id, f.val)
      /\ UNCHANGED <<rec, lastKey, known, conn, main>>
  BY InvHas DEF Updated, Delivered, Ended
<1>2. f.kind = "write" /\ f.id \in RecIds /\ f.val \in Vals
  BY <1>1 DEF OpOK
<1>3. g \in Frames /\ g.kind = f.kind /\ g.at = "ended" /\ g.seen = f.seen /\ g.val = f.val
  BY <1>1 DEF Frames
<1> HIDE DEF g
<1>4. OpOK(g)
  BY <1>1, <1>2, <1>3 DEF OpOK, Calls, Finds
<1>5. Rest'
  BY <1>1, <1>2, InvHas, IndexTypes DEF Rest, MainOK
<1> QED BY <1>1, <1>2, <1>3, <1>4, <1>5, OtherCallback DEF Finds

LEMMA RemovedStep ==
  ASSUME AsyncConstants, AsyncInv, Watch, NEW s \in Slots, Removed(s)
  PROVE  AsyncInv'
<1> DEFINE f == op[s]
<1>1. /\ f \in Frames /\ f.at \in {"kill", "killSystem", "killIndex", "drop"} /\ OpOK(f)
      /\ UNCHANGED <<rec, ent, lastKey, known, conn, main, lost>>
  BY InvHas DEF Removed, Delivered
<1>2. f.kind \in {"remove", "drop"}
  BY <1>1 DEF OpOK
<1>3. Rest'
  BY <1>1, InvHas DEF Rest, MainOK
<1>4. ASSUME NEW at \in {"killSystem", "killIndex"}, f.at \in {"kill", "killSystem"}, Issue(s, at, f.id)
      PROVE  AsyncInv'
  <2> DEFINE g == [f EXCEPT !.at = at, !.id = f.id, !.done = FALSE]
  <2>1. op' = [op EXCEPT ![s] = g]
    BY <1>4 DEF Issue
  <2>2. /\ g \in Frames /\ g.kind = f.kind /\ g.at = at /\ g.seen = f.seen /\ g.val = f.val
        /\ g.id = f.id
    BY <1>1, <1>4, FrameHas DEF Frames, Calls
  <2> HIDE DEF g
  <2>3. OpOK(g)
    BY <1>1, <1>4, <2>2 DEF OpOK, Calls, Finds
  <2> QED BY <1>2, <1>3, <2>1, <2>2, <2>3, OtherCallback DEF Finds
<1>5. ASSUME Ended(s, "ended")
      PROVE  AsyncInv'
  <2> DEFINE g == [f EXCEPT !.at = "ended", !.done = FALSE]
  <2>1. op' = [op EXCEPT ![s] = g]
    BY <1>5 DEF Ended
  <2>2. g \in Frames /\ g.kind = f.kind /\ g.at = "ended" /\ g.seen = f.seen /\ g.val = f.val
    BY <1>1 DEF Frames
  <2> HIDE DEF g
  <2>3. OpOK(g)
    BY <1>1, <1>2, <2>2 DEF OpOK, Calls, Finds
  <2> QED BY <1>2, <1>3, <2>1, <2>2, <2>3, OtherCallback DEF Finds
<1> QED BY <1>4, <1>5 DEF Removed

\* The synchronous save and remove.
LEMMA SyncSteps ==
  ASSUME AsyncConstants, AsyncInv, Watch,
         \/ \E at \in {"save", "remove"}, i \in RecIds, v \in Vals : SyncStart(at, i, v)
         \/ SyncIndex
  PROVE  AsyncInv'
<1>1. Rest /\ MaxKey \in Nat /\ RecIds \subseteq 0 .. MaxKey
  BY InvHas DEF AsyncConstants, RecIds
<1>2. ASSUME NEW at \in {"save", "remove"}, NEW i \in RecIds, NEW v \in Vals, SyncStart(at, i, v)
      PROVE  AsyncInv'
  <2>1. rec' \in [RecIds -> Vals \cup {Nothing}]
    BY <1>1, <1>2 DEF SyncStart, Rest
  <2>2. main' \in [at: {"free", "save", "remove"}, id: 0 .. MaxKey, val: Vals \cup {Nothing}] /\ MainOK'
    BY <1>1, <1>2 DEF SyncStart, MainOK
  <2>3. UNCHANGED <<ent, lastKey, known, conn, op, lost>>
    BY <1>2 DEF SyncStart
  <2>4. Rest'
    BY <1>1, <2>1, <2>2, <2>3 DEF Rest
  <2> QED BY <2>3, <2>4, NoneMoves
<1>3. CASE SyncIndex
  <2>1. main \in [at: {"save", "remove"}, id: RecIds, val: Vals]
    BY <1>1, <1>3 DEF SyncIndex, Rest, MainOK
  <2>2. ent' \subseteq Vals \X RecIds /\ lost' \subseteq Vals \X RecIds
    <3>1. CASE main.at = "save"
      BY <1>3, <2>1, <3>1, IndexTypes DEF SyncIndex
    <3>2. CASE main.at # "save"
      BY <1>1, <1>3, <3>2 DEF SyncIndex, Rest
    <3> QED BY <3>1, <3>2
  <2>3. UNCHANGED <<rec, lastKey, known, conn, op>> /\ main' = Free
    BY <1>3 DEF SyncIndex
  <2>4. Free \in [at: {"free", "save", "remove"}, id: 0 .. MaxKey, val: Vals \cup {Nothing}]
    BY <1>1 DEF Free
  <2>5. Rest'
    BY <1>1, <2>2, <2>3, <2>4 DEF Rest, MainOK
  <2> QED BY <2>3, <2>5, NoneMoves
<1> QED BY <1>2, <1>3

LEMMA AsyncStart ==
  ASSUME AsyncConstants, AsyncInit
  PROVE  AsyncInv
<1>1. MaxKey \in Nat /\ <<>> \in Seq(RecIds)
  BY DEF AsyncConstants
<1>2. NoOp \in Frames /\ NoOp.kind = "none" /\ NoOp.at = "none" /\ NoOp.seen = <<>>
  BY <1>1 DEF NoOp, Frames
<1>3. OpOK(NoOp)
  BY <1>2 DEF OpOK, Calls, Finds
<1>4. SeenOK(NoOp)
  <2>1. DOMAIN NoOp.seen = {}
    BY <1>2
  <2> QED BY <2>1 DEF SeenOK
<1>5. \A s \in Slots : OpOK(op[s]) /\ SeenOK(op[s]) /\ Gathers(s)
  BY <1>2, <1>3, <1>4 DEF AsyncInit, Gathers
<1>6. AsyncTypeOK
  BY <1>1, <1>2 DEF AsyncInit, AsyncTypeOK, Free, Frames
<1> QED BY <1>5, <1>6 DEF AsyncInv, MainOK, AsyncInit

LEMMA AsyncStep ==
  ASSUME AsyncConstants, AsyncInv, AsyncNext
  PROVE  AsyncInv'
<1>1. Watch
  BY DEF AsyncNext
<1>2. ASSUME NEW s \in Slots,
             \/ \E q \in Vals \cup {All, Other, Operator} : FindAsync(s, q)
             \/ \E v \in Vals : AddAsync(s, v)
             \/ \E v \in Vals, i \in RecIds : SaveAsync(s, i, v)
             \/ \E i \in RecIds : RemoveAsync(s, i)
             \/ DropAsync(s)
      PROVE  AsyncInv'
  BY <1>1, <1>2, FindAsyncStep, AddAsyncStep, OtherBegins
<1>3. ASSUME NEW s \in Slots,
             \/ Execute(s) \/ OrderFound(s) \/ OrderEnded(s) \/ Retrieved(s) \/ FindFailed(s)
             \/ Updated(s) \/ Removed(s)
      PROVE  AsyncInv'
  BY <1>1, <1>3, ExecuteStep, OrderFoundStep, OrderEndedStep, RetrievedStep, FindFailedStep,
     UpdatedStep, RemovedStep
<1> QED BY <1>1, <1>2, <1>3, SyncSteps DEF AsyncNext

LEMMA AsyncStutter ==
  ASSUME AsyncInv, UNCHANGED asyncVars
  PROVE  AsyncInv'
BY DEF AsyncInv, AsyncTypeOK, MainOK, OpOK, SeenOK, Gathers, Wanted, asyncVars

-----------------------------------------------------------------------------
(* One operation open at a time. *)

LEMMA FewerOpen ==
  ASSUME OneOpen, \A t \in Slots : op'[t].at \in Calls => op[t].at \in Calls
  PROVE  OneOpen'
BY DEF OneOpen, OpenOps

\* An update that is under way still owes the entry of what it wrote.
LEMMA StillOwes ==
  ASSUME NEW i \in RecIds, CallbackOwes(i), conn' = conn, rec'[i] = rec[i],
         \A t \in Slots : op[t].at = "update" =>
           op'[t].at = "update" /\ op'[t].id = op[t].id /\ op'[t].val = op[t].val
  PROVE  CallbackOwes(i)'
BY DEF CallbackOwes

\* A step that writes neither records nor entries and ends no update.
LEMMA OwedStill ==
  ASSUME EntriesOwed, known' = known, conn' = conn, main' = main, rec' = rec,
         ent \cup lost \subseteq ent' \cup lost',
         \A t \in Slots : op[t].at = "update" =>
           op'[t].at = "update" /\ op'[t].id = op[t].id /\ op'[t].val = op[t].val
  PROVE  EntriesOwed'
<1>1. \A i \in RecIds : CallbackOwes(i) => CallbackOwes(i)'
  BY StillOwes
<1>2. \A i \in RecIds : SaveOwes(i) => SaveOwes(i)'
  BY DEF SaveOwes
<1> QED BY <1>1, <1>2 DEF EntriesOwed

LEMMA OwedBegins ==
  ASSUME OwedInv, IsFiniteSet(Slots), Parallel = 1,
         NEW s \in Slots, NEW kind, NEW at \in Calls, NEW i, NEW v, Begin(s, kind, at, i, v)
  PROVE  OneOpen' /\ EntriesOwed'
<1>1. /\ op \in [Slots -> Frames] /\ op[s].kind = "none" /\ Cardinality(OpenOps) < 1
      /\ op' = [op EXCEPT ![s] = Started(kind, at, i, v)]
      /\ UNCHANGED <<rec, ent, known, conn, main, lost>>
  BY InvHas DEF Begin, Started, OwedInv
<1>2. OpenOps = {}
  <2>1. IsFiniteSet(OpenOps)
    BY FS_Subset DEF OpenOps
  <2>2. Cardinality(OpenOps) \in Nat
    BY <2>1, FS_CardinalityType
  <2>3. Cardinality(OpenOps) = 0
    BY <1>1, <2>2
  <2> QED BY <2>1, <2>3, FS_EmptySet
<1>3. \A t \in Slots : t # s => op'[t] = op[t]
  BY <1>1
<1>4. \A t \in Slots : op[t].at \notin Calls
  BY <1>2 DEF OpenOps
<1>5. OneOpen'
  BY <1>3, <1>4 DEF OneOpen, OpenOps
<1>6. EntriesOwed'
  BY <1>1, <1>4, OwedStill DEF OwedInv, Calls
<1> QED BY <1>5, <1>6

LEMMA OwedExecute ==
  ASSUME OwedInv, NEW s \in Slots, Execute(s)
  PROVE  OneOpen' /\ EntriesOwed'
<1> DEFINE f == op[s]
<1>1. PICK e, r : op' = [op EXCEPT ![s].done = TRUE, ![s].err = e, ![s].res = r]
  BY DEF Execute, Answer
<1>2. /\ op \in [Slots -> Frames] /\ f \in Frames /\ f.at \in Calls /\ OpOK(f)
      /\ UNCHANGED <<known, conn, main>>
      /\ rec \in [RecIds -> Vals \cup {Nothing}]
  BY InvHas DEF Execute, OwedInv, Rest
<1>3. \A t \in Slots : op'[t].at = op[t].at /\ op'[t].id = op[t].id /\ op'[t].val = op[t].val
  BY <1>1, <1>2 DEF Frames
<1>4. OneOpen'
  BY <1>3, FewerOpen DEF OwedInv
<1>5. CASE UNCHANGED <<rec, ent, lost>>
  BY <1>2, <1>3, <1>4, <1>5, OwedStill DEF OwedInv
<1>6. CASE /\ conn = "open"
           /\ rec' = CASE f.at = "update" -> [rec EXCEPT ![f.id] = f.val]
                       [] f.at = "kill"   -> [rec EXCEPT ![f.id] = Nothing]
                       [] f.at = "drop"   -> [i \in RecIds |-> Nothing]
                       [] OTHER           -> rec
           /\ ent \cup lost \subseteq ent' \cup lost'
  <2>1. \A i \in RecIds : rec'[i] = rec[i] /\ CallbackOwes(i) => CallbackOwes(i)'
    BY <1>2, <1>3, StillOwes
  <2>2. \A i \in RecIds : rec'[i] = rec[i] /\ SaveOwes(i) => SaveOwes(i)'
    BY <1>2 DEF SaveOwes
  <2>3. ASSUME NEW i \in RecIds, rec'[i] # Nothing, rec'[i] # rec[i]
        PROVE  CallbackOwes(i)'
    <3>1. f.at = "update" /\ i = f.id /\ rec'[i] = f.val
      BY <1>2, <1>6, <2>3 DEF Calls
    <3> QED BY <1>2, <1>3, <1>6, <3>1 DEF CallbackOwes
  <2> QED BY <1>2, <1>4, <1>6, <2>1, <2>2, <2>3 DEF EntriesOwed, OwedInv
<1>7. \/ UNCHANGED <<rec, ent, lost>>
      \/ /\ conn = "open"
         /\ rec' = CASE f.at = "update" -> [rec EXCEPT ![f.id] = f.val]
                     [] f.at = "kill"   -> [rec EXCEPT ![f.id] = Nothing]
                     [] f.at = "drop"   -> [i \in RecIds |-> Nothing]
                     [] OTHER           -> rec
         /\ ent \cup lost \subseteq ent' \cup lost'
  <2>1. conn \in {"open", "closed"}
    BY InvHas DEF Rest, OwedInv
  <2> QED BY <2>1 DEF Execute
<1> QED BY <1>4, <1>5, <1>6, <1>7

\* The callbacks that write no entry; the one that closes the connection is the
\* only one open, so that nobody else owes an entry.
LEMMA OwedCallbacks ==
  ASSUME OwedInv, NEW s \in Slots,
         OrderFound(s) \/ OrderEnded(s) \/ Retrieved(s) \/ FindFailed(s) \/ Removed(s)
  PROVE  OneOpen' /\ EntriesOwed'
<1> DEFINE f == op[s]
<1>1. /\ op \in [Slots -> Frames] /\ f \in Frames /\ f.at \in Calls /\ OpOK(f)
      /\ main = Free /\ UNCHANGED <<rec, ent, known, main, lost>>
  BY InvHas DEF OwedInv, OrderFound, OrderEnded, Retrieved, FindFailed, Removed, Delivered, JsReady
<1>2. f.at # "update"
  <2>1. FindFailed(s) => f.kind \in Finds
    BY DEF FindFailed, Finds
  <2> QED BY <1>1, <2>1 DEF OrderFound, OrderEnded, Retrieved, Removed, OpOK, Finds
<1>3. \A t \in Slots : t # s => op'[t] = op[t]
  BY <1>1 DEF OrderFound, OrderEnded, Retrieved, FindFailed, Removed, Issue, Ended
<1>4. OneOpen'
  BY <1>1, <1>3, FewerOpen DEF OwedInv
<1>5. CASE conn' = conn
  BY <1>1, <1>2, <1>3, <1>4, <1>5, OwedStill DEF OwedInv
<1>6. CASE conn' # conn
  <2>1. \A t \in Slots : op[t].at # "update"
    BY <1>1, <1>2 DEF OwedInv, OneOpen, OpenOps, Calls
  <2>2. \A i \in RecIds : ~CallbackOwes(i) /\ ~SaveOwes(i)
    BY <1>1, <2>1 DEF CallbackOwes, SaveOwes, Free
  <2> QED BY <1>1, <1>4, <2>2 DEF EntriesOwed, OwedInv, Free
<1> QED BY <1>4, <1>5, <1>6

LEMMA WritesEntry ==
  ASSUME NEW i, NEW v, UpdateIndex(i, v), known, conn = "open"
  PROVE  <<v, i>> \in ent' /\ ent \cup lost \subseteq ent' \cup lost'
BY DEF UpdateIndex

LEMMA OwedUpdated ==
  ASSUME OwedInv, NEW s \in Slots, Updated(s)
  PROVE  OneOpen' /\ EntriesOwed'
<1> DEFINE f == op[s]
<1>1. /\ op \in [Slots -> Frames] /\ f \in Frames /\ f.at \in Calls
      /\ main = Free /\ UpdateIndex(f.id, f.val)
      /\ UNCHANGED <<rec, lastKey, known, conn, main>>
  BY InvHas DEF OwedInv, Updated, Delivered, JsReady
<1>2. \A t \in Slots : t # s => op'[t] = op[t]
  BY <1>1 DEF Updated, Ended
<1>3. OneOpen'
  BY <1>1, <1>2, FewerOpen DEF OwedInv
<1>4. ASSUME known', NEW i \in RecIds, rec'[i] # Nothing
      PROVE  <<rec'[i], i>> \in ent' \cup lost' \/ CallbackOwes(i)'
  <2>1. ~SaveOwes(i) /\ rec[i] # Nothing
    BY <1>1, <1>4 DEF SaveOwes, Free
  <2>2. CASE <<rec[i], i>> \in ent \cup lost
    BY <1>1, <2>2 DEF UpdateIndex
  <2>3. CASE CallbackOwes(i)
    <3>1. PICK t \in Slots : conn = "open" /\ op[t].at = "update" /\ op[t].id = i /\ op[t].val = rec[i]
      BY <2>3 DEF CallbackOwes
    <3>2. CASE t = s
      BY <1>1, <1>4, <3>1, <3>2, WritesEntry
    <3>3. CASE t # s
      BY <1>1, <1>2, <3>1, <3>3 DEF CallbackOwes
    <3> QED BY <3>2, <3>3
  <2> QED BY <1>1, <1>4, <2>1, <2>2, <2>3 DEF OwedInv, EntriesOwed
<1>5. EntriesOwed'
  BY <1>1, <1>4 DEF EntriesOwed, Free
<1> QED BY <1>3, <1>5

LEMMA OwedSync ==
  ASSUME OwedInv, \/ \E at \in {"save", "remove"}, i \in RecIds, v \in Vals : SyncStart(at, i, v)
                  \/ SyncIndex
  PROVE  OneOpen' /\ EntriesOwed'
<1>1. op' = op
  BY DEF SyncStart, SyncIndex
<1>2. OneOpen'
  BY <1>1, FewerOpen DEF OwedInv
<1>3. rec \in [RecIds -> Vals \cup {Nothing}] /\ MainOK
  BY InvHas DEF OwedInv, Rest
<1>4. ASSUME NEW at \in {"save", "remove"}, NEW j \in RecIds, NEW v \in Vals, SyncStart(at, j, v)
      PROVE  EntriesOwed'
  <2>1. /\ main = Free /\ conn = "open" /\ main' = [at |-> at, id |-> j, val |-> v]
        /\ rec' = [rec EXCEPT ![j] = IF at = "save" THEN v ELSE Nothing]
        /\ UNCHANGED <<ent, lastKey, known, conn, op, lost>>
    BY <1>4 DEF SyncStart, JsReady
  <2>2. \A i \in RecIds : rec'[i] = rec[i] /\ CallbackOwes(i) => CallbackOwes(i)'
    BY <2>1, StillOwes
  <2>3. \A i \in RecIds : ~SaveOwes(i)
    BY <2>1 DEF SaveOwes, Free
  <2>4. \A i \in RecIds : i # j => rec'[i] = rec[i]
    BY <1>3, <2>1
  <2>5. rec'[j] = IF at = "save" THEN v ELSE Nothing
    BY <1>3, <2>1
  <2>6. rec'[j] # Nothing => SaveOwes(j)' /\ main'.at # "remove"
    BY <2>1, <2>5 DEF SaveOwes
  <2> QED BY <2>1, <2>2, <2>3, <2>4, <2>6 DEF EntriesOwed, OwedInv
<1>5. CASE SyncIndex
  <2>1. /\ main # Free /\ main' = Free /\ UNCHANGED <<rec, lastKey, known, conn, op>>
        /\ main.at \in {"save", "remove"} /\ conn = "open"
    BY <1>3, <1>5 DEF SyncIndex, MainOK
  <2>2. \A i \in RecIds : CallbackOwes(i) => CallbackOwes(i)'
    BY <2>1, StillOwes
  <2>3. ASSUME known, NEW i \in RecIds, rec[i] # Nothing
        PROVE  <<rec[i], i>> \in ent' \cup lost' \/ CallbackOwes(i)
    <3>1. /\ <<rec[i], i>> \in ent \cup lost \/ CallbackOwes(i) \/ SaveOwes(i)
          /\ main.at = "remove" /\ main.id = i => CallbackOwes(i)
      BY <2>3 DEF OwedInv, EntriesOwed
    <3>2. CASE main.at = "save"
      <4>1. UpdateIndex(main.id, main.val)
        BY <1>5, <3>2 DEF SyncIndex
      <4>2. <<main.val, main.id>> \in ent' /\ ent \cup lost \subseteq ent' \cup lost'
        BY <2>1, <2>3, <4>1, WritesEntry
      <4> QED BY <3>1, <4>2 DEF SaveOwes
    <3>3. CASE main.at = "remove"
      <4>1. ent' = ent \ {<<main.val, main.id>>} /\ lost' = lost
        BY <1>5, <2>3, <3>3 DEF SyncIndex
      <4>2. ~SaveOwes(i)
        BY <3>3 DEF SaveOwes
      <4> QED BY <3>1, <3>3, <4>1, <4>2
    <3> QED BY <2>1, <3>2, <3>3
  <2> QED BY <1>2, <2>1, <2>2, <2>3 DEF EntriesOwed, Free
<1> QED BY <1>2, <1>4, <1>5

LEMMA OwedStart ==
  ASSUME AsyncConstants, AsyncInit
  PROVE  OwedInv
<1>1. AsyncInv
  BY AsyncStart
<1>2. OneOpen
  BY DEF AsyncInit, OneOpen, OpenOps, NoOp, Calls
<1>3. EntriesOwed
  BY DEF AsyncInit, EntriesOwed
<1> QED BY <1>1, <1>2, <1>3 DEF OwedInv

LEMMA OwedStep ==
  ASSUME AsyncConstants, IsFiniteSet(Slots), Parallel = 1, OwedInv, AsyncNext
  PROVE  OwedInv'
<1>1. AsyncInv'
  BY AsyncStep DEF OwedInv
<1>2. ASSUME NEW s \in Slots,
             \/ \E q \in Vals \cup {All, Other, Operator} : FindAsync(s, q)
             \/ \E v \in Vals : AddAsync(s, v)
             \/ \E v \in Vals, i \in RecIds : SaveAsync(s, i, v)
             \/ \E i \in RecIds : RemoveAsync(s, i)
             \/ DropAsync(s)
      PROVE  OneOpen' /\ EntriesOwed'
  <2>1. CASE \E kind, i, v, at : at \in Calls /\ Begin(s, kind, at, i, v)
    BY <2>1, OwedBegins
  <2>2. {"order", "update", "kill", "drop"} \subseteq Calls
    BY DEF Calls
  <2> QED BY <1>2, <2>1, <2>2 DEF FindAsync, AddAsync, SaveAsync, RemoveAsync, DropAsync
<1>3. ASSUME NEW s \in Slots,
             \/ Execute(s) \/ OrderFound(s) \/ OrderEnded(s) \/ Retrieved(s) \/ FindFailed(s)
             \/ Updated(s) \/ Removed(s)
      PROVE  OneOpen' /\ EntriesOwed'
  BY <1>3, OwedExecute, OwedCallbacks, OwedUpdated
<1>4. OneOpen' /\ EntriesOwed'
  BY <1>2, <1>3, OwedSync DEF AsyncNext
<1> QED BY <1>1, <1>4 DEF OwedInv

LEMMA OwedStutter ==
  ASSUME OwedInv, UNCHANGED asyncVars
  PROVE  OwedInv'
<1>1. AsyncInv'
  BY AsyncStutter DEF OwedInv
<1>2. OneOpen' /\ EntriesOwed'
  BY DEF OwedInv, OneOpen, OpenOps, EntriesOwed, CallbackOwes, SaveOwes, asyncVars
<1> QED BY <1>1, <1>2 DEF OwedInv

\* What the invariants say of the answers and of the index.
LEMMA AsyncFacts ==
  ASSUME AsyncInv
  PROVE  AsyncTypeOK /\ FindDelivers /\ DeliversOnce /\ NothingByOperators
BY DEF AsyncInv, FindDelivers, DeliversOnce, NothingByOperators, Unequal, Gathers, SeenOK, OpOK

LEMMA OwedFacts ==
  ASSUME OwedInv
  PROVE  IndexedUnlessRemoved
BY DEF OwedInv, EntriesOwed, IndexedUnlessRemoved, Writing, CallbackOwes, SaveOwes

-----------------------------------------------------------------------------
\* A find by a value, or of everything, that came to its end has delivered every
\* record that matched all along, and none twice, whatever other operations did
\* between its callbacks (spin_find and spin_find_index of index.js), for any number
\* of operations at once; one by an operator delivers nothing.
THEOREM FindsDeliver ==
  ASSUME AsyncConstants
  PROVE  AsyncSpec => [](AsyncTypeOK /\ FindDelivers /\ DeliversOnce /\ NothingByOperators)
<1>1. AsyncInit => AsyncInv
  BY AsyncStart
<1>2. AsyncInv /\ [AsyncNext]_asyncVars => AsyncInv'
  BY AsyncStep, AsyncStutter
<1>3. AsyncInv => AsyncTypeOK /\ FindDelivers /\ DeliversOnce /\ NothingByOperators
  BY AsyncFacts
<1> QED BY <1>1, <1>2, <1>3, PTL DEF AsyncSpec

\* A stored record that nobody is writing has its entry, and loses it only by an
\* asynchronous remove until it is written again, when the program keeps one
\* asynchronous operation open (add, save and remove of index.js).
THEOREM EntriesStay ==
  ASSUME AsyncConstants, IsFiniteSet(Slots), Parallel = 1
  PROVE  AsyncSpec => []IndexedUnlessRemoved
<1>1. AsyncInit => OwedInv
  BY OwedStart
<1>2. OwedInv /\ [AsyncNext]_asyncVars => OwedInv'
  BY OwedStep, OwedStutter
<1>3. OwedInv => IndexedUnlessRemoved
  BY OwedFacts
<1> QED BY <1>1, <1>2, <1>3, PTL DEF AsyncSpec

=============================================================================
