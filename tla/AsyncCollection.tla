-------------------------- MODULE AsyncCollection ---------------------------
(***************************************************************************)
(* A collection through the asynchronous API of index.js, in one process   *)
(* with one cache connection. A call on the connection with a callback is  *)
(* issued, executed by another thread and delivered later; what the code   *)
(* does next it does from the callback. Calls without a callback run in    *)
(* the main thread, one after the other, and the executions fall between   *)
(* them. An object has one property, which has an index; its value is the  *)
(* record. An exception ends the callback or the call it is thrown in, and *)
(* the process goes on: Db catches it (index.js:945).                      *)
(***************************************************************************)
EXTENDS Integers, Sequences, SequencesExt, FiniteSets

CONSTANTS Slots,      \* asynchronous operations started, a bound
          MaxKey,     \* bound on the primary keys
          Vals,       \* the values of the indexed property
          Nothing,    \* what a node that is not there holds
          All,        \* the query of every object
          Other,      \* a query on a property that has no index
          Operator,   \* a query by an operator, true of every value ({ $nq : ... })
          Parallel    \* how many asynchronous operations may be open at once

RecIds == 1 .. MaxKey

VARIABLES rec,      \* ^foo(id)
          ent,      \* ^foo1gdb(prop,value,id), pairs of value and id
          lastKey,  \* ^foo
          known,    \* does Collection.indexes hold the index?
          conn,     \* is the cache connection open?
          op,       \* op[s]: an asynchronous operation
          main,     \* a synchronous operation between two calls
          stable,   \* stable[s]: the matching records that have not changed since the find began (history)
          lost      \* entries killed by an asynchronous remove and not written since (history)
asyncVars == <<rec, ent, lastKey, known, conn, op, main, stable, lost>>

NoOp == [kind |-> "none", at |-> "none", done |-> FALSE, err |-> FALSE,
         id |-> 0, val |-> Nothing, res |-> Nothing, seen |-> <<>>]
Free == [at |-> "free", id |-> 0, val |-> Nothing]

AsyncInit ==
    /\ rec = [i \in RecIds |-> Nothing]
    /\ ent = {}
    /\ lastKey = 0
    /\ known \in BOOLEAN
    /\ conn = "open"
    /\ op = [s \in Slots |-> NoOp]
    /\ main = Free
    /\ stable = [s \in Slots |-> {}]
    /\ lost = {}

Calls == {"order", "retrieve", "update", "kill", "killSystem", "killIndex", "drop"}
OpenOps == {s \in Slots : op[s].at \in Calls}
Matching(q, i) == rec[i] # Nothing /\ q \in {All, rec[i]}

\* Records a find still has to deliver: found by the index, they have an entry.
Due(f) == IF f.kind = "findIndex" THEN {i \in RecIds : rec'[i] = f.val /\ <<f.val, i>> \in ent'}
          ELSE {i \in RecIds : rec'[i] # Nothing /\ f.val \in {All, rec'[i]}}
Watch == stable' = [s \in Slots |->
    IF op'[s].kind \notin {"find", "findIndex"} THEN {}
    ELSE IF op[s].kind = "none" THEN Due(op'[s])
    ELSE IF op[s].at \in Calls
         THEN {i \in stable[s] : rec'[i] = rec[i] /\ (<<rec[i], i>> \in ent => <<rec[i], i>> \in ent')}
    ELSE stable[s]]

JsReady == main = Free

-----------------------------------------------------------------------------
(* Operations started by the program *)

Begin(s, kind, at, i, v) ==
    /\ JsReady
    /\ op[s].kind = "none"
    /\ Cardinality(OpenOps) < Parallel
    /\ op' = [op EXCEPT ![s] = [NoOp EXCEPT !.kind = kind, !.at = at, !.id = i, !.val = v]]
    /\ UNCHANGED <<rec, ent, known, conn, main, lost>>

\* find: through the index when the query is not empty and the collection has
\* one, whichever property the query names and however; else the whole collection.
FindAsync(s, q) ==
    /\ Begin(s, IF q # All /\ known THEN "findIndex" ELSE "find", "order", 0, q)
    /\ UNCHANGED lastKey

\* add: the key is drawn by a synchronous call; without a connection the branch
\* that reports the error throws one (there is no "error"), and nothing is begun.
AddAsync(s, v) ==
    /\ conn = "open" /\ lastKey < MaxKey
    /\ Begin(s, "write", "update", lastKey + 1, v)
    /\ lastKey' = lastKey + 1

SaveAsync(s, i, v)  == i =< lastKey /\ Begin(s, "write", "update", i, v) /\ UNCHANGED lastKey
RemoveAsync(s, i)   == i =< lastKey /\ Begin(s, "remove", "kill", i, Nothing) /\ UNCHANGED lastKey
DropAsync(s)        == Begin(s, "drop", "drop", 0, Nothing) /\ UNCHANGED lastKey

-----------------------------------------------------------------------------
(* The calls on the connection, executed by another thread *)

\* Mutant: the next key is looked for behind the one that follows.
NextOfSkipping(S, c) == IF \E i \in S : i > c + 1
                        THEN CHOOSE i \in S : i > c + 1 /\ \A j \in S : j > c + 1 => i =< j
                        ELSE 0

NextOf(S, c) == IF \E i \in S : i > c
                THEN CHOOSE i \in S : i > c /\ \A j \in S : j > c => i =< j
                ELSE 0

Subscripts(f) == IF f.kind = "findIndex" THEN {i \in RecIds : <<f.val, i>> \in ent}
                 ELSE {i \in RecIds : rec[i] # Nothing}

\* The answer is kept until it is delivered. A closed connection and a
\* reference without a global fail; so may an update, and a reference one of
\* whose subscripts is an object; no entry has such a subscript.
Answer(s, err, res) ==
    op' = [op EXCEPT ![s].done = TRUE, ![s].err = err, ![s].res = res]

Execute(s) ==
    /\ op[s].at \in Calls /\ ~op[s].done
    /\ LET f == op[s]
           fails == conn = "closed" \/ (f.kind = "findIndex" /\ f.val = Other)
       IN \/ /\ fails \/ f.at = "update" \/ (f.kind = "findIndex" /\ f.val = Operator)
             /\ Answer(s, TRUE, Nothing)
             /\ UNCHANGED <<rec, ent, lastKey, lost>>
          \/ /\ ~fails
             /\ Answer(s, FALSE, CASE f.at = "order" -> NextOf(Subscripts(f), f.id)
                                   [] f.at = "retrieve" -> rec[f.id]
                                   [] OTHER -> Nothing)
             /\ rec' = CASE f.at = "update" -> [rec EXCEPT ![f.id] = f.val]
                         [] f.at = "kill"   -> [rec EXCEPT ![f.id] = Nothing]
                         [] f.at = "drop"   -> [i \in RecIds |-> Nothing]
                         [] OTHER           -> rec
             /\ lastKey' = IF f.at = "drop" THEN 0 ELSE lastKey
             /\ ent' = IF f.at = "killIndex" THEN {} ELSE ent
             /\ lost' = IF f.at = "killIndex" THEN lost \cup ent ELSE lost
    /\ UNCHANGED <<known, conn, main>>

-----------------------------------------------------------------------------
(* The callbacks *)

Issue(s, at, i) == op' = [op EXCEPT ![s].at = at, ![s].id = i, ![s].done = FALSE]
Ended(s, at)    == op' = [op EXCEPT ![s].at = at, ![s].done = FALSE]

Delivered(s) == JsReady /\ op[s].at \in Calls /\ op[s].done

\* spin_find and spin_find_index: the next key, which is read; the end of the
\* records is told to nobody.
OrderFound(s) ==
    /\ Delivered(s) /\ op[s].at = "order" /\ ~op[s].err
    /\ op[s].res # 0
    /\ Issue(s, "retrieve", op[s].res)
    /\ UNCHANGED <<rec, ent, lastKey, known, conn, main, lost>>

OrderEnded(s) ==
    /\ Delivered(s) /\ op[s].at = "order" /\ ~op[s].err
    /\ op[s].res = 0
    /\ Ended(s, "ended")
    /\ conn' = IF op[s].kind = "findIndex" THEN "closed" ELSE conn
    /\ UNCHANGED <<rec, ent, lastKey, known, main, lost>>

\* The callback of the program gets what the index led to, or the record if its
\* value is == to that of the query; the next call goes on from there.
RetrievedMatches(f) == f.kind = "findIndex" \/ f.val \in {All, f.res}

Retrieved(s) ==
    /\ Delivered(s) /\ op[s].at = "retrieve" /\ ~op[s].err
    /\ op' = [op EXCEPT ![s].at = "order", ![s].done = FALSE,
                        ![s].seen = IF RetrievedMatches(op[s]) THEN Append(@, op[s].id) ELSE @]
    /\ UNCHANGED <<rec, ent, lastKey, known, conn, main, lost>>

\* Only $ORDER of an index tells the program of its error; the others read the
\* answer all the same, which throws.
FindFailed(s) ==
    /\ Delivered(s) /\ op[s].kind \in {"find", "findIndex"} /\ op[s].err
    /\ Ended(s, "failed")
    /\ UNCHANGED <<rec, ent, lastKey, known, conn, main, lost>>

\* update_index for one object: an entry for its value, nothing taken away.
UpdateIndex(i, v) ==
    IF known /\ conn = "open"
    THEN ent' = ent \cup {<<v, i>>} /\ lost' = lost \ {<<v, i>>}
    ELSE UNCHANGED <<ent, lost>>

\* The callback of add and save writes the index, also after an error.
Updated(s) ==
    /\ Delivered(s) /\ op[s].at = "update"
    /\ UpdateIndex(op[s].id, op[s].val)
    /\ Ended(s, "ended")
    /\ UNCHANGED <<rec, lastKey, known, conn, main>>

\* remove of one object: its node, then the system global and then the index
\* of the whole collection, each from the callback of the one before.
Removed(s) ==
    /\ Delivered(s) /\ op[s].at \in {"kill", "killSystem", "killIndex", "drop"}
    /\ IF op[s].at \in {"kill", "killSystem"}
       THEN Issue(s, IF op[s].at = "kill" THEN "killSystem" ELSE "killIndex", op[s].id)
       ELSE Ended(s, "ended")
    /\ UNCHANGED <<rec, ent, lastKey, known, conn, main, lost>>

-----------------------------------------------------------------------------
(* Synchronous save and remove of one object *)

SyncStart(at, i, v) ==
    /\ JsReady /\ conn = "open" /\ i =< lastKey
    /\ rec' = [rec EXCEPT ![i] = IF at = "save" THEN v ELSE Nothing]
    /\ main' = [at |-> at, id |-> i, val |-> v]
    /\ UNCHANGED <<ent, lastKey, known, conn, op, lost>>

\* Mutant: remove kills the entries of all objects with that value.
SyncIndexValue ==
    /\ main # Free
    /\ IF main.at = "save" THEN UpdateIndex(main.id, main.val)
       ELSE /\ ent' = IF known THEN {e \in ent : e[1] # main.val} ELSE ent
            /\ UNCHANGED lost
    /\ main' = Free
    /\ UNCHANGED <<rec, lastKey, known, conn, op>>

SyncIndex ==
    /\ main # Free
    /\ IF main.at = "save" THEN UpdateIndex(main.id, main.val)
       ELSE /\ ent' = IF known THEN ent \ {<<main.val, main.id>>} ELSE ent
            /\ UNCHANGED lost
    /\ main' = Free
    /\ UNCHANGED <<rec, lastKey, known, conn, op>>

AsyncNext ==
    /\ \/ \E s \in Slots :
            \/ \E q \in Vals \cup {All, Other, Operator} : FindAsync(s, q)
            \/ \E v \in Vals : AddAsync(s, v) \/ \E i \in RecIds : SaveAsync(s, i, v)
            \/ \E i \in RecIds : RemoveAsync(s, i)
            \/ DropAsync(s) \/ Execute(s)
            \/ OrderFound(s) \/ OrderEnded(s) \/ Retrieved(s) \/ FindFailed(s)
            \/ Updated(s) \/ Removed(s)
       \/ \E at \in {"save", "remove"}, i \in RecIds, v \in Vals : SyncStart(at, i, v)
       \/ SyncIndex
    /\ Watch

AsyncSpec == AsyncInit /\ [][AsyncNext]_asyncVars
-----------------------------------------------------------------------------
(* Properties *)

\* Types of the state of the collection and of its operations.
AsyncTypeOK ==
    /\ rec \in [RecIds -> Vals \cup {Nothing}]
    /\ ent \subseteq Vals \X RecIds
    /\ lastKey \in 0 .. MaxKey
    /\ known \in BOOLEAN /\ conn \in {"open", "closed"}
    /\ op \in [Slots -> [kind: {"none", "find", "findIndex", "write", "remove", "drop"},
                         at: Calls \cup {"none", "ended", "failed"},
                         done: BOOLEAN, err: BOOLEAN, id: 0 .. MaxKey,
                         val: Vals \cup {Nothing, All, Other, Operator},
                         res: Vals \cup {Nothing} \cup 0 .. MaxKey, seen: Seq(RecIds)]]
    /\ main \in [at: {"free", "save", "remove"}, id: 0 .. MaxKey, val: Vals \cup {Nothing}]
    /\ stable \in [Slots -> SUBSET RecIds]
    /\ lost \subseteq Vals \X RecIds

\* A find by a value, or of everything, that came to its end has delivered every
\* record that matched all along, whatever was added, saved and removed between
\* two of its callbacks (spin_find and spin_find_index go on from the last key).
FindDelivers ==
    \A s \in Slots : op[s].at = "ended" => stable[s] \subseteq ToSet(op[s].seen)

\* ... and no record twice: the keys it delivers increase.
DeliversOnce ==
    \A s \in Slots : \A j, k \in DOMAIN op[s].seen : j < k => op[s].seen[j] < op[s].seen[k]

Writing(i) == main.id = i \/ \E s \in Slots : op[s].at = "update" /\ op[s].id = i

\* A find by an operator, or by a property that no record has, delivers nothing
\* (index.js:116 compares the query's operator object with the value, and the
\* index has no such entry), whatever the others write meanwhile.
NothingByOperators ==
    \A s \in Slots : op[s].val \in {Operator, Other} => op[s].seen = <<>>

\* README.md:49 has a find with a callback and an operator: every record that
\* such a find has read and that fulfils the query is given to the callback.
ReadIsDelivered ==
    \A s \in Slots : LET f == op[s] IN
      /\ f.kind \in {"find", "findIndex"} /\ f.at = "order" /\ ~f.done
      /\ f.id # 0 /\ f.res # Nothing /\ f.val \in {All, Operator, f.res}
      => f.id \in ToSet(f.seen)

\* A stored record nobody is writing has its entry, and loses it only by the
\* asynchronous remove of some object, until it is written again.
IndexedUnlessRemoved ==
    \A i \in RecIds :
        known /\ rec[i] # Nothing /\ ~Writing(i) => <<rec[i], i>> \in ent \cup lost

=============================================================================
