----------------------------- MODULE Collection -----------------------------
(***************************************************************************)
(* A globalsjs collection and its secondary indexes, as several Node       *)
(* processes see them through the synchronous API of index.js.             *)
(*                                                                         *)
(* A collection `foo' is three globals of one GlobalsDB instance:          *)
(*   ^foo                       the last primary key handed out            *)
(*   ^foo(id)                   the record with that key                   *)
(*   ^foo1gdb(prop,value,id)    the index entries                          *)
(*   ^foo5gdb("index",prop)     the names of the indexed properties        *)
(* Every call on the cache connection is atomic; an operation of the API   *)
(* is a sequence of such calls, and calls of other processes fall between  *)
(* them.  A process keeps its own list of indexes (Collection.indexes),    *)
(* read once when the Collection object is built.                          *)
(***************************************************************************)
EXTENDS Naturals, Sequences

CONSTANTS
  Procs,      \* Node processes with a Db of their own on the same database
  Props,      \* property names, numbered in the collation order of subscripts
  Values,     \* property values
  Absent,     \* the value of a property an object does not have
  Missing,    \* the content of a node that does not exist
  MaxId,      \* bound on the primary keys handed out
  Ops,        \* the operations the applications use
  Faults,     \* what may go wrong: "crash", "update" (of a record), "index"
  Forged,     \* __ID values applications write by hand
  Queries,    \* the queries of find: sequences of <<property, value>>
  IndexDefs,  \* the arguments of ensureIndex: sequences of property names
  InitSys,    \* the indexed properties ^foo5gdb names at the start
  Exclusive   \* do applications serialise the writers of one record?

Ids     == 1..MaxId
Objects == [Props -> Values \cup {Absent}]
Entries == Props \X Values \X Ids

ASSUME ConstantsAssumption ==
  /\ MaxId \in Nat \ {0}
  /\ Props \subseteq Nat \ {0}
  /\ Absent \notin Values
  /\ Missing \notin Objects
  /\ Forged \subseteq Ids
  /\ Queries \subseteq Seq(Props \X Values)
  /\ <<>> \in Queries
  /\ IndexDefs \subseteq Seq(Props) \ {<<>>}
  /\ InitSys \subseteq Props
  /\ Exclusive \in BOOLEAN

VARIABLES
  counter,    \* ^foo, 0 when the node is undefined
  data,       \* ^foo(id)
  idx,        \* ^foo1gdb: the set of <<property, value, id>>
  sys,        \* ^foo5gdb("index", ...): the set of property names
  indexes,    \* per process: Collection.indexes, the key lists in order
  call,       \* per process: the API call in progress and its local state
  held        \* keys of the records the applications may hold a copy of

store == <<counter, data, idx, sys>>
vars  == <<counter, data, idx, sys, indexes, call, held>>

-----------------------------------------------------------------------------
(* The database. *)

\* $ORDER: the smallest member of S after c, 0 (the code's '') at the end.
Order(S, c) ==
  IF \E x \in S : x > c
  THEN CHOOSE x \in S : x > c /\ \A y \in S : y > c => x <= y
  ELSE 0

Stored == {i \in Ids : data[i] # Missing}

\* The subscripts below ^foo1gdb(x, v).
IndexIds(x, v) == {i \in Ids : <<x, v, i>> \in idx}

\* What an `update' of a node leaves there: the object, or the object over
\* the properties that were there before.  globalsjs relies on neither.
Merged(old, o) ==
  IF old = Missing THEN o
  ELSE [x \in Props |-> IF o[x] = Absent THEN old[x] ELSE o[x]]

Updated(old, o) == {o, Merged(old, o)}

\* `retrieve' of a node, an object without properties when it is gone.
Retrieved(i) ==
  IF data[i] = Missing THEN [x \in Props |-> Absent] ELSE data[i]

-----------------------------------------------------------------------------
(* The local state of a call.  rows holds the objects of the call by key:  *)
(* the one being written, or those retrieved; ids, the keys a scan found;  *)
(* cursor, the key or the property a loop has reached; j, the inner loop.  *)

NoRows == [i \in Ids |-> Missing]

Idle == [at |-> "idle", op |-> "none", query |-> <<>>, ids |-> {},
         rows |-> NoRows, cursor |-> 0, j |-> 1]

Off == [Idle EXCEPT !.at = "off"]

Writing(op, at, i, o) ==
  [Idle EXCEPT !.op = op, !.at = at, !.cursor = i,
               !.rows = [NoRows EXCEPT ![i] = o]]

RowIds(f) == {i \in Ids : f.rows[i] # Missing}

\* update_index: for each row, for each index of the process.
IndexLoop(f, at, defs) ==
  IF RowIds(f) = {} \/ defs = <<>> THEN Idle
  ELSE [f EXCEPT !.at = at, !.cursor = Order(RowIds(f), 0), !.j = 1]

\* Mutants: the last index is left out; only the first row is done.
NextTurnShort(f, defs) ==
  IF f.j < Len(defs) - 1 THEN [f EXCEPT !.j = @ + 1]
  ELSE IF Order(RowIds(f), f.cursor) = 0 THEN Idle
  ELSE [f EXCEPT !.cursor = Order(RowIds(f), f.cursor), !.j = 1]

NextTurnOneRow(f, defs) ==
  IF f.j < Len(defs) THEN [f EXCEPT !.j = @ + 1] ELSE Idle

NextTurn(f, defs) ==
  IF f.j < Len(defs) THEN [f EXCEPT !.j = @ + 1]
  ELSE IF Order(RowIds(f), f.cursor) = 0 THEN Idle
  ELSE [f EXCEPT !.cursor = Order(RowIds(f), f.cursor), !.j = 1]

\* The property of the turn: the first key of the index, and no other.
TurnProp(f, defs) == Head(defs[f.j])

\* Mutant: the property is not checked to be there.
TurnEntryUnchecked(f, defs) ==
  LET x == TurnProp(f, defs) IN {<<x, f.rows[f.cursor][x], f.cursor>>}

\* The entry of the turn, none when the object lacks the property.
TurnEntry(f, defs) ==
  LET x == TurnProp(f, defs)
      v == f.rows[f.cursor][x]
  IN  IF v = Absent THEN {} ELSE {<<x, v, f.cursor>>}

\* The keys of a query an index is looked for, in order: 0 when there is
\* none.  Any key of an index will do.
IndexedTerm(defs, q) ==
  Order({k \in DOMAIN q : \E d \in DOMAIN defs :
                            \E n \in DOMAIN defs[d] : defs[d][n] = q[k][1]}, 0)

\* The query processor on a plain object query: it pushes the whole query
\* once per property and evaluates the first property of each.
Matches(q, o) == q = <<>> \/ o[q[1][1]] = q[1][2]

Results(f) == {i \in RowIds(f) : Matches(f.query, f.rows[i])}

\* __ID values a client can pass to save and remove.
Keys == held \cup Forged

\* With Exclusive, the application keeps two writers off one record.
MayWrite(p, i) ==
  Exclusive => \A q \in Procs \ {p} :
    call[q].op \in {"add", "save", "remove"} => i \notin RowIds(call[q])

-----------------------------------------------------------------------------
(* The API. *)

Init ==
  /\ counter = 0
  /\ data = NoRows
  /\ idx = {}
  /\ sys = InitSys
  /\ indexes = [p \in Procs |-> <<>>]
  /\ call = [p \in Procs |-> Off]
  /\ held = {}

\* Mutant: the indexes are not read.
OpenUnloaded(p) ==
  /\ "open" \in Ops
  /\ call[p].at \in {"off", "idle"}
  /\ indexes' = [indexes EXCEPT ![p] = <<>>]
  /\ call' = [call EXCEPT ![p] = Idle]
  /\ UNCHANGED <<store, held>>

\* connect and createCollection: a new Collection, also for a name that has
\* one, with the indexes read from ^foo5gdb one $ORDER at a time.
Open(p) ==
  /\ "open" \in Ops
  /\ call[p].at \in {"off", "idle"}
  /\ indexes' = [indexes EXCEPT ![p] = <<>>]
  /\ call' = [call EXCEPT ![p] = [Idle EXCEPT !.op = "open", !.at = "load"]]
  /\ UNCHANGED <<store, held>>

LoadIndex(p) ==
  /\ call[p].at = "load"
  /\ LET x == Order(sys, call[p].cursor) IN
       IF x = 0
       THEN /\ call' = [call EXCEPT ![p] = Idle]
            /\ UNCHANGED indexes
       ELSE /\ call' = [call EXCEPT ![p].cursor = x]
            /\ indexes' = [indexes EXCEPT ![p] = Append(@, <<x>>)]
  /\ UNCHANGED <<store, held>>

\* Mutant: the key is read and not incremented in the same call.
AddIncrementUnstored(p, o) ==
  /\ "add" \in Ops
  /\ call[p].at = "idle"
  /\ counter < MaxId
  /\ call' = [call EXCEPT ![p] = Writing("add", "addUpdate", counter + 1, o)]
  /\ UNCHANGED <<store, indexes, held>>

\* add: the next primary key ...
AddIncrement(p, o) ==
  /\ "add" \in Ops
  /\ call[p].at = "idle"
  /\ counter < MaxId
  /\ counter' = counter + 1
  /\ call' = [call EXCEPT ![p] = Writing("add", "addUpdate", counter + 1, o)]
  /\ UNCHANGED <<data, idx, sys, indexes, held>>

\* ... then the record, which the object's __ID now names ...
AddUpdate(p) ==
  LET i == call[p].cursor IN
  /\ call[p].at = "addUpdate"
  /\ \E o \in Updated(data[i], call[p].rows[i]) :
       data' = [data EXCEPT ![i] = o]
  /\ call' = [call EXCEPT ![p] = IndexLoop(@, "setIndex", indexes[p])]
  /\ held' = held \cup {i}
  /\ UNCHANGED <<counter, idx, sys, indexes>>

\* Mutant: the key is given back.
AddUpdateFailsReturning(p) ==
  /\ "update" \in Faults
  /\ call[p].at = "addUpdate"
  /\ counter' = counter - 1
  /\ call' = [call EXCEPT ![p] = Idle]
  /\ held' = held \cup {call[p].cursor}
  /\ UNCHANGED <<data, idx, sys, indexes>>

\* ... or not: the object has its __ID all the same.
AddUpdateFails(p) ==
  /\ "update" \in Faults
  /\ call[p].at = "addUpdate"
  /\ call' = [call EXCEPT ![p] = Idle]
  /\ held' = held \cup {call[p].cursor}
  /\ UNCHANGED <<store, indexes>>

\* save of an object that has an __ID.  One without goes to add.
Save(p, i, o) ==
  /\ "save" \in Ops
  /\ call[p].at = "idle"
  /\ i \in Keys
  /\ MayWrite(p, i)
  /\ \E n \in Updated(data[i], o) : data' = [data EXCEPT ![i] = n]
  /\ call' = [call EXCEPT ![p] =
                IndexLoop(Writing("save", "setIndex", i, o),
                          "setIndex", indexes[p])]
  /\ UNCHANGED <<counter, idx, sys, indexes, held>>

\* Mutant: the root goes with the record.
RemoveWithRoot(p, i, o) ==
  /\ "remove" \in Ops
  /\ call[p].at = "idle"
  /\ i \in Keys
  /\ MayWrite(p, i)
  /\ counter' = 0
  /\ data' = [data EXCEPT ![i] = Missing]
  /\ call' = [call EXCEPT ![p] =
                IndexLoop(Writing("remove", "killIndex", i, o),
                          "killIndex", indexes[p])]
  /\ UNCHANGED <<idx, sys, indexes, held>>

\* remove(object): the record of its __ID, the entries of its values.
Remove(p, i, o) ==
  /\ "remove" \in Ops
  /\ call[p].at = "idle"
  /\ i \in Keys
  /\ MayWrite(p, i)
  /\ data' = [data EXCEPT ![i] = Missing]
  /\ call' = [call EXCEPT ![p] =
                IndexLoop(Writing("remove", "killIndex", i, o),
                          "killIndex", indexes[p])]
  /\ UNCHANGED <<counter, idx, sys, indexes, held>>

\* remove(): drop_collection kills ^foo, its root included.
RemoveAll(p) ==
  /\ "removeAll" \in Ops
  /\ call[p].at = "idle"
  /\ counter' = 0
  /\ data' = NoRows
  /\ UNCHANGED <<idx, sys, indexes, call, held>>

\* __update_index, one turn of its inner loop; the status of the set and
\* of the kill is dropped.
SetIndex(p) ==
  /\ call[p].at = "setIndex"
  /\ \/ idx' = idx \cup TurnEntry(call[p], indexes[p])
     \/ "index" \in Faults /\ UNCHANGED idx
  /\ call' = [call EXCEPT ![p] = NextTurn(@, indexes[p])]
  /\ UNCHANGED <<counter, data, sys, indexes, held>>

\* Mutant: the node of the value goes with the entry.
KillIndexValue(p) ==
  /\ call[p].at = "killIndex"
  /\ idx' = {e \in idx : \A t \in TurnEntry(call[p], indexes[p]) :
                           <<e[1], e[2]>> # <<t[1], t[2]>>}
  /\ call' = [call EXCEPT ![p] = NextTurn(@, indexes[p])]
  /\ UNCHANGED <<counter, data, sys, indexes, held>>

KillIndex(p) ==
  /\ call[p].at = "killIndex"
  /\ \/ idx' = idx \ TurnEntry(call[p], indexes[p])
     \/ "index" \in Faults /\ UNCHANGED idx
  /\ call' = [call EXCEPT ![p] = NextTurn(@, indexes[p])]
  /\ UNCHANGED <<counter, data, sys, indexes, held>>

\* ensureIndex returns at once when the process has an index on one of the
\* properties; else the list first, then a node of ^foo5gdb per property.
KnownProps(p) ==
  UNION {{indexes[p][d][n] : n \in DOMAIN indexes[p][d]} :
           d \in DOMAIN indexes[p]}

EnsureIndex(p, d) ==
  /\ "ensureIndex" \in Ops
  /\ call[p].at = "idle"
  /\ \A n \in DOMAIN d : d[n] \notin KnownProps(p)
  /\ indexes' = [indexes EXCEPT ![p] = Append(@, d)]
  /\ call' = [call EXCEPT ![p] =
                [Idle EXCEPT !.op = "ensureIndex", !.at = "setSys"]]
  /\ UNCHANGED <<store, held>>

NextProp(f, d) == IF f.j < Len(d) THEN [f EXCEPT !.j = @ + 1] ELSE Idle

SetSys(p) ==
  LET d == indexes[p][Len(indexes[p])] IN
  /\ call[p].at = "setSys"
  /\ sys' = sys \cup {d[call[p].j]}
  /\ call' = [call EXCEPT ![p] = NextProp(@, d)]
  /\ UNCHANGED <<counter, data, idx, indexes, held>>

\* find(query): the scan of an index when there is one for the query.
Find(p, q) ==
  /\ "find" \in Ops
  /\ call[p].at = "idle"
  /\ call' = [call EXCEPT ![p] =
       [Idle EXCEPT !.op = "find", !.query = q,
          !.at = IF IndexedTerm(indexes[p], q) = 0
                 THEN "scan" ELSE "indexScan"]]
  /\ UNCHANGED <<store, indexes, held>>

\* reIndex(): find() and update_index of what it returns.
ReIndex(p) ==
  /\ "reIndex" \in Ops
  /\ call[p].at = "idle"
  /\ call' = [call EXCEPT ![p] = [Idle EXCEPT !.op = "reIndex", !.at = "scan"]]
  /\ UNCHANGED <<store, indexes, held>>

\* One $ORDER of the scan f is in, over the keys S: the next key joins ids;
\* at the end the records are fetched, or the whole collection is scanned
\* when no key was found.
Ordered(f, S) ==
  LET i == Order(S, f.cursor) IN
  IF i # 0 THEN [f EXCEPT !.ids = @ \cup {i}, !.cursor = i]
  ELSE IF f.ids = {} /\ f.at = "indexScan"
       THEN [f EXCEPT !.at = "scan", !.cursor = 0]
       ELSE [f EXCEPT !.at = "fetch", !.cursor = 0]

IndexScan(p) ==
  LET f == call[p]
      t == f.query[IndexedTerm(indexes[p], f.query)] IN
  /\ f.at = "indexScan"
  /\ call' = [call EXCEPT ![p] = Ordered(f, IndexIds(t[1], t[2]))]
  /\ UNCHANGED <<store, indexes, held>>

Scan(p) ==
  /\ call[p].at = "scan"
  /\ call' = [call EXCEPT ![p] = Ordered(call[p], Stored)]
  /\ UNCHANGED <<store, indexes, held>>

Fetch(p) ==
  LET i == Order(call[p].ids, call[p].cursor) IN
  /\ call[p].at = "fetch"
  /\ i # 0
  /\ call' = [call EXCEPT ![p].cursor = i, ![p].rows[i] = Retrieved(i)]
  /\ UNCHANGED <<store, indexes, held>>

\* All are fetched: find returns Results(call[p]), reIndex goes on.
FetchEnd(p) ==
  /\ call[p].at = "fetch"
  /\ Order(call[p].ids, call[p].cursor) = 0
  /\ call' = [call EXCEPT ![p] =
                IF @.op = "find" THEN Idle
                ELSE IndexLoop(@, "setIndex", indexes[p])]
  /\ UNCHANGED <<store, indexes, held>>

\* The process ends, between two calls on its cache connection.
Crash(p) ==
  /\ "crash" \in Faults
  /\ call[p].at # "off"
  /\ call' = [call EXCEPT ![p] = Off]
  /\ indexes' = [indexes EXCEPT ![p] = <<>>]
  /\ UNCHANGED <<store, held>>

Step(p) ==
  \/ Open(p) \/ LoadIndex(p)
  \/ \E o \in Objects : AddIncrement(p, o)
  \/ AddUpdate(p) \/ AddUpdateFails(p)
  \/ \E i \in Ids, o \in Objects : Save(p, i, o) \/ Remove(p, i, o)
  \/ RemoveAll(p)
  \/ SetIndex(p) \/ KillIndex(p)
  \/ \E d \in IndexDefs : EnsureIndex(p, d)
  \/ SetSys(p)
  \/ \E q \in Queries : Find(p, q)
  \/ ReIndex(p) \/ IndexScan(p) \/ Scan(p) \/ Fetch(p) \/ FetchEnd(p)
  \/ Crash(p)

Next == \E p \in Procs : Step(p)

Spec == Init /\ [][Next]_vars

-----------------------------------------------------------------------------
(* Properties. *)

Frames ==
  [at: {"off", "idle", "load", "addUpdate", "setIndex", "killIndex",
        "setSys", "indexScan", "scan", "fetch"},
   op: {"none", "open", "add", "save", "remove", "ensureIndex", "find",
        "reIndex"},
   query: Queries, ids: SUBSET Ids, rows: [Ids -> Objects \cup {Missing}],
   cursor: Nat, j: Nat \ {0}]

\* The type of the globals, of the processes' index lists and of the calls
\* in progress (index.js, the whole synchronous API).
TypeOK ==
  /\ counter \in 0..MaxId
  /\ data \in [Ids -> Objects \cup {Missing}]
  /\ idx \subseteq Entries
  /\ sys \subseteq Props
  /\ indexes \in [Procs -> Seq(Seq(Props) \ {<<>>})]
  /\ call \in [Procs -> Frames]
  /\ held \subseteq Ids

Adding(p) == call[p].at = "addUpdate"

\* The key an add has drawn and not yet used is its own: no record is stored
\* under it and no application knows it (add takes the key from `increment'
\* and writes the record in a later call).
FreshIds ==
  \A p \in Procs : Adding(p) =>
    data[call[p].cursor] = Missing /\ call[p].cursor \notin held

\* No two adds are about to write one record.
OwnKeys ==
  \A p, q \in Procs : Adding(p) /\ Adding(q) /\ p # q =>
    call[p].cursor # call[q].cursor

\* The collection implements the store of records by key: in flight are the
\* keys of the adds, spent the others that `increment' handed out.
Pending(i) == {p \in Procs : Adding(p) /\ call[p].cursor = i}

One(S) == CHOOSE p \in S : TRUE

InFlight ==
  [i \in Ids |-> IF Pending(i) = {} THEN Missing
                 ELSE call[One(Pending(i))].rows[i]]

Spent == {i \in Ids : i <= counter /\ Pending(i) = {}}

Records == INSTANCE RecordStore WITH
  Key <- Ids, Object <- Objects, NoRecord <- Missing,
  rows <- data, pending <- InFlight, spent <- Spent

\* add hands out a key once, stores its object whole, and save and remove
\* touch no record whose add is still in flight, whatever interleaves.
StoresRecords == Records!RSpec

\* The processes between the write of record i and the last of its entries.
Writers(i) ==
  {p \in Procs : call[p].op \in {"add", "save", "remove"}
                 /\ call[p].rows[i] # Missing}

\* A record nobody is writing has the entry of each of its indexed
\* properties: what find reads through an index is not a part of the
\* collection (save, add and remove keep the index in calls of their own).
IndexComplete ==
  \A i \in Stored, x \in sys :
    Writers(i) = {} /\ data[i][x] # Absent => <<x, data[i][x], i>> \in idx

=============================================================================
