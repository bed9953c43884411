------------------------------ MODULE MCService ------------------------------
(***************************************************************************)
(* One instance for TLC of the parts of globalsjs that answer requests:    *)
(* the asynchronous API of a collection, the queue of SQL class requests,  *)
(* the key-value service and the query processor.  They share no state     *)
(* here (ensureSQL is synchronous and reads no index, the service has a    *)
(* global of its own, a query runs over rows it is given), and each        *)
(* behaviour is one of the part that `part` names.                         *)
(***************************************************************************)
EXTENDS SqlQueue

CONSTANTS Slots, MaxKey, Vals, Nothing, All, Other, Operator, Parallel,  \* AsyncCollection
          Processes, Keys, MaxLog, MaxLeft,                    \* KVStore
          MaxJoined, MaxRows                                   \* Queries

VARIABLES part,
          rec, ent, lastKey, known, conn, op, main, stable, lost,
          kvstore, log, locks, proc, left, seen,
          query, stack, data, row, results, stage

A == INSTANCE AsyncCollection
K == INSTANCE KVStore WITH Values <- Vals, Absent <- Nothing

\* Numbers below, at and above one another, a word and the empty string, in rows
\* that have one property or both.
Number(n)  == [kind |-> "number", n |-> n]
Word       == [kind |-> "word", n |-> 1]
Blank      == [kind |-> "blank", n |-> 0]
OnA(o, v) == [prop |-> "a", op |-> o, value |-> v]
OnB        == [prop |-> "b", op |-> "$gt", value |-> Number(1)]
Operators  == {"implicit", "$eq", "$nq", "$lt", "$lte", "$gt", "$gte", "$neq"}

Compared == {OnA(o, Number(2)) : o \in Operators}
            \cup {OnA("$eq", Word), OnA("$lt", Blank), OnB}
Paired   == {OnA("$gte", Number(2)), OnB}
Tables   == {[a |-> v, b |-> Number(2)] : v \in {Number(1), Number(2), Word}}
            \cup {[a |-> Number(2), b |-> Number(1)],
                  [a |-> Blank], [a |-> Number(2)], [b |-> Number(2)]}

Q == INSTANCE Queries WITH Conditions <- Compared, Few <- Paired, Rows <- Tables

aVars == <<rec, ent, lastKey, known, conn, op, main, stable, lost>>
kVars == <<kvstore, log, locks, proc, left, seen>>
qVars == <<query, stack, data, row, results, stage>>
vars == <<part, sqlVars, aVars, kVars, qVars>>

Init == /\ part \in {"queue", "async", "store", "query"}
        /\ SqlInit /\ A!AsyncInit /\ K!KVInit /\ Q!QueryInit
        /\ part # "async" => known
        /\ part # "queue" => enabled

Next == /\ UNCHANGED part
        /\ IF part = "queue" THEN SqlNext ELSE UNCHANGED sqlVars
        /\ IF part = "async" THEN A!AsyncNext ELSE UNCHANGED aVars
        /\ IF part = "store" THEN K!KVNext ELSE UNCHANGED kVars
        /\ IF part = "query" THEN Q!QueryNext ELSE UNCHANGED qVars

Spec == Init /\ [][Next]_vars /\ WF_sqlVars(part = "queue" /\ DeamonStep)
-----------------------------------------------------------------------------
\* Types of the state of each part.
TypesOK == SqlTypeOK /\ A!AsyncTypeOK /\ K!KVTypeOK /\ Q!QueryTypeOK

\* What a caller is told is so.  A find with a callback by a value, or of
\* everything, that came to its end has delivered every record that matched all
\* along, and none twice, whatever was added, saved and removed between two of its
\* callbacks; one by an operator delivers nothing; Get returns what the key held
\* during the call; a query (find without a callback) returns the rows that match.
AnswersTrue ==
    /\ part = "async" => A!FindDelivers /\ A!DeliversOnce /\ A!NothingByOperators
    /\ part = "store" => K!GetTrue
    /\ part = "query" => Q!QueryAnswers

\* What was stored stays.  A stored record nobody is writing has its entry in
\* the index, and loses it only by the asynchronous remove of some object, until
\* it is written again; what Set has stored is there when it says "OK"; and a
\* key is locked by a call at work on it or by one that failed there, no other.
StoredStays ==
    /\ part = "async" => A!IndexedUnlessRemoved
    /\ part = "store" => K!WriteStands /\ K!LocksAccounted

\* README.md:49: a find with a callback and an operator gives the records that
\* fulfil the query to the callback.
OperatorsDeliver == part = "async" => A!ReadIsDelivered

=============================================================================
