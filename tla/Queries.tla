------------------------------- MODULE Queries -------------------------------
(***************************************************************************)
(* query.js: a query object becomes a stack of conditions and joiners,     *)
(* which execute runs over the rows of a set of data.  A condition is      *)
(* evaluated by writing it down as JavaScript, and an exception ends the   *)
(* call.  A query object is the sequence of its properties.  Words hold no *)
(* quotation mark, name no variable and sort behind the numbers.           *)
(***************************************************************************)
EXTENDS Integers, Sequences, SequencesExt

CONSTANTS Conditions,   \* Condition(prop, op, value)s of the queries
          Few,          \* those used in queries of two properties
          Rows,         \* the rows a set of data may have, functions of properties
          MaxJoined,    \* bound: conditions of a joiner
          MaxRows       \* bound: rows of a set of data

Number(n) == [kind |-> "number", n |-> n]   \* or a string that reads as one
Word(n)   == [kind |-> "word", n |-> n]     \* any other string
Blank     == [kind |-> "blank", n |-> 0]    \* the empty string

Condition(prop, op, value)  == [prop |-> prop, op |-> op, value |-> value]
Joined(joiners, lists, array) == [prop : joiners, list : lists, array : {array}]

VARIABLES query,     \* the object given to Query
          stack,     \* query_stack
          data,      \* data_set
          row,       \* rows gone through
          results,   \* the numbers of the rows pushed
          stage      \* "start", "made", "rows", "done", "thrown"

queryVars == <<query, stack, data, row, results, stage>>

QueryInit == /\ query = <<>> /\ stack = <<>> /\ data = <<>> /\ results = <<>>
             /\ row = 0 /\ stage = "start"

Lists(S, n) == UNION {[1 .. k -> S] : k \in 0 .. n}

Objects ==
    {<<p>> : p \in Conditions
                   \cup Joined({"$and", "$or", "$not"}, Lists(Conditions, MaxJoined), TRUE)
                   \cup Joined({"$or"}, {<<c>> : c \in Few}, FALSE)}
    \cup LET P == Few \cup Joined({"$and", "$or"}, {<<c>> : c \in Few}, TRUE)
         IN {q \in P \X P : q[1].prop # q[2].prop}
-----------------------------------------------------------------------------
(* new Query(query) *)

IsJoiner(p) == "list" \in DOMAIN p
Joiner(name) == [join |-> CASE name = "$and" -> "&&" [] name = "$or" -> "||"
                            [] OTHER -> "undefined"]

\* A plain property pushes the whole query, of which only the first property is
\* read; a joiner pushes its conditions, then itself.
Pushed(q, p) == IF IsJoiner(p) THEN Append(p.list, Joiner(p.prop)) ELSE <<q[1]>>

\* What a joiner that has no array should push is misspelt, an exception.
NewQuery(q) ==
    /\ stage = "start"
    /\ query' = q
    /\ stack' = FlattenSeq([k \in DOMAIN q |-> Pushed(q, q[k])])
    /\ stage' = IF \E k \in DOMAIN q : IsJoiner(q[k]) /\ ~q[k].array
                THEN "thrown" ELSE "made"
    /\ UNCHANGED <<data, row, results>>

-----------------------------------------------------------------------------
(* Expression.evaluate *)

Rank(v) == CASE v.kind = "blank" -> 0 [] v.kind = "number" -> 1 [] v.kind = "word" -> 2
Less(x, y) == Rank(x) < Rank(y) \/ (Rank(x) = Rank(y) /\ x.n < y.n)

\* The value is in quotes or not, as the cell is; outside of them a word is no
\* variable, nothing is no operand, and an unknown operator is no operator.
Throws(cell, c) ==
    \/ c.op \notin {"implicit", "$eq", "$nq", "$lt", "$lte", "$gt", "$gte"}
    \/ cell.kind = "blank"
    \/ cell.kind = "number" /\ c.value.kind # "number"

Evaluate(cell, c) == CASE c.op \in {"implicit", "$eq"} -> cell = c.value
                       [] c.op = "$nq"  -> cell # c.value
                       [] c.op = "$lt"  -> Less(cell, c.value)
                       [] c.op = "$lte" -> ~Less(c.value, cell)
                       [] c.op = "$gt"  -> Less(c.value, cell)
                       [] c.op = "$gte" -> ~Less(cell, c.value)

-----------------------------------------------------------------------------
(* execute *)

\* Nothing joined is neither true nor false, and no reason to add the row.
Holds(join, evals) ==
    IF join = "&&" THEN evals # <<>> /\ \A k \in DOMAIN evals : evals[k]
    ELSE \E k \in DOMAIN evals : evals[k]

Lacks(r, prop) == prop \notin DOMAIN r

\* One element of the stack. The results so far are not given up at a joiner.
Step(s, e, r) ==
    IF s.thrown THEN s
    ELSE IF "join" \in DOMAIN e
         THEN IF e.join = "undefined" THEN [s EXCEPT !.thrown = TRUE]
              ELSE [s EXCEPT !.hit = TRUE, !.adds = @ + (IF Holds(e.join, s.evals) THEN 1 ELSE 0)]
    ELSE IF Lacks(r, e.prop) THEN s
    ELSE IF Throws(r[e.prop], e) THEN [s EXCEPT !.thrown = TRUE]
    ELSE [s EXCEPT !.evals = Append(@, Evaluate(r[e.prop], e))]

\* How often the row is added; without a joiner the first result decides.
RunStack(r) ==
    LET s == FoldLeft(LAMBDA a, e : Step(a, e, r),
                      [evals |-> <<>>, hit |-> FALSE, adds |-> 0, thrown |-> FALSE], stack)
    IN IF ~s.hit /\ s.evals # <<>> /\ s.evals[1] THEN [s EXCEPT !.adds = 1] ELSE s

Execute(d) ==
    /\ stage = "made"
    /\ data' = d
    /\ stage' = "rows"
    /\ UNCHANGED <<query, stack, row, results>>

\* Mutant: a row is added when any element of the stack is true.
ExecuteRowAny ==
    LET s == RunStack(data[row + 1]) IN
      /\ stage = "rows" /\ row < Len(data) /\ ~s.thrown
      /\ row' = row + 1
      /\ results' = IF \E k \in DOMAIN s.evals : s.evals[k] THEN Append(results, row') ELSE results
      /\ UNCHANGED <<query, stack, data, stage>>

ExecuteRow ==
    LET s == RunStack(data[row + 1]) IN
      /\ stage = "rows" /\ row < Len(data) /\ ~s.thrown
      /\ row' = row + 1
      /\ results' = results \o [k \in 1 .. s.adds |-> row']
      /\ UNCHANGED <<query, stack, data, stage>>

ExecuteThrows ==
    /\ stage = "rows" /\ row < Len(data) /\ RunStack(data[row + 1]).thrown
    /\ stage' = "thrown"
    /\ UNCHANGED <<query, stack, data, row, results>>

ExecuteReturns ==
    /\ stage = "rows" /\ row = Len(data)
    /\ stage' = "done"
    /\ UNCHANGED <<query, stack, data, row, results>>

QueryNext ==
    \/ \E q \in Objects : NewQuery(q)
    \/ \E d \in Lists(Rows, MaxRows) : Execute(d)
    \/ ExecuteRow \/ ExecuteThrows \/ ExecuteReturns

QuerySpec == QueryInit /\ [][QueryNext]_queryVars
-----------------------------------------------------------------------------
(* Properties *)

QueryTypeOK ==
    /\ stage \in {"start", "made", "rows", "done", "thrown"}
    /\ row \in 0 .. Len(data)
    /\ \A k \in DOMAIN results : results[k] \in 1 .. row

\* The queries of README.md: one property, a condition or $and or $or.
Asked == IF IsJoiner(query[1]) THEN Range(query[1].list) ELSE {query[1]}
Documented == Len(query) = 1 /\ query[1].prop # "$not"

Fits(r, c)    == ~Lacks(r, c.prop) /\ ~Throws(r[c.prop], c)
Matches(r, c) == ~Lacks(r, c.prop) /\ Evaluate(r[c.prop], c)

Answers(r) == IF query[1].prop = "$and" THEN \A c \in Asked : Matches(r, c)
              ELSE \E c \in Asked : Matches(r, c)

\* A documented query answers with the rows that match it, in their order and
\* each once, and fails only at a value it cannot be compared with.  (A row
\* that lacks a property of an $and matches if its others do; for such a row
\* nothing is claimed.)
QueryAnswers ==
    /\ (stage = "done" /\ Documented /\ Asked # {}) =>
         /\ \A k \in 1 .. Len(results) - 1 : results[k] < results[k + 1]
         /\ \A n \in DOMAIN data :
              (query[1].prop = "$and" => \A c \in Asked : ~Lacks(data[n], c.prop))
              => (n \in Range(results) <=> Answers(data[n]))
    /\ (stage = "thrown" /\ Documented /\ data # <<>>) =>
         \E c \in Asked : ~Lacks(data[row + 1], c.prop) /\ ~Fits(data[row + 1], c)

=============================================================================
