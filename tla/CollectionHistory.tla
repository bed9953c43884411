------------------------- MODULE CollectionHistory --------------------------
(***************************************************************************)
(* The collection with two history variables, which record what the        *)
(* promises of find, reIndex and ensureIndex are about and no step reads.  *)
(***************************************************************************)
EXTENDS Collection

VARIABLES
  calm,      \* per process: the records no one has written since its find
             \* or reIndex began
  excused    \* <<property, id>>: records written before the index was made

hvars == <<vars, calm, excused>>

Reading(f) == f.op \in {"find", "reIndex"}

Changed == {i \in Ids : data'[i] # data[i]}

\* A call that begins starts from the stored records nobody is writing.
WatchCalls ==
  calm' = [p \in Procs |->
    IF ~Reading(call'[p]) THEN {}
    ELSE IF Reading(call[p]) THEN calm[p] \ Changed
    ELSE {i \in Stored : Writers(i) = {}}]

\* A new index excuses what is stored or being written when ^foo5gdb gets its
\* name; a write that changes the property in the record ends that.
WatchIndexes ==
  excused' =
    {e \in excused : \/ data'[e[2]] = Missing
                     \/ /\ data[e[2]] # Missing
                        /\ data'[e[2]][e[1]] = data[e[2]][e[1]]}
      \cup {<<x, i>> : x \in sys' \ sys,
                       i \in {k \in Ids : k \in Stored \/ Writers(k) # {}}}

HInit == Init /\ calm = [p \in Procs |-> {}] /\ excused = {}

HNext == Next /\ WatchCalls /\ WatchIndexes

HSpec == HInit /\ [][HNext]_hvars

-----------------------------------------------------------------------------

\* The call of p ends with this step, and not because the process does.
Ends(p, op) == call[p].op = op /\ call'[p].at = "idle"

MatchesAll(q, o) == \A k \in DOMAIN q : o[q[k][1]] = q[k][2]

\* A find returns every record that has the values it asks for from its
\* first call to its last, whatever the other processes write meanwhile and
\* whichever index it goes through (find: keys first, records later).
FindSeesStable ==
  [][\A p \in Procs : Ends(p, "find") =>
       \A i \in calm[p] : MatchesAll(call[p].query, data[i]) =>
                            i \in Results(call[p])]_hvars

\* A reIndex leaves an entry for each record that stays as it is while it
\* runs, under each index the process knows, whatever was missing before
\* (README: "to fully populate the index").
ReIndexRepairs ==
  [][\A p \in Procs : Ends(p, "reIndex") =>
       \A i \in calm[p], d \in DOMAIN indexes[p] :
         LET x == Head(indexes[p][d]) IN
         data[i][x] # Absent => <<x, data[i][x], i>> \in idx']_hvars

\* A record written after ensureIndex named its property has its entry
\* (README: "further writes to the cars collection will have the index on
\* 'model' updated accordingly").
FurtherWritesIndexed ==
  \A i \in Stored, x \in sys :
    Writers(i) = {} /\ data[i][x] # Absent /\ <<x, i>> \notin excused
      => <<x, data[i][x], i>> \in idx

=============================================================================
