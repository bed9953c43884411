------------------------------ MODULE MCIndex -------------------------------
(***************************************************************************)
(* Two instances of the collection for TLC, of the same keys, properties   *)
(* and values: processes that know the indexes and do not write one record *)
(* at once; and one process that makes the indexes, as in README.md, when  *)
(* there may be records already.  They share no state, and each behaviour  *)
(* is one of the instance that `part` names.                               *)
(***************************************************************************)
EXTENDS MCCollection

VARIABLES part,
          counter1, data1, idx1, sys1, indexes1, call1, held1, calm1, excused1

Owner == INSTANCE CollectionHistory WITH
           Procs <- {p1}, InitSys <- {}, Queries <- NoQuery,
           Ops <- {"open", "add", "save", "remove", "ensureIndex", "reIndex"},
           IndexDefs <- TwoIndexDefs,
           counter <- counter1, data <- data1, idx <- idx1, sys <- sys1,
           indexes <- indexes1, call <- call1, held <- held1,
           calm <- calm1, excused <- excused1

ownerVars == <<counter1, data1, idx1, sys1, indexes1, call1, held1, calm1, excused1>>

IndexInit == part \in {"writers", "owner"} /\ HInit /\ Owner!HInit

IndexNext == /\ UNCHANGED part
             /\ IF part = "writers" THEN HNext ELSE UNCHANGED hvars
             /\ IF part = "owner" THEN Owner!HNext ELSE UNCHANGED ownerVars

IndexSpec == IndexInit /\ [][IndexNext]_<<part, hvars, ownerVars>>
-----------------------------------------------------------------------------
\* With one process, a record written after ensureIndex named its property has
\* its entry, and a reIndex does not undo that (README.md: "further writes to the
\* cars collection will have the index on 'model' updated accordingly").
OwnerIndexed == Owner!FurtherWritesIndexed

=============================================================================
