---------------------------- MODULE RecordStore -----------------------------
(***************************************************************************)
(* What a collection promises about its primary keys: an object that is    *)
(* added gets a key of its own, is stored under it whole, and only records *)
(* whose key was spent by an add are overwritten or removed.               *)
(***************************************************************************)
CONSTANTS Key, Object, NoRecord

VARIABLES
  rows,      \* the records by key
  pending,   \* by key: the object of the add that has drawn the key
  spent      \* the keys whose add is over, never to be drawn again

rvars == <<rows, pending, spent>>

RInit ==
  /\ rows = [k \in Key |-> NoRecord]
  /\ pending = [k \in Key |-> NoRecord]
  /\ spent = {}

Draw(k, o) ==
  /\ pending[k] = NoRecord
  /\ k \notin spent
  /\ pending' = [pending EXCEPT ![k] = o]
  /\ UNCHANGED <<rows, spent>>

Spend(k) ==
  /\ pending[k] # NoRecord
  /\ pending' = [pending EXCEPT ![k] = NoRecord]
  /\ spent' = spent \cup {k}

Insert(k) ==
  /\ rows[k] = NoRecord
  /\ rows' = [rows EXCEPT ![k] = pending[k]]
  /\ Spend(k)

\* The add fails, or its process ends: the key is lost.
Fail(k) == Spend(k) /\ UNCHANGED rows

Replace(k, o) ==
  /\ k \in spent
  /\ rows' = [rows EXCEPT ![k] = o]
  /\ UNCHANGED <<pending, spent>>

Delete(k) == Replace(k, NoRecord)

RNext ==
  \E k \in Key :
    \/ Insert(k) \/ Fail(k) \/ Delete(k)
    \/ \E o \in Object : Draw(k, o) \/ Replace(k, o)

RSpec == RInit /\ [][RNext]_rvars

=============================================================================
