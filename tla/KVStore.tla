------------------------------- MODULE KVStore -------------------------------
(***************************************************************************)
(* The three methods of the SOAP service KVStore.Store, each a sequence of *)
(* steps on ^kvstore and its log, called in several processes at a time.   *)
(* Set and Remove lock the key; an error leaves them through SetLockFail,  *)
(* which does not unlock it.  Get takes no lock, and neither it nor the    *)
(* log of a Set catches an error.  The empty key, which no global takes as *)
(* a subscript, is a key at which the first access of it fails.            *)
(***************************************************************************)
EXTENDS Integers, Sequences

CONSTANTS Processes,   \* processes of the server
          Keys, Values,
          Absent,      \* the content of a node that is not there
          MaxLog,      \* bound: entries of the log
          MaxLeft      \* bound: locks a process leaves on one key

VARIABLES kvstore,     \* ^kvstore(Key)
          log,         \* ^kvstore.log(n); nothing reads it
          locks,       \* locks[p][k]: how often p has locked ^kvstore(k)
          proc,        \* the last call of each process: its place, arguments, answer
          left,        \* left[p][k]: locks that calls of p have left (history)
          seen         \* what the key of p's call has held since it began (history)

kvVars == <<kvstore, log, locks, proc, left, seen>>

Ops == {"Get", "Set", "Remove"}
Places == {"idle", "data", "value", "getLog", "setLog", "lock", "change", "unlock"}
Answers == {"none", "OK", "ERROR", "undefined", "fault", "empty", "value"}

KVInit ==
    /\ kvstore = [k \in Keys |-> Absent]
    /\ log = <<>>
    /\ locks = [p \in Processes |-> [k \in Keys |-> 0]]
    /\ left = [p \in Processes |-> [k \in Keys |-> 0]]
    /\ proc \in [Processes -> [at : {"idle"}, op : {"Set"}, key : Keys,
                               value : {Absent}, answer : {"none"}]]
    /\ seen = [p \in Processes |-> {}]

Goes(p, at) == proc' = [proc EXCEPT ![p].at = at]
Answered(p, answer) == proc' = [proc EXCEPT ![p].at = "idle", ![p].answer = answer]

\* A request has come.
Called(p, op, k, v, at) ==
    /\ proc[p].at = "idle"
    /\ proc' = [proc EXCEPT ![p] = [at |-> at, op |-> op, key |-> k, value |-> v,
                                    answer |-> "none"]]
    /\ seen' = [seen EXCEPT ![p] = {kvstore[k]}]
    /\ UNCHANGED <<kvstore, log, locks, left>>

Get(p, k) == Called(p, "Get", k, Absent, "data")
Set(p, k, v) == v # Absent /\ Called(p, "Set", k, v, "setLog")
Remove(p, k) == Called(p, "Remove", k, Absent, "lock")

-----------------------------------------------------------------------------
GetData(p) ==
    /\ proc[p].at = "data"
    /\ IF kvstore[proc[p].key] = Absent THEN Answered(p, "empty") ELSE Goes(p, "value")
    /\ UNCHANGED <<kvstore, log, locks, left, seen>>

\* A key that has been removed since is an error, <UNDEFINED>.
GetValue(p) ==
    /\ proc[p].at = "value"
    /\ LET value == kvstore[proc[p].key] IN
         IF value = Absent THEN Answered(p, "undefined")
         ELSE proc' = [proc EXCEPT ![p].at = "getLog", ![p].value = value]
    /\ UNCHANGED <<kvstore, log, locks, left, seen>>

Logged(p) == /\ Len(log) < MaxLog
             /\ log' = Append(log, <<proc[p].op, proc[p].key, proc[p].value>>)

GetLog(p) == /\ proc[p].at = "getLog"
             /\ Logged(p) /\ Answered(p, "value")
             /\ UNCHANGED <<kvstore, locks, left, seen>>

SetLog(p) == /\ proc[p].at = "setLog"
             /\ Logged(p) /\ Goes(p, "lock")
             /\ UNCHANGED <<kvstore, locks, left, seen>>

\* A lock is waited for without a limit; one's own is no obstacle.
LockFree(p, k) == \A q \in Processes \ {p} : locks[q][k] = 0

\* Mutant: no lock is waited for.
LockFreeAlways(p, k) == TRUE

Lock(p) ==
    /\ proc[p].at = "lock" /\ LockFree(p, proc[p].key)
    /\ locks' = [locks EXCEPT ![p][proc[p].key] = @ + 1]
    /\ Goes(p, "change")
    /\ UNCHANGED <<kvstore, log, left, seen>>

\* Set or Kill of the node: a Remove has Absent for its value.
Change(p) ==
    /\ proc[p].at = "change"
    /\ kvstore' = [kvstore EXCEPT ![proc[p].key] = proc[p].value]
    /\ seen' = [q \in Processes |->
                  IF proc[q].at # "idle" /\ proc[q].key = proc[p].key
                  THEN seen[q] \cup {proc[p].value} ELSE seen[q]]
    /\ Goes(p, "unlock")
    /\ UNCHANGED <<log, locks, left>>

Unlock(p) ==
    /\ proc[p].at = "unlock"
    /\ locks' = [locks EXCEPT ![p][proc[p].key] = @ - 1]
    /\ Answered(p, "OK")
    /\ UNCHANGED <<kvstore, log, left, seen>>

\* An error in one of the three: the rest of the method is not run.
SetLockFail(p) ==
    /\ proc[p].at \in {"lock", "change", "unlock"}
    /\ left[p][proc[p].key] < MaxLeft
    /\ left' = IF proc[p].at = "lock" THEN left
               ELSE [left EXCEPT ![p][proc[p].key] = @ + 1]
    /\ Answered(p, "ERROR")
    /\ UNCHANGED <<kvstore, log, locks, seen>>

\* An error where none is caught: an empty key, a global that fails.
Fault(p) ==
    /\ proc[p].at \in {"data", "value", "getLog", "setLog"}
    /\ Answered(p, "fault")
    /\ UNCHANGED <<kvstore, log, locks, left, seen>>

\* The process ends, and its locks with it.
Halt(p) ==
    /\ locks' = [locks EXCEPT ![p] = [k \in Keys |-> 0]]
    /\ left' = [left EXCEPT ![p] = [k \in Keys |-> 0]]
    /\ Answered(p, "none")
    /\ UNCHANGED <<kvstore, log, seen>>

KVNext == \E p \in Processes :
    \/ \E k \in Keys : Get(p, k) \/ Remove(p, k) \/ \E v \in Values : Set(p, k, v)
    \/ GetData(p) \/ GetValue(p) \/ GetLog(p) \/ SetLog(p) \/ Lock(p) \/ Change(p)
    \/ Unlock(p) \/ SetLockFail(p) \/ Fault(p) \/ Halt(p)

KVSpec == KVInit /\ [][KVNext]_kvVars
-----------------------------------------------------------------------------
Procs == [at : Places, op : Ops, key : Keys, value : Values \cup {Absent},
          answer : Answers]

KVTypeOK ==
    /\ kvstore \in [Keys -> Values \cup {Absent}]
    /\ locks \in [Processes -> [Keys -> Nat]]
    /\ left \in [Processes -> [Keys -> Nat]]
    /\ proc \in [Processes -> Procs]
    /\ seen \in [Processes -> SUBSET (Values \cup {Absent})]

Inside(p, k) == proc[p].at \in {"change", "unlock"} /\ proc[p].key = k

\* Locks are those of calls between Lock +^kvstore and Lock -^kvstore, and those
\* left by SetLockFail; and only one process has locks on a key.
LocksAccounted ==
    \A k \in Keys : \A p \in Processes :
        /\ locks[p][k] = left[p][k] + (IF Inside(p, k) THEN 1 ELSE 0)
        /\ \A q \in Processes : locks[p][k] > 0 /\ locks[q][k] > 0 => p = q

\* What a Set has stored, or a Remove has killed, stays so until its lock is
\* released: the "OK" is true when the method comes to its end.
WriteStands ==
    \A p \in Processes : proc[p].at = "unlock" => kvstore[proc[p].key] = proc[p].value

\* A Get answers with a value that the key had during the call, says that there
\* is none only if there was none, and ends in <UNDEFINED> only if the key was
\* removed meanwhile.
GetTrue ==
    \A p \in Processes : proc[p].at = "idle" /\ proc[p].op = "Get" =>
        /\ proc[p].answer = "value" => proc[p].value \in seen[p] /\ proc[p].value # Absent
        /\ proc[p].answer = "empty" => Absent \in seen[p]
        /\ proc[p].answer = "undefined" => Absent \in seen[p] /\ seen[p] # {Absent}

=============================================================================
