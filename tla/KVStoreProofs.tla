--------------------------- MODULE KVStoreProofs ----------------------------
(***************************************************************************)
(* The safety of the service KVStore.Store, for any number of processes,   *)
(* keys and values.  The inductive invariant adds to the properties of     *)
(* KVStore what a Get has seen at each of its places.                      *)
(***************************************************************************)
EXTENDS KVStore, TLAPS

\* What a process has read, or is about to read, its key has held.
ReadsSeen ==
    \A p \in Processes :
        /\ proc[p].at \in {"data", "value", "getLog"} =>
             proc[p].op = "Get" /\ kvstore[proc[p].key] \in seen[p]
        /\ proc[p].at = "value" => seen[p] # {Absent}
        /\ proc[p].at = "getLog" => proc[p].value \in seen[p] /\ proc[p].value # Absent
        /\ proc[p].at \in {"setLog", "lock", "change", "unlock"} => proc[p].op # "Get"

KVInv == KVTypeOK /\ LocksAccounted /\ WriteStands /\ GetTrue /\ ReadsSeen

\* Only the process of a step changes its place, and nothing else of it unless
\* the step says so.
Becomes(p, at, value, answer) ==
    /\ proc'[p] \in Procs
    /\ proc'[p].at = at /\ proc'[p].value = value /\ proc'[p].answer = answer
    /\ proc'[p].op = proc[p].op /\ proc'[p].key = proc[p].key

Others(p) == \A q \in Processes \ {p} : proc'[q] = proc[q]

LEMMA ProcReplaced ==
  ASSUME NEW p \in Processes, proc \in [Processes -> Procs], NEW r \in Procs,
         proc' = [proc EXCEPT ![p] = r]
  PROVE  proc' \in [Processes -> Procs] /\ proc'[p] = r /\ Others(p)
BY DEF Others

LEMMA GoesMoves ==
  ASSUME NEW p \in Processes, proc \in [Processes -> Procs], NEW at \in Places, Goes(p, at)
  PROVE  /\ proc' \in [Processes -> Procs] /\ Others(p)
         /\ Becomes(p, at, proc[p].value, proc[p].answer)
<1> DEFINE r == [proc[p] EXCEPT !.at = at]
<1>1. proc[p] \in Procs
  OBVIOUS
<1>2. /\ r \in Procs /\ r.at = at /\ r.value = proc[p].value /\ r.answer = proc[p].answer
      /\ r.op = proc[p].op /\ r.key = proc[p].key
  BY <1>1 DEF Procs
<1>3. proc' = [proc EXCEPT ![p] = r]
  BY DEF Goes
<1> HIDE DEF r
<1> QED
  BY <1>2, <1>3, ProcReplaced DEF Becomes

LEMMA AnsweredMoves ==
  ASSUME NEW p \in Processes, proc \in [Processes -> Procs], NEW answer \in Answers,
         Answered(p, answer)
  PROVE  /\ proc' \in [Processes -> Procs] /\ Others(p)
         /\ Becomes(p, "idle", proc[p].value, answer)
<1> DEFINE r == [proc[p] EXCEPT !.at = "idle", !.answer = answer]
<1>1. proc[p] \in Procs
  OBVIOUS
<1>2. /\ r \in Procs /\ r.at = "idle" /\ r.value = proc[p].value /\ r.answer = answer
      /\ r.op = proc[p].op /\ r.key = proc[p].key
  BY <1>1 DEF Procs, Places
<1>3. proc' = [proc EXCEPT ![p] = r]
  BY DEF Answered
<1> HIDE DEF r
<1> QED
  BY <1>2, <1>3, ProcReplaced DEF Becomes

LEMMA ReadMoves ==
  ASSUME NEW p \in Processes, proc \in [Processes -> Procs],
         NEW value \in Values \cup {Absent},
         proc' = [proc EXCEPT ![p].at = "getLog", ![p].value = value]
  PROVE  /\ proc' \in [Processes -> Procs] /\ Others(p)
         /\ Becomes(p, "getLog", value, proc[p].answer)
<1> DEFINE r == [proc[p] EXCEPT !.at = "getLog", !.value = value]
<1>1. proc[p] \in Procs
  OBVIOUS
<1>2. /\ r \in Procs /\ r.at = "getLog" /\ r.value = value /\ r.answer = proc[p].answer
      /\ r.op = proc[p].op /\ r.key = proc[p].key
  BY <1>1 DEF Procs, Places
<1>3. proc' = [proc EXCEPT ![p] = r]
  OBVIOUS
<1> HIDE DEF r
<1> QED
  BY <1>2, <1>3, ProcReplaced DEF Becomes

LEMMA CalledMoves ==
  ASSUME NEW p \in Processes, KVTypeOK, NEW op \in Ops, NEW k \in Keys,
         NEW v \in Values \cup {Absent}, NEW at \in Places, Called(p, op, k, v, at)
  PROVE  /\ proc' \in [Processes -> Procs] /\ Others(p)
         /\ proc'[p] = [at |-> at, op |-> op, key |-> k, value |-> v, answer |-> "none"]
         /\ seen' \in [Processes -> SUBSET (Values \cup {Absent})]
         /\ seen'[p] = {kvstore[k]}
         /\ \A q \in Processes \ {p} : seen'[q] = seen[q]
<1> DEFINE r == [at |-> at, op |-> op, key |-> k, value |-> v, answer |-> "none"]
<1>1. r \in Procs
  BY DEF Procs, Answers
<1>2. proc' = [proc EXCEPT ![p] = r] /\ proc \in [Processes -> Procs]
  BY DEF Called, KVTypeOK
<1>3. /\ seen' \in [Processes -> SUBSET (Values \cup {Absent})]
      /\ seen'[p] = {kvstore[k]}
      /\ \A q \in Processes \ {p} : seen'[q] = seen[q]
  BY DEF Called, KVTypeOK
<1> HIDE DEF r
<1>4. proc' \in [Processes -> Procs] /\ Others(p) /\ proc'[p] = r
  BY <1>1, <1>2, ProcReplaced
<1> QED
  BY <1>3, <1>4 DEF r

\* What the properties say of one process.
AnswerOK(p) ==
    proc[p].at = "idle" /\ proc[p].op = "Get" =>
        /\ proc[p].answer = "value" => proc[p].value \in seen[p] /\ proc[p].value # Absent
        /\ proc[p].answer = "empty" => Absent \in seen[p]
        /\ proc[p].answer = "undefined" => Absent \in seen[p] /\ seen[p] # {Absent}

ReadOK(p) ==
    /\ proc[p].at \in {"data", "value", "getLog"} =>
         proc[p].op = "Get" /\ kvstore[proc[p].key] \in seen[p]
    /\ proc[p].at = "value" => seen[p] # {Absent}
    /\ proc[p].at = "getLog" => proc[p].value \in seen[p] /\ proc[p].value # Absent
    /\ proc[p].at \in {"setLog", "lock", "change", "unlock"} => proc[p].op # "Get"

StandOK(p) == proc[p].at = "unlock" => kvstore[proc[p].key] = proc[p].value

\* A step of p that changes no node leaves what holds of the others.
LEMMA OthersKeep ==
  ASSUME WriteStands, GetTrue, ReadsSeen, NEW p \in Processes, Others(p),
         kvstore' = kvstore, \A q \in Processes \ {p} : seen'[q] = seen[q],
         AnswerOK(p)', ReadOK(p)', StandOK(p)'
  PROVE  WriteStands' /\ GetTrue' /\ ReadsSeen'
<1>1. ASSUME NEW q \in Processes
      PROVE  AnswerOK(q)' /\ ReadOK(q)' /\ StandOK(q)'
  <2>1. CASE q = p
    BY <2>1
  <2>2. CASE q # p
    <3>1. proc'[q] = proc[q] /\ seen'[q] = seen[q]
      BY <2>2 DEF Others
    <3>2. AnswerOK(q) /\ ReadOK(q) /\ StandOK(q)
      BY DEF GetTrue, ReadsSeen, WriteStands, AnswerOK, ReadOK, StandOK
    <3> QED
      BY <3>1, <3>2 DEF AnswerOK, ReadOK, StandOK
  <2> QED
    BY <2>1, <2>2
<1>2. WriteStands'
  BY <1>1 DEF WriteStands, StandOK
<1>3. GetTrue'
  BY <1>1 DEF GetTrue, AnswerOK
<1>4. ReadsSeen'
  BY <1>1 DEF ReadsSeen, ReadOK
<1> QED
  BY <1>2, <1>3, <1>4

\* No lock is taken or released: neither does p come between the two.
LEMMA LocksKeep ==
  ASSUME LocksAccounted, NEW p \in Processes, Others(p), UNCHANGED <<locks, left>>,
         \A k \in Keys : Inside(p, k)' <=> Inside(p, k)
  PROVE  LocksAccounted'
<1>1. \A q \in Processes, k \in Keys : Inside(q, k)' <=> Inside(q, k)
  BY DEF Others, Inside
<1> QED
  BY <1>1 DEF LocksAccounted

LEMMA CalledKeeps ==
  ASSUME KVInv, NEW p \in Processes, NEW op \in Ops, NEW k \in Keys,
         NEW v \in Values \cup {Absent}, NEW at \in {"data", "setLog", "lock"}, 
         op = "Get" <=> at = "data", Called(p, op, k, v, at)
  PROVE  KVInv'
<1>1. KVTypeOK /\ LocksAccounted /\ WriteStands /\ GetTrue /\ ReadsSeen
  BY DEF KVInv
<1>2. /\ proc' \in [Processes -> Procs] /\ Others(p)
      /\ proc'[p] = [at |-> at, op |-> op, key |-> k, value |-> v, answer |-> "none"]
      /\ seen' \in [Processes -> SUBSET (Values \cup {Absent})]
      /\ seen'[p] = {kvstore[k]}
      /\ \A q \in Processes \ {p} : seen'[q] = seen[q]
      /\ proc[p].at = "idle" /\ UNCHANGED <<kvstore, locks, left>>
  BY <1>1, CalledMoves DEF Called, Places, KVTypeOK
<1>3. KVTypeOK'
  BY <1>1, <1>2 DEF KVTypeOK
<1>4. LocksAccounted'
  <2>1. \A q \in Processes, x \in Keys : Inside(q, x)' <=> Inside(q, x)
    BY <1>2 DEF Inside, Others, Becomes
  <2> QED
    BY <1>1, <1>2, <2>1 DEF LocksAccounted
<1>5. AnswerOK(p)' /\ ReadOK(p)' /\ StandOK(p)'
  BY <1>2 DEF AnswerOK, ReadOK, StandOK
<1>6. WriteStands' /\ GetTrue' /\ ReadsSeen'
  BY <1>1, <1>2, <1>5, OthersKeep
<1> QED
  BY <1>3, <1>4, <1>6 DEF KVInv

LEMMA GetDataKeeps ==
  ASSUME KVInv, NEW p \in Processes, GetData(p)
  PROVE  KVInv'
<1>1. KVTypeOK /\ LocksAccounted /\ WriteStands /\ GetTrue /\ ReadsSeen
  BY DEF KVInv
<1>2. /\ proc' \in [Processes -> Procs] /\ Others(p)
      /\ proc[p].at = "data" /\ UNCHANGED <<kvstore, locks, left, seen>>
      /\ \/ kvstore[proc[p].key] = Absent /\ Becomes(p, "idle", proc[p].value, "empty")
         \/ kvstore[proc[p].key] # Absent /\ Becomes(p, "value", proc[p].value, proc[p].answer)
  BY <1>1, GoesMoves, AnsweredMoves DEF GetData, Places, Answers, KVTypeOK
<1>3. KVTypeOK'
  BY <1>1, <1>2 DEF KVTypeOK
<1>4. LocksAccounted'
  <2>1. \A k \in Keys : Inside(p, k)' <=> Inside(p, k)
    BY <1>2 DEF Inside, Becomes
  <2> QED
    BY <1>1, <1>2, <2>1, LocksKeep
<1>5. AnswerOK(p)' /\ ReadOK(p)' /\ StandOK(p)'
  BY <1>1, <1>2 DEF ReadsSeen, WriteStands, Becomes, AnswerOK, ReadOK, StandOK
<1>6. WriteStands' /\ GetTrue' /\ ReadsSeen'
  BY <1>1, <1>2, <1>5, OthersKeep
<1> QED
  BY <1>3, <1>4, <1>6 DEF KVInv

LEMMA GetValueKeeps ==
  ASSUME KVInv, NEW p \in Processes, GetValue(p)
  PROVE  KVInv'
<1>1. KVTypeOK /\ LocksAccounted /\ WriteStands /\ GetTrue /\ ReadsSeen
  BY DEF KVInv
<1>2. /\ proc' \in [Processes -> Procs] /\ Others(p)
      /\ proc[p].at = "value" /\ UNCHANGED <<kvstore, locks, left, seen>>
      /\ \/ kvstore[proc[p].key] = Absent /\ Becomes(p, "idle", proc[p].value, "undefined")
         \/ /\ kvstore[proc[p].key] # Absent
            /\ Becomes(p, "getLog", kvstore[proc[p].key], proc[p].answer)
  <2>1. kvstore[proc[p].key] \in Values \cup {Absent}
    BY <1>1 DEF KVTypeOK, Procs
  <2> QED
    BY <1>1, <2>1, ReadMoves, AnsweredMoves DEF GetValue, Places, Answers, KVTypeOK
<1>3. KVTypeOK'
  BY <1>1, <1>2 DEF KVTypeOK
<1>4. LocksAccounted'
  <2>1. \A k \in Keys : Inside(p, k)' <=> Inside(p, k)
    BY <1>2 DEF Inside, Becomes
  <2> QED
    BY <1>1, <1>2, <2>1, LocksKeep
<1>5. AnswerOK(p)' /\ ReadOK(p)' /\ StandOK(p)'
  BY <1>1, <1>2 DEF ReadsSeen, WriteStands, Becomes, AnswerOK, ReadOK, StandOK
<1>6. WriteStands' /\ GetTrue' /\ ReadsSeen'
  BY <1>1, <1>2, <1>5, OthersKeep
<1> QED
  BY <1>3, <1>4, <1>6 DEF KVInv

LEMMA GetLogKeeps ==
  ASSUME KVInv, NEW p \in Processes, GetLog(p)
  PROVE  KVInv'
<1>1. KVTypeOK /\ LocksAccounted /\ WriteStands /\ GetTrue /\ ReadsSeen
  BY DEF KVInv
<1>2. /\ proc' \in [Processes -> Procs] /\ Others(p)
      /\ proc[p].at = "getLog" /\ UNCHANGED <<kvstore, locks, left, seen>>
      /\ Becomes(p, "idle", proc[p].value, "value")
  BY <1>1, AnsweredMoves DEF GetLog, Answers, KVTypeOK
<1>3. KVTypeOK'
  BY <1>1, <1>2 DEF KVTypeOK
<1>4. LocksAccounted'
  <2>1. \A k \in Keys : Inside(p, k)' <=> Inside(p, k)
    BY <1>2 DEF Inside, Becomes
  <2> QED
    BY <1>1, <1>2, <2>1, LocksKeep
<1>5. AnswerOK(p)' /\ ReadOK(p)' /\ StandOK(p)'
  BY <1>1, <1>2 DEF ReadsSeen, WriteStands, Becomes, AnswerOK, ReadOK, StandOK
<1>6. WriteStands' /\ GetTrue' /\ ReadsSeen'
  BY <1>1, <1>2, <1>5, OthersKeep
<1> QED
  BY <1>3, <1>4, <1>6 DEF KVInv

LEMMA SetLogKeeps ==
  ASSUME KVInv, NEW p \in Processes, SetLog(p)
  PROVE  KVInv'
<1>1. KVTypeOK /\ LocksAccounted /\ WriteStands /\ GetTrue /\ ReadsSeen
  BY DEF KVInv
<1>2. /\ proc' \in [Processes -> Procs] /\ Others(p)
      /\ proc[p].at = "setLog" /\ UNCHANGED <<kvstore, locks, left, seen>>
      /\ Becomes(p, "lock", proc[p].value, proc[p].answer)
  BY <1>1, GoesMoves DEF SetLog, Places, KVTypeOK
<1>3. KVTypeOK'
  BY <1>1, <1>2 DEF KVTypeOK
<1>4. LocksAccounted'
  <2>1. \A k \in Keys : Inside(p, k)' <=> Inside(p, k)
    BY <1>2 DEF Inside, Becomes
  <2> QED
    BY <1>1, <1>2, <2>1, LocksKeep
<1>5. AnswerOK(p)' /\ ReadOK(p)' /\ StandOK(p)'
  BY <1>1, <1>2 DEF ReadsSeen, WriteStands, Becomes, AnswerOK, ReadOK, StandOK
<1>6. WriteStands' /\ GetTrue' /\ ReadsSeen'
  BY <1>1, <1>2, <1>5, OthersKeep
<1> QED
  BY <1>3, <1>4, <1>6 DEF KVInv

LEMMA LockKeeps ==
  ASSUME KVInv, NEW p \in Processes, Lock(p)
  PROVE  KVInv'
<1>1. KVTypeOK /\ LocksAccounted /\ WriteStands /\ GetTrue /\ ReadsSeen
  BY DEF KVInv
<1>2. /\ proc' \in [Processes -> Procs] /\ Others(p)
      /\ proc[p].at = "lock" /\ UNCHANGED <<kvstore, left, seen>>
      /\ Becomes(p, "change", proc[p].value, proc[p].answer)
      /\ \A q \in Processes \ {p} : locks[q][proc[p].key] = 0
      /\ locks' \in [Processes -> [Keys -> Nat]]
      /\ locks'[p][proc[p].key] = locks[p][proc[p].key] + 1
      /\ \A q \in Processes, k \in Keys :
           q # p \/ k # proc[p].key => locks'[q][k] = locks[q][k]
  <2>1. proc[p].key \in Keys
    BY <1>1 DEF KVTypeOK, Procs
  <2> QED
    BY <1>1, <2>1, GoesMoves DEF Lock, LockFree, Places, KVTypeOK
<1>3. KVTypeOK'
  BY <1>1, <1>2 DEF KVTypeOK
<1>4. LocksAccounted'
  BY <1>1, <1>2 DEF KVTypeOK, LocksAccounted, Inside, Others, Becomes
<1>5. AnswerOK(p)' /\ ReadOK(p)' /\ StandOK(p)'
  BY <1>1, <1>2 DEF ReadsSeen, WriteStands, Becomes, AnswerOK, ReadOK, StandOK
<1>6. WriteStands' /\ GetTrue' /\ ReadsSeen'
  BY <1>1, <1>2, <1>5, OthersKeep
<1> QED
  BY <1>3, <1>4, <1>6 DEF KVInv

LEMMA ChangeKeeps ==
  ASSUME KVInv, NEW p \in Processes, Change(p)
  PROVE  KVInv'
<1>1. KVTypeOK /\ LocksAccounted /\ WriteStands /\ GetTrue /\ ReadsSeen
  BY DEF KVInv
<1>2. /\ proc' \in [Processes -> Procs] /\ Others(p)
      /\ proc[p].at = "change" /\ UNCHANGED <<locks, left>>
      /\ Becomes(p, "unlock", proc[p].value, proc[p].answer)
      /\ proc[p].key \in Keys /\ proc[p].value \in Values \cup {Absent}
      /\ kvstore' \in [Keys -> Values \cup {Absent}]
      /\ kvstore'[proc[p].key] = proc[p].value
      /\ \A k \in Keys : k # proc[p].key => kvstore'[k] = kvstore[k]
      /\ seen' \in [Processes -> SUBSET (Values \cup {Absent})]
      /\ \A q \in Processes :
           seen'[q] = IF proc[q].at # "idle" /\ proc[q].key = proc[p].key
                      THEN seen[q] \cup {proc[p].value} ELSE seen[q]
  <2>1. proc[p].key \in Keys /\ proc[p].value \in Values \cup {Absent}
    BY <1>1 DEF KVTypeOK, Procs
  <2> QED
    BY <1>1, <2>1, GoesMoves DEF Change, Places, KVTypeOK
<1>3. KVTypeOK'
  BY <1>1, <1>2 DEF KVTypeOK
<1>4. LocksAccounted'
  <2>1. \A q \in Processes, k \in Keys : Inside(q, k)' <=> Inside(q, k)
    BY <1>2 DEF Inside, Others, Becomes
  <2> QED
    BY <1>1, <1>2, <2>1 DEF LocksAccounted
<1>5. WriteStands'
  <2>1. \A q \in Processes \ {p} : proc[q].at = "unlock" => proc[q].key # proc[p].key
    <3> SUFFICES ASSUME NEW q \in Processes \ {p}, proc[q].at = "unlock",
                        proc[q].key = proc[p].key
                 PROVE  FALSE
      OBVIOUS
    <3>1. Inside(q, proc[p].key) /\ Inside(p, proc[p].key)
      BY <1>2 DEF Inside
    <3>2. locks[q][proc[p].key] > 0 /\ locks[p][proc[p].key] > 0
      BY <1>1, <1>2, <3>1 DEF LocksAccounted, KVTypeOK
    <3> QED
      BY <1>1, <1>2, <3>2 DEF LocksAccounted
  <2>2. proc'[p].at = "unlock" => kvstore'[proc'[p].key] = proc'[p].value
    BY <1>2 DEF Becomes
  <2>3. \A q \in Processes : proc[q].key \in Keys
    BY <1>1 DEF KVTypeOK, Procs
  <2>4. \A q \in Processes \ {p} : proc'[q] = proc[q]
    BY <1>2 DEF Others
  <2> QED
    BY <1>1, <1>2, <2>1, <2>2, <2>3, <2>4 DEF WriteStands
<1>6. GetTrue'
  <2>1. proc'[p].at # "idle"
    BY <1>2 DEF Becomes
  <2>2. \A q \in Processes \ {p} : proc'[q] = proc[q]
    BY <1>2 DEF Others
  <2>3. \A q \in Processes : proc[q].at = "idle" => seen'[q] = seen[q]
    BY <1>2
  <2>4. ASSUME NEW q \in Processes PROVE AnswerOK(q)'
    <3>1. CASE proc'[q].at = "idle"
      <4>1. proc'[q] = proc[q] /\ seen'[q] = seen[q]
        BY <2>1, <2>2, <2>3, <3>1
      <4>2. AnswerOK(q)
        BY <1>1 DEF GetTrue, AnswerOK
      <4> QED
        BY <4>1, <4>2 DEF AnswerOK
    <3>2. CASE proc'[q].at # "idle"
      BY <3>2 DEF AnswerOK
    <3> QED
      BY <3>1, <3>2
  <2> QED
    BY <2>4 DEF GetTrue, AnswerOK
<1>7. ReadsSeen'
  <2>1. ASSUME NEW q \in Processes \ {p}
        PROVE  /\ proc'[q] = proc[q] /\ proc[q].key \in Keys
               /\ seen[q] \subseteq seen'[q]
               /\ proc[q].at # "idle" /\ kvstore[proc[q].key] \in seen[q]
                    => kvstore'[proc[q].key] \in seen'[q]
    <3>1. proc'[q] = proc[q] /\ proc[q].key \in Keys
      BY <1>1, <1>2 DEF Others, KVTypeOK, Procs
    <3>2. seen[q] \subseteq seen'[q]
      BY <1>2
    <3>3. CASE proc[q].key = proc[p].key
      BY <1>2, <3>1, <3>2, <3>3
    <3>4. CASE proc[q].key # proc[p].key
      <4>1. kvstore'[proc[q].key] = kvstore[proc[q].key]
        BY <1>2, <3>1, <3>4
      <4> QED
        BY <3>1, <3>2, <4>1
    <3> QED
      BY <3>3, <3>4
  <2>2. ASSUME NEW q \in Processes \ {p}, proc[q].at = "value" PROVE seen'[q] # {Absent}
    <3>1. kvstore[proc[q].key] \in seen[q] /\ seen[q] # {Absent} /\ seen[q] \subseteq seen'[q]
      BY <1>1, <2>1, <2>2 DEF ReadsSeen
    <3>2. PICK x \in seen[q] : x # Absent
      BY <3>1
    <3> QED
      BY <3>1, <3>2
  <2>3. ASSUME NEW q \in Processes \ {p}
        PROVE  /\ proc'[q].at \in {"data", "value", "getLog"} =>
                    proc'[q].op = "Get" /\ kvstore'[proc'[q].key] \in seen'[q]
               /\ proc'[q].at = "value" => seen'[q] # {Absent}
               /\ proc'[q].at = "getLog" => proc'[q].value \in seen'[q] /\ proc'[q].value # Absent
               /\ proc'[q].at \in {"setLog", "lock", "change", "unlock"} => proc'[q].op # "Get"
    BY <1>1, <2>1, <2>2 DEF ReadsSeen
  <2>4. proc'[p].at = "unlock" /\ proc'[p].op # "Get"
    BY <1>1, <1>2 DEF Becomes, ReadsSeen
  <2> QED
    BY <2>3, <2>4 DEF ReadsSeen
<1> QED
  BY <1>3, <1>4, <1>5, <1>6, <1>7 DEF KVInv

LEMMA UnlockKeeps ==
  ASSUME KVInv, NEW p \in Processes, Unlock(p)
  PROVE  KVInv'
<1>1. KVTypeOK /\ LocksAccounted /\ WriteStands /\ GetTrue /\ ReadsSeen
  BY DEF KVInv
<1>2. /\ proc' \in [Processes -> Procs] /\ Others(p)
      /\ proc[p].at = "unlock" /\ UNCHANGED <<kvstore, left, seen>>
      /\ Becomes(p, "idle", proc[p].value, "OK")
      /\ locks' \in [Processes -> [Keys -> Nat]]
      /\ locks'[p][proc[p].key] = locks[p][proc[p].key] - 1
      /\ \A q \in Processes, k \in Keys :
           q # p \/ k # proc[p].key => locks'[q][k] = locks[q][k]
  <2>1. proc[p].key \in Keys /\ locks[p][proc[p].key] - 1 \in Nat
    BY <1>1 DEF KVTypeOK, Procs, LocksAccounted, Inside, Unlock
  <2> QED
    BY <1>1, <2>1, AnsweredMoves DEF Unlock, Answers, KVTypeOK
<1>3. KVTypeOK'
  BY <1>1, <1>2 DEF KVTypeOK
<1>4. LocksAccounted'
  <2>1. /\ \A q \in Processes \ {p}, k \in Keys : Inside(q, k)' <=> Inside(q, k)
        /\ \A k \in Keys : ~Inside(p, k)'
        /\ \A k \in Keys : Inside(p, k) <=> k = proc[p].key
    BY <1>2 DEF Inside, Others, Becomes
  <2>2. ASSUME NEW q \in Processes, NEW k \in Keys
        PROVE  /\ locks'[q][k] = left'[q][k] + (IF Inside(q, k)' THEN 1 ELSE 0)
               /\ locks'[q][k] > 0 => locks[q][k] > 0
    <3>1. /\ locks[q][k] = left[q][k] + (IF Inside(q, k) THEN 1 ELSE 0)
          /\ left'[q][k] = left[q][k] /\ left[q][k] \in Nat /\ locks[q][k] \in Nat
      BY <1>1, <1>2 DEF LocksAccounted, KVTypeOK
    <3>2. CASE q = p /\ k = proc[p].key
      <4>1. Inside(q, k) /\ ~Inside(q, k)'
        BY <2>1, <3>2
      <4>2. locks'[q][k] = locks[q][k] - 1 /\ locks[q][k] = left[q][k] + 1
        BY <1>2, <3>1, <3>2, <4>1
      <4>3. locks'[q][k] = left'[q][k]
        BY <3>1, <4>2
      <4> QED
        BY <3>1, <4>1, <4>2, <4>3
    <3>3. CASE ~(q = p /\ k = proc[p].key)
      <4>1. locks'[q][k] = locks[q][k] /\ (Inside(q, k)' <=> Inside(q, k))
        BY <1>2, <2>1, <3>3
      <4>2. (IF Inside(q, k)' THEN 1 ELSE 0) = (IF Inside(q, k) THEN 1 ELSE 0)
        BY <4>1
      <4> HIDE DEF Inside
      <4> QED
        BY <3>1, <4>1, <4>2
    <3> QED
      BY <3>2, <3>3
  <2>3. \A k \in Keys : \A q, r \in Processes : locks'[q][k] > 0 /\ locks'[r][k] > 0 => q = r
    BY <1>1, <2>2 DEF LocksAccounted
  <2> QED
    BY <2>2, <2>3 DEF LocksAccounted
<1>5. AnswerOK(p)' /\ ReadOK(p)' /\ StandOK(p)'
  BY <1>1, <1>2 DEF ReadsSeen, WriteStands, Becomes, AnswerOK, ReadOK, StandOK
<1>6. WriteStands' /\ GetTrue' /\ ReadsSeen'
  BY <1>1, <1>2, <1>5, OthersKeep
<1> QED
  BY <1>3, <1>4, <1>6 DEF KVInv

LEMMA FaultKeeps ==
  ASSUME KVInv, NEW p \in Processes, Fault(p)
  PROVE  KVInv'
<1>1. KVTypeOK /\ LocksAccounted /\ WriteStands /\ GetTrue /\ ReadsSeen
  BY DEF KVInv
<1>2. /\ proc' \in [Processes -> Procs] /\ Others(p)
      /\ proc[p].at \in {"data", "value", "getLog", "setLog"}
      /\ UNCHANGED <<kvstore, locks, left, seen>>
      /\ Becomes(p, "idle", proc[p].value, "fault")
  BY <1>1, AnsweredMoves DEF Fault, Answers, KVTypeOK
<1>3. KVTypeOK'
  BY <1>1, <1>2 DEF KVTypeOK
<1>4. LocksAccounted'
  <2>1. \A k \in Keys : Inside(p, k)' <=> Inside(p, k)
    BY <1>2 DEF Inside, Becomes
  <2> QED
    BY <1>1, <1>2, <2>1, LocksKeep
<1>5. AnswerOK(p)' /\ ReadOK(p)' /\ StandOK(p)'
  BY <1>1, <1>2 DEF ReadsSeen, WriteStands, Becomes, AnswerOK, ReadOK, StandOK
<1>6. WriteStands' /\ GetTrue' /\ ReadsSeen'
  BY <1>1, <1>2, <1>5, OthersKeep
<1> QED
  BY <1>3, <1>4, <1>6 DEF KVInv

LEMMA SetLockFailKeeps ==
  ASSUME KVInv, NEW p \in Processes, SetLockFail(p)
  PROVE  KVInv'
<1>1. KVTypeOK /\ LocksAccounted /\ WriteStands /\ GetTrue /\ ReadsSeen
  BY DEF KVInv
<1>2. /\ proc' \in [Processes -> Procs] /\ Others(p)
      /\ proc[p].at \in {"lock", "change", "unlock"} /\ UNCHANGED <<kvstore, locks, seen>>
      /\ Becomes(p, "idle", proc[p].value, "ERROR")
      /\ left' \in [Processes -> [Keys -> Nat]]
      /\ left'[p][proc[p].key] = left[p][proc[p].key] + (IF proc[p].at = "lock" THEN 0 ELSE 1)
      /\ \A q \in Processes, k \in Keys :
           q # p \/ k # proc[p].key => left'[q][k] = left[q][k]
  <2>1. proc[p].key \in Keys
    BY <1>1 DEF KVTypeOK, Procs
  <2> QED
    BY <1>1, <2>1, AnsweredMoves DEF SetLockFail, Answers, KVTypeOK
<1>3. KVTypeOK'
  BY <1>1, <1>2 DEF KVTypeOK
<1>4. LocksAccounted'
  BY <1>1, <1>2 DEF KVTypeOK, LocksAccounted, Inside, Others, Becomes
<1>5. AnswerOK(p)' /\ ReadOK(p)' /\ StandOK(p)'
  BY <1>1, <1>2 DEF ReadsSeen, WriteStands, Becomes, AnswerOK, ReadOK, StandOK
<1>6. WriteStands' /\ GetTrue' /\ ReadsSeen'
  BY <1>1, <1>2, <1>5, OthersKeep
<1> QED
  BY <1>3, <1>4, <1>6 DEF KVInv

LEMMA HaltKeeps ==
  ASSUME KVInv, NEW p \in Processes, Halt(p)
  PROVE  KVInv'
<1>1. KVTypeOK /\ LocksAccounted /\ WriteStands /\ GetTrue /\ ReadsSeen
  BY DEF KVInv
<1>2. /\ proc' \in [Processes -> Procs] /\ Others(p)
      /\ UNCHANGED <<kvstore, seen>>
      /\ Becomes(p, "idle", proc[p].value, "none")
      /\ locks' \in [Processes -> [Keys -> Nat]] /\ left' \in [Processes -> [Keys -> Nat]]
      /\ \A k \in Keys : locks'[p][k] = 0 /\ left'[p][k] = 0
      /\ \A q \in Processes, k \in Keys :
           q # p => locks'[q][k] = locks[q][k] /\ left'[q][k] = left[q][k]
  BY <1>1, AnsweredMoves DEF Halt, Answers, KVTypeOK
<1>3. KVTypeOK'
  BY <1>1, <1>2 DEF KVTypeOK
<1>4. LocksAccounted'
  <2>1. \A k \in Keys : ~Inside(p, k)'
    BY <1>2 DEF Inside, Becomes
  <2>2. \A q \in Processes \ {p}, k \in Keys : Inside(q, k)' <=> Inside(q, k)
    BY <1>2 DEF Inside, Others
  <2>3. \A k \in Keys : \A q \in Processes :
          locks'[q][k] = left'[q][k] + (IF Inside(q, k)' THEN 1 ELSE 0)
    BY <1>1, <1>2, <2>1, <2>2 DEF LocksAccounted
  <2>4. \A k \in Keys : \A q, r \in Processes : locks'[q][k] > 0 /\ locks'[r][k] > 0 => q = r
    <3>1. \A k \in Keys, q \in Processes : locks'[q][k] > 0 => locks[q][k] > 0
      BY <1>2
    <3> QED
      BY <1>1, <3>1 DEF LocksAccounted
  <2> QED
    BY <2>3, <2>4 DEF LocksAccounted
<1>5. AnswerOK(p)' /\ ReadOK(p)' /\ StandOK(p)'
  BY <1>1, <1>2 DEF ReadsSeen, WriteStands, Becomes, AnswerOK, ReadOK, StandOK
<1>6. WriteStands' /\ GetTrue' /\ ReadsSeen'
  BY <1>1, <1>2, <1>5, OthersKeep
<1> QED
  BY <1>3, <1>4, <1>6 DEF KVInv

LEMMA InvStep == KVInv /\ [KVNext]_kvVars => KVInv'
<1> SUFFICES ASSUME KVInv, [KVNext]_kvVars PROVE KVInv'
  OBVIOUS
<1>1. ASSUME NEW p \in Processes, NEW k \in Keys, Get(p, k) \/ Remove(p, k) PROVE KVInv'
  BY <1>1, CalledKeeps DEF Get, Remove, Ops
<1>2. ASSUME NEW p \in Processes, NEW k \in Keys, NEW v \in Values, Set(p, k, v) PROVE KVInv'
  BY <1>2, CalledKeeps DEF Set, Ops
<1>3. CASE UNCHANGED kvVars
  <2>1. UNCHANGED <<kvstore, locks, proc, left, seen>>
    BY <1>3 DEF kvVars
  <2>2. KVTypeOK' /\ WriteStands'
    BY <2>1 DEF KVInv, KVTypeOK, WriteStands
  <2>3. LocksAccounted'
    BY <2>1 DEF KVInv, LocksAccounted, Inside
  <2>4. GetTrue' /\ ReadsSeen'
    BY <2>1 DEF KVInv, GetTrue, ReadsSeen
  <2> QED
    BY <2>2, <2>3, <2>4 DEF KVInv
<1> QED
  BY <1>1, <1>2, <1>3, GetDataKeeps, GetValueKeeps, GetLogKeeps, SetLogKeeps, LockKeeps,
     ChangeKeeps, UnlockKeeps, SetLockFailKeeps, FaultKeeps, HaltKeeps DEF KVNext

LEMMA InvInit == KVInit => KVInv
<1> SUFFICES ASSUME KVInit PROVE KVInv
  OBVIOUS
<1>1. KVTypeOK
  BY DEF KVInit, KVTypeOK, Procs, Places, Ops, Answers
<1>2. \A p \in Processes : proc[p].at = "idle" /\ proc[p].op = "Set"
  BY DEF KVInit
<1> QED
  BY <1>1, <1>2 DEF KVInit, KVInv, LocksAccounted, Inside, WriteStands, GetTrue, ReadsSeen

\* The service keeps the types of its state and its locks' account, a change
\* stands until its lock is released, and a Get answers with what was there,
\* for any number of processes, keys and values.
THEOREM StoreIsSound == KVSpec => [](KVTypeOK /\ LocksAccounted /\ WriteStands /\ GetTrue)
<1>1. KVInv => KVTypeOK /\ LocksAccounted /\ WriteStands /\ GetTrue
  BY DEF KVInv
<1> QED
  BY <1>1, InvInit, InvStep, PTL DEF KVSpec

=============================================================================
