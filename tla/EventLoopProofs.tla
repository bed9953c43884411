--------------------------- MODULE EventLoopProofs ---------------------------
(***************************************************************************)
(* The parts of the runtime around its event loop.  Of the thread pool:    *)
(* each request is in one place at a time, the references of the loop are  *)
(* those of what goes on, and what nextTick was given is what has run and  *)
(* what waits.  Of the resolver: where the answer of a query is.           *)
(***************************************************************************)
EXTENDS MCEventLoop, FiniteSetTheorems, TLAPS

Once(s) == \A i, j \in DOMAIN s : s[i] = s[j] => i = j

\* A request waits, is executed, has a result or an answer: one of them.
InOnePlace ==
  /\ Once(reqs) /\ Once(ress) /\ Once(answered)
  /\ Elems(reqs) \cap running = {} /\ Elems(reqs) \cap Elems(ress) = {}
  /\ Elems(reqs) \cap Elems(answered) = {} /\ running \cap Elems(ress) = {}
  /\ running \cap Elems(answered) = {} /\ Elems(ress) \cap Elems(answered) = {}

\* The types, without what the count of the references shows.
PoolTypes ==
  /\ reqs \in Seq(Work) /\ ress \in Seq(Work) /\ answered \in Seq(Work)
  /\ running \subseteq Work /\ IsFiniteSet(running)
  /\ started \in BOOLEAN /\ want \in BOOLEAN /\ done \in BOOLEAN /\ poller \in BOOLEAN
  /\ socket \in BOOLEAN
  /\ needTick \in BOOLEAN /\ spinner \in BOOLEAN

MainTypes ==
  main \in [at: {"loop", "poll", "js", "tick", "exited", "killed"},
            via: {"none", "want", "done", "idle"}, left: 0 .. MaxPoll, last: Nat,
            from: {"loop", "poll", "tick"}]

\* The loop is kept by the other handle, the idle watcher, the spinner, and each
\* request that is not answered.
Unanswered == Cardinality(running) + Len(reqs) + Len(ress)
RefsCounted == refs = B(socket) + B(poller) + B(spinner) + Unanswered

\* Before the first request nothing of the pool is active.
StartedFirst ==
  ~started => /\ reqs = <<>> /\ running = {} /\ ~want /\ ~done /\ ~poller
              /\ main.at # "poll" /\ main.from # "poll"

\* The main thread is within _tickCallback.
InTick == main.at = "tick" \/ (main.at = "js" /\ main.from = "tick")

\* Whatever waits will be come to: by the _tickCallback that runs, or the next.
TicksDue ==
  /\ main.at = "tick" => main.from = "tick"
  /\ InTick => /\ tickIndex \in 0 .. main.last /\ main.last \in 0 .. Len(ticks)
               /\ Len(ticks) > main.last => needTick
  /\ ~InTick /\ main.at # "killed" => (ticks # <<>> => needTick)
  /\ main.at = "exited" => refs = 0
  /\ needTick => spinner

\* What nextTick was given is what has run and then what waits.
RanThenWaiting ==
  /\ ticks \in Seq(Ticks) /\ asked \in Seq(Ticks) /\ ran \in Seq(Ticks)
  /\ tickIndex \in 0 .. Len(ticks)
  /\ Len(asked) = Len(ran) + Len(ticks) - tickIndex
  /\ \A i \in 1 .. Len(ran) : asked[i] = ran[i]
  /\ \A i \in tickIndex + 1 .. Len(ticks) : asked[Len(ran) + i - tickIndex] = ticks[i]

PoolInv == PoolTypes /\ InOnePlace /\ StartedFirst
TickInv == MainTypes /\ RefsCounted /\ TicksDue /\ RanThenWaiting
LoopInv == PoolInv /\ TickInv

-----------------------------------------------------------------------------
(* Sequences *)

LEMMA AppendIs ==
  ASSUME NEW S, NEW s \in Seq(S), NEW x \in S
  PROVE  /\ Append(s, x) \in Seq(S) /\ Len(Append(s, x)) = Len(s) + 1
         /\ Append(s, x)[Len(s) + 1] = x
         /\ \A i \in 1 .. Len(s) : Append(s, x)[i] = s[i]
         /\ Elems(Append(s, x)) = Elems(s) \cup {x}
         /\ Once(s) /\ x \notin Elems(s) => Once(Append(s, x))
<1> DEFINE t == Append(s, x)
<1>1. /\ t \in Seq(S) /\ Len(t) = Len(s) + 1 /\ t[Len(s) + 1] = x /\ Len(s) \in Nat
      /\ \A i \in 1 .. Len(s) : t[i] = s[i]
      /\ DOMAIN s = 1 .. Len(s) /\ DOMAIN t = 1 .. Len(s) + 1
  OBVIOUS
<1> HIDE DEF t
<1>2. Elems(t) = Elems(s) \cup {x}
  BY <1>1 DEF Elems
<1>3. Once(s) /\ x \notin Elems(s) => Once(t)
  BY <1>1 DEF Elems, Once
<1> QED BY <1>1, <1>2, <1>3 DEF t

LEMMA TailIs ==
  ASSUME NEW S, NEW s \in Seq(S), s # <<>>
  PROVE  /\ Tail(s) \in Seq(S) /\ Len(Tail(s)) = Len(s) - 1 /\ Len(s) \in Nat \ {0}
         /\ Head(s) \in S /\ Head(s) \in Elems(s)
         /\ Elems(s) = Elems(Tail(s)) \cup {Head(s)}
         /\ Once(s) => Once(Tail(s)) /\ Head(s) \notin Elems(Tail(s))
<1> DEFINE t == Tail(s)
           h == Head(s)
<1>1. /\ t \in Seq(S) /\ Len(t) = Len(s) - 1 /\ Len(s) \in Nat \ {0} /\ h = s[1] /\ h \in S
      /\ \A i \in 1 .. Len(s) - 1 : t[i] = s[i + 1]
      /\ DOMAIN s = 1 .. Len(s) /\ DOMAIN t = 1 .. Len(s) - 1
  OBVIOUS
<1> HIDE DEF t, h
<1>2. Elems(s) = Elems(t) \cup {h}
  <2>1. ASSUME NEW i \in DOMAIN s, i # 1
        PROVE  i - 1 \in DOMAIN t /\ s[i] = t[i - 1]
    <3>1. i - 1 \in 1 .. Len(s) - 1 /\ (i - 1) + 1 = i
      BY <1>1, <2>1
    <3> QED BY <1>1, <3>1
  <2>2. \A i \in DOMAIN t : i + 1 \in DOMAIN s /\ s[i + 1] = t[i]
    BY <1>1
  <2>3. 1 \in DOMAIN s
    BY <1>1
  <2> QED BY <1>1, <2>1, <2>2, <2>3 DEF Elems
<1>3. Once(s) => Once(t) /\ h \notin Elems(t)
  <2> SUFFICES ASSUME Once(s)
               PROVE  Once(t) /\ h \notin Elems(t)
    OBVIOUS
  <2>1. \A i \in DOMAIN t : i \in Nat /\ i + 1 \in DOMAIN s /\ s[i + 1] = t[i] /\ i + 1 # 1
    BY <1>1
  <2>2. Once(t)
    BY <2>1 DEF Once
  <2>3. 1 \in DOMAIN s
    BY <1>1
  <2> QED BY <1>1, <2>1, <2>2, <2>3 DEF Once, Elems
<1>4. h \in Elems(s)
  BY <1>2
<1> QED BY <1>1, <1>2, <1>3, <1>4 DEF t, h

LEMMA EmptyIs ==
  ASSUME NEW s, NEW S, s \in Seq(S)
  PROVE  /\ Len(s) \in Nat /\ (s = <<>> <=> Len(s) = 0)
         /\ Elems(s) \subseteq S
<1>1. s \in [1 .. Len(s) -> S] /\ DOMAIN s = 1 .. Len(s) /\ Len(s) \in Nat
  OBVIOUS
<1> QED BY <1>1 DEF Elems

LEMMA RestIs ==
  ASSUME NEW S, NEW s \in Seq(S), NEW k \in 0 .. Len(s)
  PROVE  LET t == SubSeq(s, k + 1, Len(s))
         IN  t \in Seq(S) /\ Len(t) = Len(s) - k /\ \A i \in 1 .. Len(s) - k : t[i] = s[k + i]
<1> DEFINE t == SubSeq(s, k + 1, Len(s))
<1>1. Len(s) \in Nat /\ k \in Nat /\ k =< Len(s)
  OBVIOUS
<1>2. t \in Seq(S) /\ Len(t) = Len(s) - k
  BY <1>1
<1>3. \A i \in 1 .. Len(s) - k : t[i] = s[(k + 1) + i - 1] /\ (k + 1) + i - 1 = k + i
  BY <1>1
<1> QED BY <1>2, <1>3

LEMMA NoElems == Elems(<<>>) = {} /\ Once(<<>>)
BY DEF Elems, Once

LEMMA Counts ==
  /\ B(TRUE) = 1 /\ B(FALSE) = 0
  /\ \A b \in BOOLEAN : B(b) \in Nat /\ B(b) + B(~b) = 1 /\ (B(b) = 0 <=> ~b)
BY DEF B

-----------------------------------------------------------------------------
(* The main thread and the types *)

LEMMA MainIs ==
  ASSUME MainTypes
  PROVE  /\ \A a \in {"loop", "poll", "js", "tick", "exited", "killed"} :
              [main EXCEPT !.at = a].at = a /\ [main EXCEPT !.at = a].from = main.from
              /\ [main EXCEPT !.at = a].last = main.last
              /\ [main EXCEPT !.at = a] \in
                   [at: {"loop", "poll", "js", "tick", "exited", "killed"},
                    via: {"none", "want", "done", "idle"}, left: 0 .. MaxPoll, last: Nat,
                    from: {"loop", "poll", "tick"}]
BY DEF MainTypes

\* What becomes of the main thread when it leaves the loop, and comes back.
LEMMA StartedAt ==
  /\ \A via \in {"want", "done", "idle"} :
       Poll(via) => main'.at = "poll" /\ main'.from = "loop" /\ MainTypes'
  /\ main' = AtLoop => main'.at = "loop" /\ main'.from = "loop" /\ MainTypes'
  /\ main' = [AtLoop EXCEPT !.at = "js"] => main'.at = "js" /\ main'.from = "loop" /\ MainTypes'
  /\ \A n \in Nat :
       main' = [AtLoop EXCEPT !.at = "tick", !.last = n, !.from = "tick"] =>
         main'.at = "tick" /\ main'.last = n /\ main'.from = "tick" /\ MainTypes'
<1>1. 0 \in 0 .. MaxPoll /\ MaxPoll \in 0 .. MaxPoll /\ 0 \in Nat
  BY PoolAssumption
<1>2. ASSUME NEW via \in {"want", "done", "idle"}, Poll(via)
      PROVE  main'.at = "poll" /\ main'.from = "loop" /\ MainTypes'
  BY <1>1, <1>2 DEF Poll, AtLoop, MainTypes
<1>3. ASSUME main' = AtLoop
      PROVE  main'.at = "loop" /\ main'.from = "loop" /\ MainTypes'
  BY <1>1, <1>3 DEF AtLoop, MainTypes
<1>4. ASSUME main' = [AtLoop EXCEPT !.at = "js"]
      PROVE  main'.at = "js" /\ main'.from = "loop" /\ MainTypes'
  BY <1>1, <1>4 DEF AtLoop, MainTypes
<1>5. ASSUME NEW n \in Nat, main' = [AtLoop EXCEPT !.at = "tick", !.last = n, !.from = "tick"]
      PROVE  main'.at = "tick" /\ main'.last = n /\ main'.from = "tick" /\ MainTypes'
  BY <1>1, <1>5 DEF AtLoop, MainTypes
<1> QED BY <1>2, <1>3, <1>4, <1>5

LEMMA Counted ==
  ASSUME PoolTypes, RefsCounted
  PROVE  /\ Len(reqs) \in Nat /\ Len(ress) \in Nat /\ Cardinality(running) \in Nat
         /\ Unanswered \in Nat
         /\ refs \in Nat /\ B(socket) \in Nat /\ B(poller) \in Nat /\ B(spinner) \in Nat
         /\ refs = 0 => ~socket /\ ~poller /\ ~spinner /\ running = {} /\ reqs = <<>> /\ ress = <<>>
<1>1. /\ Len(reqs) \in Nat /\ (reqs = <<>> <=> Len(reqs) = 0)
      /\ Len(ress) \in Nat /\ (ress = <<>> <=> Len(ress) = 0)
  BY EmptyIs DEF PoolTypes
<1>2. Cardinality(running) \in Nat /\ (Cardinality(running) = 0 <=> running = {})
  BY FS_CardinalityType, FS_EmptySet DEF PoolTypes
<1>3. /\ B(socket) \in Nat /\ (B(socket) = 0 <=> ~socket)
      /\ B(poller) \in Nat /\ (B(poller) = 0 <=> ~poller)
      /\ B(spinner) \in Nat /\ (B(spinner) = 0 <=> ~spinner)
  BY Counts DEF PoolTypes
<1>4. /\ Unanswered \in Nat
      /\ Unanswered = 0 => Cardinality(running) = 0 /\ Len(reqs) = 0 /\ Len(ress) = 0
  BY <1>1, <1>2 DEF Unanswered
<1>5. refs \in Nat /\ (refs = 0 => /\ B(socket) = 0 /\ B(poller) = 0 /\ B(spinner) = 0
                                   /\ Unanswered = 0)
  BY <1>3, <1>4 DEF RefsCounted
<1> QED BY <1>1, <1>2, <1>3, <1>4, <1>5

LEMMA TypesFollow ==
  ASSUME LoopInv
  PROVE  LoopTypeOK /\ TicksInOrder /\ NothingLeftAtExit
<1> USE DEF LoopInv, PoolInv, TickInv
<1>1. LoopTypeOK
  <2>1. tickIndex \in Nat
    BY EmptyIs DEF RanThenWaiting
  <2> QED BY <2>1, Counted DEF LoopTypeOK, PoolTypes, MainTypes, RanThenWaiting
<1>2. Len(ran) \in Nat /\ Len(asked) \in Nat /\ Len(ticks) \in Nat /\ tickIndex \in 0 .. Len(ticks)
  BY EmptyIs DEF RanThenWaiting
<1>3. ran \in [1 .. Len(ran) -> Ticks] /\ asked \in [1 .. Len(asked) -> Ticks]
  BY DEF RanThenWaiting
<1>4. TicksInOrder
  <2> DEFINE p == SubSeq(asked, 1, Len(ran))
  <2>1. Len(ran) =< Len(asked)
    BY <1>2 DEF RanThenWaiting
  <2>2. p = [i \in 1 .. Len(ran) |-> asked[i]]
    <3>1. \A i \in 1 .. Len(ran) : (1 + i) - 1 = i
      BY <1>2
    <3> QED BY <1>2, <3>1
  <2> HIDE DEF p
  <2>3. ran = p
    BY <1>3, <2>2 DEF RanThenWaiting
  <2> QED BY <2>3 DEF TicksInOrder, p
<1>5. NothingLeftAtExit
  <2> SUFFICES ASSUME main.at = "exited"
               PROVE  /\ reqs = <<>> /\ running = {} /\ ress = <<>>
                      /\ ran = asked /\ ~socket
    BY DEF NothingLeftAtExit
  <2>1. refs = 0
    BY DEF TicksDue
  <2>2. reqs = <<>> /\ running = {} /\ ress = <<>> /\ ~socket /\ ~spinner
    BY <2>1, Counted
  <2>3. ticks = <<>>
    BY <2>2 DEF TicksDue, InTick
  <2>4. Len(asked) = Len(ran)
    BY <1>2, <2>3 DEF RanThenWaiting
  <2>5. ran = asked
    BY <1>3, <2>4 DEF RanThenWaiting
  <2> QED BY <2>2, <2>5
<1> QED BY <1>1, <1>4, <1>5

LEMMA LoopStart ==
  ASSUME LoopInit
  PROVE  LoopInv
<1>1. Cardinality({}) = 0 /\ IsFiniteSet({})
  BY FS_EmptySet
<1>2. PoolInv
  <2>1. PoolTypes /\ StartedFirst
    <3>1. PoolTypes
      <4>1. <<>> \in Seq(Work)
        OBVIOUS
      <4>2. TRUE \in BOOLEAN /\ FALSE \in BOOLEAN
        OBVIOUS
      <4> QED BY <1>1, <4>1, <4>2, Zenon DEF LoopInit, PoolTypes
    <3>2. main.at = "js" /\ main.from = "loop"
      BY DEF LoopInit, AtLoop
    <3>3. StartedFirst
      BY <3>2 DEF LoopInit, StartedFirst
    <3> QED BY <3>1, <3>3
  <2>2. InOnePlace
    BY NoElems DEF LoopInit, InOnePlace
  <2> QED BY <2>1, <2>2 DEF PoolInv
<1>3. TickInv
  <2>1. MainTypes
    BY PoolAssumption DEF LoopInit, MainTypes, AtLoop
  <2>2. RefsCounted
    BY <1>1 DEF LoopInit, RefsCounted, Unanswered, B
  <2>3. TicksDue /\ RanThenWaiting
    BY DEF LoopInit, TicksDue, RanThenWaiting, InTick, AtLoop
  <2> QED BY <2>1, <2>2, <2>3 DEF TickInv
<1> QED BY <1>2, <1>3 DEF LoopInv

-----------------------------------------------------------------------------
(* What a callback of the program may do *)

\* The pool, where it is left alone.
LEMMA PoolKept ==
  ASSUME PoolInv, UNCHANGED <<poolVars, socket>>, needTick' \in BOOLEAN, spinner' \in BOOLEAN,
         ~started => main'.at # "poll" /\ main'.from # "poll"
  PROVE  PoolInv'
<1>1. PoolTypes' /\ StartedFirst'
  BY DEF PoolInv, PoolTypes, StartedFirst, poolVars
<1>2. InOnePlace'
  BY DEF PoolInv, InOnePlace, poolVars
<1> QED BY <1>1, <1>2 DEF PoolInv

\* The ticks, where they are left alone and the main thread stays where it is.
LEMMA TicksKept ==
  ASSUME TicksDue, RanThenWaiting, UNCHANGED <<ticks, tickIndex, asked, ran, main>>,
         needTick => needTick', needTick' => spinner', main.at # "exited"
  PROVE  TicksDue' /\ RanThenWaiting'
BY DEF TicksDue, RanThenWaiting, InTick

LEMMA SpinnerCounted ==
  ASSUME PoolTypes, RefsCounted, StartTickSpinner,
         UNCHANGED <<socket, poller, running, reqs, ress>>
  PROVE  RefsCounted'
<1>1. B(spinner)' = B(spinner) + B(~spinner) /\ refs' = refs + B(~spinner) /\ B(~spinner) \in Nat
  BY Counts DEF StartTickSpinner, PoolTypes
<1>2. UNCHANGED <<B(socket), B(poller), Unanswered>>
  BY DEF Unanswered
<1>3. B(socket) \in Nat /\ B(poller) \in Nat /\ B(spinner) \in Nat /\ Unanswered \in Nat
  BY Counted
<1>4. refs = B(socket) + B(poller) + B(spinner) + Unanswered
  BY DEF RefsCounted
<1>5. refs' = B(socket)' + B(poller)' + B(spinner)' + Unanswered'
  BY <1>1, <1>2, <1>3, <1>4
<1> QED BY <1>5 DEF RefsCounted

LEMMA SubmitStep ==
  ASSUME LoopInv, NEW w \in Work, Submit(w)
  PROVE  LoopInv'
<1> USE DEF LoopInv, PoolInv, TickInv
<1>1. /\ reqs' \in Seq(Work) /\ Len(reqs') = Len(reqs) + 1 /\ Elems(reqs)' = Elems(reqs) \cup {w}
      /\ Once(reqs)'
  BY AppendIs DEF Submit, PoolTypes, InOnePlace, Made
<1>2. PoolInv'
  <2>1. PoolTypes' /\ StartedFirst'
    BY <1>1 DEF Submit, PoolTypes, StartedFirst, tickVars
  <2>2. InOnePlace'
    <3>1. UNCHANGED <<ress, answered, running>> /\ w \notin Made
      BY DEF Submit
    <3> QED BY <1>1, <3>1 DEF InOnePlace, Made
  <2> QED BY <2>1, <2>2
<1>3. TickInv'
  <2>1. RefsCounted'
    <3>1. B(poller)' = B(poller) + B(~started)
      <4>1. CASE started
        <5>1. started = TRUE /\ poller' = poller
          BY <4>1 DEF Submit, PoolTypes
        <5>2. B(poller)' = B(poller) /\ B(~started) = 0 /\ B(poller) \in Nat
          BY <5>1, Counts DEF PoolTypes
        <5> QED BY <5>2
      <4>2. CASE ~started
        <5>1. started = FALSE /\ poller = FALSE /\ poller' = TRUE
          BY <4>2 DEF Submit, PoolTypes, StartedFirst
        <5>2. B(poller) = 0 /\ B(poller)' = 1 /\ B(~started) = 1
          BY <5>1, Counts
        <5> QED BY <5>2
      <4> QED BY <4>1, <4>2
    <3>2. refs' = refs + 1 + B(~started) /\ B(~started) \in Nat
      BY Counts DEF Submit, PoolTypes
    <3>3. UNCHANGED <<B(socket), B(spinner)>> /\ Unanswered' = Unanswered + 1
      BY <1>1, Counted DEF Submit, tickVars, Unanswered
    <3>4. refs' = B(socket)' + B(poller)' + B(spinner)' + Unanswered'
      <4>1. B(socket) \in Nat /\ B(poller) \in Nat /\ B(spinner) \in Nat /\ Unanswered \in Nat
        BY Counted
      <4>2. refs = B(socket) + B(poller) + B(spinner) + Unanswered
        BY DEF RefsCounted
      <4> QED BY <3>1, <3>2, <3>3, <4>1, <4>2
    <3> QED BY <3>4 DEF RefsCounted
  <2>2. TicksDue' /\ RanThenWaiting'
    BY TicksKept DEF Submit, tickVars, TicksDue
  <2>3. MainTypes'
    BY DEF Submit, MainTypes
  <2> QED BY <2>1, <2>2, <2>3
<1> QED BY <1>2, <1>3

LEMMA NextTickStep ==
  ASSUME LoopInv, NEW t \in Ticks, NextTick(t)
  PROVE  LoopInv'
<1> USE DEF LoopInv, PoolInv, TickInv
<1>1. PoolInv'
  BY PoolKept DEF NextTick, StartTickSpinner, StartedFirst
<1>2. RefsCounted'
  BY Counted, SpinnerCounted DEF NextTick, poolVars
<1>3. MainTypes'
  BY DEF NextTick, MainTypes
<1>4. TicksDue' /\ RanThenWaiting'
  <2>1. /\ ticks' \in Seq(Ticks) /\ Len(ticks') = Len(ticks) + 1 /\ ticks'[Len(ticks) + 1] = t
        /\ \A i \in 1 .. Len(ticks) : ticks'[i] = ticks[i]
        /\ asked' \in Seq(Ticks) /\ Len(asked') = Len(asked) + 1 /\ asked'[Len(asked) + 1] = t
        /\ \A i \in 1 .. Len(asked) : asked'[i] = asked[i]
        /\ needTick' /\ spinner' /\ UNCHANGED <<tickIndex, ran, main>> /\ main.at = "js"
    BY AppendIs DEF NextTick, StartTickSpinner, RanThenWaiting
  <2>2. Len(ran) \in Nat /\ Len(asked) \in Nat /\ Len(ticks) \in Nat /\ main.last \in Nat
    BY EmptyIs DEF RanThenWaiting, MainTypes
  <2>3. TicksDue'
    BY <2>1, <2>2 DEF TicksDue, InTick
  <2>4. RanThenWaiting'
    <3>1. \A i \in 1 .. Len(ran) : i \in 1 .. Len(asked)
      BY <2>2 DEF RanThenWaiting
    <3>2. \A i \in tickIndex + 1 .. Len(ticks) :
            i \in 1 .. Len(ticks) /\ Len(ran) + i - tickIndex \in 1 .. Len(asked)
      BY <2>2 DEF RanThenWaiting
    <3>3. Len(ran) + (Len(ticks) + 1) - tickIndex = Len(asked) + 1
      BY <2>2 DEF RanThenWaiting
    <3>4. \A i \in tickIndex + 1 .. Len(ticks) + 1 : i = Len(ticks) + 1 \/ i \in tickIndex + 1 .. Len(ticks)
      BY <2>2 DEF RanThenWaiting
    <3>5. \A i \in tickIndex + 1 .. Len(ticks) + 1 : asked'[Len(ran) + i - tickIndex] = ticks'[i]
      BY <2>1, <3>2, <3>3, <3>4 DEF RanThenWaiting
    <3>6. tickIndex \in 0 .. Len(ticks) + 1
      BY <2>2 DEF RanThenWaiting
    <3> QED BY <2>1, <2>2, <3>1, <3>3, <3>5, <3>6 DEF RanThenWaiting
  <2> QED BY <2>3, <2>4
<1> QED BY <1>1, <1>2, <1>3, <1>4

LEMMA CloseSocketStep ==
  ASSUME LoopInv, CloseSocket
  PROVE  LoopInv'
<1> USE DEF LoopInv, PoolInv, TickInv
<1>1. PoolInv'
  <2>1. PoolTypes' /\ StartedFirst'
    BY DEF CloseSocket, PoolTypes, StartedFirst, poolVars, tickVars
  <2>2. InOnePlace'
    BY DEF CloseSocket, InOnePlace, poolVars
  <2> QED BY <2>1, <2>2
<1>2. RefsCounted'
  <2>1. B(socket) = 1 /\ B(socket)' = 0 /\ refs' = refs - 1
    BY Counts DEF CloseSocket, PoolTypes
  <2>2. UNCHANGED <<B(poller), B(spinner), Unanswered>>
    BY DEF Unanswered, CloseSocket, poolVars, tickVars
  <2> QED BY <2>1, <2>2, Counted DEF RefsCounted
<1>3. MainTypes' /\ TicksDue' /\ RanThenWaiting'
  BY TicksKept DEF CloseSocket, MainTypes, tickVars, TicksDue
<1> QED BY <1>1, <1>2, <1>3

LEMMA ReturnStep ==
  ASSUME LoopInv, Return
  PROVE  LoopInv'
<1> USE DEF LoopInv, PoolInv, TickInv
<1>1. /\ main.at = "js" /\ main'.at = main.from /\ main'.from = main.from /\ main'.last = main.last
      /\ MainTypes' /\ main.from \in {"loop", "poll", "tick"}
  BY DEF Return, MainTypes
<1>2. PoolInv'
  BY <1>1, PoolKept DEF Return, StartedFirst, tickVars, PoolTypes
<1>3. RefsCounted'
  BY DEF Return, RefsCounted, Unanswered, poolVars, tickVars
<1>4. TicksDue' /\ RanThenWaiting'
  BY <1>1 DEF Return, TicksDue, RanThenWaiting, InTick, tickVars
<1> QED BY <1>1, <1>2, <1>3, <1>4

LEMMA ThrowStep ==
  ASSUME LoopInv, Throw
  PROVE  LoopInv'
<1> USE DEF LoopInv, PoolInv, TickInv
<1>1. /\ main.at = "js" /\ main'.from = main.from /\ main'.last = main.last
      /\ main'.at = "killed" \/ main'.at = IF main.from = "tick" THEN "loop" ELSE main.from
      /\ MainTypes' /\ main.from \in {"loop", "poll", "tick"}
  BY DEF Throw, MainTypes
<1>2. /\ UNCHANGED <<poolVars, ticks, tickIndex, asked, ran, socket>>
      /\ \/ main'.at = "killed" /\ UNCHANGED <<needTick, spinner, refs>>
         \/ main'.at # "killed" /\ needTick' = TRUE /\ spinner' = TRUE /\ refs' = refs + B(~spinner)
  BY <1>1 DEF Throw, StartTickSpinner, MainTypes
<1>3. PoolInv'
  BY <1>1, <1>2, PoolKept DEF StartedFirst, PoolTypes
<1>4. RefsCounted'
  <2>1. CASE UNCHANGED <<spinner, refs>>
    BY <1>2, <2>1 DEF RefsCounted, Unanswered, poolVars
  <2>2. CASE StartTickSpinner
    BY <1>2, <2>2, SpinnerCounted DEF poolVars
  <2> QED BY <1>2, <2>1, <2>2 DEF StartTickSpinner
<1>5. TicksDue' /\ RanThenWaiting'
  BY <1>1, <1>2 DEF TicksDue, RanThenWaiting, InTick
<1> QED BY <1>1, <1>3, <1>4, <1>5

-----------------------------------------------------------------------------
(* The workers *)

\* A worker leaves the ticks and the main thread alone.
LEMMA TakeStep ==
  ASSUME LoopInv, Take
  PROVE  LoopInv'
<1> USE DEF LoopInv, PoolInv, TickInv
<1> DEFINE w == Head(reqs)
<1>1. /\ reqs' \in Seq(Work) /\ Len(reqs') = Len(reqs) - 1 /\ w \in Work /\ w \in Elems(reqs)
      /\ Elems(reqs) = Elems(reqs)' \cup {w} /\ Once(reqs)' /\ w \notin Elems(reqs)'
      /\ running' = running \cup {w}
      /\ UNCHANGED <<ress, answered, started, want, done, poller, tickVars, refs, socket, main>>
  BY TailIs DEF Take, PoolTypes, InOnePlace
<1> HIDE DEF w
<1>2. w \notin running
  BY <1>1 DEF InOnePlace
<1>3. IsFiniteSet(running') /\ Cardinality(running') = Cardinality(running) + 1
  BY <1>1, <1>2, FS_AddElement DEF PoolTypes
<1>4. InOnePlace'
  BY <1>1 DEF InOnePlace
<1>5. started
  BY DEF Take, StartedFirst
<1>6. PoolTypes' /\ StartedFirst'
  BY <1>1, <1>3, <1>5 DEF PoolTypes, StartedFirst, tickVars
<1>7. RefsCounted'
  <2>1. Unanswered' = Unanswered
    BY <1>1, <1>3, Counted DEF Unanswered
  <2>2. UNCHANGED <<refs, B(socket), B(poller), B(spinner)>>
    BY <1>1 DEF tickVars
  <2> QED BY <2>1, <2>2 DEF RefsCounted
<1>8. MainTypes' /\ TicksDue' /\ RanThenWaiting'
  BY <1>1 DEF MainTypes, TicksDue, RanThenWaiting, InTick, tickVars
<1> QED BY <1>4, <1>6, <1>7, <1>8

LEMMA FinishStep ==
  ASSUME LoopInv, NEW w \in Work, Finish(w)
  PROVE  LoopInv'
<1> USE DEF LoopInv, PoolInv, TickInv
<1>1. w \in running /\ w \notin Elems(ress) /\ w \notin Elems(reqs) /\ w \notin Elems(answered)
  BY DEF Finish, InOnePlace
<1>2. /\ ress' \in Seq(Work) /\ Len(ress') = Len(ress) + 1
      /\ Elems(ress)' = Elems(ress) \cup {w} /\ Once(ress)'
  BY <1>1, AppendIs DEF Finish, PoolTypes, InOnePlace
<1>3. /\ running' = running \ {w} /\ want' \in BOOLEAN
      /\ UNCHANGED <<reqs, answered, started, done, poller, tickVars, refs, socket, main>>
  BY DEF Finish, PoolTypes
<1>4. IsFiniteSet(running') /\ Cardinality(running') = Cardinality(running) - 1
  BY <1>1, <1>3, FS_RemoveElement DEF PoolTypes
<1>5. InOnePlace'
  BY <1>1, <1>2, <1>3 DEF InOnePlace
<1>6. PoolTypes' /\ StartedFirst'
  BY <1>1, <1>2, <1>3, <1>4 DEF PoolTypes, StartedFirst, tickVars
<1>7. RefsCounted'
  <2>1. Unanswered' = Unanswered
    BY <1>2, <1>3, <1>4, Counted DEF Unanswered
  <2>2. UNCHANGED <<refs, B(socket), B(poller), B(spinner)>>
    BY <1>3 DEF tickVars
  <2> QED BY <2>1, <2>2 DEF RefsCounted
<1>8. MainTypes' /\ TicksDue' /\ RanThenWaiting'
  BY <1>3 DEF MainTypes, TicksDue, RanThenWaiting, InTick, tickVars
<1> QED BY <1>5, <1>6, <1>7, <1>8

-----------------------------------------------------------------------------
(* The loop *)

\* The ticks, when the main thread goes from or to somewhere that is neither
\* _tickCallback nor the end.
LEMMA TicksWait ==
  ASSUME TicksDue, RanThenWaiting, UNCHANGED tickVars, ~InTick, ~InTick',
         main.at # "killed", main'.at \notin {"tick", "exited"}
  PROVE  TicksDue' /\ RanThenWaiting'
BY DEF TicksDue, RanThenWaiting, tickVars

LEMMA PollStep ==
  ASSUME LoopInv, WantPoll \/ DonePoll \/ IdlePoll
  PROVE  LoopInv'
<1> USE DEF LoopInv, PoolInv, TickInv
<1>1. /\ main.at = "loop" /\ main'.at = "poll" /\ main'.from = "loop" /\ MainTypes'
      /\ UNCHANGED <<reqs, running, ress, answered, started, poller, tickVars, refs, socket>>
      /\ want' \in BOOLEAN /\ done' \in BOOLEAN /\ started
  <2>1. main.at = "loop" /\ \E via \in {"want", "done", "idle"} : Poll(via)
    BY DEF WantPoll, DonePoll, IdlePoll
  <2>2. main'.at = "poll" /\ main'.from = "loop" /\ MainTypes'
    BY <2>1, StartedAt
  <2>3. UNCHANGED <<reqs, running, ress, answered, started, poller, tickVars, refs, socket>>
    BY DEF WantPoll, DonePoll, IdlePoll, poolVars
  <2>4. want' \in BOOLEAN /\ done' \in BOOLEAN /\ started
    BY DEF WantPoll, DonePoll, IdlePoll, poolVars, PoolTypes, StartedFirst
  <2> QED BY <2>1, <2>2, <2>3, <2>4
<1>2. PoolTypes' /\ StartedFirst'
  BY <1>1 DEF PoolTypes, StartedFirst, tickVars
<1>3. InOnePlace'
  BY <1>1 DEF InOnePlace
<1>4. RefsCounted'
  BY <1>1 DEF RefsCounted, Unanswered, tickVars
<1>5. TicksDue' /\ RanThenWaiting'
  BY <1>1, TicksWait DEF InTick
<1> QED BY <1>1, <1>2, <1>3, <1>4, <1>5

LEMMA AfterStep ==
  ASSUME LoopInv, After
  PROVE  LoopInv'
<1> USE DEF LoopInv, PoolInv, TickInv
<1> DEFINE w == Head(ress)
<1>1. /\ ress' \in Seq(Work) /\ Len(ress') = Len(ress) - 1 /\ Len(ress) \in Nat \ {0}
      /\ w \in Work /\ w \in Elems(ress)
      /\ Elems(ress) = Elems(ress)' \cup {w} /\ Once(ress)' /\ w \notin Elems(ress)'
      /\ answered' = Append(answered, w)
  BY TailIs DEF After, PoolTypes, InOnePlace
<1>2. /\ main.at = "poll" /\ main'.at = "js" /\ main'.from = "poll" /\ MainTypes'
      /\ UNCHANGED <<reqs, running, started, want, poller, tickVars, socket>>
      /\ done' \in BOOLEAN /\ started /\ refs' = refs - 1
  <2>1. main.at = "poll" /\ main.left > 0 /\ main' = [main EXCEPT !.at = "js", !.left = @ - 1, !.from = "poll"]
    BY DEF After
  <2>2. main.left - 1 \in 0 .. MaxPoll
    BY <2>1, PoolAssumption DEF MainTypes
  <2>3. main'.at = "js" /\ main'.from = "poll" /\ MainTypes'
    BY <2>1, <2>2 DEF MainTypes
  <2>4. /\ UNCHANGED <<reqs, running, started, want, poller, tickVars, socket>> /\ refs' = refs - 1
        /\ done' \in BOOLEAN
    BY DEF After, PoolTypes
  <2> QED BY <2>1, <2>3, <2>4 DEF StartedFirst, PoolTypes
<1> HIDE DEF w
<1>3. /\ answered' \in Seq(Work) /\ Elems(answered)' = Elems(answered) \cup {w} /\ Once(answered)'
  BY <1>1, AppendIs DEF PoolTypes, InOnePlace
<1>4. InOnePlace'
  BY <1>1, <1>2, <1>3 DEF InOnePlace
<1>5. PoolTypes' /\ StartedFirst'
  BY <1>1, <1>2, <1>3 DEF PoolTypes, StartedFirst, tickVars
<1>6. RefsCounted'
  <2>1. Unanswered' = Unanswered - 1
    <3>1. Len(ress') = Len(ress) - 1 /\ Len(ress) \in Nat
      BY <1>1
    <3>2. Cardinality(running') = Cardinality(running) /\ Len(reqs') = Len(reqs)
      BY <1>2
    <3>3. Cardinality(running) \in Nat /\ Len(reqs) \in Nat
      BY Counted
    <3> QED BY <3>1, <3>2, <3>3 DEF Unanswered
  <2>2. UNCHANGED <<B(socket), B(poller), B(spinner)>>
    BY <1>2 DEF tickVars
  <2>3. B(socket) \in Nat /\ B(poller) \in Nat /\ B(spinner) \in Nat /\ Unanswered \in Nat
    BY Counted
  <2>4. refs = B(socket) + B(poller) + B(spinner) + Unanswered
    BY DEF RefsCounted
  <2>5. refs' = B(socket)' + B(poller)' + B(spinner)' + Unanswered'
    BY <1>2, <2>1, <2>2, <2>3, <2>4
  <2> QED BY <2>5 DEF RefsCounted
<1>7. TicksDue' /\ RanThenWaiting'
  BY <1>2, TicksWait DEF InTick
<1> QED BY <1>2, <1>4, <1>5, <1>6, <1>7

LEMMA PollEndsStep ==
  ASSUME LoopInv, PollEnds
  PROVE  LoopInv'
<1> USE DEF LoopInv, PoolInv, TickInv
<1>1. /\ main.at = "poll" /\ main'.at = "loop" /\ main'.from = "loop" /\ MainTypes'
      /\ UNCHANGED <<reqs, running, ress, answered, started, want, done, tickVars, socket>>
      /\ refs' = refs + B(poller') - B(poller) /\ started
  BY StartedAt DEF PollEnds, StartedFirst, PoolTypes
<1>2. poller' \in BOOLEAN
  BY DEF PollEnds, PoolTypes
<1>3. PoolTypes' /\ StartedFirst'
  BY <1>1, <1>2 DEF PoolTypes, StartedFirst, tickVars
<1>4. InOnePlace'
  BY <1>1 DEF InOnePlace
<1>5. RefsCounted'
  <2>1. UNCHANGED <<B(socket), B(spinner), Unanswered>>
    BY <1>1 DEF tickVars, Unanswered
  <2>2. B(socket) \in Nat /\ B(poller) \in Nat /\ B(spinner) \in Nat /\ Unanswered \in Nat
    BY Counted
  <2>3. B(poller)' \in Nat /\ refs' = refs + B(poller)' - B(poller)
    BY <1>1, <1>2, Counts
  <2>4. refs = B(socket) + B(poller) + B(spinner) + Unanswered
    BY DEF RefsCounted
  <2>5. refs' = B(socket)' + B(poller)' + B(spinner)' + Unanswered'
    BY <2>1, <2>2, <2>3, <2>4
  <2> QED BY <2>5 DEF RefsCounted
<1>6. TicksDue' /\ RanThenWaiting'
  BY <1>1, TicksWait DEF InTick
<1> QED BY <1>1, <1>3, <1>4, <1>5, <1>6

LEMMA OtherEventStep ==
  ASSUME LoopInv, OtherEvent
  PROVE  LoopInv'
<1> USE DEF LoopInv, PoolInv, TickInv
<1>1. /\ main.at = "loop" /\ main'.at = "js" /\ main'.from = "loop" /\ MainTypes'
      /\ UNCHANGED <<poolVars, tickVars, refs, socket>>
  BY StartedAt DEF OtherEvent
<1>2. PoolInv'
  BY <1>1, PoolKept DEF PoolTypes, tickVars
<1>3. RefsCounted'
  BY <1>1 DEF RefsCounted, Unanswered, poolVars, tickVars
<1>4. TicksDue' /\ RanThenWaiting'
  BY <1>1, TicksWait DEF InTick
<1> QED BY <1>1, <1>2, <1>3, <1>4

LEMMA ExitStep ==
  ASSUME LoopInv, Exit
  PROVE  LoopInv'
<1> USE DEF LoopInv, PoolInv, TickInv
<1>1. /\ main.at = "loop" /\ main'.at = "exited" /\ main'.from = main.from /\ MainTypes'
      /\ UNCHANGED <<poolVars, tickVars, refs, socket>> /\ refs = 0
  BY DEF Exit, MainTypes
<1>2. PoolInv'
  BY <1>1, PoolKept DEF PoolTypes, tickVars, StartedFirst
<1>3. RefsCounted'
  BY <1>1 DEF RefsCounted, Unanswered, poolVars, tickVars
<1>4. TicksDue' /\ RanThenWaiting'
  BY <1>1 DEF TicksDue, RanThenWaiting, InTick, tickVars
<1> QED BY <1>1, <1>2, <1>3, <1>4

-----------------------------------------------------------------------------
(* The ticks *)

LEMMA TickStep ==
  ASSUME LoopInv, Tick
  PROVE  LoopInv'
<1> USE DEF LoopInv, PoolInv, TickInv
<1>1. /\ main.at = "loop" /\ needTick' = FALSE /\ spinner' = FALSE /\ refs' = refs - B(spinner)
      /\ UNCHANGED <<poolVars, ticks, tickIndex, asked, ran, socket>>
  BY DEF Tick
<1>2. Len(ticks) \in Nat /\ tickIndex \in 0 .. Len(ticks) /\ (ticks = <<>> <=> Len(ticks) = 0)
  BY EmptyIs DEF RanThenWaiting
<1>3. \/ ticks = <<>> /\ main' = main
      \/ /\ ticks # <<>> /\ main'.at = "tick" /\ main'.last = Len(ticks) /\ main'.from = "tick"
         /\ MainTypes'
  BY <1>2, StartedAt DEF Tick
<1>4. MainTypes'
  BY <1>3 DEF MainTypes
<1>5. PoolInv'
  BY <1>1, <1>3, PoolKept DEF PoolTypes, StartedFirst
<1>6. RefsCounted'
  <2>1. UNCHANGED <<B(socket), B(poller), Unanswered>> /\ B(spinner)' = 0
    BY <1>1, Counts DEF poolVars, Unanswered
  <2>2. B(socket) \in Nat /\ B(poller) \in Nat /\ B(spinner) \in Nat /\ Unanswered \in Nat
    BY Counted
  <2>3. refs = B(socket) + B(poller) + B(spinner) + Unanswered
    BY DEF RefsCounted
  <2>4. refs' = B(socket)' + B(poller)' + B(spinner)' + Unanswered'
    BY <1>1, <2>1, <2>2, <2>3
  <2> QED BY <2>4 DEF RefsCounted
<1>7. RanThenWaiting'
  BY <1>1 DEF RanThenWaiting
<1>8. TicksDue'
  BY <1>1, <1>2, <1>3 DEF TicksDue, InTick
<1> QED BY <1>4, <1>5, <1>6, <1>7, <1>8

LEMMA TickCallbackStep ==
  ASSUME LoopInv, TickCallback
  PROVE  LoopInv'
<1> USE DEF LoopInv, PoolInv, TickInv
<1>1. /\ main.at = "tick" /\ main'.at = "js" /\ main'.from = main.from /\ main'.last = main.last
      /\ MainTypes' /\ tickIndex < main.last /\ tickIndex' = tickIndex + 1
      /\ ran' = Append(ran, ticks[tickIndex + 1])
      /\ UNCHANGED <<poolVars, needTick, spinner, ticks, asked, refs, socket>>
  BY DEF TickCallback, MainTypes
<1>2. PoolInv'
  BY <1>1, PoolKept DEF PoolTypes, StartedFirst, TicksDue
<1>3. RefsCounted'
  BY <1>1 DEF RefsCounted, Unanswered, poolVars
<1>4. /\ Len(ran) \in Nat /\ Len(asked) \in Nat /\ Len(ticks) \in Nat /\ main.last \in Nat
      /\ tickIndex \in Nat /\ tickIndex + 1 \in 1 .. Len(ticks)
  BY <1>1, EmptyIs DEF RanThenWaiting, MainTypes, TicksDue, InTick
<1>5. TicksDue'
  BY <1>1, <1>4 DEF TicksDue, InTick
<1>6. RanThenWaiting'
  <2>1. ticks[tickIndex + 1] \in Ticks
    BY <1>4 DEF RanThenWaiting
  <2>2. /\ ran' \in Seq(Ticks) /\ Len(ran') = Len(ran) + 1 /\ ran'[Len(ran) + 1] = ticks[tickIndex + 1]
        /\ \A i \in 1 .. Len(ran) : ran'[i] = ran[i]
    BY <1>1, <2>1, AppendIs DEF RanThenWaiting
  <2>3. asked[Len(ran) + 1] = ticks[tickIndex + 1]
    <3>1. tickIndex + 1 \in tickIndex + 1 .. Len(ticks) /\ Len(ran) + (tickIndex + 1) - tickIndex = Len(ran) + 1
      BY <1>4
    <3> QED BY <3>1 DEF RanThenWaiting
  <2>4. \A i \in 1 .. Len(ran) + 1 : i = Len(ran) + 1 \/ i \in 1 .. Len(ran)
    BY <1>4
  <2>5. \A i \in 1 .. Len(ran') : asked'[i] = ran'[i]
    BY <1>1, <2>2, <2>3, <2>4 DEF RanThenWaiting
  <2>6. \A i \in tickIndex + 2 .. Len(ticks) :
          /\ i \in tickIndex + 1 .. Len(ticks)
          /\ (Len(ran) + 1) + i - (tickIndex + 1) = Len(ran) + i - tickIndex
    BY <1>4
  <2>7. \A i \in (tickIndex + 1) + 1 .. Len(ticks) :
          asked[(Len(ran) + 1) + i - (tickIndex + 1)] = ticks[i]
    <3>1. (tickIndex + 1) + 1 = tickIndex + 2
      BY <1>4
    <3> QED BY <2>6, <3>1 DEF RanThenWaiting
  <2>8. Len(asked) = (Len(ran) + 1) + Len(ticks) - (tickIndex + 1) /\ tickIndex + 1 \in 0 .. Len(ticks)
    <3>1. Len(asked) = Len(ran) + Len(ticks) - tickIndex
      BY DEF RanThenWaiting
    <3> QED BY <1>4, <3>1
  <2> QED BY <1>1, <2>2, <2>5, <2>7, <2>8 DEF RanThenWaiting
<1> QED BY <1>1, <1>2, <1>3, <1>5, <1>6

LEMMA TickEndsStep ==
  ASSUME LoopInv, TickEnds
  PROVE  LoopInv'
<1> USE DEF LoopInv, PoolInv, TickInv
<1>1. /\ main.at = "tick" /\ main'.at = "loop" /\ main'.from = "loop"
      /\ MainTypes' /\ tickIndex >= main.last /\ tickIndex' = 0
      /\ ticks' = SubSeq(ticks, tickIndex + 1, Len(ticks))
      /\ UNCHANGED <<poolVars, needTick, spinner, asked, ran, refs, socket>>
  BY StartedAt DEF TickEnds
<1>2. PoolInv'
  BY <1>1, PoolKept DEF PoolTypes, StartedFirst, TicksDue
<1>3. RefsCounted'
  BY <1>1 DEF RefsCounted, Unanswered, poolVars
<1>4. /\ Len(ran) \in Nat /\ Len(asked) \in Nat /\ Len(ticks) \in Nat /\ main.last \in Nat
      /\ tickIndex \in 0 .. Len(ticks) /\ tickIndex = main.last
      /\ Len(ticks) > main.last => needTick
  BY <1>1, EmptyIs DEF RanThenWaiting, MainTypes, TicksDue, InTick
<1>5. /\ ticks' \in Seq(Ticks) /\ Len(ticks') = Len(ticks) - tickIndex
      /\ \A i \in 1 .. Len(ticks) - tickIndex : ticks'[i] = ticks[tickIndex + i]
  <2>1. ticks \in Seq(Ticks)
    BY DEF RanThenWaiting
  <2> QED BY <1>1, <1>4, <2>1, RestIs
<1>6. TicksDue'
  <2>1. ticks' # <<>> => Len(ticks') # 0
    BY <1>5, EmptyIs
  <2> QED BY <1>1, <1>4, <1>5, <2>1 DEF TicksDue, InTick
<1>7. RanThenWaiting'
  <2>1. \A i \in 1 .. Len(ticks) - tickIndex :
          /\ tickIndex + i \in tickIndex + 1 .. Len(ticks)
          /\ Len(ran) + (tickIndex + i) - tickIndex = Len(ran) + i - 0
    BY <1>4
  <2>2. \A i \in 1 .. Len(ticks) - tickIndex : asked[Len(ran) + i - 0] = ticks'[i]
    BY <1>5, <2>1 DEF RanThenWaiting
  <2>3. /\ Len(asked) = Len(ran) + (Len(ticks) - tickIndex) - 0 /\ 0 \in 0 .. Len(ticks) - tickIndex
        /\ 0 + 1 = 1
    BY <1>4 DEF RanThenWaiting
  <2> QED BY <1>1, <1>5, <2>2, <2>3 DEF RanThenWaiting
<1> QED BY <1>1, <1>2, <1>3, <1>6, <1>7

LEMMA LoopStep ==
  ASSUME LoopInv, [LoopNext]_loopVars
  PROVE  LoopInv'
<1>1. CASE LoopNext
  BY <1>1, SubmitStep, FinishStep, NextTickStep, CloseSocketStep, ThrowStep, TakeStep, ReturnStep,
     PollStep, AfterStep, PollEndsStep, TickStep, TickCallbackStep, TickEndsStep, OtherEventStep,
     ExitStep DEF LoopNext, MainStep
<1>2. CASE UNCHANGED loopVars
  <2>1. PoolInv'
    BY <1>2, PoolKept DEF LoopInv, PoolInv, PoolTypes, StartedFirst, loopVars, tickVars
  <2>2. TickInv'
    BY <1>2 DEF LoopInv, TickInv, loopVars, poolVars, tickVars, MainTypes, RefsCounted, Unanswered,
       TicksDue, InTick, RanThenWaiting
  <2> QED BY <2>1, <2>2 DEF LoopInv
<1> QED BY <1>1, <1>2

-----------------------------------------------------------------------------
(* The pool is a work queue *)

Over == main.at \in {"exited", "killed"}
StatusNow == [w \in Work |-> Status(w)]

\* One request changes its status and the process does not end.
LEMMA MoveIs ==
  ASSUME NEW w \in Work, NEW from, NEW to, Status(w) = from, Status(w)' = to,
         \A x \in Work \ {w} : Status(x)' = Status(x), Over' = Over
  PROVE  Queue!Move(w, from, to)
<1>1. StatusNow' = [StatusNow EXCEPT ![w] = to]
  BY DEF StatusNow
<1>2. StatusNow[w] = from
  BY DEF StatusNow
<1> QED BY <1>1, <1>2 DEF Queue!Move, StatusNow, Over

LEMMA StutterIs ==
  ASSUME \A x \in Work : Status(x)' = Status(x), Over' = Over
  PROVE  UNCHANGED Queue!workVars
BY DEF Queue!workVars, Over

\* The status of a request says where it is.
LEMMA StatusIs ==
  ASSUME InOnePlace, NEW w
  PROVE  /\ w \in Elems(answered) <=> Status(w) = "answered"
         /\ w \in Elems(ress) <=> Status(w) = "done"
         /\ w \in Elems(reqs) \cup running <=> Status(w) = "submitted"
         /\ w \notin Made <=> Status(w) = "new"
BY DEF InOnePlace, Status, Made

LEMMA SameStatus ==
  ASSUME UNCHANGED <<reqs, running, ress, answered>>
  PROVE  \A x \in Work : Status(x)' = Status(x)
BY DEF Status

LEMMA WorkStart ==
  ASSUME LoopInit
  PROVE  Queue!WorkInit
<1>1. Elems(<<>>) = {} /\ main.at = "js"
  BY NoElems DEF LoopInit, AtLoop
<1>2. \A w \in Work : Status(w) = "new"
  BY <1>1 DEF Status, LoopInit
<1> QED BY <1>1, <1>2 DEF Queue!WorkInit

LEMMA WorkStep ==
  ASSUME LoopInv, [LoopNext]_loopVars
  PROVE  [Queue!WorkNext]_(Queue!workVars)
<1> USE DEF LoopInv, PoolInv
<1>1. ASSUME NEW w \in Work, Submit(w)
      PROVE  Queue!Submitted(w)
  <2>1. main.at = "js" /\ main' = main
    BY <1>1 DEF Submit
  <2>2. /\ w \notin Made /\ Elems(reqs)' = Elems(reqs) \cup {w}
        /\ UNCHANGED <<running, ress, answered>>
    BY <1>1, AppendIs DEF Submit, PoolTypes
  <2>3. Status(w) = "new" /\ Status(w)' = "submitted"
    BY <2>2 DEF Status, Made
  <2>4. \A x \in Work \ {w} : Status(x)' = Status(x)
    BY <2>2 DEF Status
  <2>5. Queue!Move(w, "new", "submitted")
    BY <2>1, <2>3, <2>4, MoveIs DEF Over
  <2> QED BY <2>1, <2>5 DEF Queue!Submitted
<1>2. ASSUME NEW w \in Work, Finish(w)
      PROVE  Queue!Done(w)
  <2>1. /\ running' = running \ {w} /\ w \in running /\ Elems(ress)' = Elems(ress) \cup {w}
        /\ UNCHANGED <<reqs, answered, main>>
    BY <1>2, AppendIs DEF Finish, PoolTypes
  <2>2. Status(w) = "submitted" /\ Status(w)' = "done"
    BY <2>1 DEF Status, InOnePlace
  <2>3. \A x \in Work \ {w} : Status(x)' = Status(x)
    BY <2>1 DEF Status
  <2> QED BY <2>1, <2>2, <2>3, MoveIs DEF Over, Queue!Done
<1>3. ASSUME After
      PROVE  \E w \in Work : Queue!Answered(w)
  <2> PICK w \in Work : w = Head(ress)
    BY <1>3, TailIs DEF After, PoolTypes
  <2>1. /\ Elems(ress) = Elems(ress)' \cup {w} /\ w \notin Elems(ress)' /\ w \in Work
        /\ Elems(answered)' = Elems(answered) \cup {w} /\ UNCHANGED <<reqs, running>>
    <3>1. /\ Elems(ress) = Elems(ress)' \cup {w} /\ w \notin Elems(ress)' /\ w \in Work
          /\ answered' = Append(answered, w) /\ UNCHANGED <<reqs, running>>
      BY <1>3, TailIs DEF After, PoolTypes, InOnePlace
    <3>2. Elems(answered)' = Elems(answered) \cup {w}
      BY <3>1, AppendIs DEF PoolTypes
    <3> QED BY <3>1, <3>2
  <2>2. main.at = "poll" /\ main'.at = "js"
    BY <1>3 DEF After, TickInv, MainTypes
  <2>3. Status(w) = "done" /\ Status(w)' = "answered"
    BY <2>1 DEF Status, InOnePlace
  <2>4. \A x \in Work \ {w} : Status(x)' = Status(x)
    BY <2>1 DEF Status
  <2>5. Queue!Move(w, "done", "answered")
    BY <2>1, <2>2, <2>3, <2>4, MoveIs DEF Over
  <2> QED BY <2>1, <2>2, <2>5 DEF Queue!Answered
<1>4. ASSUME Take
      PROVE  UNCHANGED Queue!workVars
  <2>1. /\ Elems(reqs) = Elems(reqs)' \cup {Head(reqs)} /\ running' = running \cup {Head(reqs)}
        /\ UNCHANGED <<ress, answered, main>>
    BY <1>4, TailIs DEF Take, PoolTypes
  <2>2. \A x \in Work : Status(x)' = Status(x)
    BY <2>1 DEF Status
  <2> QED BY <2>1, <2>2, StutterIs DEF Over
<1>5. ASSUME UNCHANGED <<reqs, running, ress, answered>>
      PROVE  [Queue!WorkNext]_(Queue!workVars) \/ (Over /\ ~Over')
  <2>1. \A x \in Work : Status(x)' = Status(x)
    BY <1>5, SameStatus
  <2>2. CASE Over' = Over
    BY <2>1, <2>2, StutterIs
  <2>3. CASE ~Over /\ Over'
    BY <2>1, <2>3 DEF Queue!WorkNext, Queue!End, Over
  <2> QED BY <2>2, <2>3 DEF Over
<1>6. ASSUME \/ \E t \in Ticks : NextTick(t)
             \/ CloseSocket \/ Throw \/ Return \/ WantPoll \/ DonePoll \/ IdlePoll \/ PollEnds
             \/ Tick \/ TickCallback \/ TickEnds \/ OtherEvent \/ Exit \/ UNCHANGED loopVars
      PROVE  UNCHANGED <<reqs, running, ress, answered>> /\ ~(Over /\ ~Over')
  <2>1. UNCHANGED <<reqs, running, ress, answered>>
    BY <1>6 DEF NextTick, CloseSocket, Throw, Return, WantPoll, DonePoll, IdlePoll, PollEnds, Tick,
       TickCallback, TickEnds, OtherEvent, Exit, loopVars, poolVars
  <2>2. main.at \in {"js", "loop", "poll", "tick"} \/ main' = main
    BY <1>6 DEF NextTick, CloseSocket, Throw, Return, WantPoll, DonePoll, IdlePoll, PollEnds, Tick,
       TickCallback, TickEnds, OtherEvent, Exit, loopVars
  <2> QED BY <2>1, <2>2 DEF Over
<1> QED BY <1>1, <1>2, <1>3, <1>4, <1>5, <1>6 DEF LoopNext, MainStep, Queue!WorkNext

-----------------------------------------------------------------------------
(* The resolver *)

DnsConstants == NoQuery \notin Queries /\ MaxTries \in Nat \ {0}

Stages == {"new", "calling", "sent", "thread", "over", "thrown"}
Outcomes == D!Statuses \cup {"ETIMEOUT"}

DnsTypes ==
  /\ dns \in [Queries -> [stage: Stages, immediately: BOOLEAN]]
  /\ calling \in Queries \cup {NoQuery} /\ ending \in Queries \cup {NoQuery}
  /\ DOMAIN pending \subseteq Queries
  /\ \A q \in DOMAIN pending : pending[q] \in 1 .. MaxTries
  /\ dnsSocket \in BOOLEAN /\ ticking \in BOOLEAN
  /\ nextTicks \in Seq([query: Queries, reason: Outcomes])
  /\ status \in [Queries -> Outcomes \cup {"none"}]
  /\ called \in [Queries -> Seq([reason: Outcomes, by: Queries \cup {NoQuery}])]

\* The callback of q waits for nextTick.
Waits(q) == \E i \in DOMAIN nextTicks : nextTicks[i].query = q

\* A query has its answer when it is over, and then either its callback has been
\* called, once, or it waits, once, with the outcome of its query.
AnswerPlace(q) ==
  /\ dns[q].stage # "over" => called[q] = <<>> /\ ~Waits(q)
  /\ called[q] # <<>> => /\ Len(called[q]) = 1 /\ ~Waits(q)
                         /\ called[q][1].by # q /\ called[q][1].reason = status[q]
  /\ \A i \in DOMAIN nextTicks : nextTicks[i].query = q => nextTicks[i].reason = status[q]

AnswerPlaces ==
  /\ \A q \in Queries : AnswerPlace(q)
  /\ \A i, j \in DOMAIN nextTicks : nextTicks[i].query = nextTicks[j].query => i = j

\* The API of a query has returned before its callback may be called at once.
CallsReturn ==
  \A q \in Queries :
    /\ dns[q].stage \in {"new", "calling"} => ~dns[q].immediately
    /\ calling = q => dns[q].stage # "new"

\* The channel has the queries that were sent, and the one that is being ended.
ChannelHas ==
  /\ \A q \in DOMAIN pending : dns[q].stage = "sent" \/ (dns[q].stage = "over" /\ ending = q)
  /\ dnsSocket <=> DOMAIN pending # {}
  /\ ticking <=> DOMAIN pending # {}

DnsInv == DnsTypes /\ AnswerPlaces /\ CallsReturn /\ ChannelHas

LEMMA DnsFacts ==
  ASSUME DnsInv
  PROVE  D!DnsTypeOK /\ OwnAnswerOnce
<1>1. D!DnsTypeOK
  BY DEF DnsInv, DnsTypes, D!DnsTypeOK, Stages
<1>2. D!WatchedWhileWaiting
  BY DEF DnsInv, ChannelHas, D!WatchedWhileWaiting
<1>3. D!OwnAnswerOnce
  <2> SUFFICES ASSUME NEW q \in Queries
               PROVE  /\ Len(called[q]) =< 1
                      /\ \A i \in DOMAIN called[q] :
                           called[q][i].by # q /\ called[q][i].reason = status[q]
                      /\ dns[q].stage \in {"new", "sent", "thread", "thrown"} => called[q] = <<>>
    BY DEF D!OwnAnswerOnce
  <2>1. AnswerPlace(q)
    BY DEF DnsInv, AnswerPlaces
  <2>2. called[q] \in Seq([reason: Outcomes, by: Queries \cup {NoQuery}])
    BY DEF DnsInv, DnsTypes
  <2>3. DOMAIN called[q] = 1 .. Len(called[q]) /\ Len(called[q]) \in Nat
        /\ (called[q] = <<>> => Len(called[q]) = 0)
    BY <2>2
  <2>4. CASE called[q] = <<>>
    <3>1. Len(called[q]) =< 1 /\ DOMAIN called[q] = {}
      BY <2>3, <2>4
    <3> QED BY <2>4, <3>1
  <2>5. CASE called[q] # <<>>
    <3>1. Len(called[q]) = 1 /\ called[q][1].by # q /\ called[q][1].reason = status[q]
          /\ dns[q].stage = "over"
      BY <2>1, <2>5 DEF AnswerPlace
    <3>2. DOMAIN called[q] = {1} /\ Len(called[q]) =< 1
      BY <2>3, <3>1
    <3> QED BY <3>1, <3>2
  <2> QED BY <2>4, <2>5
<1> QED BY <1>1, <1>2, <1>3 DEF OwnAnswerOnce

LEMMA DnsStart ==
  ASSUME DnsConstants, D!DnsInit
  PROVE  DnsInv
<1>1. <<>> \in Seq([query: Queries, reason: Outcomes]) /\ DOMAIN nextTicks = {}
      /\ <<>> \in Seq([reason: Outcomes, by: Queries \cup {NoQuery}])
  BY DEF D!DnsInit
<1>2. DnsTypes
  BY <1>1 DEF D!DnsInit, DnsTypes, Stages
<1>3. AnswerPlaces
  BY <1>1 DEF D!DnsInit, AnswerPlaces, AnswerPlace, Waits
<1>4. CallsReturn /\ ChannelHas
  BY DEF D!DnsInit, CallsReturn, ChannelHas, DnsConstants
<1> QED BY <1>2, <1>3, <1>4 DEF DnsInv

\* The answers, where nobody gives one.
LEMMA PlacesKept ==
  ASSUME AnswerPlaces, UNCHANGED <<nextTicks, status, called>>,
         \A q \in Queries : dns[q].stage = "over" => dns'[q].stage = "over"
  PROVE  AnswerPlaces'
BY DEF AnswerPlaces, AnswerPlace, Waits

\* A new stage is one of the stages, and the query's own.
LEMMA StageIs ==
  ASSUME DnsTypes, NEW q \in Queries, NEW s \in Stages, D!Stage(q, s)
  PROVE  /\ dns' \in [Queries -> [stage: Stages, immediately: BOOLEAN]]
         /\ dns'[q].stage = s /\ dns'[q].immediately = dns[q].immediately
         /\ \A r \in Queries \ {q} : dns'[r] = dns[r]
BY DEF DnsTypes, D!Stage

\* The answer of a query that had none, given to its callback or left to nextTick.
LEMMA AnsweredIs ==
  ASSUME DnsTypes, AnswerPlaces, NEW q \in Queries, NEW s \in Outcomes, D!Answered(q, s),
         D!Stage(q, "over"), dns[q].stage # "over", dns[q].immediately => calling # q
  PROVE  /\ AnswerPlaces'
         /\ nextTicks' \in Seq([query: Queries, reason: Outcomes])
         /\ status' \in [Queries -> Outcomes \cup {"none"}]
         /\ called' \in [Queries -> Seq([reason: Outcomes, by: Queries \cup {NoQuery}])]
<1>1. /\ dns'[q].stage = "over" /\ \A r \in Queries \ {q} : dns'[r] = dns[r]
  BY StageIs DEF Stages
<1>2. /\ status' \in [Queries -> Outcomes \cup {"none"}] /\ status'[q] = s
      /\ \A r \in Queries \ {q} : status'[r] = status[r]
  BY DEF D!Answered, DnsTypes
<1>3. called[q] = <<>> /\ ~Waits(q)
  BY DEF AnswerPlaces, AnswerPlace
<1>4. /\ nextTicks \in Seq([query: Queries, reason: Outcomes])
      /\ DOMAIN nextTicks = 1 .. Len(nextTicks) /\ Len(nextTicks) \in Nat
  BY DEF DnsTypes
<1>5. CASE dns[q].immediately
  <2> DEFINE e == [reason |-> s, by |-> calling]
  <2>1. called' = [called EXCEPT ![q] = Append(@, e)] /\ nextTicks' = nextTicks
    BY <1>5 DEF D!Answered, D!AsyncCallback, D!CallBack
  <2>2. e \in [reason: Outcomes, by: Queries \cup {NoQuery}] /\ e.by # q /\ e.reason = s
    BY <1>5 DEF DnsTypes
  <2> HIDE DEF e
  <2>3. Append(<<>>, e) \in Seq([reason: Outcomes, by: Queries \cup {NoQuery}])
        /\ Len(Append(<<>>, e)) = 1 /\ Append(<<>>, e)[1] = e
    BY <2>2
  <2>4. /\ called' \in [Queries -> Seq([reason: Outcomes, by: Queries \cup {NoQuery}])]
        /\ Len(called'[q]) = 1 /\ called'[q][1] = e
        /\ \A r \in Queries \ {q} : called'[r] = called[r]
    BY <1>3, <2>1, <2>3 DEF DnsTypes
  <2>5. ASSUME NEW r \in Queries
        PROVE  AnswerPlace(r)'
    <3>1. AnswerPlace(r)
      BY DEF AnswerPlaces
    <3>2. CASE r = q
      BY <1>1, <1>2, <1>3, <2>1, <2>2, <2>4, <3>1, <3>2 DEF AnswerPlace, Waits
    <3>3. CASE r # q
      BY <1>1, <1>2, <2>1, <2>4, <3>1, <3>3 DEF AnswerPlace, Waits
    <3> QED BY <3>2, <3>3
  <2> QED BY <1>2, <1>4, <2>1, <2>4, <2>5 DEF AnswerPlaces
<1>6. CASE ~dns[q].immediately
  <2> DEFINE e == [query |-> q, reason |-> s]
  <2>1. nextTicks' = Append(nextTicks, e) /\ called' = called
    BY <1>6 DEF D!Answered, D!AsyncCallback
  <2>2. e \in [query: Queries, reason: Outcomes] /\ e.query = q /\ e.reason = s
    OBVIOUS
  <2> HIDE DEF e
  <2>3. /\ nextTicks' \in Seq([query: Queries, reason: Outcomes])
        /\ Len(nextTicks') = Len(nextTicks) + 1 /\ nextTicks'[Len(nextTicks) + 1] = e
        /\ \A i \in 1 .. Len(nextTicks) : nextTicks'[i] = nextTicks[i]
    BY <1>4, <2>1, <2>2, AppendIs
  <2>4. /\ DOMAIN nextTicks' = 1 .. Len(nextTicks) + 1
        /\ \A i \in 1 .. Len(nextTicks) + 1 : i = Len(nextTicks) + 1 \/ i \in DOMAIN nextTicks
        /\ \A i \in DOMAIN nextTicks : i \in DOMAIN nextTicks' /\ nextTicks'[i] = nextTicks[i]
                                       /\ nextTicks[i].query # q
        /\ Len(nextTicks) + 1 \in DOMAIN nextTicks'
    BY <1>3, <1>4, <2>3 DEF Waits
  <2>5. \A i, j \in DOMAIN nextTicks' : nextTicks'[i].query = nextTicks'[j].query => i = j
    BY <2>2, <2>3, <2>4 DEF AnswerPlaces
  <2>6. ASSUME NEW r \in Queries
        PROVE  AnswerPlace(r)'
    <3>1. AnswerPlace(r)
      BY DEF AnswerPlaces
    <3>2. CASE r = q
      BY <1>1, <1>2, <1>3, <2>1, <2>2, <2>3, <2>4, <3>2 DEF AnswerPlace
    <3>3. CASE r # q
      <4>1. Waits(r)' <=> Waits(r)
        BY <2>2, <2>3, <2>4, <3>3 DEF Waits
      <4>2. \A i \in DOMAIN nextTicks' : nextTicks'[i].query = r => nextTicks'[i].reason = status'[r]
        BY <1>2, <2>2, <2>3, <2>4, <3>1, <3>3 DEF AnswerPlace
      <4> QED BY <1>1, <1>2, <2>1, <3>1, <3>3, <4>1, <4>2 DEF AnswerPlace
    <3> QED BY <3>2, <3>3
  <2> QED BY <1>2, <2>1, <2>3, <2>5, <2>6 DEF AnswerPlaces, DnsTypes
<1> QED BY <1>5, <1>6

\* The rest of the state, where an answer is given to a query of stage s.
LEMMA AnswerStep ==
  ASSUME DnsInv, NEW q \in Queries, NEW s \in Outcomes, D!Answered(q, s), D!Stage(q, "over"),
         dns[q].stage # "over", dns[q].immediately => calling # q,
         q \in DOMAIN pending => ending' = q, ending' \in Queries \cup {NoQuery},
         ending' = ending \/ ending = NoQuery, NoQuery \notin Queries,
         UNCHANGED <<calling, pending, dnsSocket, ticking>>, dns[q].stage # "new"
  PROVE  DnsInv'
<1>1. /\ dns' \in [Queries -> [stage: Stages, immediately: BOOLEAN]]
      /\ dns'[q].stage = "over" /\ dns'[q].immediately = dns[q].immediately
      /\ \A r \in Queries \ {q} : dns'[r] = dns[r]
  BY StageIs DEF DnsInv, Stages
<1>2. /\ AnswerPlaces'
      /\ nextTicks' \in Seq([query: Queries, reason: Outcomes])
      /\ status' \in [Queries -> Outcomes \cup {"none"}]
      /\ called' \in [Queries -> Seq([reason: Outcomes, by: Queries \cup {NoQuery}])]
  BY AnsweredIs DEF DnsInv
<1>3. DnsTypes'
  BY <1>1, <1>2 DEF DnsInv, DnsTypes
<1>4. CallsReturn'
  <2> SUFFICES ASSUME NEW r \in Queries
               PROVE  /\ dns'[r].stage \in {"new", "calling"} => ~dns'[r].immediately
                      /\ calling' = r => dns'[r].stage # "new"
    BY DEF CallsReturn
  <2>1. CASE r = q
    BY <1>1, <2>1
  <2>2. CASE r # q
    BY <1>1, <2>2 DEF DnsInv, CallsReturn
  <2> QED BY <2>1, <2>2
<1>5. ChannelHas'
  <2>1. ASSUME NEW r \in DOMAIN pending
        PROVE  dns'[r].stage = "sent" \/ (dns'[r].stage = "over" /\ ending' = r)
    <3>1. r \in Queries /\ (dns[r].stage = "sent" \/ (dns[r].stage = "over" /\ ending = r))
      BY <2>1 DEF DnsInv, DnsTypes, ChannelHas
    <3>2. CASE r = q
      BY <1>1, <2>1, <3>2
    <3>3. CASE r # q
      BY <1>1, <3>1, <3>3
    <3> QED BY <3>2, <3>3
  <2> QED BY <2>1 DEF DnsInv, ChannelHas
<1> QED BY <1>2, <1>3, <1>4, <1>5 DEF DnsInv

LEMMA DnsCalls ==
  ASSUME DnsConstants, DnsInv, NEW q \in Queries,
         D!CallApi(q) \/ D!GetAddrInfo(q) \/ (\E s \in Errors : D!Refuse(q, s))
  PROVE  DnsInv'
<1>1. PICK s \in {"calling", "thread", "thrown"} :
        /\ D!Stage(q, s) /\ dns[q].stage \in {"new", "calling"}
        /\ s = "calling" => calling' = q
        /\ calling' \in {q, NoQuery}
        /\ (s = "thread" => calling' = calling) /\ (s = "thrown" => calling' = NoQuery)
        /\ (s # "calling" => dns[q].stage = "calling")
        /\ UNCHANGED <<ending, pending, dnsSocket, ticking, nextTicks, status, called>>
  BY DEF D!CallApi, D!GetAddrInfo, D!Refuse, D!During
<1>2. /\ dns' \in [Queries -> [stage: Stages, immediately: BOOLEAN]]
      /\ dns'[q].stage = s /\ dns'[q].immediately = dns[q].immediately
      /\ \A r \in Queries \ {q} : dns'[r] = dns[r]
  BY <1>1, StageIs DEF DnsInv, Stages
<1>3. DnsTypes'
  BY <1>1, <1>2 DEF DnsInv, DnsTypes
<1>4. AnswerPlaces'
  <2>1. \A r \in Queries : dns[r].stage = "over" => dns'[r].stage = "over"
    BY <1>1, <1>2
  <2> QED BY <1>1, <2>1, PlacesKept DEF DnsInv
<1>5. CallsReturn'
  <2> SUFFICES ASSUME NEW r \in Queries
               PROVE  /\ dns'[r].stage \in {"new", "calling"} => ~dns'[r].immediately
                      /\ calling' = r => dns'[r].stage # "new"
    BY DEF CallsReturn
  <2>1. CASE r = q
    BY <1>1, <1>2, <2>1 DEF DnsInv, CallsReturn
  <2>2. CASE r # q
    BY <1>1, <1>2, <2>2 DEF DnsInv, CallsReturn, DnsConstants
  <2> QED BY <2>1, <2>2
<1>6. ChannelHas'
  <2>1. ASSUME NEW r \in DOMAIN pending
        PROVE  r \in Queries /\ r # q
    BY <1>1, <2>1 DEF DnsInv, DnsTypes, ChannelHas
  <2> QED BY <1>1, <1>2, <2>1 DEF DnsInv, ChannelHas
<1> QED BY <1>3, <1>4, <1>5, <1>6 DEF DnsInv

LEMMA SendQueryStep ==
  ASSUME DnsConstants, DnsInv, NEW q \in Queries, D!SendQuery(q)
  PROVE  DnsInv'
<1>1. /\ D!Stage(q, "sent") /\ dns[q].stage = "calling"
      /\ pending' = [r \in DOMAIN pending \cup {q} |-> IF r = q THEN 1 ELSE pending[r]]
      /\ dnsSocket' = TRUE /\ ticking' = TRUE
      /\ UNCHANGED <<calling, ending, nextTicks, status, called>>
  BY DEF D!SendQuery, D!During
<1>2. /\ dns' \in [Queries -> [stage: Stages, immediately: BOOLEAN]]
      /\ dns'[q].stage = "sent" /\ dns'[q].immediately = dns[q].immediately
      /\ \A r \in Queries \ {q} : dns'[r] = dns[r]
  BY <1>1, StageIs DEF DnsInv, Stages
<1>3. /\ DOMAIN pending' = DOMAIN pending \cup {q} /\ DOMAIN pending' \subseteq Queries
      /\ \A r \in DOMAIN pending' : pending'[r] \in 1 .. MaxTries
  <2>1. 1 \in 1 .. MaxTries
    BY DEF DnsConstants
  <2> QED BY <1>1, <2>1 DEF DnsInv, DnsTypes
<1>4. DnsTypes'
  BY <1>1, <1>2, <1>3 DEF DnsInv, DnsTypes
<1>5. AnswerPlaces'
  <2>1. \A r \in Queries : dns[r].stage = "over" => dns'[r].stage = "over"
    BY <1>1, <1>2
  <2> QED BY <1>1, <2>1, PlacesKept DEF DnsInv
<1>6. CallsReturn'
  BY <1>1, <1>2 DEF DnsInv, CallsReturn
<1>7. ChannelHas'
  <2>1. ASSUME NEW r \in DOMAIN pending'
        PROVE  dns'[r].stage = "sent" \/ (dns'[r].stage = "over" /\ ending' = r)
    <3>1. CASE r = q
      BY <1>2, <3>1
    <3>2. CASE r # q
      BY <1>1, <1>2, <1>3, <2>1, <3>2 DEF DnsInv, ChannelHas
    <3> QED BY <3>1, <3>2
  <2> QED BY <1>1, <1>3, <2>1 DEF ChannelHas
<1> QED BY <1>4, <1>5, <1>6, <1>7 DEF DnsInv

LEMMA ReturnWrapStep ==
  ASSUME DnsConstants, DnsInv, NEW q \in Queries, D!ReturnWrap(q)
  PROVE  DnsInv'
<1>1. /\ calling = q /\ dns[q].stage # "calling" /\ calling' = NoQuery
      /\ dns' = [dns EXCEPT ![q].immediately = TRUE]
      /\ UNCHANGED <<ending, pending, dnsSocket, ticking, nextTicks, status, called>>
  BY DEF D!ReturnWrap
<1>2. /\ dns' \in [Queries -> [stage: Stages, immediately: BOOLEAN]]
      /\ dns'[q].stage = dns[q].stage
      /\ \A r \in Queries \ {q} : dns'[r] = dns[r]
  BY <1>1 DEF DnsInv, DnsTypes
<1>3. DnsTypes'
  BY <1>1, <1>2 DEF DnsInv, DnsTypes
<1>4. \A r \in Queries : dns'[r].stage = dns[r].stage
  BY <1>2
<1>5. AnswerPlaces'
  BY <1>1, <1>4, PlacesKept DEF DnsInv
<1>6. CallsReturn'
  BY <1>1, <1>2 DEF DnsInv, CallsReturn, DnsConstants
<1>7. ChannelHas'
  BY <1>1, <1>4 DEF DnsInv, ChannelHas, DnsTypes
<1> QED BY <1>3, <1>5, <1>6, <1>7 DEF DnsInv

LEMMA AnswersStep ==
  ASSUME DnsConstants, DnsInv, NEW q \in Queries, NEW s \in D!Statuses,
         D!AnswerInCall(q, s) \/ D!AresAnswer(q, s) \/ D!AfterGetAddrInfo(q, s)
  PROVE  DnsInv'
<1>1. s \in Outcomes
  BY DEF Outcomes
<1>2. CASE D!AnswerInCall(q, s)
  <2>1. /\ D!Answered(q, s) /\ D!Stage(q, "over") /\ dns[q].stage = "calling"
        /\ UNCHANGED <<calling, ending, pending, dnsSocket, ticking>>
    BY <1>2 DEF D!AnswerInCall, D!During
  <2>2. ~dns[q].immediately /\ q \notin DOMAIN pending /\ ending \in Queries \cup {NoQuery}
    BY <2>1 DEF DnsInv, CallsReturn, ChannelHas, DnsTypes
  <2> QED BY <1>1, <2>1, <2>2, AnswerStep DEF DnsConstants
<1>3. CASE D!AresAnswer(q, s)
  <2>1. /\ D!Answered(q, s) /\ D!Stage(q, "over") /\ q \in DOMAIN pending /\ ending' = q
        /\ calling = NoQuery /\ ending = NoQuery /\ UNCHANGED <<calling, pending, dnsSocket, ticking>>
    BY <1>3 DEF D!AresAnswer, D!Free
  <2>2. dns[q].stage = "sent" /\ calling # q
    BY <2>1 DEF DnsInv, ChannelHas, DnsConstants
  <2> QED BY <1>1, <2>1, <2>2, AnswerStep DEF DnsConstants
<1>4. CASE D!AfterGetAddrInfo(q, s)
  <2>1. /\ D!Answered(q, s) /\ D!Stage(q, "over") /\ dns[q].stage = "thread"
        /\ calling = NoQuery /\ UNCHANGED <<calling, ending, pending, dnsSocket, ticking>>
    BY <1>4 DEF D!AfterGetAddrInfo, D!Free
  <2>2. calling # q /\ q \notin DOMAIN pending /\ ending \in Queries \cup {NoQuery}
    BY <2>1 DEF DnsInv, ChannelHas, DnsTypes, DnsConstants
  <2> QED BY <1>1, <2>1, <2>2, AnswerStep DEF DnsConstants
<1> QED BY <1>2, <1>3, <1>4

LEMMA TimeoutStep ==
  ASSUME DnsConstants, DnsInv, NEW q \in Queries, D!AresTimeout(q)
  PROVE  DnsInv'
<1>1. /\ calling = NoQuery /\ ending = NoQuery /\ q \in DOMAIN pending
      /\ UNCHANGED <<calling, dnsSocket, ticking>>
  BY DEF D!AresTimeout, D!Free
<1>2. CASE pending[q] < MaxTries
  <2>1. /\ pending' = [pending EXCEPT ![q] = @ + 1]
        /\ UNCHANGED <<dns, ending, nextTicks, status, called>>
    BY <1>2 DEF D!AresTimeout
  <2>2. DOMAIN pending' = DOMAIN pending /\ \A r \in DOMAIN pending : pending'[r] \in 1 .. MaxTries
    BY <1>1, <1>2, <2>1 DEF DnsInv, DnsTypes, DnsConstants
  <2>3. DnsTypes'
    BY <1>1, <2>1, <2>2 DEF DnsInv, DnsTypes
  <2>4. AnswerPlaces'
    BY <2>1, PlacesKept DEF DnsInv
  <2>5. CallsReturn' /\ ChannelHas'
    BY <1>1, <2>1, <2>2 DEF DnsInv, CallsReturn, ChannelHas
  <2> QED BY <2>3, <2>4, <2>5 DEF DnsInv
<1>3. CASE ~(pending[q] < MaxTries)
  <2>1. D!Answered(q, "ETIMEOUT") /\ D!Stage(q, "over") /\ ending' = q /\ pending' = pending
    BY <1>3 DEF D!AresTimeout
  <2>2. dns[q].stage = "sent" /\ calling # q /\ "ETIMEOUT" \in Outcomes
    BY <1>1 DEF DnsInv, ChannelHas, DnsConstants, Outcomes
  <2> QED BY <1>1, <2>1, <2>2, AnswerStep DEF DnsConstants
<1> QED BY <1>2, <1>3

LEMMA EndQueryStep ==
  ASSUME DnsConstants, DnsInv, D!EndQuery
  PROVE  DnsInv'
<1>1. /\ calling = NoQuery /\ ending # NoQuery /\ ending' = NoQuery
      /\ pending' = [q \in DOMAIN pending \ {ending} |-> pending[q]]
      /\ dnsSocket' = (DOMAIN pending \ {ending} # {}) /\ ticking' = (DOMAIN pending \ {ending} # {})
      /\ UNCHANGED <<dns, calling, nextTicks, status, called>>
  BY DEF D!EndQuery, D!Remaining
<1>2. /\ DOMAIN pending' = DOMAIN pending \ {ending}
      /\ \A r \in DOMAIN pending' : r \in DOMAIN pending /\ r # ending /\ pending'[r] = pending[r]
  BY <1>1
<1>3. DnsTypes'
  BY <1>1, <1>2 DEF DnsInv, DnsTypes
<1>4. AnswerPlaces'
  BY <1>1, PlacesKept DEF DnsInv
<1>5. CallsReturn'
  BY <1>1 DEF DnsInv, CallsReturn
<1>6. ChannelHas'
  BY <1>1, <1>2 DEF DnsInv, ChannelHas
<1> QED BY <1>3, <1>4, <1>5, <1>6 DEF DnsInv

\* What follows the head of a sequence moves down one place.
LEMMA RestFollows ==
  ASSUME NEW S, NEW s \in Seq(S), s # <<>>
  PROVE  /\ Len(s) \in Nat \ {0} /\ Head(s) = s[1] /\ s[1] \in S
         /\ Tail(s) \in Seq(S) /\ Len(Tail(s)) = Len(s) - 1
         /\ \A i \in 1 .. Len(s) - 1 : Tail(s)[i] = s[i + 1]
         /\ DOMAIN s = 1 .. Len(s) /\ DOMAIN Tail(s) = 1 .. Len(s) - 1
OBVIOUS

LEMMA RunTickStep ==
  ASSUME DnsConstants, DnsInv, D!RunTick
  PROVE  DnsInv'
<1> DEFINE T == [query: Queries, reason: Outcomes]
           C == [reason: Outcomes, by: Queries \cup {NoQuery}]
<1>1. nextTicks \in Seq(T) /\ nextTicks # <<>> /\ calling = NoQuery
  BY DEF D!RunTick, D!Free, DnsInv, DnsTypes
<1>2. /\ Len(nextTicks) \in Nat \ {0} /\ Head(nextTicks) = nextTicks[1] /\ nextTicks[1] \in T
      /\ nextTicks' \in Seq(T) /\ Len(nextTicks') = Len(nextTicks) - 1
      /\ \A i \in 1 .. Len(nextTicks) - 1 : nextTicks'[i] = nextTicks[i + 1]
      /\ DOMAIN nextTicks = 1 .. Len(nextTicks) /\ DOMAIN nextTicks' = 1 .. Len(nextTicks) - 1
  <2>1. nextTicks' = Tail(nextTicks)
    BY DEF D!RunTick
  <2> QED BY <1>1, <2>1, RestFollows
<1>3. PICK q \in Queries, s \in Outcomes : q = nextTicks[1].query /\ s = nextTicks[1].reason
  BY <1>2
<1>4. PICK e : e = [reason |-> s, by |-> NoQuery]
  OBVIOUS
<1>5. called' = [called EXCEPT ![q] = Append(@, e)]
  BY <1>1, <1>2, <1>3, <1>4 DEF D!RunTick, D!CallBack, D!Reason
<1>6. UNCHANGED <<dns, calling, ending, pending, dnsSocket, ticking, status>>
  BY DEF D!RunTick
<1>7. e \in C /\ e.by = NoQuery /\ e.reason = s
  BY <1>4
<1>8. \A i \in DOMAIN nextTicks' : /\ i + 1 \in DOMAIN nextTicks /\ nextTicks'[i] = nextTicks[i + 1]
                                   /\ i + 1 # 1 /\ i \in Nat
  BY <1>2
<1>9. 1 \in DOMAIN nextTicks
  BY <1>2
<1>10. Waits(q) /\ dns[q].stage = "over" /\ called[q] = <<>> /\ status[q] = s
  BY <1>3, <1>9 DEF DnsInv, AnswerPlaces, AnswerPlace, Waits
<1>11. Append(<<>>, e) \in Seq(C) /\ Len(Append(<<>>, e)) = 1 /\ Append(<<>>, e)[1] = e
  BY <1>7
<1>12. /\ called' \in [Queries -> Seq(C)]
       /\ Len(called'[q]) = 1 /\ called'[q][1] = e
       /\ \A r \in Queries \ {q} : called'[r] = called[r]
  BY <1>5, <1>10, <1>11 DEF DnsInv, DnsTypes
<1>13. DnsTypes'
  BY <1>2, <1>6, <1>12 DEF DnsInv, DnsTypes
<1>14. \A i, j \in DOMAIN nextTicks' : nextTicks'[i].query = nextTicks'[j].query => i = j
  <2> SUFFICES ASSUME NEW i \in DOMAIN nextTicks', NEW j \in DOMAIN nextTicks',
                      nextTicks'[i].query = nextTicks'[j].query
               PROVE  i = j
    OBVIOUS
  <2>1. i + 1 = j + 1
    BY <1>8 DEF DnsInv, AnswerPlaces
  <2> QED BY <1>8, <2>1
<1>15. ASSUME NEW r \in Queries
       PROVE  AnswerPlace(r)'
  <2>1. AnswerPlace(r)
    BY DEF DnsInv, AnswerPlaces
  <2>2. \A i \in DOMAIN nextTicks' : nextTicks'[i].query = r => nextTicks'[i].reason = status'[r]
    BY <1>6, <1>8, <2>1 DEF AnswerPlace
  <2>3. CASE r = q
    <3>1. ~Waits(q)'
      BY <1>3, <1>8, <1>9 DEF Waits, DnsInv, AnswerPlaces
    <3> QED BY <1>6, <1>7, <1>10, <1>12, <2>2, <2>3, <3>1 DEF AnswerPlace, DnsConstants
  <2>4. CASE r # q
    <3>1. Waits(r)' => Waits(r)
      BY <1>8 DEF Waits
    <3> QED BY <1>6, <1>12, <2>1, <2>2, <2>4, <3>1 DEF AnswerPlace
  <2> QED BY <2>3, <2>4
<1>16. CallsReturn' /\ ChannelHas'
  BY <1>6 DEF DnsInv, CallsReturn, ChannelHas
<1> QED BY <1>13, <1>14, <1>15, <1>16 DEF DnsInv, AnswerPlaces

LEMMA DnsStep ==
  ASSUME DnsConstants, DnsInv, [D!DnsNext]_dVars
  PROVE  DnsInv'
<1>1. CASE D!DnsNext
  BY <1>1, DnsCalls, SendQueryStep, ReturnWrapStep, AnswersStep, TimeoutStep, EndQueryStep,
     RunTickStep DEF D!DnsNext, D!ServeQuery
<1>2. CASE UNCHANGED dVars
  <2>1. AnswerPlaces'
    BY <1>2, PlacesKept DEF DnsInv, dVars
  <2> QED BY <1>2, <2>1 DEF DnsInv, DnsTypes, CallsReturn, ChannelHas, dVars
<1> QED BY <1>1, <1>2

-----------------------------------------------------------------------------
(* The process *)

\* A step of the process is one of the part it runs, and leaves the others alone.
LEMMA StepIs ==
  ASSUME [Next]_vars
  PROVE  [LoopNext]_loopVars /\ [D!DnsNext]_dVars
<1>1. CASE Next
  BY <1>1 DEF Next
<1>2. CASE UNCHANGED vars
  BY <1>2 DEF vars
<1> QED BY <1>1, <1>2

\* What the program gives to process.nextTick runs in the order it was given, each
\* function once, also when one of them throws out of _tickCallback and Tick or the
\* spinner starts again; and when the loop has no reference left (node.cc, uv-eio.c)
\* every request of the pool has been answered and every such function has run.
THEOREM TicksAreInOrder == Spec => []TicksRunInOrder
<1>1. Init => LoopInv
  BY LoopStart DEF Init
<1>2. LoopInv /\ [Next]_vars => LoopInv'
  BY StepIs, LoopStep
<1>3. LoopInv => TicksRunInOrder
  BY TypesFollow DEF TicksRunInOrder
<1> QED BY <1>1, <1>2, <1>3, PTL DEF Spec

\* The callback of a query of cares_wrap.cc is called at most once, after the call
\* that asked has returned, and with the error of its own query, whatever the other
\* queries do to the one errno of the process; and the channel is listened to, and
\* its timer runs, just while a query waits for its answer.
THEOREM AnswersAreOwn ==
  ASSUME DnsConstants
  PROVE  Spec => []OwnAnswerOnce
<1>1. Init => DnsInv
  BY DnsStart DEF Init
<1>2. DnsInv /\ [Next]_vars => DnsInv'
  BY StepIs, DnsStep
<1>3. DnsInv => OwnAnswerOnce
  BY DnsFacts
<1> QED BY <1>1, <1>2, <1>3, PTL DEF Spec

\* The pool of uv-eio.c, with its two queues, its threads, its two watchers and the
\* bound on the results of one poll, does nothing that a queue of work could not do:
\* a request that is submitted is executed once and then answered once, by the main
\* thread, and none is answered that was not executed.
THEOREM PoolIsQueue == Spec => Queue!WorkInit /\ [][Queue!WorkNext]_(Queue!workVars)
<1>1. Init => LoopInv
  BY LoopStart DEF Init
<1>2. LoopInv /\ [Next]_vars => LoopInv'
  BY StepIs, LoopStep
<1>3. Init => Queue!WorkInit
  BY WorkStart DEF Init
<1>4. LoopInv /\ [Next]_vars => [Queue!WorkNext]_(Queue!workVars)
  BY StepIs, WorkStep
<1> QED BY <1>1, <1>2, <1>3, <1>4, PTL DEF Spec

=============================================================================
