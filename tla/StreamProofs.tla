---------------------------- MODULE StreamProofs ----------------------------
(***************************************************************************)
(* What holds of the handles of the event loop, for any handles and        *)
(* requests: every write is answered, in order, before its handle ends;    *)
(* and the loop runs on if and only if some handle wants it, its count     *)
(* being the sum of what the handles owe it and of their watchers.         *)
(*                                                                         *)
(* Of the slabs they read into: the bytes a program has been given are     *)
(* never read into again, and no two reads of one file go to the same      *)
(* bytes, for any number of streams, sockets and slabs and any sizes.      *)
(*                                                                         *)
(* And of the HTTP parser that gets what is read: the header lines of a    *)
(* message come whole, for an array of any size and messages of any        *)
(* length, wherever the buffers end.                                       *)
(***************************************************************************)
EXTENDS Handles, StreamSlab, HttpParser,
        FiniteSetTheorems, SequenceTheorems, WellFoundedInduction, TLAPS

-----------------------------------------------------------------------------
(* Handles: the writes of each *)

Destroying(h) == cb = [at |-> "destroy", h |-> h]

\* A handle without a wrap has written nothing, one whose wrap is deleted has no
\* write left; only a connected tcp handle or pipe is shut down, and is answered
\* after its writes; and all its writes wait, are done or are answered.
WritesOf(h) ==
  /\ hd[h].wrap = "none" => hd[h] = NoWrap /\ sent[h] = <<>> /\ answered[h] = <<>>
  /\ hd[h].wrap = "gone" => hd[h].queue = <<>> /\ hd[h].completed = <<>>
  /\ hd[h].shut # "no" => hd[h].kind \in {"tcp", "pipe"}
  /\ hd[h].told > 0 => hd[h].shut # "no" /\ answered[h] = sent[h]
  /\ Len(Answers(h)) = Len(sent[h])
  /\ \A x \in DOMAIN sent[h] : \E y \in DOMAIN Answers(h) : Answers(h)[y] = sent[h][x]
  /\ ~Destroying(h) /\ hd[h].wrap # "gone" => Answers(h) = sent[h]

\* The callbacks of a handle are called while its wrap is there, and it is destroyed
\* when it was closed.
CallbackOf ==
  /\ cb.at = "writes" => cb.h \in Handles /\ hd[cb.h].wrap \in {"open", "closing"}
  /\ cb.at = "destroy" => cb.h \in Handles /\ hd[cb.h].wrap = "closing"

\* The invariant that carries the results about the handles.
HandleInv == HandlesTypeOK /\ (\A h \in Handles : WritesOf(h)) /\ CallbackOf

\* What a handle is before it has a wrap.
LEMMA NoWrapIs ==
  /\ NoWrap \in HandleRecord /\ NoWrap.queue = <<>> /\ NoWrap.completed = <<>>
  /\ NoWrap.wrap = "none" /\ NoWrap.shut = "no" /\ NoWrap.told = 0
<1>1. <<>> \in Seq(Reqs)
  OBVIOUS
<1> QED BY <1>1 DEF NoWrap, HandleRecord

\* No handle has a wrap at the start.
LEMMA HandlesStart ==
  ASSUME HandleInit
  PROVE  HandleInv
<1>1. /\ hd = [h \in Handles |-> NoWrap] /\ refs = 0 /\ cb = Idle
      /\ sent = [h \in Handles |-> <<>>] /\ answered = [h \in Handles |-> <<>>]
  BY DEF HandleInit
<1>2. <<>> \in Seq(Reqs)
  OBVIOUS
<1>4. HandlesTypeOK
  BY <1>1, <1>2, NoWrapIs DEF HandlesTypeOK, Idle
<1>5. <<>> \o <<>> = <<>> /\ Len(<<>>) = 0 /\ DOMAIN <<>> = {}
  OBVIOUS
<1>6. ASSUME NEW h \in Handles
      PROVE  WritesOf(h)
  <2>1. /\ hd[h] = NoWrap /\ sent[h] = <<>> /\ answered[h] = <<>>
        /\ hd[h].queue = <<>> /\ hd[h].completed = <<>> /\ hd[h].wrap = "none" /\ hd[h].shut = "no"
        /\ hd[h].told = 0
    BY <1>1, NoWrapIs
  <2>2. Answers(h) = <<>>
    BY <2>1, <1>5 DEF Answers
  <2> QED BY <2>1, <2>2, <1>5 DEF WritesOf
<1>7. CallbackOf
  BY <1>1 DEF CallbackOf, Idle
<1> QED BY <1>4, <1>6, <1>7 DEF HandleInv

\* A handle that is left alone keeps what is said of its writes.
LEMMA LeftAlone ==
  ASSUME NEW g \in Handles, WritesOf(g), hd'[g] = hd[g], sent'[g] = sent[g],
         answered'[g] = answered[g], Destroying(g) => Destroying(g)'
  PROVE  WritesOf(g)'
<1>1. Answers(g)' = Answers(g)
  BY DEF Answers
<1> QED BY <1>1 DEF WritesOf

\* What a step that touches no write makes of a handle: its queues stay, its wrap
\* is there and stays or closes, it may be shut down once.
Quiet(h, w) ==
  /\ w \in HandleRecord
  /\ w.queue = hd[h].queue /\ w.completed = hd[h].completed /\ w.kind = hd[h].kind
  /\ hd[h].wrap \in {"open", "closing"} /\ w.wrap \in {"open", "closing"}
  /\ w.told = hd[h].told
  /\ w.shut = hd[h].shut \/ (hd[h].shut = "no" /\ w.shut = "asked" /\ w.kind \in {"tcp", "pipe"})
  /\ w.wrap = hd[h].wrap \/ w.wrap = "closing"

Quietly(h) ==
  /\ hd' \in [Handles -> HandleRecord] /\ \A g \in Handles \ {h} : hd'[g] = hd[g]
  /\ Quiet(h, hd'[h])

\* Such a step keeps the invariant,
LEMMA QuietStep ==
  ASSUME HandleInv, NEW h \in Handles, Quietly(h), refs' \in Int, UNCHANGED <<sent, answered, cb>>
  PROVE  HandleInv'
<1>1. Quiet(h, hd'[h]) /\ hd' \in [Handles -> HandleRecord]
      /\ \A g \in Handles \ {h} : hd'[g] = hd[g]
  BY DEF Quietly
<1>2. HandlesTypeOK'
  BY <1>1 DEF HandleInv, HandlesTypeOK
<1>3. ASSUME NEW g \in Handles
      PROVE  WritesOf(g)'
  <2>1. CASE g # h
    BY <2>1, <1>1, LeftAlone DEF HandleInv, Destroying
  <2>2. CASE g = h
    <3>1. Answers(h)' = Answers(h) /\ Destroying(h)' = Destroying(h) /\ WritesOf(h)
      BY <1>1 DEF HandleInv, Answers, Destroying, Quiet
    <3> QED BY <1>1, <2>2, <3>1 DEF WritesOf, Quiet
  <2> QED BY <2>1, <2>2
<1>4. CallbackOf'
  BY <1>1 DEF HandleInv, CallbackOf, Quiet
<1> QED BY <1>2, <1>3, <1>4 DEF HandleInv

\* also when it is said by the record it leaves.
LEMMA QuietTo ==
  ASSUME HandleInv, NEW h \in Handles, NEW w, Quiet(h, w), hd' = [hd EXCEPT ![h] = w],
         refs' \in Int, UNCHANGED <<sent, answered, cb>>
  PROVE  HandleInv'
BY QuietStep DEF Quietly, Quiet, HandleInv, HandlesTypeOK

\* A new wrap has written nothing.
LEMMA NewWrapStep ==
  ASSUME HandleInv, NEW h \in Handles, NEW w \in HandleRecord, hd' = [hd EXCEPT ![h] = w],
         hd[h].wrap = "none", w.wrap = "open", w.queue = <<>>, w.completed = <<>>,
         w.shut = "no", w.told = 0,
         refs' \in Int, UNCHANGED <<sent, answered, cb>>
  PROVE  HandleInv'
<1>1. /\ hd'[h] = w /\ \A g \in Handles \ {h} : hd'[g] = hd[g]
      /\ hd' \in [Handles -> HandleRecord]
  BY DEF HandleInv, HandlesTypeOK
<1>2. HandlesTypeOK'
  BY <1>1 DEF HandleInv, HandlesTypeOK
<1>3. ASSUME NEW g \in Handles
      PROVE  WritesOf(g)'
  <2>1. CASE g # h
    BY <2>1, <1>1, LeftAlone DEF HandleInv, Destroying
  <2>2. CASE g = h
    <3>1. sent[h] = <<>> /\ answered[h] = <<>> /\ hd[h] = NoWrap
      BY DEF HandleInv, WritesOf
    <3>2. Answers(h)' = <<>> \o <<>> \o <<>>
      BY <1>1, <3>1 DEF Answers
    <3>3. <<>> \o <<>> \o <<>> = <<>> /\ Len(<<>>) = 0 /\ DOMAIN <<>> = {}
      OBVIOUS
    <3> QED BY <1>1, <2>2, <3>1, <3>2, <3>3 DEF WritesOf
  <2> QED BY <2>1, <2>2
<1>4. CallbackOf'
  BY <1>1 DEF HandleInv, CallbackOf
<1> QED BY <1>2, <1>3, <1>4 DEF HandleInv

\* The watchers of a handle are finitely many.
LEMMA WatchersCounted ==
  ASSUME HandleInv, NEW h \in Handles, NEW ws
  PROVE  UdpStopped(h, ws) \in Int
<1>1. IsFiniteSet({"read", "write", "timer", "child", "idle"})
  <2>1. IsFiniteSet({"read"} \cup {"write"})
    BY FS_Singleton, FS_Union
  <2>2. IsFiniteSet(({"read"} \cup {"write"}) \cup {"timer"})
    BY <2>1, FS_Singleton, FS_Union
  <2>3. IsFiniteSet((({"read"} \cup {"write"}) \cup {"timer"}) \cup {"child"})
    BY <2>2, FS_Singleton, FS_Union
  <2>4. IsFiniteSet(((({"read"} \cup {"write"}) \cup {"timer"}) \cup {"child"}) \cup {"idle"})
    BY <2>3, FS_Singleton, FS_Union
  <2>5. ((({"read"} \cup {"write"}) \cup {"timer"}) \cup {"child"}) \cup {"idle"}
          = {"read", "write", "timer", "child", "idle"}
    OBVIOUS
  <2> QED BY <2>4, <2>5
<1>2. hd[h].watch \subseteq {"read", "write", "timer", "child", "idle"}
  BY DEF HandleInv, HandlesTypeOK, HandleRecord
<1>3. IsFiniteSet(ws \cap hd[h].watch)
  BY <1>1, <1>2, FS_Subset
<1>4. Cardinality(ws \cap hd[h].watch) = Cardinality(ws \cap hd[h].watch)
  BY DEF Cardinality, Cardinality
<1> QED BY <1>3, <1>4, FS_CardinalityType DEF UdpStopped

\* unref and ref, and the calls of a timer.
LEMMA FlagCalls ==
  ASSUME HandleInv, NEW h \in Handles, NEW b \in BOOLEAN,
         \/ Unref(h) \/ Ref(h) \/ TimerStart(h, b) \/ TimerSetRepeat(h, b)
         \/ TimerStop(h)
  PROVE  HandleInv'
<1>1. hd \in [Handles -> HandleRecord] /\ refs \in Int /\ hd[h] \in HandleRecord
  BY DEF HandleInv, HandlesTypeOK
<1>2. CASE Unref(h)
  <2> DEFINE w == [hd[h] EXCEPT !.unref = TRUE]
  <2>1. hd' = [hd EXCEPT ![h] = w]
    BY <1>1, <1>2 DEF Unref
  <2>2. hd[h].wrap = "open" /\ refs' \in Int /\ UNCHANGED <<sent, answered, cb>>
    BY <1>1, <1>2 DEF Unref, Open
  <2>3. w \in HandleRecord
    BY <1>1 DEF HandleRecord
  <2>4. Quiet(h, w)
    BY <1>1, <2>2, <2>3 DEF Quiet, HandleRecord
  <2> HIDE DEF w
  <2> QED BY <2>1, <2>2, <2>4, QuietTo
<1>3. CASE Ref(h)
  <2> DEFINE w == [hd[h] EXCEPT !.unref = FALSE]
  <2>1. hd' = [hd EXCEPT ![h] = w]
    BY <1>1, <1>3 DEF Ref
  <2>2. hd[h].wrap = "open" /\ refs' \in Int /\ UNCHANGED <<sent, answered, cb>>
    BY <1>1, <1>3 DEF Ref, Open
  <2>3. w \in HandleRecord
    BY <1>1 DEF HandleRecord
  <2>4. Quiet(h, w)
    BY <1>1, <2>2, <2>3 DEF Quiet, HandleRecord
  <2> HIDE DEF w
  <2> QED BY <2>1, <2>2, <2>4, QuietTo
<1>4. CASE TimerStart(h, b)
  <2> DEFINE w == [hd[h] EXCEPT !.watch = {"timer"}, !.repeat = b, !.active = TRUE]
  <2>1. hd' = [hd EXCEPT ![h] = w]
    BY <1>1, <1>4 DEF TimerStart
  <2>2. hd[h].wrap = "open" /\ refs' \in Int /\ UNCHANGED <<sent, answered, cb>>
    BY <1>1, <1>4 DEF TimerStart, Open, TimerRef
  <2>3. w \in HandleRecord
    BY <1>1 DEF HandleRecord
  <2>4. Quiet(h, w)
    BY <1>1, <2>2, <2>3 DEF Quiet, HandleRecord
  <2> HIDE DEF w
  <2> QED BY <2>1, <2>2, <2>4, QuietTo
<1>5. CASE TimerSetRepeat(h, b)
  <2> DEFINE w == [hd[h] EXCEPT !.repeat = b]
  <2>1. hd' = [hd EXCEPT ![h] = w]
    BY <1>1, <1>5 DEF TimerSetRepeat
  <2>2. hd[h].wrap = "open" /\ refs' \in Int /\ UNCHANGED <<sent, answered, cb>>
    BY <1>1, <1>5 DEF TimerSetRepeat, Open
  <2>3. w \in HandleRecord
    BY <1>1 DEF HandleRecord
  <2>4. Quiet(h, w)
    BY <1>1, <2>2, <2>3 DEF Quiet, HandleRecord
  <2> HIDE DEF w
  <2> QED BY <2>1, <2>2, <2>4, QuietTo
<1>6. CASE TimerStop(h)
  <2> DEFINE w == [hd[h] EXCEPT !.watch = {}, !.repeat = FALSE, !.active = FALSE]
  <2>1. hd' = [hd EXCEPT ![h] = w]
    BY <1>1, <1>6 DEF TimerStop
  <2>2. hd[h].wrap = "open" /\ refs' \in Int /\ UNCHANGED <<sent, answered, cb>>
    BY <1>1, <1>6 DEF TimerStop, Open, TimerRef
  <2>3. w \in HandleRecord
    BY <1>1 DEF HandleRecord
  <2>4. Quiet(h, w)
    BY <1>1, <2>2, <2>3 DEF Quiet, HandleRecord
  <2> HIDE DEF w
  <2> QED BY <2>1, <2>2, <2>4, QuietTo
<1> QED BY <1>2, <1>3, <1>4, <1>5, <1>6

\* Calls that only start or stop a watcher.
LEMMA ReadCalls ==
  ASSUME HandleInv, NEW h \in Handles,
         \/ Connect(h) \/ Listen(h) \/ ReadStart(h) \/ ReadStop(h) \/ RecvStart(h)
         \/ RecvStop(h) \/ OnReadEnd(h) \/ OnExit(h)
  PROVE  HandleInv'
<1>1. hd \in [Handles -> HandleRecord] /\ refs \in Int /\ hd[h] \in HandleRecord
  BY DEF HandleInv, HandlesTypeOK
<1>2. CASE Connect(h)
  <2> DEFINE w == [hd[h] EXCEPT !.link = "connecting", !.watch = @ \cup {"write"}]
  <2>1. hd' = [hd EXCEPT ![h] = w]
    BY <1>1, <1>2 DEF Connect
  <2>2. hd[h].wrap = "open" /\ refs' \in Int /\ UNCHANGED <<sent, answered, cb>>
    BY <1>1, <1>2 DEF Connect, Open
  <2>3. w \in HandleRecord
    BY <1>1 DEF HandleRecord
  <2>4. Quiet(h, w)
    BY <1>1, <2>2, <2>3 DEF Quiet, HandleRecord
  <2> HIDE DEF w
  <2> QED BY <2>1, <2>2, <2>4, QuietTo
<1>3. CASE Listen(h)
  <2> DEFINE w == [hd[h] EXCEPT !.link = "listening", !.watch = @ \cup {"read"}]
  <2>1. hd' = [hd EXCEPT ![h] = w]
    BY <1>1, <1>3 DEF Listen
  <2>2. hd[h].wrap = "open" /\ refs' \in Int /\ UNCHANGED <<sent, answered, cb>>
    BY <1>1, <1>3 DEF Listen, Open
  <2>3. w \in HandleRecord
    BY <1>1 DEF HandleRecord
  <2>4. Quiet(h, w)
    BY <1>1, <2>2, <2>3 DEF Quiet, HandleRecord
  <2> HIDE DEF w
  <2> QED BY <2>1, <2>2, <2>4, QuietTo
<1>4. CASE ReadStart(h)
  <2> DEFINE w == [hd[h] EXCEPT !.watch = @ \cup {"read"}]
  <2>1. hd' = [hd EXCEPT ![h] = w]
    BY <1>1, <1>4 DEF ReadStart
  <2>2. hd[h].wrap = "open" /\ refs' \in Int /\ UNCHANGED <<sent, answered, cb>>
    BY <1>1, <1>4 DEF ReadStart, Open
  <2>3. w \in HandleRecord
    BY <1>1 DEF HandleRecord
  <2>4. Quiet(h, w)
    BY <1>1, <2>2, <2>3 DEF Quiet, HandleRecord
  <2> HIDE DEF w
  <2> QED BY <2>1, <2>2, <2>4, QuietTo
<1>5. CASE ReadStop(h)
  <2> DEFINE w == [hd[h] EXCEPT !.watch = @ \ {"read"}]
  <2>1. hd' = [hd EXCEPT ![h] = w]
    BY <1>1, <1>5 DEF ReadStop
  <2>2. hd[h].wrap = "open" /\ refs' \in Int /\ UNCHANGED <<sent, answered, cb>>
    BY <1>1, <1>5 DEF ReadStop, Open
  <2>3. w \in HandleRecord
    BY <1>1 DEF HandleRecord
  <2>4. Quiet(h, w)
    BY <1>1, <2>2, <2>3 DEF Quiet, HandleRecord
  <2> HIDE DEF w
  <2> QED BY <2>1, <2>2, <2>4, QuietTo
<1>6. CASE RecvStart(h)
  <2> DEFINE w == [hd[h] EXCEPT !.watch = @ \cup {"read"}]
  <2>1. hd' = [hd EXCEPT ![h] = w]
    BY <1>1, <1>6 DEF RecvStart
  <2>2. hd[h].wrap = "open" /\ refs' \in Int /\ UNCHANGED <<sent, answered, cb>>
    BY <1>1, <1>6 DEF RecvStart, Open, UdpStarted
  <2>3. w \in HandleRecord
    BY <1>1 DEF HandleRecord
  <2>4. Quiet(h, w)
    BY <1>1, <2>2, <2>3 DEF Quiet, HandleRecord
  <2> HIDE DEF w
  <2> QED BY <2>1, <2>2, <2>4, QuietTo
<1>7. CASE RecvStop(h)
  <2> DEFINE w == [hd[h] EXCEPT !.watch = @ \ {"read"}]
  <2>1. hd' = [hd EXCEPT ![h] = w]
    BY <1>1, <1>7 DEF RecvStop
  <2>2. hd[h].wrap = "open" /\ refs' \in Int /\ UNCHANGED <<sent, answered, cb>>
    BY <1>1, <1>7, WatchersCounted DEF RecvStop, Open
  <2>3. w \in HandleRecord
    BY <1>1 DEF HandleRecord
  <2>4. Quiet(h, w)
    BY <1>1, <2>2, <2>3 DEF Quiet, HandleRecord
  <2> HIDE DEF w
  <2> QED BY <2>1, <2>2, <2>4, QuietTo
<1>8. CASE OnReadEnd(h)
  <2> DEFINE w == [hd[h] EXCEPT !.watch = @ \ {"read"}]
  <2>1. hd' = [hd EXCEPT ![h] = w]
    BY <1>1, <1>8 DEF OnReadEnd
  <2>2. hd[h].wrap = "open" /\ refs' \in Int /\ UNCHANGED <<sent, answered, cb>>
    BY <1>1, <1>8 DEF OnReadEnd, Open
  <2>3. w \in HandleRecord
    BY <1>1 DEF HandleRecord
  <2>4. Quiet(h, w)
    BY <1>1, <2>2, <2>3 DEF Quiet, HandleRecord
  <2> HIDE DEF w
  <2> QED BY <2>1, <2>2, <2>4, QuietTo
<1>9. CASE OnExit(h)
  <2> DEFINE w == [hd[h] EXCEPT !.watch = {}]
  <2>1. hd' = [hd EXCEPT ![h] = w]
    BY <1>1, <1>9 DEF OnExit
  <2>2. hd[h].wrap = "open" /\ refs' \in Int /\ UNCHANGED <<sent, answered, cb>>
    BY <1>1, <1>9 DEF OnExit, Open
  <2>3. w \in HandleRecord
    BY <1>1 DEF HandleRecord
  <2>4. Quiet(h, w)
    BY <1>1, <2>2, <2>3 DEF Quiet, HandleRecord
  <2> HIDE DEF w
  <2> QED BY <2>1, <2>2, <2>4, QuietTo
<1> QED BY <1>2, <1>3, <1>4, <1>5, <1>6, <1>7, <1>8, <1>9

\* A shutdown, and a close: what it stops of a timer or a watch it has counted.
LEMMA EndCalls ==
  ASSUME HandleInv, NEW h \in Handles,
         Shutdown(h) \/ Close(h)
  PROVE  HandleInv'
<1>1. hd \in [Handles -> HandleRecord] /\ refs \in Int /\ hd[h] \in HandleRecord
  BY DEF HandleInv, HandlesTypeOK
<1>2. CASE Shutdown(h)
  <2> DEFINE w == [hd[h] EXCEPT !.shut = "asked", !.watch = @ \cup {"write"}]
  <2>1. hd' = [hd EXCEPT ![h] = w]
    BY <1>1, <1>2 DEF Shutdown
  <2>2. hd[h].wrap = "open" /\ refs' \in Int /\ UNCHANGED <<sent, answered, cb>>
    BY <1>1, <1>2 DEF Shutdown, Open
  <2>3. w \in HandleRecord
    BY <1>1 DEF HandleRecord
  <2>4. Quiet(h, w)
    BY <1>1, <2>2, <2>3, <1>2 DEF Quiet, HandleRecord, Shutdown, Open
  <2> HIDE DEF w
  <2> QED BY <2>1, <2>2, <2>4, QuietTo
<1>3. CASE Close(h)
  <2> DEFINE w == [hd[h] EXCEPT !.wrap = "closing", !.watch = {"idle"}, !.fed = FALSE,
                              !.unref = FALSE, !.active = FALSE, !.repeat = FALSE]
  <2>1. hd' = [hd EXCEPT ![h] = w]
    BY <1>1, <1>3 DEF Close
  <2>2. hd[h].wrap = "open" /\ refs' \in Int /\ UNCHANGED <<sent, answered, cb>>
    BY <1>1, <1>3, WatchersCounted DEF Close, Open, StoppedRefs, TimerRef
  <2>3. w \in HandleRecord
    BY <1>1 DEF HandleRecord
  <2>4. Quiet(h, w)
    BY <1>1, <2>2, <2>3 DEF Quiet, HandleRecord
  <2> HIDE DEF w
  <2> QED BY <2>1, <2>2, <2>4, QuietTo
<1> QED BY <1>2, <1>3

\* A child, which may not be made.
LEMMA SpawnStep ==
  ASSUME HandleInv, NEW h \in Handles, Spawn(h)
  PROVE  HandleInv'
<1>1. hd \in [Handles -> HandleRecord] /\ refs \in Int /\ hd[h] \in HandleRecord
  BY DEF HandleInv, HandlesTypeOK
<1>2. hd[h].wrap = "open" /\ refs' \in Int /\ UNCHANGED <<sent, answered, cb>>
  BY <1>1 DEF Spawn, Open
<1>3. ASSUME hd' = [hd EXCEPT ![h].inited = TRUE, ![h].watch = {"child"},
                              ![h].link = "connected"]
      PROVE  HandleInv'
  <2> DEFINE w == [hd[h] EXCEPT !.inited = TRUE, !.watch = {"child"}, !.link = "connected"]
  <2>1. hd' = [hd EXCEPT ![h] = w]
    BY <1>1, <1>3
  <2>2. w \in HandleRecord
    BY <1>1 DEF HandleRecord
  <2>3. Quiet(h, w)
    BY <1>1, <1>2, <2>2 DEF Quiet, HandleRecord
  <2> HIDE DEF w
  <2> QED BY <1>2, <2>1, <2>3, QuietTo
<1>4. ASSUME hd' = [hd EXCEPT ![h].link = "failed"]
      PROVE  HandleInv'
  <2> DEFINE w == [hd[h] EXCEPT !.link = "failed"]
  <2>1. hd' = [hd EXCEPT ![h] = w]
    BY <1>1, <1>4
  <2>2. w \in HandleRecord
    BY <1>1 DEF HandleRecord
  <2>3. Quiet(h, w)
    BY <1>1, <1>2, <2>2 DEF Quiet, HandleRecord
  <2> HIDE DEF w
  <2> QED BY <1>2, <2>1, <2>3, QuietTo
<1> QED BY <1>3, <1>4 DEF Spawn

\* The connection of a pipe.
LEMMA PipeConnectStep ==
  ASSUME HandleInv, NEW h \in Handles, PipeConnect(h)
  PROVE  HandleInv'
<1>1. hd \in [Handles -> HandleRecord] /\ refs \in Int /\ hd[h] \in HandleRecord
  BY DEF HandleInv, HandlesTypeOK
<1>2. hd[h].wrap = "open" /\ refs' \in Int /\ UNCHANGED <<sent, answered, cb>>
  BY <1>1 DEF PipeConnect, Open
<1>3. ASSUME NEW found \in BOOLEAN,
             hd' = [hd EXCEPT ![h].link = IF found THEN "connecting" ELSE "refused",
                              ![h].watch = IF found THEN {"read", "write"} ELSE {},
                              ![h].fed = TRUE]
      PROVE  HandleInv'
  <2> DEFINE w == [hd[h] EXCEPT !.link = IF found THEN "connecting" ELSE "refused",
                              !.watch = IF found THEN {"read", "write"} ELSE {}, !.fed = TRUE]
  <2>1. hd' = [hd EXCEPT ![h] = w]
    BY <1>1, <1>3
  <2>2. w \in HandleRecord
    BY <1>1, <1>3 DEF HandleRecord
  <2>3. Quiet(h, w)
    BY <1>1, <1>2, <2>2 DEF Quiet, HandleRecord
  <2> HIDE DEF w
  <2> QED BY <1>2, <2>1, <2>3, QuietTo
<1> QED BY <1>3 DEF PipeConnect

\* The answer to a connect.
LEMMA AfterConnectStep ==
  ASSUME HandleInv, NEW h \in Handles, AfterConnect(h)
  PROVE  HandleInv'
<1>1. hd \in [Handles -> HandleRecord] /\ refs \in Int /\ hd[h] \in HandleRecord
  BY DEF HandleInv, HandlesTypeOK
<1>2. hd[h].wrap = "open" /\ refs' \in Int /\ UNCHANGED <<sent, answered, cb>>
  BY <1>1 DEF AfterConnect, Open
<1>3. ASSUME hd' = [hd EXCEPT ![h].link = "connected", ![h].fed = FALSE,
                              ![h].watch = @ \cup {"read"}]
      PROVE  HandleInv'
  <2> DEFINE w == [hd[h] EXCEPT !.link = "connected", !.fed = FALSE, !.watch = @ \cup {"read"}]
  <2>1. hd' = [hd EXCEPT ![h] = w]
    BY <1>1, <1>3
  <2>2. w \in HandleRecord
    BY <1>1 DEF HandleRecord
  <2>3. Quiet(h, w)
    BY <1>1, <1>2, <2>2 DEF Quiet, HandleRecord
  <2> HIDE DEF w
  <2> QED BY <1>2, <2>1, <2>3, QuietTo
<1>4. ASSUME hd' = [hd EXCEPT ![h].link = "failed", ![h].fed = FALSE]
      PROVE  HandleInv'
  <2> DEFINE w == [hd[h] EXCEPT !.link = "failed", !.fed = FALSE]
  <2>1. hd' = [hd EXCEPT ![h] = w]
    BY <1>1, <1>4
  <2>2. w \in HandleRecord
    BY <1>1 DEF HandleRecord
  <2>3. Quiet(h, w)
    BY <1>1, <1>2, <2>2 DEF Quiet, HandleRecord
  <2> HIDE DEF w
  <2> QED BY <1>2, <2>1, <2>3, QuietTo
<1> QED BY <1>3, <1>4 DEF AfterConnect

\* A timer fires.
LEMMA OnTimeoutStep ==
  ASSUME HandleInv, NEW h \in Handles, OnTimeout(h)
  PROVE  HandleInv'
<1>1. hd \in [Handles -> HandleRecord] /\ refs \in Int /\ hd[h] \in HandleRecord
  BY DEF HandleInv, HandlesTypeOK
<1>2. hd[h].wrap = "open" /\ refs' \in Int /\ UNCHANGED <<sent, answered, cb>>
  BY <1>1 DEF OnTimeout, Open, TimerRef
<1>3. ASSUME hd' = hd
      PROVE  HandleInv'
  <2> DEFINE w == hd[h]
  <2>1. hd' = [hd EXCEPT ![h] = w]
    BY <1>1, <1>3
  <2>2. w \in HandleRecord
    BY <1>1 DEF HandleRecord
  <2>3. Quiet(h, w)
    BY <1>1, <1>2, <2>2 DEF Quiet, HandleRecord
  <2> HIDE DEF w
  <2> QED BY <1>2, <2>1, <2>3, QuietTo
<1>4. ASSUME hd' = [hd EXCEPT ![h].watch = {}, ![h].active = FALSE]
      PROVE  HandleInv'
  <2> DEFINE w == [hd[h] EXCEPT !.watch = {}, !.active = FALSE]
  <2>1. hd' = [hd EXCEPT ![h] = w]
    BY <1>1, <1>4
  <2>2. w \in HandleRecord
    BY <1>1 DEF HandleRecord
  <2>3. Quiet(h, w)
    BY <1>1, <1>2, <2>2 DEF Quiet, HandleRecord
  <2> HIDE DEF w
  <2> QED BY <1>2, <2>1, <2>3, QuietTo
<1> QED BY <1>3, <1>4 DEF OnTimeout

\* A watch of a file, persistent or not.
LEMMA FsEventStartStep ==
  ASSUME HandleInv, NEW h \in Handles, Persistent \subseteq BOOLEAN, FsEventStart(h)
  PROVE  HandleInv'
<1>1. hd \in [Handles -> HandleRecord] /\ refs \in Int /\ hd[h] \in HandleRecord
  BY DEF HandleInv, HandlesTypeOK
<1>2. PICK b \in BOOLEAN : /\ hd' = [hd EXCEPT ![h].inited = TRUE, ![h].watch = {"read"},
                                              ![h].keep = b]
                           /\ refs' = refs + 1 - 1 + (IF b THEN 0 ELSE -1)
  BY DEF FsEventStart
<1>3. hd[h].wrap = "open" /\ refs' \in Int /\ UNCHANGED <<sent, answered, cb>>
  BY <1>1, <1>2 DEF FsEventStart, Open
<1> DEFINE w == [hd[h] EXCEPT !.inited = TRUE, !.watch = {"read"}, !.keep = b]
<1>4. hd' = [hd EXCEPT ![h] = w]
  BY <1>1, <1>2
<1>5. w \in HandleRecord
  BY <1>1 DEF HandleRecord
<1>6. Quiet(h, w)
  BY <1>1, <1>3, <1>5 DEF Quiet, HandleRecord
<1> HIDE DEF w
<1> QED BY <1>3, <1>4, <1>6, QuietTo

\* The constructors. A kind is one of those there are (node_extensions.h).
LEMMA NewCalls ==
  ASSUME HandleInv, NEW h \in Handles,
         \/ NewTcp(h) \/ NewPipe(h) \/ NewTty(h) \/ NewUdp(h)
         \/ NewTimer(h) \/ NewProcess(h) \/ NewFsEvent(h)
  PROVE  HandleInv'
<1>1. ASSUME NEW kind \in {"tcp", "pipe", "tty", "udp", "timer", "process", "fsevent"},
             NEW new \in HandleRecord, NEW more \in Int, Wrap(h, kind, new, more),
             new.queue = <<>>, new.completed = <<>>, new.shut = "no", new.told = 0
      PROVE  HandleInv'
  <2> DEFINE w == [new EXCEPT !.kind = kind, !.wrap = "open"]
  <2>1. hd' = [hd EXCEPT ![h] = w] /\ hd[h].wrap = "none" /\ UNCHANGED <<sent, answered, cb>>
    BY <1>1 DEF Wrap
  <2>2. refs' \in Int
    BY <1>1 DEF Wrap, HandleInv, HandlesTypeOK
  <2>3. kind \in StreamKinds \cup {"udp", "timer", "process", "fsevent", "none"}
    BY DEF StreamKinds
  <2>4. w \in HandleRecord
    BY <2>3 DEF HandleRecord
  <2>5. w.wrap = "open" /\ w.queue = <<>> /\ w.completed = <<>> /\ w.shut = "no" /\ w.told = 0
    BY <1>1 DEF HandleRecord
  <2> HIDE DEF w
  <2> QED BY <2>1, <2>2, <2>4, <2>5, NewWrapStep
<1>2. /\ NoWrap \in HandleRecord /\ NoWrap.queue = <<>> /\ NoWrap.completed = <<>>
      /\ NoWrap.shut = "no" /\ NoWrap.told = 0
  BY NoWrapIs
<1> DEFINE Inited == [NoWrap EXCEPT !.inited = TRUE]
           Linked == [NoWrap EXCEPT !.inited = TRUE, !.link = "connected"]
<1>3. Inited \in HandleRecord
  BY <1>2 DEF HandleRecord
<1>4. /\ Inited.queue = <<>> /\ Inited.completed = <<>> /\ Inited.shut = "no" /\ Inited.told = 0
  BY <1>2 DEF HandleRecord
<1>5. Linked \in HandleRecord
  BY <1>2 DEF HandleRecord
<1>6. /\ Linked.queue = <<>> /\ Linked.completed = <<>> /\ Linked.shut = "no" /\ Linked.told = 0
  BY <1>2 DEF HandleRecord
<1>7. \/ \E kind \in {"tcp", "pipe"} : Wrap(h, kind, Inited, 1)
      \/ \E kind \in {"tty", "udp"} : Wrap(h, kind, Linked, 1)
      \/ Wrap(h, "timer", Inited, 0)
      \/ \E kind \in {"process", "fsevent"} : Wrap(h, kind, NoWrap, 0)
  <2>1. 1 - 1 = 0
    OBVIOUS
  <2> QED BY <2>1 DEF NewTcp, NewPipe, NewTty, NewUdp, NewTimer, NewProcess, NewFsEvent
<1> HIDE DEF Inited, Linked
<1> QED BY <1>1, <1>2, <1>3, <1>4, <1>5, <1>6, <1>7

\* A sequence that is not empty is its head and what follows.
LEMMA HeadAndTail ==
  ASSUME NEW Any, NEW s \in Seq(Any), s # <<>>
  PROVE  /\ Head(s) \in Any /\ Tail(s) \in Seq(Any) /\ <<Head(s)>> \in Seq(Any)
         /\ s = <<Head(s)>> \o Tail(s)
<1>1. /\ Head(s) \in Any /\ Tail(s) \in Seq(Any) /\ Len(Tail(s)) = Len(s) - 1
      /\ Len(s) \in Nat \ {0}
      /\ \A k \in 1 .. Len(Tail(s)) : Tail(s)[k] = s[k + 1]
  BY HeadTailProperties, EmptySeq
<1>2. Head(s) = s[1]
  OBVIOUS
<1>3. <<Head(s)>> \in Seq(Any) /\ Len(<<Head(s)>>) = 1 /\ <<Head(s)>>[1] = Head(s)
  BY <1>1
<1> DEFINE one == <<Head(s)>>
           t == Tail(s)
<1> HIDE DEF one, t
<1>4. /\ one \o t \in Seq(Any) /\ Len(one \o t) = Len(one) + Len(t)
      /\ \A k \in 1 .. Len(one) + Len(t) :
           (one \o t)[k] = IF k <= Len(one) THEN one[k] ELSE t[k - Len(one)]
  BY <1>1, <1>3, ConcatProperties DEF one, t
<1>5. Len(one \o t) = Len(s)
  BY <1>1, <1>3, <1>4 DEF one, t
<1>6. ASSUME NEW k \in 1 .. Len(s)
      PROVE  s[k] = (one \o t)[k]
  <2>1. CASE k = 1
    BY <2>1, <1>1, <1>2, <1>3, <1>4, <1>5 DEF one
  <2>2. CASE k # 1
    <3>1. k - 1 \in 1 .. Len(t) /\ ~(k <= Len(one)) /\ (k - 1) + 1 = k /\ Len(one) = 1
      BY <2>2, <1>1, <1>3 DEF one, t
    <3> QED BY <3>1, <1>1, <1>4, <1>5 DEF t
  <2> QED BY <2>1, <2>2
<1>7. s = one \o t
  BY <1>4, <1>5, <1>6, SeqEqual
<1> QED BY <1>1, <1>3, <1>7 DEF one, t

\* Three sequences one after the other: what goes from the head of the second to the
\* end of the first leaves the whole as it is;
LEMMA AnswerMoves ==
  ASSUME NEW Any, NEW a \in Seq(Any), NEW c \in Seq(Any), NEW q \in Seq(Any),
         NEW s, s = a \o c \o q, c # <<>>
  PROVE  Append(a, Head(c)) \o Tail(c) \o q = s
<1>1. /\ Head(c) \in Any /\ Tail(c) \in Seq(Any) /\ <<Head(c)>> \in Seq(Any)
      /\ c = <<Head(c)>> \o Tail(c)
  BY HeadAndTail
<1>2. Append(a, Head(c)) = a \o <<Head(c)>>
  BY <1>1, AppendIsConcat
<1>3. (a \o <<Head(c)>>) \o Tail(c) = a \o (<<Head(c)>> \o Tail(c))
  BY <1>1, ConcatAssociative
<1> QED BY <1>1, <1>2, <1>3

\* ... the same for the head of the last, when the one between is empty;
LEMMA LastMoves ==
  ASSUME NEW Any, NEW a \in Seq(Any), NEW c \in Seq(Any), NEW q \in Seq(Any),
         NEW s, s = a \o c \o q, q # <<>>, c = <<>>
  PROVE  Append(a, Head(q)) \o c \o Tail(q) = s
<1>1. /\ Head(q) \in Any /\ Tail(q) \in Seq(Any) /\ <<Head(q)>> \in Seq(Any)
      /\ q = <<Head(q)>> \o Tail(q)
  BY HeadAndTail
<1>2. Append(a, Head(q)) = a \o <<Head(q)>> /\ Append(a, Head(q)) \in Seq(Any)
  BY <1>1, AppendIsConcat, AppendProperties
<1>3. Append(a, Head(q)) \o c = Append(a, Head(q)) /\ a \o c = a
  BY <1>2, ConcatEmptySeq
<1>4. (a \o <<Head(q)>>) \o Tail(q) = a \o (<<Head(q)>> \o Tail(q))
  BY <1>1, ConcatAssociative
<1> QED BY <1>1, <1>2, <1>3, <1>4

\* ... for what is put behind the last,
LEMMA OneWaits ==
  ASSUME NEW Any, NEW a \in Seq(Any), NEW c \in Seq(Any), NEW q \in Seq(Any),
         NEW s, s = a \o c \o q, NEW x \in Any
  PROVE  a \o c \o Append(q, x) = Append(s, x)
<1>1. a \o c \in Seq(Any) /\ a \o c \o q \in Seq(Any) /\ <<x>> \in Seq(Any)
  BY ConcatProperties
<1>2. Append(q, x) = q \o <<x>> /\ Append(a \o c \o q, x) = (a \o c \o q) \o <<x>>
  BY <1>1, AppendIsConcat
<1>3. (a \o c) \o (q \o <<x>>) = ((a \o c) \o q) \o <<x>>
  BY <1>1, ConcatAssociative
<1> QED BY <1>2, <1>3

\* ... and behind the second, when the last is empty.
LEMMA OneDone ==
  ASSUME NEW Any, NEW a \in Seq(Any), NEW c \in Seq(Any), NEW q \in Seq(Any),
         NEW s, s = a \o c \o q, NEW x \in Any, q = <<>>
  PROVE  a \o Append(c, x) \o q = Append(s, x)
<1>1. a \o c \in Seq(Any) /\ a \o c \o q \in Seq(Any) /\ <<x>> \in Seq(Any)
  BY ConcatProperties
<1>2. /\ Append(c, x) = c \o <<x>> /\ Append(a \o c, x) = (a \o c) \o <<x>>
      /\ Append(a \o c, x) \in Seq(Any)
  BY <1>1, AppendIsConcat, AppendProperties
<1>3. a \o (c \o <<x>>) = (a \o c) \o <<x>>
  BY <1>1, ConcatAssociative
<1>4. (a \o c) \o q = a \o c /\ Append(a \o c, x) \o q = Append(a \o c, x)
  BY <1>1, <1>2, ConcatEmptySeq
<1> QED BY <1>2, <1>3, <1>4

\* A step that changes the writes of one handle.
LEMMA OneHandle ==
  ASSUME HandleInv, NEW h \in Handles, HandlesTypeOK', CallbackOf', WritesOf(h)',
         \A g \in Handles \ {h} : /\ hd'[g] = hd[g] /\ sent'[g] = sent[g]
                                  /\ answered'[g] = answered[g]
                                  /\ Destroying(g) => Destroying(g)'
  PROVE  HandleInv'
<1>1. ASSUME NEW g \in Handles \ {h}
      PROVE  WritesOf(g)'
  BY LeftAlone DEF HandleInv
<1> QED BY <1>1 DEF HandleInv

\* What is known of the state of a handle, piece by piece.
LEMMA HandleIs ==
  ASSUME HandleInv, NEW h \in Handles
  PROVE  /\ hd \in [Handles -> HandleRecord] /\ hd[h] \in HandleRecord
         /\ answered \in [Handles -> Seq(Reqs)] /\ sent \in [Handles -> Seq(Reqs)]
         /\ answered[h] \in Seq(Reqs) /\ sent[h] \in Seq(Reqs)
         /\ hd[h].completed \in Seq(Reqs) /\ hd[h].queue \in Seq(Reqs)
         /\ refs \in Int /\ cb \in [at: {"idle", "writes", "destroy"}, h: Handles \cup {NoHandle}]
         /\ Answers(h) \in Seq(Reqs) /\ WritesOf(h) /\ CallbackOf
<1>1. /\ hd \in [Handles -> HandleRecord] /\ hd[h] \in HandleRecord
      /\ answered \in [Handles -> Seq(Reqs)] /\ sent \in [Handles -> Seq(Reqs)]
      /\ answered[h] \in Seq(Reqs) /\ sent[h] \in Seq(Reqs)
      /\ refs \in Int /\ cb \in [at: {"idle", "writes", "destroy"}, h: Handles \cup {NoHandle}]
      /\ WritesOf(h) /\ CallbackOf
  BY DEF HandleInv, HandlesTypeOK
<1>2. hd[h].completed \in Seq(Reqs) /\ hd[h].queue \in Seq(Reqs)
  BY <1>1 DEF HandleRecord
<1>3. Answers(h) \in Seq(Reqs)
  BY <1>1, <1>2, ConcatProperties DEF Answers
<1> QED BY <1>1, <1>2, <1>3

\* A handle is destroyed only when it was closed.
LEMMA NotDestroyed ==
  ASSUME HandleInv, NEW h \in Handles, hd[h].wrap # "closing"
  PROVE  ~Destroying(h)
<1>1. CallbackOf
  BY DEF HandleInv
<1>2. ASSUME Destroying(h)
      PROVE  FALSE
  <2>1. cb.at = "destroy" /\ cb.h = h
    BY <1>2 DEF Destroying
  <2> QED BY <1>1, <2>1 DEF CallbackOf
<1> QED BY <1>2

\* Where a write that is made or moves stands among all of them.
LEMMA Standing ==
  ASSUME HandleInv, NEW h \in Handles, NEW r \in Reqs
  PROVE  /\ answered[h] \o hd[h].completed \o Append(hd[h].queue, r) = Append(Answers(h), r)
         /\ hd[h].queue = <<>> =>
              answered[h] \o Append(hd[h].completed, r) \o hd[h].queue = Append(Answers(h), r)
         /\ hd[h].queue # <<>> =>
              answered[h] \o Append(hd[h].completed, Head(hd[h].queue)) \o Tail(hd[h].queue)
                = Answers(h)
         /\ hd[h].completed # <<>> =>
              Append(answered[h], Head(hd[h].completed)) \o Tail(hd[h].completed) \o hd[h].queue
                = Answers(h)
         /\ hd[h].queue # <<>> /\ hd[h].completed = <<>> =>
              Append(answered[h], Head(hd[h].queue)) \o hd[h].completed \o Tail(hd[h].queue)
                = Answers(h)
<1>1. PICK a, c, q, s : /\ a = answered[h] /\ c = hd[h].completed /\ q = hd[h].queue
                        /\ s = Answers(h)
  OBVIOUS
<1>2. a \in Seq(Reqs) /\ c \in Seq(Reqs)
  BY <1>1, HandleIs
<1>3. q \in Seq(Reqs)
  BY <1>1, HandleIs
<1>4. s = a \o c \o q
  BY <1>1 DEF Answers
<1>5. a \o c \o Append(q, r) = Append(s, r)
  BY <1>2, <1>3, <1>4, OneWaits
<1>6. q = <<>> => a \o Append(c, r) \o q = Append(s, r)
  BY <1>2, <1>3, <1>4, OneDone
<1>7. q # <<>> => a \o Append(c, Head(q)) \o Tail(q) = s
  <2>1. SUFFICES ASSUME q # <<>>
                 PROVE  a \o Append(c, Head(q)) \o Tail(q) = s
    OBVIOUS
  <2>2. PICK x, t, one, both : x = Head(q) /\ t = Tail(q) /\ one = <<x>> /\ both = a \o c
    OBVIOUS
  <2>3. x \in Reqs /\ one \in Seq(Reqs)
    BY <1>3, <2>1, <2>2, HeadAndTail
  <2>4. t \in Seq(Reqs) /\ q = one \o t
    BY <1>3, <2>1, <2>2, HeadAndTail
  <2>5. Append(c, x) = c \o one
    BY <1>2, <2>2, <2>3, AppendIsConcat
  <2>6. (a \o c) \o one = a \o (c \o one)
    BY <1>2, <2>3, ConcatAssociative
  <2>7. both \in Seq(Reqs)
    BY <1>2, <2>2, ConcatProperties
  <2>8. t \in Seq(Reqs)
    BY <2>4
  <2>9. (both \o one) \o t = both \o (one \o t)
    BY <2>3, <2>7, <2>8, ConcatAssociative
  <2> QED BY <1>4, <2>2, <2>4, <2>5, <2>6, <2>9
<1>8. c # <<>> => Append(a, Head(c)) \o Tail(c) \o q = s
  BY <1>2, <1>3, <1>4, AnswerMoves
<1>9. q # <<>> /\ c = <<>> => Append(a, Head(q)) \o c \o Tail(q) = s
  BY <1>2, <1>3, <1>4, LastMoves
<1> QED BY <1>1, <1>5, <1>6, <1>7, <1>8, <1>9

\* One more write: it waits behind the others, or is done when none waits.
LEMMA WriteMade ==
  ASSUME HandleInv, NEW h \in Handles, NEW r \in Reqs, NEW w \in HandleRecord,
         hd[h].wrap = "open", hd[h].told = 0 \/ hd[h].shut = "no",
         hd' = [hd EXCEPT ![h] = w], sent' = [sent EXCEPT ![h] = Append(@, r)],
         refs' \in Int, UNCHANGED <<answered, cb>>,
         w.wrap = "open" /\ w.kind = hd[h].kind /\ w.shut = hd[h].shut /\ w.told = hd[h].told,
         \/ w.queue = Append(hd[h].queue, r) /\ w.completed = hd[h].completed
         \/ hd[h].queue = <<>> /\ w.queue = <<>> /\ w.completed = Append(hd[h].completed, r)
  PROVE  HandleInv'
<1>1. /\ hd'[h] = w /\ \A g \in Handles \ {h} : hd'[g] = hd[g]
      /\ hd' \in [Handles -> HandleRecord]
  BY HandleIs
<1>2. /\ sent'[h] = Append(sent[h], r) /\ \A g \in Handles \ {h} : sent'[g] = sent[g]
      /\ sent' \in [Handles -> Seq(Reqs)] /\ answered' = answered /\ cb' = cb
  <2>1. sent \in [Handles -> Seq(Reqs)] /\ Append(sent[h], r) \in Seq(Reqs)
    BY HandleIs, AppendProperties
  <2> QED BY <2>1
<1>3. HandlesTypeOK'
  BY <1>1, <1>2, HandleIs DEF HandlesTypeOK
<1>4. CallbackOf'
  BY <1>1, <1>2, HandleIs DEF CallbackOf
<1>5. ~Destroying(h)
  BY NotDestroyed
<1>6. Answers(h)' = Append(Answers(h), r)
  <2>1. Answers(h)' = answered[h] \o w.completed \o w.queue
    BY <1>1, <1>2 DEF Answers
  <2> QED BY <2>1, Standing
<1>7. Answers(h) = sent[h] /\ WritesOf(h)
  BY <1>5, HandleIs DEF WritesOf
<1>8. Answers(h)' = sent'[h]
  BY <1>2, <1>6, <1>7
<1>9. WritesOf(h)'
  <2>1. hd[h].told \in 0 .. 2 /\ ~(hd[h].told > 0)
    BY <1>7, HandleIs DEF WritesOf, HandleRecord
  <2> QED BY <1>1, <1>7, <1>8, <2>1 DEF WritesOf
<1> QED BY <1>1, <1>2, <1>3, <1>4, <1>9, OneHandle DEF Destroying

\* Only one handle is in the middle of something.
LEMMA OthersRest ==
  ASSUME NEW h \in Handles, cb = Idle \/ cb.h = h
  PROVE  \A g \in Handles \ {h} : ~Destroying(g)
BY DEF Destroying, Idle

\* A step of the loop that answers or moves writes of one handle, in their order.
LEMMA InOrder ==
  ASSUME HandleInv, NEW h \in Handles, NEW w \in HandleRecord,
         hd' = [hd EXCEPT ![h] = w], sent' = sent, refs' \in Int,
         answered' \in [Handles -> Seq(Reqs)],
         \A g \in Handles \ {h} : answered'[g] = answered[g],
         cb = Idle \/ cb.h = h,
         \/ cb' = Idle
         \/ cb' = [at |-> "writes", h |-> h] /\ w.wrap \in {"open", "closing"}
         \/ cb' = [at |-> "destroy", h |-> h] /\ w.wrap = "closing",
         w.wrap # "none", w.wrap = "gone" => w.queue = <<>> /\ w.completed = <<>>,
         w.shut # "no" => w.kind \in {"tcp", "pipe"},
         w.told > 0 => w.shut # "no" /\ answered'[h] = sent[h],
         answered'[h] \o w.completed \o w.queue = Answers(h),
         \/ Answers(h) = sent[h]
         \/ cb' = [at |-> "destroy", h |-> h] \/ w.wrap = "gone"
  PROVE  HandleInv'
<1>1. /\ hd'[h] = w /\ \A g \in Handles \ {h} : hd'[g] = hd[g]
      /\ hd' \in [Handles -> HandleRecord]
  BY HandleIs
<1>2. cb' \in [at: {"idle", "writes", "destroy"}, h: Handles \cup {NoHandle}]
  BY DEF Idle
<1>3. HandlesTypeOK'
  BY <1>1, <1>2, HandleIs DEF HandlesTypeOK
<1>4. CallbackOf'
  BY <1>1 DEF CallbackOf, Idle
<1>5. Answers(h)' = Answers(h)
  <2>1. Answers(h)' = answered'[h] \o w.completed \o w.queue
    BY <1>1 DEF Answers
  <2> QED BY <2>1
<1>6. /\ Len(Answers(h)) = Len(sent[h])
      /\ \A x \in DOMAIN sent[h] : \E y \in DOMAIN Answers(h) : Answers(h)[y] = sent[h][x]
  BY HandleIs DEF WritesOf
<1>7. ~Destroying(h)' /\ w.wrap # "gone" => Answers(h) = sent[h]
  BY DEF Destroying
<1>8. WritesOf(h)'
  <2>1. /\ Len(Answers(h)') = Len(sent'[h])
        /\ \A x \in DOMAIN sent'[h] : \E y \in DOMAIN Answers(h)' : Answers(h)'[y] = sent'[h][x]
    BY <1>5, <1>6
  <2>2. ~Destroying(h)' /\ hd'[h].wrap # "gone" => Answers(h)' = sent'[h]
    BY <1>1, <1>5, <1>7
  <2>3. /\ hd'[h].wrap # "none"
        /\ hd'[h].wrap = "gone" => hd'[h].queue = <<>> /\ hd'[h].completed = <<>>
        /\ hd'[h].shut # "no" => hd'[h].kind \in {"tcp", "pipe"}
        /\ hd'[h].told > 0 => hd'[h].shut # "no" /\ answered'[h] = sent'[h]
    BY <1>1
  <2> QED BY <2>1, <2>2, <2>3 DEF WritesOf
<1>9. \A g \in Handles \ {h} : ~Destroying(g)
  BY OthersRest
<1> QED BY <1>1, <1>3, <1>4, <1>8, <1>9, OneHandle

\* A write that is not answered yet: no shutdown was.
LEMMA NoneTold ==
  ASSUME HandleInv, NEW h \in Handles, hd[h].queue # <<>> \/ hd[h].completed # <<>>
  PROVE  hd[h].told = 0
<1>1. PICK a, c, q : a = answered[h] /\ c = hd[h].completed /\ q = hd[h].queue
  OBVIOUS
<1>2. a \in Seq(Reqs) /\ c \in Seq(Reqs) /\ q \in Seq(Reqs)
  BY <1>1, HandleIs
<1>3. a \o c \in Seq(Reqs) /\ Len(a \o c) = Len(a) + Len(c)
  BY <1>2, ConcatProperties
<1>4. Len(a \o c \o q) = Len(a) + Len(c) + Len(q)
  BY <1>2, <1>3, ConcatProperties
<1>5. Len(c) > 0 \/ Len(q) > 0
  BY <1>1, <1>2, EmptySeq
<1>6. Len(a) \in Nat /\ Len(c) \in Nat /\ Len(q) \in Nat
  BY <1>2
<1>7. ASSUME hd[h].told > 0
      PROVE  FALSE
  <2>1. a = sent[h] /\ Len(Answers(h)) = Len(sent[h])
    BY <1>1, <1>7, HandleIs DEF WritesOf
  <2>2. Len(Answers(h)) = Len(a) + Len(c) + Len(q)
    BY <1>1, <1>4 DEF Answers
  <2> QED BY <1>5, <1>6, <2>1, <2>2
<1>8. hd[h] \in HandleRecord
  BY HandleIs
<1>9. hd[h].told \in 0 .. 2
  BY <1>8 DEF HandleRecord
<1> QED BY <1>7, <1>9

\* A write, and a datagram.
LEMMA WriteCalls ==
  ASSUME HandleInv, NEW h \in Handles, NEW r \in Reqs, Write(h, r) \/ Send(h, r)
  PROVE  HandleInv'
<1>1. /\ hd \in [Handles -> HandleRecord] /\ refs \in Int /\ hd[h] \in HandleRecord
      /\ hd[h].completed \in Seq(Reqs) /\ hd[h].queue \in Seq(Reqs)
  BY HandleIs
<1>2. Append(hd[h].completed, r) \in Seq(Reqs) /\ Append(hd[h].queue, r) \in Seq(Reqs)
  BY <1>1, AppendProperties
<1> DEFINE Done == [hd[h] EXCEPT !.completed = Append(@, r), !.fed = TRUE]
           Waits == [hd[h] EXCEPT !.queue = Append(@, r), !.watch = @ \cup {"write"}]
<1>3. Done \in HandleRecord
  BY <1>1, <1>2 DEF HandleRecord
<1>4. Waits \in HandleRecord
  BY <1>1, <1>2 DEF HandleRecord
<1>5. /\ Done.wrap = hd[h].wrap /\ Done.kind = hd[h].kind /\ Done.shut = hd[h].shut
      /\ Done.told = hd[h].told /\ Done.queue = hd[h].queue
      /\ Done.completed = Append(hd[h].completed, r)
  BY <1>1 DEF HandleRecord
<1>6. /\ Waits.wrap = hd[h].wrap /\ Waits.kind = hd[h].kind /\ Waits.shut = hd[h].shut
      /\ Waits.told = hd[h].told /\ Waits.completed = hd[h].completed
      /\ Waits.queue = Append(hd[h].queue, r)
  BY <1>1 DEF HandleRecord
<1>7. \/ hd' = [hd EXCEPT ![h] = Waits]
      \/ hd[h].queue = <<>> /\ hd' = [hd EXCEPT ![h] = Done]
  <2>1. CASE Write(h, r)
    BY <1>1, <2>1 DEF Write
  <2>2. CASE Send(h, r)
    BY <1>1, <2>2 DEF Send
  <2> QED BY <2>1, <2>2
<1>8. /\ hd[h].wrap = "open" /\ hd[h].shut = "no" /\ refs' \in Int
      /\ sent' = [sent EXCEPT ![h] = Append(@, r)] /\ UNCHANGED <<answered, cb>>
  <2>1. CASE Write(h, r)
    BY <1>1, <2>1 DEF Write, Open
  <2>2. CASE Send(h, r)
    <3>1. hd[h].kind = "udp"
      BY <2>2 DEF Send, Open
    <3>2. hd[h].shut = "no"
      BY <3>1, HandleIs DEF WritesOf
    <3> QED BY <1>1, <2>2, <3>2 DEF Send, Open, UdpStarted
  <2> QED BY <2>1, <2>2
<1> HIDE DEF Done, Waits
<1>9. CASE hd' = [hd EXCEPT ![h] = Waits]
  BY <1>4, <1>6, <1>8, <1>9, WriteMade
<1>10. CASE hd[h].queue = <<>> /\ hd' = [hd EXCEPT ![h] = Done]
  BY <1>3, <1>5, <1>8, <1>10, WriteMade
<1> QED BY <1>7, <1>9, <1>10

\* The first of the two steps of the end of a handle, and the second.
LEMMA FinishCloseStep ==
  ASSUME HandleInv, NEW h \in Handles, FinishClose(h)
  PROVE  HandleInv'
<1>1. hd \in [Handles -> HandleRecord] /\ hd[h] \in HandleRecord
  BY HandleIs
<1> DEFINE w == [hd[h] EXCEPT !.watch = {}]
<1>2. hd' = [hd EXCEPT ![h] = w] /\ hd[h].wrap = "closing"
  BY <1>1 DEF FinishClose
<1>3. w \in HandleRecord
  BY <1>1 DEF HandleRecord
<1>4. /\ w.wrap = hd[h].wrap /\ w.kind = hd[h].kind /\ w.shut = hd[h].shut
      /\ w.told = hd[h].told /\ w.queue = hd[h].queue /\ w.completed = hd[h].completed
  BY <1>1 DEF HandleRecord
<1> HIDE DEF w
<1>5. cb = Idle /\ cb' = [at |-> "destroy", h |-> h] /\ UNCHANGED <<refs, sent, answered>>
  BY DEF FinishClose, LoopReady
<1>6. answered'[h] \o w.completed \o w.queue = Answers(h)
  BY <1>4, <1>5 DEF Answers
<1>7. /\ refs' \in Int /\ answered' \in [Handles -> Seq(Reqs)]
      /\ w.shut # "no" => w.kind \in {"tcp", "pipe"}
      /\ w.told > 0 => w.shut # "no" /\ answered'[h] = sent[h]
  BY <1>4, <1>5, HandleIs DEF WritesOf
<1> QED BY <1>2, <1>3, <1>4, <1>5, <1>6, <1>7, InOrder

\* ... the second, when no write is left.
LEMMA OnCloseStep ==
  ASSUME HandleInv, NEW h \in Handles, OnClose(h)
  PROVE  HandleInv'
<1>1. hd \in [Handles -> HandleRecord] /\ hd[h] \in HandleRecord
  BY HandleIs
<1> DEFINE w == [hd[h] EXCEPT !.wrap = "gone"]
<1>2. hd' = [hd EXCEPT ![h] = w] /\ hd[h].queue = <<>> /\ hd[h].completed = <<>>
  BY <1>1 DEF OnClose
<1>3. w \in HandleRecord
  BY <1>1 DEF HandleRecord
<1>4. /\ w.wrap = "gone" /\ w.kind = hd[h].kind /\ w.shut = hd[h].shut
      /\ w.told = hd[h].told /\ w.queue = hd[h].queue /\ w.completed = hd[h].completed
  BY <1>1 DEF HandleRecord
<1> HIDE DEF w
<1>5. cb.h = h /\ cb' = Idle /\ UNCHANGED <<sent, answered>>
  BY DEF OnClose
<1>6. answered'[h] \o w.completed \o w.queue = Answers(h)
  BY <1>4, <1>5 DEF Answers
<1>7. refs' \in Int
  BY HandleIs DEF OnClose
<1>8. /\ answered' \in [Handles -> Seq(Reqs)]
      /\ w.shut # "no" => w.kind \in {"tcp", "pipe"}
      /\ w.told > 0 => w.shut # "no" /\ answered'[h] = sent[h]
  BY <1>4, <1>5, HandleIs DEF WritesOf
<1> QED BY <1>2, <1>3, <1>4, <1>5, <1>6, <1>7, <1>8, InOrder

\* A step that only moves writes from one queue to the other, before the callbacks.
LEMMA WritesMove ==
  ASSUME HandleInv, NEW h \in Handles, NEW w \in HandleRecord,
         hd' = [hd EXCEPT ![h] = w], UNCHANGED <<refs, sent, answered>>,
         cb = Idle, cb' = [at |-> "writes", h |-> h], hd[h].wrap = "open",
         /\ w.wrap = hd[h].wrap /\ w.kind = hd[h].kind /\ w.shut = hd[h].shut
         /\ w.told = hd[h].told,
         answered[h] \o w.completed \o w.queue = Answers(h)
  PROVE  HandleInv'
<1>1. /\ refs' \in Int /\ answered' \in [Handles -> Seq(Reqs)]
      /\ w.shut # "no" => w.kind \in {"tcp", "pipe"}
      /\ w.told > 0 => w.shut # "no" /\ answered'[h] = sent[h]
  BY HandleIs DEF WritesOf
<1>2. ~Destroying(h)
  BY NotDestroyed
<1>3. Answers(h) = sent[h]
  BY <1>2, HandleIs DEF WritesOf
<1> QED BY <1>1, <1>3, InOrder

\* A stream is writable.
LEMMA OnWritableStep ==
  ASSUME HandleInv, NEW h \in Handles, OnWritable(h)
  PROVE  HandleInv'
<1>1. /\ hd \in [Handles -> HandleRecord] /\ hd[h] \in HandleRecord
      /\ hd[h].completed \in Seq(Reqs) /\ hd[h].queue \in Seq(Reqs)
  BY HandleIs
<1>2. /\ cb = Idle /\ cb' = [at |-> "writes", h |-> h] /\ hd[h].wrap = "open"
      /\ UNCHANGED <<refs, sent, answered>>
  BY DEF OnWritable, LoopReady, Open
<1>3. ASSUME hd' = [hd EXCEPT ![h].fed = FALSE, ![h].watch =
                      IF hd[h].queue = <<>> THEN @ ELSE @ \cup {"write"}]
      PROVE  HandleInv'
  <2> DEFINE w == [hd[h] EXCEPT !.fed = FALSE, !.watch =
                     IF hd[h].queue = <<>> THEN @ ELSE @ \cup {"write"}]
  <2>1. hd' = [hd EXCEPT ![h] = w]
    BY <1>1, <1>3
  <2>2. w \in HandleRecord
    BY <1>1 DEF HandleRecord
  <2>3. /\ w.wrap = hd[h].wrap /\ w.kind = hd[h].kind /\ w.shut = hd[h].shut
        /\ w.told = hd[h].told /\ w.queue = hd[h].queue /\ w.completed = hd[h].completed
    BY <1>1 DEF HandleRecord
  <2> HIDE DEF w
  <2>4. answered[h] \o w.completed \o w.queue = Answers(h)
    BY <2>3 DEF Answers
  <2> QED BY <1>2, <2>1, <2>2, <2>3, <2>4, WritesMove
<1>4. ASSUME hd[h].queue # <<>>,
             hd' = [hd EXCEPT ![h].queue = Tail(@), ![h].fed = TRUE,
                              ![h].completed = Append(@, Head(hd[h].queue))]
      PROVE  HandleInv'
  <2>1. Head(hd[h].queue) \in Reqs /\ Tail(hd[h].queue) \in Seq(Reqs)
    BY <1>1, <1>4, HeadAndTail
  <2>2. Append(hd[h].completed, Head(hd[h].queue)) \in Seq(Reqs)
    BY <1>1, <2>1, AppendProperties
  <2>3. PICK t, d : t = Tail(hd[h].queue) /\ d = Append(hd[h].completed, Head(hd[h].queue))
    OBVIOUS
  <2> DEFINE w == [hd[h] EXCEPT !.queue = t, !.fed = TRUE, !.completed = d]
  <2>4. hd' = [hd EXCEPT ![h] = w]
    BY <1>1, <1>4, <2>3
  <2>5. w \in HandleRecord
    BY <1>1, <2>1, <2>2, <2>3 DEF HandleRecord
  <2>6. /\ w.wrap = hd[h].wrap /\ w.kind = hd[h].kind /\ w.shut = hd[h].shut
        /\ w.told = hd[h].told /\ w.queue = t /\ w.completed = d
    BY <1>1 DEF HandleRecord
  <2> HIDE DEF w
  <2>7. PICK r \in Reqs : r = Head(hd[h].queue)
    BY <2>1
  <2>8. answered[h] \o d \o t = Answers(h)
    BY <1>4, <2>3, <2>7, Standing
  <2>9. answered[h] \o w.completed \o w.queue = Answers(h)
    BY <2>6, <2>8
  <2> QED BY <1>2, <2>4, <2>5, <2>6, <2>9, WritesMove
<1> QED BY <1>3, <1>4 DEF OnWritable

\* The callback of a write that is done.
LEMMA AfterWriteStep ==
  ASSUME HandleInv, NEW h \in Handles, AfterWrite(h)
  PROVE  HandleInv'
<1>1. /\ hd \in [Handles -> HandleRecord] /\ hd[h] \in HandleRecord
      /\ hd[h].completed \in Seq(Reqs) /\ answered \in [Handles -> Seq(Reqs)]
      /\ answered[h] \in Seq(Reqs)
  BY HandleIs
<1>2. /\ cb = [at |-> "writes", h |-> h] /\ hd[h].completed # <<>>
      /\ answered' = [answered EXCEPT ![h] = Append(@, Head(hd[h].completed))]
      /\ hd' = [hd EXCEPT ![h].completed = Tail(@)] /\ UNCHANGED <<refs, sent, cb>>
  BY DEF AfterWrite
<1>3. PICK x, t : x = Head(hd[h].completed) /\ t = Tail(hd[h].completed)
  OBVIOUS
<1>4. x \in Reqs /\ t \in Seq(Reqs)
  BY <1>1, <1>2, <1>3, HeadAndTail
<1> DEFINE w == [hd[h] EXCEPT !.completed = t]
<1>5. hd' = [hd EXCEPT ![h] = w]
  BY <1>1, <1>2, <1>3
<1>6. w \in HandleRecord
  BY <1>1, <1>4 DEF HandleRecord
<1>7. /\ w.wrap = hd[h].wrap /\ w.kind = hd[h].kind /\ w.shut = hd[h].shut
      /\ w.told = hd[h].told /\ w.queue = hd[h].queue /\ w.completed = t
  BY <1>1 DEF HandleRecord
<1> HIDE DEF w
<1>8. /\ answered'[h] = Append(answered[h], x) /\ answered' \in [Handles -> Seq(Reqs)]
      /\ \A g \in Handles \ {h} : answered'[g] = answered[g]
  <2>1. Append(answered[h], x) \in Seq(Reqs)
    BY <1>1, <1>4, AppendProperties
  <2> QED BY <1>1, <1>2, <1>3, <2>1
<1>9. answered'[h] \o w.completed \o w.queue = Answers(h)
  <2>1. Append(answered[h], x) \o t \o hd[h].queue = Answers(h)
    BY <1>2, <1>3, <1>4, Standing
  <2> QED BY <1>7, <1>8, <2>1
<1>10. hd[h].wrap \in {"open", "closing"} /\ ~Destroying(h)
  BY <1>2, HandleIs DEF CallbackOf, Destroying
<1>11. Answers(h) = sent[h] /\ w.told = 0 /\ (w.shut # "no" => w.kind \in {"tcp", "pipe"})
  BY <1>2, <1>7, <1>10, NoneTold, HandleIs DEF WritesOf
<1>12. cb.h = h /\ cb' = [at |-> "writes", h |-> h] /\ refs' \in Int /\ sent' = sent
  BY <1>2, HandleIs
<1>13. /\ w.wrap \in {"open", "closing"} /\ w.wrap # "none" /\ w.wrap # "gone"
       /\ w.told > 0 => w.shut # "no" /\ answered'[h] = sent[h]
  BY <1>7, <1>10, <1>11
<1> QED BY <1>5, <1>6, <1>8, <1>9, <1>11, <1>12, <1>13, InOrder

\* The callbacks are over: a shutdown may be answered now.
LEMMA DrainStep ==
  ASSUME HandleInv, NEW h \in Handles, Drain(h)
  PROVE  HandleInv'
<1>1. /\ hd \in [Handles -> HandleRecord] /\ hd[h] \in HandleRecord
      /\ answered[h] \in Seq(Reqs)
  BY HandleIs
<1>2. /\ cb = [at |-> "writes", h |-> h] /\ hd[h].completed = <<>> /\ cb' = Idle
      /\ UNCHANGED <<sent, answered>>
  BY DEF Drain
<1>3. refs' \in Int
  BY <1>1, WatchersCounted, HandleIs DEF Drain
<1>4. hd[h].wrap \in {"open", "closing"} /\ ~Destroying(h)
  BY <1>2, HandleIs DEF CallbackOf, Destroying
<1>5. Answers(h) = sent[h] /\ WritesOf(h)
  BY <1>4, HandleIs DEF WritesOf
<1>6. hd[h].queue = <<>> => answered[h] = sent[h]
  BY <1>1, <1>2, <1>5, ConcatEmptySeq DEF Answers
<1>7. ASSUME NEW w \in HandleRecord, hd' = [hd EXCEPT ![h] = w],
             w.wrap = hd[h].wrap /\ w.kind = hd[h].kind /\ w.queue = hd[h].queue,
             w.completed = hd[h].completed,
             \/ w.shut = hd[h].shut /\ w.told = hd[h].told
             \/ w.shut # "no" /\ hd[h].shut # "no" /\ hd[h].queue = <<>>
      PROVE  HandleInv'
  <2>1. answered'[h] \o w.completed \o w.queue = Answers(h)
    BY <1>2, <1>7 DEF Answers
  <2>2. /\ w.shut # "no" => w.kind \in {"tcp", "pipe"}
        /\ w.told > 0 => w.shut # "no" /\ answered'[h] = sent[h]
    BY <1>2, <1>5, <1>6, <1>7 DEF WritesOf
  <2>3. cb.h = h /\ answered' \in [Handles -> Seq(Reqs)] /\ sent' = sent
        /\ \A g \in Handles \ {h} : answered'[g] = answered[g]
    BY <1>2, HandleIs
  <2> QED BY <1>2, <1>3, <1>4, <1>5, <1>7, <2>1, <2>2, <2>3, InOrder
<1>8. ASSUME UNCHANGED hd
      PROVE  HandleInv'
  <2>1. hd' = [hd EXCEPT ![h] = hd[h]]
    BY <1>1, <1>8
  <2> QED BY <1>1, <1>7, <2>1
<1>9. ASSUME hd' = [hd EXCEPT ![h].watch = @ \ {"write"}]
      PROVE  HandleInv'
  <2> DEFINE w == [hd[h] EXCEPT !.watch = @ \ {"write"}]
  <2>1. hd' = [hd EXCEPT ![h] = w]
    BY <1>1, <1>9
  <2>2. w \in HandleRecord
    BY <1>1 DEF HandleRecord
  <2>3. /\ w.wrap = hd[h].wrap /\ w.kind = hd[h].kind /\ w.shut = hd[h].shut
        /\ w.told = hd[h].told /\ w.queue = hd[h].queue /\ w.completed = hd[h].completed
    BY <1>1 DEF HandleRecord
  <2> HIDE DEF w
  <2> QED BY <1>7, <2>1, <2>2, <2>3
<1>10. ASSUME NEW result \in {"done", "failed"}, hd[h].queue = <<>>, ShutdownDue(h),
              hd' = [hd EXCEPT ![h].watch = @ \ {"write"}, ![h].shut = result,
                               ![h].told = IF @ = 2 THEN 2 ELSE @ + 1]
       PROVE  HandleInv'
  <2> DEFINE w == [hd[h] EXCEPT !.watch = @ \ {"write"}, !.shut = result,
                                !.told = IF @ = 2 THEN 2 ELSE @ + 1]
  <2>1. hd' = [hd EXCEPT ![h] = w]
    BY <1>1, <1>10
  <2>2. hd[h].told \in 0 .. 2
    BY <1>1 DEF HandleRecord
  <2>3. (IF hd[h].told = 2 THEN 2 ELSE hd[h].told + 1) \in 0 .. 2
    BY <2>2
  <2>4. w \in HandleRecord
    BY <1>1, <2>3 DEF HandleRecord
  <2>5. /\ w.wrap = hd[h].wrap /\ w.kind = hd[h].kind /\ w.shut = result
        /\ w.queue = hd[h].queue /\ w.completed = hd[h].completed
    BY <1>1 DEF HandleRecord
  <2> HIDE DEF w
  <2>6. w.shut # "no" /\ hd[h].shut # "no"
    BY <1>10, <2>5 DEF ShutdownDue
  <2> QED BY <1>7, <1>10, <2>1, <2>4, <2>5, <2>6
<1> QED BY <1>8, <1>9, <1>10 DEF Drain

\* A listening handle is given a new wrap.
LEMMA OnConnectionStep ==
  ASSUME HandleInv, NEW h \in Handles, NEW c \in Handles, OnConnection(h, c)
  PROVE  HandleInv'
<1>1. hd \in [Handles -> HandleRecord] /\ hd[h] \in HandleRecord
  BY HandleIs
<1>2. NoWrap \in HandleRecord /\ NoWrap.queue = <<>> /\ NoWrap.completed = <<>>
      /\ NoWrap.shut = "no" /\ NoWrap.told = 0
  BY NoWrapIs
<1>3. hd[h].kind \in {"tcp", "pipe"} /\ refs' \in Int
  BY HandleIs DEF OnConnection, Open
<1>4. hd[c].wrap = "none" /\ UNCHANGED <<sent, answered, cb>>
  BY DEF OnConnection
<1>5. hd[h].kind \in StreamKinds
  BY <1>3 DEF StreamKinds
<1> DEFINE w == [NoWrap EXCEPT !.kind = hd[h].kind, !.wrap = "open", !.inited = TRUE,
                                 !.link = "connected"]
<1>6. hd' = [hd EXCEPT ![c] = w]
  BY DEF OnConnection
<1>7. w \in HandleRecord
  BY <1>2, <1>5 DEF HandleRecord
<1>8. w.wrap = "open" /\ w.queue = <<>> /\ w.completed = <<>> /\ w.shut = "no" /\ w.told = 0
  BY <1>2 DEF HandleRecord
<1> HIDE DEF w
<1> QED BY <1>3, <1>4, <1>6, <1>7, <1>8, NewWrapStep

\* Where the elements of three sequences stand in s, one after the other.
Joined(a, c, q, s) ==
  /\ Len(a) \in Nat /\ Len(c) \in Nat /\ Len(q) \in Nat
  /\ Len(s) = Len(a) + Len(c) + Len(q) /\ DOMAIN s = 1 .. Len(s)
  /\ \A y \in 1 .. Len(a) : s[y] = a[y]
  /\ \A y \in 1 .. Len(c) : s[Len(a) + y] = c[y]
  /\ \A y \in 1 .. Len(q) : s[Len(a) + Len(c) + y] = q[y]

\* Three sequences, joined.
LEMMA Places ==
  ASSUME NEW Any, NEW a \in Seq(Any), NEW c \in Seq(Any), NEW q \in Seq(Any),
         NEW s, s = a \o c \o q
  PROVE  Joined(a, c, q, s)
<1> DEFINE both == a \o c
<1>0. both \in Seq(Any)
  BY ConcatProperties
<1>1. /\ Len(both) = Len(a) + Len(c)
      /\ \A y \in 1 .. Len(a) + Len(c) : both[y] = IF y <= Len(a) THEN a[y] ELSE c[y - Len(a)]
  BY ConcatProperties
<1> HIDE DEF both
<1>2. /\ both \o q \in Seq(Any) /\ Len(both \o q) = Len(both) + Len(q)
      /\ \A y \in 1 .. Len(both) + Len(q) :
           (both \o q)[y] = IF y <= Len(both) THEN both[y] ELSE q[y - Len(both)]
  BY <1>0, ConcatProperties
<1>3. Len(a) \in Nat /\ Len(c) \in Nat /\ Len(q) \in Nat
  OBVIOUS
<1>4. ASSUME NEW y \in 1 .. Len(a)
      PROVE  (both \o q)[y] = a[y]
  BY <1>1, <1>2, <1>3
<1>5. ASSUME NEW y \in 1 .. Len(c)
      PROVE  (both \o q)[Len(a) + y] = c[y]
  <2>1. /\ Len(a) + y \in 1 .. Len(a) + Len(c) /\ Len(a) + y \in 1 .. Len(both) + Len(q)
        /\ ~(Len(a) + y <= Len(a)) /\ (Len(a) + y) - Len(a) = y /\ Len(a) + y <= Len(both)
    BY <1>1, <1>3
  <2> QED BY <1>1, <1>2, <2>1
<1>6. ASSUME NEW y \in 1 .. Len(q)
      PROVE  (both \o q)[Len(a) + Len(c) + y] = q[y]
  <2>1. /\ Len(both) + y \in 1 .. Len(both) + Len(q)
        /\ ~(Len(both) + y <= Len(both)) /\ (Len(both) + y) - Len(both) = y
    BY <1>1, <1>3
  <2> QED BY <1>1, <1>2, <2>1
<1>7. /\ Len(both \o q) = Len(a) + Len(c) + Len(q)
      /\ DOMAIN (both \o q) = 1 .. Len(both \o q)
  BY <1>1, <1>2
<1>8. s = both \o q
  BY DEF both
<1> QED BY <1>3, <1>4, <1>5, <1>6, <1>7, <1>8 DEF Joined

\* The first that waits may be answered before those that are done: none is lost.
LEMMA FirstOut ==
  ASSUME NEW a, NEW c, NEW q, NEW s, NEW b, NEW t, NEW u,
         Joined(a, c, q, s), Joined(b, c, t, u),
         Len(b) = Len(a) + 1, b[Len(a) + 1] = q[1], \A y \in 1 .. Len(a) : b[y] = a[y],
         Len(q) = Len(t) + 1, \A y \in 1 .. Len(t) : t[y] = q[y + 1]
  PROVE  Len(u) = Len(s) /\ \A y \in DOMAIN s : \E z \in DOMAIN u : u[z] = s[y]
<1>1. DOMAIN s = 1 .. Len(s) /\ DOMAIN u = 1 .. Len(u)
  BY DEF Joined
<1>2. /\ Len(a) \in Nat /\ Len(b) \in Nat /\ Len(c) \in Nat /\ Len(q) \in Nat
      /\ Len(t) \in Nat
      /\ Len(s) = Len(a) + Len(c) + Len(q) /\ Len(u) = Len(b) + Len(c) + Len(t)
  BY DEF Joined
<1>3. /\ \A y \in 1 .. Len(a) : s[y] = a[y]
      /\ \A y \in 1 .. Len(c) : s[Len(a) + y] = c[y]
      /\ \A y \in 1 .. Len(q) : s[Len(a) + Len(c) + y] = q[y]
  BY DEF Joined
<1>4. /\ \A y \in 1 .. Len(b) : u[y] = b[y]
      /\ \A y \in 1 .. Len(c) : u[Len(b) + y] = c[y]
      /\ \A y \in 1 .. Len(t) : u[Len(b) + Len(c) + y] = t[y]
  BY DEF Joined
<1>5. Len(u) = Len(s)
  BY <1>2
<1>6. ASSUME NEW y \in 1 .. Len(s)
      PROVE  \E z \in 1 .. Len(u) : u[z] = s[y]
  <2>1. CASE y <= Len(a)
    <3>1. y \in 1 .. Len(a) /\ y \in 1 .. Len(b) /\ y \in 1 .. Len(u)
      BY <1>2, <2>1
    <3> QED BY <1>3, <1>4, <3>1
  <2>2. CASE y > Len(a) /\ y <= Len(a) + Len(c)
    <3>1. PICK m \in 1 .. Len(c) : y = Len(a) + m
      <4>1. y - Len(a) \in 1 .. Len(c) /\ y = Len(a) + (y - Len(a))
        BY <1>2, <2>2
      <4> QED BY <4>1
    <3>2. Len(b) + m \in 1 .. Len(u)
      BY <1>2
    <3> QED BY <1>3, <1>4, <3>1, <3>2
  <2>3. CASE y = Len(a) + Len(c) + 1
    <3>1. 1 \in 1 .. Len(q) /\ Len(b) \in 1 .. Len(b) /\ Len(b) \in 1 .. Len(u)
      BY <1>2
    <3>2. s[y] = q[1] /\ u[Len(b)] = q[1]
      BY <1>3, <1>4, <2>3, <3>1
    <3> QED BY <3>1, <3>2
  <2>4. CASE y > Len(a) + Len(c) + 1
    <3>1. PICK m \in 1 .. Len(t) : y = Len(a) + Len(c) + (m + 1)
      <4>1. y - (Len(a) + Len(c) + 1) \in 1 .. Len(t)
        BY <1>2, <2>4
      <4>2. y = Len(a) + Len(c) + ((y - (Len(a) + Len(c) + 1)) + 1)
        BY <1>2
      <4> QED BY <4>1, <4>2
    <3>2. m + 1 \in 1 .. Len(q) /\ Len(b) + Len(c) + m \in 1 .. Len(u)
      BY <1>2
    <3>3. s[y] = q[m + 1] /\ u[Len(b) + Len(c) + m] = t[m] /\ t[m] = q[m + 1]
      BY <1>3, <1>4, <3>1, <3>2
    <3> QED BY <3>2, <3>3
  <2>5. \/ y <= Len(a)
        \/ y > Len(a) /\ y <= Len(a) + Len(c)
        \/ y = Len(a) + Len(c) + 1
        \/ y > Len(a) + Len(c) + 1
    BY <1>2
  <2> QED BY <2>1, <2>2, <2>3, <2>4, <2>5
<1> QED BY <1>1, <1>5, <1>6

\* The writes of a handle that is destroyed, each in its turn.
LEMMA AnswerDestroyedStep ==
  ASSUME HandleInv, NEW h \in Handles, AnswerDestroyed(h)
  PROVE  HandleInv'
<1>1. /\ hd \in [Handles -> HandleRecord] /\ hd[h] \in HandleRecord
      /\ answered \in [Handles -> Seq(Reqs)]
  BY HandleIs
<1>2. hd[h].completed \in Seq(Reqs) /\ hd[h].queue \in Seq(Reqs) /\ answered[h] \in Seq(Reqs)
  BY HandleIs
<1>3. /\ cb = [at |-> "destroy", h |-> h] /\ UNCHANGED <<refs, sent, cb>>
      /\ hd[h].queue # <<>> \/ hd[h].completed # <<>>
  BY DEF AnswerDestroyed
<1>4. hd[h].wrap = "closing"
  BY <1>3, HandleIs DEF CallbackOf
<1>5. hd[h].told = 0 /\ (hd[h].shut # "no" => hd[h].kind \in {"tcp", "pipe"})
  BY <1>3, NoneTold, HandleIs DEF WritesOf
<1>6. cb.h = h /\ cb' = [at |-> "destroy", h |-> h] /\ refs' \in Int /\ sent' = sent
  BY <1>3, HandleIs
<1>7. ASSUME hd[h].completed # <<>>,
             answered' = [answered EXCEPT ![h] = Append(@, Head(hd[h].completed))],
             hd' = [hd EXCEPT ![h]["completed"] = Tail(@)]
      PROVE  HandleInv'
  <2>1. PICK x, t : x = Head(hd[h].completed) /\ t = Tail(hd[h].completed)
    OBVIOUS
  <2>2. x \in Reqs /\ t \in Seq(Reqs)
    BY <1>2, <1>7, <2>1, HeadAndTail
  <2> DEFINE w == [hd[h] EXCEPT !.completed = t]
  <2>3. hd' = [hd EXCEPT ![h] = w]
    BY <1>1, <1>7, <2>1
  <2>4. w \in HandleRecord
    BY <1>1, <2>2 DEF HandleRecord
  <2>5. /\ w.wrap = hd[h].wrap /\ w.kind = hd[h].kind /\ w.shut = hd[h].shut
        /\ w.told = hd[h].told /\ w.queue = hd[h].queue /\ w.completed = t
    BY <1>1 DEF HandleRecord
  <2> HIDE DEF w
  <2>6. /\ answered'[h] = Append(answered[h], x) /\ answered' \in [Handles -> Seq(Reqs)]
        /\ \A g \in Handles \ {h} : answered'[g] = answered[g]
    <3>1. Append(answered[h], x) \in Seq(Reqs)
      BY <1>2, <2>2, AppendProperties
    <3> QED BY <1>1, <1>7, <2>1, <3>1
  <2>7. answered'[h] \o w.completed \o w.queue = Answers(h)
    <3>1. Append(answered[h], x) \o t \o hd[h].queue = Answers(h)
      BY <1>7, <2>1, <2>2, Standing
    <3> QED BY <2>5, <2>6, <3>1
  <2>8. /\ w.wrap = "closing" /\ (w.shut # "no" => w.kind \in {"tcp", "pipe"})
        /\ w.told > 0 => w.shut # "no" /\ answered'[h] = sent[h]
    BY <1>4, <1>5, <2>5
  <2> QED BY <1>6, <2>3, <2>4, <2>6, <2>7, <2>8, InOrder
<1>8. ASSUME hd[h].queue # <<>>,
             answered' = [answered EXCEPT ![h] = Append(@, Head(hd[h].queue))],
             hd' = [hd EXCEPT ![h]["queue"] = Tail(@)]
      PROVE  HandleInv'
  <2>1. PICK x, t : x = Head(hd[h].queue) /\ t = Tail(hd[h].queue)
    OBVIOUS
  <2>2. /\ x \in Reqs /\ t \in Seq(Reqs) /\ x = hd[h].queue[1]
        /\ Len(hd[h].queue) = Len(t) + 1
        /\ \A y \in 1 .. Len(t) : t[y] = hd[h].queue[y + 1]
    BY <1>2, <1>8, <2>1, HeadTailProperties
  <2>3. PICK b : b = Append(answered[h], x)
    OBVIOUS
  <2>4. /\ b \in Seq(Reqs) /\ Len(b) = Len(answered[h]) + 1 /\ b[Len(answered[h]) + 1] = x
        /\ \A y \in 1 .. Len(answered[h]) : b[y] = answered[h][y]
    BY <1>2, <2>2, <2>3, AppendProperties
  <2> DEFINE w == [hd[h] EXCEPT !.queue = t]
  <2>5. hd' = [hd EXCEPT ![h] = w]
    BY <1>1, <1>8, <2>1
  <2>6. w \in HandleRecord
    BY <1>1, <2>2 DEF HandleRecord
  <2>7. /\ w.wrap = hd[h].wrap /\ w.kind = hd[h].kind /\ w.shut = hd[h].shut
        /\ w.told = hd[h].told /\ w.queue = t /\ w.completed = hd[h].completed
    BY <1>1 DEF HandleRecord
  <2> HIDE DEF w
  <2>8. /\ answered'[h] = b /\ answered' \in [Handles -> Seq(Reqs)]
        /\ \A g \in Handles \ {h} : answered'[g] = answered[g]
    BY <1>1, <1>8, <2>1, <2>3, <2>4
  <2>9. /\ hd'[h] = w /\ hd' \in [Handles -> HandleRecord]
        /\ \A g \in Handles \ {h} : hd'[g] = hd[g]
    BY <1>1, <2>5, <2>6
  <2>10. PICK s, u : s = Answers(h) /\ u = b \o hd[h].completed \o t
    OBVIOUS
  <2>11. Joined(answered[h], hd[h].completed, hd[h].queue, s)
    BY <1>2, <2>10, Places DEF Answers
  <2>12. Joined(b, hd[h].completed, t, u)
    <3>1. PICK c : c = hd[h].completed
      OBVIOUS
    <3>2. b \in Seq(Reqs) /\ t \in Seq(Reqs) /\ c \in Seq(Reqs)
      BY <1>2, <2>2, <2>4, <3>1
    <3>3. u = b \o c \o t
      BY <2>10, <3>1
    <3>4. Joined(b, c, t, u)
      BY <3>2, <3>3, Places
    <3> QED BY <3>1, <3>4
  <2>13. Len(u) = Len(s) /\ \A y \in DOMAIN s : \E z \in DOMAIN u : u[z] = s[y]
    <3>1. PICK a, c, q : a = answered[h] /\ c = hd[h].completed /\ q = hd[h].queue
      OBVIOUS
    <3>2. Joined(a, c, q, s) /\ Joined(b, c, t, u)
      BY <2>11, <2>12, <3>1
    <3>3. /\ Len(b) = Len(a) + 1 /\ b[Len(a) + 1] = q[1] /\ \A y \in 1 .. Len(a) : b[y] = a[y]
          /\ Len(q) = Len(t) + 1 /\ \A y \in 1 .. Len(t) : t[y] = q[y + 1]
      BY <2>2, <2>4, <3>1
    <3> QED BY <3>2, <3>3, FirstOut
  <2>14. Answers(h)' = u
    BY <2>7, <2>8, <2>9, <2>10 DEF Answers
  <2>15. /\ Len(Answers(h)') = Len(sent'[h])
         /\ \A y \in DOMAIN sent'[h] : \E z \in DOMAIN Answers(h)' : Answers(h)'[z] = sent'[h][y]
    <3>1. /\ Len(s) = Len(sent[h])
          /\ \A y \in DOMAIN sent[h] : \E z \in DOMAIN s : s[z] = sent[h][y]
      BY <2>10, HandleIs DEF WritesOf
    <3> HIDE <2>10
    <3> QED BY <1>6, <2>13, <2>14, <3>1
  <2>16. Destroying(h)'
    BY <1>6 DEF Destroying
  <2>17. WritesOf(h)'
    <3>1. /\ hd'[h].wrap = "closing" /\ ~(hd'[h].told > 0)
          /\ hd'[h].shut # "no" => hd'[h].kind \in {"tcp", "pipe"}
      BY <1>4, <1>5, <2>7, <2>9
    <3> QED BY <2>15, <2>16, <3>1 DEF WritesOf
  <2>18. HandlesTypeOK'
    BY <1>6, <2>8, <2>9, HandleIs DEF HandlesTypeOK
  <2>19. CallbackOf'
    BY <1>4, <1>6, <2>7, <2>9 DEF CallbackOf
  <2>20. \A g \in Handles \ {h} : ~Destroying(g)
    BY <1>6, OthersRest
  <2> QED BY <1>6, <2>8, <2>9, <2>17, <2>18, <2>19, <2>20, OneHandle
<1>9. CASE DestroyNext(h) = "completed"
  <2>1. hd[h].completed # <<>>
    BY <1>9 DEF DestroyNext
  <2> QED BY <1>7, <1>9, <2>1 DEF AnswerDestroyed
<1>10. CASE DestroyNext(h) = "queue"
  <2>1. hd[h].queue # <<>>
    BY <1>3, <1>10 DEF DestroyNext
  <2> QED BY <1>8, <1>10, <2>1 DEF AnswerDestroyed
<1> QED BY <1>9, <1>10 DEF DestroyNext

\* Datagrams go out.
LEMMA OnUdpWritableStep ==
  ASSUME HandleInv, NEW h \in Handles, OnUdpWritable(h)
  PROVE  HandleInv'
<1>1. /\ hd \in [Handles -> HandleRecord] /\ hd[h] \in HandleRecord
      /\ hd[h].completed \in Seq(Reqs) /\ hd[h].queue \in Seq(Reqs)
  BY HandleIs
<1>2. /\ cb = Idle /\ cb' = [at |-> "writes", h |-> h] /\ hd[h].wrap = "open"
      /\ UNCHANGED <<refs, sent, answered>>
  BY DEF OnUdpWritable, LoopReady, Open
<1>3. PICK n \in 0 .. Len(hd[h].queue) :
        hd' = [hd EXCEPT ![h].queue = SubSeq(@, n + 1, Len(@)), ![h].fed = FALSE,
                         ![h].completed = @ \o SubSeq(hd[h].queue, 1, n)]
  BY DEF OnUdpWritable
<1>4. PICK a, c, q, u, t, d : /\ a = answered[h] /\ c = hd[h].completed /\ q = hd[h].queue
                              /\ u = SubSeq(q, 1, n) /\ t = SubSeq(q, n + 1, Len(q))
                              /\ d = c \o u
  OBVIOUS
<1>5. q \in Seq(Reqs) /\ Len(q) \in Nat /\ n \in 0 .. Len(q)
  BY <1>1, <1>3, <1>4
<1>6. u \o t = q
  <2>1. n \in 1 - 1 .. Len(q) /\ Len(q) \in n .. Len(q) /\ 1 \in 1 .. Len(q) + 1
    BY <1>5
  <2>2. u \o t = SubSeq(q, 1, Len(q))
    BY <1>4, <1>5, <2>1, ConcatAdjacentSubSeq
  <2>3. SubSeq(q, 1, Len(q)) = q
    BY <1>5, SubSeqFull
  <2> QED BY <2>2, <2>3
<1>7. u \in Seq(Reqs) /\ t \in Seq(Reqs)
  <2>1. \A y \in 1 .. Len(q) : q[y] \in Reqs
    BY <1>5
  <2>2. (\A y \in 1 .. n : q[y] \in Reqs) /\ (\A y \in n + 1 .. Len(q) : q[y] \in Reqs)
    BY <1>5, <2>1
  <2>3. n \in Int /\ n + 1 \in Int /\ 1 \in Int /\ Len(q) \in Int
    BY <1>5
  <2> QED BY <1>4, <2>2, <2>3, SubSeqProperties
<1>8. a \in Seq(Reqs) /\ c \in Seq(Reqs)
  BY <1>1, <1>4, HandleIs
<1>9. d \in Seq(Reqs)
  BY <1>4, <1>7, <1>8, ConcatProperties
<1>10. a \o d \o t = Answers(h)
  <2>1. (a \o c) \o u = a \o (c \o u)
    BY <1>7, <1>8, ConcatAssociative
  <2>2. PICK both : both = a \o c
    OBVIOUS
  <2>3. both \in Seq(Reqs)
    BY <1>8, <2>2, ConcatProperties
  <2>4. (both \o u) \o t = both \o (u \o t)
    BY <1>7, <2>3, ConcatAssociative
  <2> QED BY <1>4, <1>6, <2>1, <2>2, <2>4 DEF Answers
<1> DEFINE w == [hd[h] EXCEPT !.queue = t, !.fed = FALSE, !.completed = d]
<1>11. hd' = [hd EXCEPT ![h] = w]
  BY <1>1, <1>3, <1>4
<1>12. w \in HandleRecord
  BY <1>1, <1>7, <1>9 DEF HandleRecord
<1>13. /\ w.wrap = hd[h].wrap /\ w.kind = hd[h].kind /\ w.shut = hd[h].shut
       /\ w.told = hd[h].told /\ w.queue = t /\ w.completed = d
  BY <1>1 DEF HandleRecord
<1> HIDE DEF w
<1>14. answered[h] \o w.completed \o w.queue = Answers(h)
  BY <1>4, <1>10, <1>13
<1> QED BY <1>2, <1>11, <1>12, <1>13, <1>14, WritesMove

\* Every call of the program keeps the invariant.
LEMMA ProgramStep ==
  ASSUME HandleInv, NEW h \in Handles, Program(h)
  PROVE  HandleInv'
<1>1. CASE \/ NewTcp(h) \/ NewPipe(h) \/ NewTty(h) \/ NewUdp(h)
           \/ NewTimer(h) \/ NewProcess(h) \/ NewFsEvent(h)
  BY <1>1, NewCalls
<1>2. CASE \/ Unref(h) \/ Ref(h) \/ TimerStop(h)
           \/ \E repeat \in BOOLEAN : TimerStart(h, repeat) \/ TimerSetRepeat(h, repeat)
  BY <1>2, FlagCalls
<1>3. CASE \/ Connect(h) \/ Listen(h) \/ ReadStart(h) \/ ReadStop(h)
           \/ RecvStart(h) \/ RecvStop(h)
  BY <1>3, ReadCalls
<1>4. CASE \E r \in Reqs : Write(h, r) \/ Send(h, r)
  BY <1>4, WriteCalls
<1>5. CASE Shutdown(h) \/ Close(h)
  BY <1>5, EndCalls
<1>6. CASE Spawn(h)
  BY <1>6, SpawnStep
<1>7. CASE PipeConnect(h)
  BY <1>7, PipeConnectStep
<1>8. CASE FsEventStart(h)
  BY <1>8, FsEventStartStep, HandlesAssumption
<1> QED BY <1>1, <1>2, <1>3, <1>4, <1>5, <1>6, <1>7, <1>8 DEF Program

\* Every step of the handles keeps the invariant, and so does one that leaves them alone.
LEMMA HandleStep ==
  ASSUME HandleInv, HandleNext \/ UNCHANGED handleVars
  PROVE  HandleInv'
<1>1. ASSUME NEW h \in Handles, LoopStep(h)
      PROVE  HandleInv'
  BY <1>1, FinishCloseStep, AnswerDestroyedStep, OnCloseStep, AfterWriteStep, DrainStep
  DEF LoopStep
<1>2. ASSUME NEW h \in Handles, Event(h)
      PROVE  HandleInv'
  <2>1. CASE OnReadEnd(h) \/ OnExit(h)
    BY <2>1, ReadCalls
  <2>2. CASE AfterConnect(h)
    BY <2>2, AfterConnectStep
  <2>3. CASE \E c \in Handles : OnConnection(h, c)
    BY <2>3, OnConnectionStep
  <2>4. CASE OnWritable(h)
    BY <2>4, OnWritableStep
  <2>5. CASE OnUdpWritable(h)
    BY <2>5, OnUdpWritableStep
  <2>6. CASE OnTimeout(h)
    BY <2>6, OnTimeoutStep
  <2> QED BY <1>2, <2>1, <2>2, <2>3, <2>4, <2>5, <2>6 DEF Event
<1>3. CASE UNCHANGED handleVars
  <2>1. /\ hd' = hd /\ refs' = refs /\ sent' = sent /\ answered' = answered /\ cb' = cb
    BY <1>3 DEF handleVars
  <2>2. ASSUME NEW h \in Handles
        PROVE  WritesOf(h)'
    BY <2>1, HandleIs, LeftAlone DEF Destroying
  <2>3. HandlesTypeOK'
    BY <2>1 DEF HandleInv, HandlesTypeOK
  <2>4. CallbackOf'
    BY <2>1 DEF HandleInv, CallbackOf
  <2> QED BY <2>2, <2>3, <2>4 DEF HandleInv
<1> QED BY <1>1, <1>2, <1>3, ProgramStep DEF HandleNext

\* The invariant says what the property says.
LEMMA HandleInvSays == HandleInv => WritesAccounted
<1> SUFFICES ASSUME HandleInv
             PROVE  WritesAccounted
  OBVIOUS
<1>1. ASSUME NEW h \in Handles
      PROVE  /\ Len(Answers(h)) = Len(sent[h])
             /\ \A r \in Reqs : Requested(h, r) =>
                  \E y \in DOMAIN Answers(h) : Answers(h)[y] = r
             /\ cb # [at |-> "destroy", h |-> h] /\ hd[h].wrap # "gone" => Answers(h) = sent[h]
             /\ hd[h].wrap = "gone" => Len(answered[h]) = Len(sent[h])
             /\ hd[h].told > 0 => answered[h] = sent[h]
  <2>1. WritesOf(h) /\ answered[h] \in Seq(Reqs)
    BY HandleIs
  <2>2. hd[h].wrap = "gone" => Answers(h) = answered[h]
    <3>1. SUFFICES ASSUME hd[h].wrap = "gone"
                   PROVE  Answers(h) = answered[h]
      OBVIOUS
    <3>2. hd[h].queue = <<>> /\ hd[h].completed = <<>>
      BY <2>1, <3>1 DEF WritesOf
    <3> QED BY <2>1, <3>2, ConcatEmptySeq DEF Answers
  <2>3. \A r \in Reqs : Requested(h, r) => \E y \in DOMAIN Answers(h) : Answers(h)[y] = r
    BY <2>1 DEF WritesOf, Requested
  <2> QED BY <2>1, <2>2, <2>3 DEF WritesOf, Destroying
<1> QED BY <1>1 DEF WritesAccounted

\* The invariant that carries the two results below.
THEOREM HandleInvariant == HandleSpec => []HandleInv
<1>1. HandleInit => HandleInv
  BY HandlesStart
<1>2. HandleInv /\ [HandleNext]_handleVars => HandleInv'
  BY HandleStep
<1> QED BY <1>1, <1>2, PTL DEF HandleSpec

\* Every write libuv has taken is answered once: it waits, is done or is answered, in
\* the order it was made as long as its handle is not destroyed; a handle that is
\* destroyed answers every one before its wrap is deleted (uv__stream_destroy,
\* uv__udp_finish_close, HandleWrap::OnClose), and the answer to a shutdown comes
\* after those to all the writes (uv__drain); for any handles and any requests.
THEOREM WritesAreAccounted == HandleSpec => []WritesAccounted
<1> QED BY HandleInvariant, HandleInvSays, PTL

\* Types of the state of the handles, from the same invariant.
THEOREM HandleTypes == HandleSpec => []HandlesTypeOK
<1>1. HandleInv => HandlesTypeOK
  BY DEF HandleInv
<1> QED BY <1>1, HandleInvariant, PTL

-----------------------------------------------------------------------------
(* The count of the loop: sums over the handles. *)

\* Some element of a set, always the same one.
Pick(s) == CHOOSE x \in s : TRUE

\* Induction over numbers, for a set of numbers.
LEMMA CountUp ==
  ASSUME NEW N, 0 \in N, \A n \in Nat : n \in N => n + 1 \in N
  PROVE  Nat \subseteq N
<1>1. SUFFICES ASSUME NEW k \in Nat, k \notin N PROVE FALSE
  OBVIOUS
<1>2. IsWellFoundedOn(OpToRel(<, Nat), Nat)
  BY NatLessThanWellFounded
<1>3. PICK n \in Nat \ N : \A m \in Nat \ N : ~(<<m, n>> \in OpToRel(<, Nat))
  <2>1. Nat \ N \in SUBSET Nat /\ Nat \ N # {}
    BY <1>1
  <2> QED BY <1>2, <2>1, WFMin
<1>4. n # 0 /\ n - 1 \in Nat /\ n - 1 < n /\ (n - 1) + 1 = n
  <2>1. n \in Nat /\ n \notin N
    OBVIOUS
  <2>2. n # 0
    BY <2>1
  <2> QED BY <2>1, <2>2
<1>5. n - 1 \in N
  BY <1>3, <1>4 DEF OpToRel
<1> QED BY <1>3, <1>4, <1>5

\* A set with one element less.
LEMMA OneLess ==
  ASSUME NEW S, IsFiniteSet(S), NEW s \in SUBSET S, s # {}
  PROVE  /\ Pick(s) \in s /\ Pick(s) \in S /\ s \ {Pick(s)} \in SUBSET S
         /\ Cardinality(s) \in Nat /\ Cardinality(s \ {Pick(s)}) \in Nat
         /\ Cardinality(s \ {Pick(s)}) = Cardinality(s) - 1
<1>1. Pick(s) \in s
  BY DEF Pick
<1>2. IsFiniteSet(s)
  BY FS_Subset
<1>3. IsFiniteSet(s \ {Pick(s)}) /\ Cardinality(s \ {Pick(s)}) = Cardinality(s) - 1
  BY <1>1, <1>2, FS_RemoveElement
<1> QED BY <1>1, <1>2, <1>3, FS_CardinalityType

\* Induction over the subsets of a finite set.
LEMMA FiniteInduction ==
  ASSUME NEW S, IsFiniteSet(S), NEW K, {} \in K,
         \A s \in SUBSET S : s # {} /\ s \ {Pick(s)} \in K => s \in K
  PROVE  S \in K
<1> DEFINE N == {n \in Nat : \A s \in SUBSET S : Cardinality(s) = n => s \in K}
<1>1. 0 \in N
  <2>1. ASSUME NEW s \in SUBSET S, Cardinality(s) = 0 PROVE s = {}
    BY <2>1, FS_Subset, FS_EmptySet
  <2> QED BY <2>1
<1>2. ASSUME NEW n \in Nat, n \in N PROVE n + 1 \in N
  <2>1. ASSUME NEW s \in SUBSET S, Cardinality(s) = n + 1 PROVE s \in K
    <3>1. s # {}
      BY <2>1, FS_EmptySet
    <3>2. s \ {Pick(s)} \in SUBSET S /\ Cardinality(s \ {Pick(s)}) = Cardinality(s) - 1
      BY <3>1, OneLess
    <3>3. Cardinality(s \ {Pick(s)}) = n
      BY <2>1, <3>2
    <3> QED BY <1>2, <3>1, <3>2, <3>3
  <2> QED BY <2>1
<1> HIDE DEF N
<1>3. Nat \subseteq N
  BY <1>1, <1>2, CountUp
<1>4. S \in SUBSET S /\ Cardinality(S) \in N
  BY <1>3, FS_CardinalityType
<1> QED BY <1>4 DEF N

\* g is the sum of w over each subset of S, as FiniteSetsExt adds it up.
IsSum(g, w, S) ==
  g = [s \in SUBSET S |-> IF s = {} THEN 0 ELSE w[Pick(s)] + g[s \ {Pick(s)}]]

\* There is one.
LEMMA SumExists ==
  ASSUME NEW S, IsFiniteSet(S), NEW w
  PROVE  \E g : IsSum(g, w, S)
<1> DEFINE Small(n) == {s \in SUBSET S : Cardinality(s) <= n}
           UpTo(g, n) == g = [s \in Small(n) |->
                                IF s = {} THEN 0 ELSE w[Pick(s)] + g[s \ {Pick(s)}]]
           N == {n \in Nat : \E g : UpTo(g, n)}
<1>1. 0 \in N
  <2>1. \A s \in Small(0) : s = {}
    <3>1. ASSUME NEW s \in Small(0) PROVE s = {}
      <4>1. IsFiniteSet(s) /\ Cardinality(s) \in Nat /\ Cardinality(s) <= 0
        BY FS_Subset, FS_CardinalityType
      <4>2. Cardinality(s) = 0
        BY <4>1
      <4> QED BY <4>1, <4>2, FS_EmptySet
    <3> QED BY <3>1
  <2>2. UpTo([s \in Small(0) |-> 0], 0)
    BY <2>1
  <2> QED BY <2>2
<1>2. ASSUME NEW n \in Nat, n \in N PROVE n + 1 \in N
  <2>1. PICK g : UpTo(g, n)
    BY <1>2
  <2> DEFINE m == n + 1
             f == [s \in Small(m) |-> IF s = {} THEN 0 ELSE w[Pick(s)] + g[s \ {Pick(s)}]]
  <2>2. ASSUME NEW s \in Small(m), s # {}
        PROVE  /\ s \ {Pick(s)} \in Small(n) /\ s \ {Pick(s)} \in Small(m)
    BY <2>2, OneLess
  <2>3. \A s \in Small(n) : s \in Small(m)
    <3>1. \A s \in SUBSET S : Cardinality(s) \in Nat
      BY FS_Subset, FS_CardinalityType
    <3> QED BY <3>1
  <2>4. \A s \in Small(n) : g[s] = IF s = {} THEN 0 ELSE w[Pick(s)] + g[s \ {Pick(s)}]
    BY <2>1
  <2>5. \A s \in Small(n) : f[s] = g[s]
    BY <2>3, <2>4
  <2>6. \A s \in Small(m) : f[s] = IF s = {} THEN 0 ELSE w[Pick(s)] + f[s \ {Pick(s)}]
    BY <2>2, <2>5
  <2>7. UpTo(f, m)
    <3>1. f = [s \in Small(m) |-> f[s]]
      OBVIOUS
    <3> HIDE DEF f, Small
    <3> QED BY <2>6, <3>1
  <2>8. m \in Nat
    OBVIOUS
  <2> HIDE DEF f, UpTo
  <2> QED BY <2>7, <2>8
<1>3. Nat \subseteq N
  <2> HIDE DEF N
  <2> QED BY <1>1, <1>2, CountUp
<1>4. PICK g : UpTo(g, Cardinality(S))
  BY <1>3, FS_CardinalityType
<1>5. Small(Cardinality(S)) = SUBSET S
  BY FS_Subset
<1> QED BY <1>4, <1>5 DEF IsSum

\* What each step of a sum adds.
Adds(g, w, S) == /\ g[{}] = 0
                 /\ \A s \in SUBSET S : s # {} => g[s] = w[Pick(s)] + g[s \ {Pick(s)}]

LEMMA SumAdds ==
  ASSUME NEW S, NEW w, NEW g, IsSum(g, w, S)
  PROVE  Adds(g, w, S)
<1>1. {} \in SUBSET S
  OBVIOUS
<1> QED BY <1>1 DEF IsSum, Adds

\* A sum changes as one of its terms does.
LEMMA SumChanges ==
  ASSUME NEW S, IsFiniteSet(S), NEW w \in [S -> Int], NEW v \in [S -> Int], NEW x \in S,
         \A y \in S \ {x} : v[y] = w[y],
         NEW g, IsSum(g, w, S), NEW f, IsSum(f, v, S)
  PROVE  g[S] \in Int /\ f[S] = g[S] + (v[x] - w[x])
<1> DEFINE K == {s \in SUBSET S : /\ g[s] \in Int
                                  /\ x \in s => f[s] = g[s] + (v[x] - w[x])
                                  /\ x \notin s => f[s] = g[s]}
<1>0. Adds(g, w, S) /\ Adds(f, v, S)
  BY SumAdds
<1>1. {} \in K
  <2>1. g[{}] = 0 /\ f[{}] = 0 /\ {} \in SUBSET S
    BY <1>0 DEF Adds
  <2> QED BY <2>1
<1>2. ASSUME NEW s \in SUBSET S, s # {}, s \ {Pick(s)} \in K PROVE s \in K
  <2> DEFINE p == Pick(s)
             r == s \ {p}
  <2>1. p \in s /\ p \in S /\ g[s] = w[p] + g[r] /\ f[s] = v[p] + f[r]
    BY <1>0, <1>2, OneLess DEF Adds
  <2>2. /\ g[r] \in Int /\ w[p] \in Int /\ v[p] \in Int
        /\ x \in r => f[r] = g[r] + (v[x] - w[x])
        /\ x \notin r => f[r] = g[r]
    BY <1>2, <2>1
  <2>3. x \in r <=> x \in s /\ x # p
    OBVIOUS
  <2>4. x # p => v[p] = w[p]
    BY <2>1
  <2>5. x \in s => x = p \/ x \in r
    OBVIOUS
  <2> HIDE DEF p, r
  <2>6. v[x] \in Int /\ w[x] \in Int
    OBVIOUS
  <2>7. g[s] \in Int
    BY <2>1, <2>2
  <2>8. CASE x = p
    <3>1. f[s] = v[p] + g[r] /\ x \in s
      BY <2>1, <2>2, <2>3, <2>8
    <3>2. f[s] = g[s] + (v[x] - w[x])
      BY <2>1, <2>2, <2>8, <3>1
    <3> QED BY <2>7, <3>1, <3>2
  <2>9. CASE x # p /\ x \in s
    <3>1. f[s] = w[p] + (g[r] + (v[x] - w[x]))
      BY <2>1, <2>2, <2>3, <2>4, <2>9
    <3>2. f[s] = g[s] + (v[x] - w[x])
      BY <2>1, <2>2, <2>6, <3>1
    <3> QED BY <2>7, <2>9, <3>2
  <2>10. CASE x \notin s
    BY <2>1, <2>2, <2>3, <2>4, <2>7, <2>10
  <2> QED BY <2>8, <2>9, <2>10
<1> HIDE DEF K
<1>3. S \in K
  BY <1>1, <1>2, FiniteInduction
<1> QED BY <1>3 DEF K

\* The sum of no terms but 0.
LEMMA SumOfNothing ==
  ASSUME NEW S, IsFiniteSet(S), NEW w, \A x \in S : w[x] = 0, NEW g, IsSum(g, w, S)
  PROVE  g[S] = 0
<1> DEFINE K == {s \in SUBSET S : g[s] = 0}
<1>0. Adds(g, w, S)
  BY SumAdds
<1>1. {} \in K
  BY <1>0 DEF Adds
<1>2. ASSUME NEW s \in SUBSET S, s # {}, s \ {Pick(s)} \in K PROVE s \in K
  <2>1. Pick(s) \in S /\ g[s] = w[Pick(s)] + g[s \ {Pick(s)}]
    BY <1>0, <1>2, OneLess DEF Adds
  <2> QED BY <1>2, <2>1
<1> HIDE DEF K
<1>3. S \in K
  BY <1>1, <1>2, FiniteInduction
<1> QED BY <1>3 DEF K

\* Two sums whose terms are together not negative are together above 0 if and only
\* if some terms are.
LEMMA SumsAbove ==
  ASSUME NEW S, IsFiniteSet(S), NEW w \in [S -> Int], NEW v \in [S -> Int],
         \A x \in S : w[x] + v[x] >= 0,
         NEW g, IsSum(g, w, S), NEW f, IsSum(f, v, S)
  PROVE  /\ g[S] \in Int /\ f[S] \in Int
         /\ g[S] + f[S] > 0 <=> \E x \in S : w[x] + v[x] > 0
<1> DEFINE K == {s \in SUBSET S : /\ g[s] \in Int /\ f[s] \in Int /\ g[s] + f[s] >= 0
                                  /\ g[s] + f[s] > 0 <=> \E x \in s : w[x] + v[x] > 0}
<1>0. Adds(g, w, S) /\ Adds(f, v, S)
  BY SumAdds
<1>1. {} \in K
  <2>1. g[{}] = 0 /\ f[{}] = 0 /\ {} \in SUBSET S
    BY <1>0 DEF Adds
  <2> QED BY <2>1
<1>2. ASSUME NEW s \in SUBSET S, s # {}, s \ {Pick(s)} \in K PROVE s \in K
  <2> DEFINE p == Pick(s)
             r == s \ {p}
  <2>1. p \in s /\ p \in S /\ g[s] = w[p] + g[r] /\ f[s] = v[p] + f[r]
    BY <1>0, <1>2, OneLess DEF Adds
  <2>2. /\ g[r] \in Int /\ f[r] \in Int /\ w[p] \in Int /\ v[p] \in Int
        /\ w[p] + v[p] >= 0 /\ g[r] + f[r] >= 0
        /\ g[r] + f[r] > 0 <=> \E x \in r : w[x] + v[x] > 0
    BY <1>2, <2>1
  <2>3. (\E x \in s : w[x] + v[x] > 0) <=> w[p] + v[p] > 0 \/ \E x \in r : w[x] + v[x] > 0
    BY <2>1
  <2> HIDE DEF p, r
  <2>4. /\ g[s] \in Int /\ f[s] \in Int /\ g[s] + f[s] >= 0
        /\ g[s] + f[s] > 0 <=> w[p] + v[p] > 0 \/ g[r] + f[r] > 0
    BY <2>1, <2>2
  <2> QED BY <2>2, <2>3, <2>4
<1> HIDE DEF K
<1>3. S \in K
  BY <1>1, <1>2, FiniteInduction
<1> QED BY <1>3 DEF K

\* What node and libuv owe the loop for a handle beside its active watchers.
Owed(w) ==
  IF w.wrap \notin {"open", "closing"} THEN 0
  ELSE IF w.kind \in StreamKinds THEN IF w.unref THEN 0 ELSE 1
  ELSE IF w.kind = "udp" THEN 1 - Cardinality({"read", "write"} \cap w.watch)
  ELSE IF w.kind = "process" THEN IF w.inited \/ w.link = "failed" THEN 1 ELSE 0
  ELSE IF w.kind = "fsevent" THEN IF w.wrap = "closing" THEN 1 ELSE 0
  ELSE 0

\* The watchers a handle may have, by its kind and by where it is: a timer has its
\* own just while it is active, a child and a watch of a file since they were started,
\* and a handle that closes the idle watcher until its end begins.
WatchersOf(h) ==
  /\ hd[h].wrap \in {"none", "gone"} => hd[h].watch = {}
  /\ hd[h].wrap = "open" =>
       /\ hd[h].kind \in StreamKinds \cup {"udp"} => hd[h].watch \subseteq {"read", "write"}
       /\ hd[h].kind = "timer" => hd[h].watch = IF hd[h].active THEN {"timer"} ELSE {}
       /\ hd[h].kind = "process" => \/ hd[h].watch = {}
                                    \/ hd[h].watch = {"child"} /\ hd[h].inited
       /\ hd[h].kind = "fsevent" => /\ hd[h].watch = IF hd[h].inited THEN {"read"} ELSE {}
                                    /\ hd[h].keep
  /\ hd[h].wrap = "closing" =>
       /\ hd[h].watch = IF Destroying(h) THEN {} ELSE {"idle"}
       /\ hd[h].kind = "process" => hd[h].inited
       /\ ~hd[h].unref /\ ~hd[h].active
  /\ hd[h].kind = "none" => hd[h].wrap = "none"
  /\ hd[h].unref => hd[h].kind \in StreamKinds

\* The sum over the handles.
Total(w) == (CHOOSE g : IsSum(g, w, Handles))[Handles]

\* The invariant that carries the result about the loop: the references are those owed
\* for the handles.
CountInv ==
  /\ HandleInv /\ \A h \in Handles : WatchersOf(h)
  /\ refs = Total([h \in Handles |-> Owed(hd[h])])

\* The handles are finitely many, and all watches of files are persistent.
CountConstants == IsFiniteSet(Handles) /\ Persistent \subseteq {TRUE}

\* How many watchers: at most those for reading and for writing.
LEMMA ReadAndWrite ==
  ASSUME NEW ws
  PROVE  /\ Cardinality({"read", "write"} \cap ws) =
              (IF "read" \in ws THEN 1 ELSE 0) + (IF "write" \in ws THEN 1 ELSE 0)
         /\ Cardinality({"read"} \cap ws) = IF "read" \in ws THEN 1 ELSE 0
         /\ Cardinality({"write"} \cap ws) = IF "write" \in ws THEN 1 ELSE 0
<1>1. /\ Cardinality({}) = 0 /\ Cardinality({"read"}) = 1 /\ Cardinality({"write"}) = 1
      /\ Cardinality({"read", "write"}) = 2
  <2>1. IsFiniteSet({"read"}) /\ Cardinality({"read"}) = 1
    BY FS_Singleton
  <2>2. Cardinality({"write"}) = 1
    BY FS_Singleton
  <2>3. "write" \notin {"read"} /\ {"read", "write"} = {"read"} \cup {"write"}
    OBVIOUS
  <2>4. Cardinality({"read"} \cup {"write"}) = Cardinality({"read"}) + 1
    BY <2>1, <2>3, FS_AddElement
  <2> QED BY <2>1, <2>2, <2>3, <2>4, FS_EmptySet
<1>2. {"read"} \cap ws = IF "read" \in ws THEN {"read"} ELSE {}
  OBVIOUS
<1>3. {"write"} \cap ws = IF "write" \in ws THEN {"write"} ELSE {}
  OBVIOUS
<1>4. {"read", "write"} \cap ws = IF "read" \in ws THEN IF "write" \in ws THEN {"read", "write"}
                                                       ELSE {"read"}
                                  ELSE IF "write" \in ws THEN {"write"} ELSE {}
  OBVIOUS
<1> QED BY <1>1, <1>2, <1>3, <1>4

\* What is owed is a number.
LEMMA OwedIsNumber ==
  ASSUME NEW w
  PROVE  Owed(w) \in Int
<1>1. Cardinality({"read", "write"} \cap w.watch) \in Int
  <2>1. Cardinality({"read", "write"} \cap w.watch) =
          (IF "read" \in w.watch THEN 1 ELSE 0) + (IF "write" \in w.watch THEN 1 ELSE 0)
    BY ReadAndWrite
  <2> QED BY <2>1
<1> QED BY <1>1 DEF Owed

\* The total changes with what is owed for a handle.
LEMMA TotalChanges ==
  ASSUME IsFiniteSet(Handles), NEW w \in [Handles -> Int], NEW v \in [Handles -> Int],
         NEW h \in Handles, \A g \in Handles \ {h} : v[g] = w[g]
  PROVE  Total(w) \in Int /\ Total(v) = Total(w) + (v[h] - w[h])
<1> DEFINE g == CHOOSE g : IsSum(g, w, Handles)
           f == CHOOSE f : IsSum(f, v, Handles)
<1>1. IsSum(g, w, Handles)
  BY SumExists
<1>2. f = CHOOSE y : IsSum(y, v, Handles)
  OBVIOUS
<1>3. IsSum(f, v, Handles)
  BY SumExists
<1>4. Total(w) = g[Handles] /\ Total(v) = f[Handles]
  BY DEF Total
<1> HIDE DEF f, g
<1> QED BY <1>1, <1>3, <1>4, SumChanges

\* A step of one handle, for which the references change as what is owed.
Balanced(h) ==
  /\ \A g \in Handles \ {h} : hd'[g] = hd[g] /\ (Destroying(g)' <=> Destroying(g))
  /\ WatchersOf(h)'
  /\ refs' = refs + (Owed(hd'[h]) - Owed(hd[h]))

\* It keeps the invariant.
LEMMA BalancedStep ==
  ASSUME IsFiniteSet(Handles), CountInv, HandleInv', NEW h \in Handles, Balanced(h)
  PROVE  CountInv'
<1>1. PICK w \in [Handles -> Int] : w = [g \in Handles |-> Owed(hd[g])]
  BY OwedIsNumber
<1>2. PICK v \in [Handles -> Int] : v = [g \in Handles |-> Owed(hd'[g])]
  BY OwedIsNumber
<1>3. \A g \in Handles \ {h} : v[g] = w[g]
  BY <1>1, <1>2 DEF Balanced
<1>4. Total(v) = Total(w) + (v[h] - w[h])
  BY <1>3, TotalChanges
<1>5. refs' = Total(v)
  BY <1>1, <1>2, <1>4 DEF Balanced, CountInv
<1>6. ASSUME NEW g \in Handles PROVE WatchersOf(g)'
  <2>1. CASE g = h
    BY <2>1 DEF Balanced
  <2>2. CASE g # h
    <3>1. hd'[g] = hd[g] /\ (Destroying(g)' <=> Destroying(g)) /\ WatchersOf(g)
      BY <2>2 DEF Balanced, CountInv
    <3> QED BY <3>1 DEF WatchersOf
  <2> QED BY <2>1, <2>2
<1> QED BY <1>2, <1>5, <1>6 DEF CountInv

\* What is owed for a handle, kind by kind.
LEMMA OwedIs ==
  ASSUME NEW w \in HandleRecord
  PROVE  /\ w.wrap \notin {"open", "closing"} => Owed(w) = 0
         /\ w.wrap \in {"open", "closing"} =>
              /\ w.kind \in StreamKinds => Owed(w) = IF w.unref THEN 0 ELSE 1
              /\ w.kind = "udp" => Owed(w) = 1 - (IF "read" \in w.watch THEN 1 ELSE 0)
                                               - (IF "write" \in w.watch THEN 1 ELSE 0)
              /\ w.kind = "process" =>
                   Owed(w) = IF w.inited \/ w.link = "failed" THEN 1 ELSE 0
              /\ w.kind = "fsevent" => Owed(w) = IF w.wrap = "closing" THEN 1 ELSE 0
              /\ w.kind = "timer" => Owed(w) = 0
<1>1. Cardinality({"read", "write"} \cap w.watch) =
        (IF "read" \in w.watch THEN 1 ELSE 0) + (IF "write" \in w.watch THEN 1 ELSE 0)
  BY ReadAndWrite
<1>2. w.kind = "udp" => w.kind \notin StreamKinds
  BY DEF StreamKinds
<1>3. w.kind \in {"process", "fsevent", "timer"} => w.kind \notin StreamKinds
  BY DEF StreamKinds
<1> QED BY <1>1, <1>2, <1>3 DEF Owed

\* unref and ref, and the calls of a timer.
LEMMA FlagsBalance ==
  ASSUME CountInv, HandleInv', NEW h \in Handles, NEW b \in BOOLEAN,
         \/ Unref(h) \/ Ref(h) \/ TimerStart(h, b) \/ TimerSetRepeat(h, b)
         \/ TimerStop(h) \/ OnTimeout(h)
  PROVE  Balanced(h)
<1>1. /\ hd \in [Handles -> HandleRecord] /\ refs \in Int /\ hd[h] \in HandleRecord
      /\ hd'[h] \in HandleRecord /\ WatchersOf(h)
  BY DEF CountInv, HandleInv, HandlesTypeOK
<1>2. (\A g \in Handles \ {h} : hd'[g] = hd[g]) /\ cb' = cb
  BY <1>1 DEF Unref, Ref, TimerStart, TimerSetRepeat, TimerStop, OnTimeout
<1>5. hd[h].kind = "timer" => ~hd[h].unref
  BY <1>1 DEF WatchersOf, StreamKinds
<1>3. CASE Unref(h) \/ Ref(h)
  <2>1. /\ hd[h].wrap = "open" /\ hd[h].kind \in StreamKinds
        /\ hd'[h].wrap = "open" /\ hd'[h].kind = hd[h].kind /\ hd'[h].watch = hd[h].watch
    <3>1. CASE Unref(h)
      BY <1>1, <3>1 DEF Unref, Open, StreamKinds
    <3>2. CASE Ref(h)
      BY <1>1, <3>2 DEF Ref, Open, StreamKinds
    <3> QED BY <1>3, <3>1, <3>2
  <2>2. WatchersOf(h)'
    BY <1>1, <2>1 DEF WatchersOf, StreamKinds
  <2>3. refs' = refs + (Owed(hd'[h]) - Owed(hd[h]))
    <3>1. CASE Unref(h)
      <4>1. ~hd[h].unref /\ hd'[h].unref /\ refs' = refs - 1
        BY <1>1, <3>1 DEF Unref
      <4> QED BY <1>1, <2>1, <4>1, OwedIs
    <3>2. CASE Ref(h)
      <4>1. hd[h].unref /\ ~hd'[h].unref /\ refs' = refs + 1
        BY <1>1, <3>2 DEF Ref
      <4> QED BY <1>1, <2>1, <4>1, OwedIs
    <3> QED BY <1>3, <3>1, <3>2
  <2> QED BY <1>2, <2>2, <2>3 DEF Balanced, Destroying
<1>4. CASE TimerStart(h, b) \/ TimerSetRepeat(h, b) \/ TimerStop(h) \/ OnTimeout(h)
  <2>1. /\ hd[h].wrap = "open" /\ hd[h].kind = "timer"
        /\ hd'[h].wrap = "open" /\ hd'[h].kind = "timer"
        /\ hd'[h].watch = IF hd'[h].active THEN {"timer"} ELSE {}
        /\ refs' = refs /\ ~hd'[h].unref
    <3>1. CASE TimerStart(h, b)
      BY <1>1, <1>5, <3>1 DEF TimerStart, Open, TimerRef
    <3>2. CASE TimerSetRepeat(h, b)
      BY <1>1, <1>5, <3>2 DEF TimerSetRepeat, Open, WatchersOf
    <3>3. CASE TimerStop(h)
      BY <1>1, <1>5, <3>3 DEF TimerStop, Open, TimerRef
    <3>4. CASE OnTimeout(h)
      BY <1>1, <1>5, <3>4 DEF OnTimeout, Open, WatchersOf, TimerRef
    <3> QED BY <1>4, <3>1, <3>2, <3>3, <3>4
  <2>2. WatchersOf(h)'
    BY <1>1, <2>1 DEF WatchersOf, StreamKinds
  <2>3. refs' = refs + (Owed(hd'[h]) - Owed(hd[h]))
    BY <1>1, <2>1, OwedIs DEF HandleRecord
  <2> QED BY <1>2, <2>2, <2>3 DEF Balanced, Destroying
<1> QED BY <1>3, <1>4

\* A stream that stays open and keeps its flag owes what it did.
LEMMA StreamStays ==
  ASSUME CountInv, HandleInv', NEW h \in Handles,
         \A g \in Handles \ {h} : hd'[g] = hd[g] /\ (Destroying(g)' <=> Destroying(g)),
         hd[h].wrap = "open", hd[h].kind \in StreamKinds,
         hd'[h].wrap = "open", hd'[h].kind = hd[h].kind, hd'[h].unref = hd[h].unref,
         hd'[h].watch \subseteq {"read", "write"}, refs' = refs
  PROVE  Balanced(h)
<1>1. refs \in Int /\ hd[h] \in HandleRecord /\ hd'[h] \in HandleRecord
  BY DEF CountInv, HandleInv, HandlesTypeOK
<1>2. WatchersOf(h)'
  BY DEF WatchersOf, StreamKinds
<1>3. Owed(hd'[h]) = Owed(hd[h])
  BY <1>1, OwedIs
<1> QED BY <1>1, <1>2, <1>3, OwedIsNumber DEF Balanced

\* What such a step does to the handles.
GoesOn(h) ==
  /\ \A g \in Handles \ {h} : hd'[g] = hd[g]
  /\ hd'[h].wrap = "open" /\ hd'[h].kind = hd[h].kind /\ hd'[h].unref = hd[h].unref
  /\ hd'[h].watch \subseteq {"read", "write"}

\* Connections, reads, writes and shutdowns of streams.
LEMMA StreamsBalance ==
  ASSUME CountInv, HandleInv', NEW h \in Handles, NEW r,
         \/ Connect(h) \/ PipeConnect(h) \/ Listen(h) \/ ReadStart(h) \/ ReadStop(h)
         \/ Write(h, r) \/ Shutdown(h) \/ AfterConnect(h) \/ OnReadEnd(h)
  PROVE  Balanced(h)
<1>1. hd \in [Handles -> HandleRecord] /\ hd[h] \in HandleRecord /\ WatchersOf(h)
  BY DEF CountInv, HandleInv, HandlesTypeOK
<1>2. hd[h].wrap = "open" /\ hd[h].kind \in StreamKinds
  BY DEF Connect, PipeConnect, Listen, ReadStart, ReadStop, Write, Shutdown, AfterConnect,
     OnReadEnd, Open, StreamKinds
<1>3. hd[h].watch \subseteq {"read", "write"}
  BY <1>1, <1>2 DEF WatchersOf
<1>4. refs' = refs /\ cb' = cb
  BY DEF Connect, PipeConnect, Listen, ReadStart, ReadStop, Write, Shutdown, AfterConnect,
     OnReadEnd
<1>5. GoesOn(h)
  <2>1. CASE Connect(h)
    BY <1>1, <1>2, <1>3, <2>1 DEF Connect, HandleRecord, GoesOn
  <2>2. CASE Listen(h)
    BY <1>1, <1>2, <1>3, <2>2 DEF Listen, HandleRecord, GoesOn
  <2>3. CASE ReadStart(h)
    BY <1>1, <1>2, <1>3, <2>3 DEF ReadStart, HandleRecord, GoesOn
  <2>4. CASE ReadStop(h)
    BY <1>1, <1>2, <1>3, <2>4 DEF ReadStop, HandleRecord, GoesOn
  <2>5. CASE PipeConnect(h)
    <3>1. ASSUME NEW found \in BOOLEAN,
                 hd' = [hd EXCEPT ![h].link = IF found THEN "connecting" ELSE "refused",
                                  ![h].watch = IF found THEN {"read", "write"} ELSE {},
                                  ![h].fed = TRUE]
          PROVE  GoesOn(h)
      BY <1>1, <1>2, <3>1 DEF HandleRecord, GoesOn
    <3> QED BY <2>5, <3>1 DEF PipeConnect
  <2>6. CASE Write(h, r)
    <3>1. CASE hd' = [hd EXCEPT ![h].completed = Append(@, r), ![h].fed = TRUE]
      BY <1>1, <1>2, <1>3, <3>1 DEF HandleRecord, GoesOn
    <3>2. CASE hd' = [hd EXCEPT ![h].queue = Append(@, r), ![h].watch = @ \cup {"write"}]
      BY <1>1, <1>2, <1>3, <3>2 DEF HandleRecord, GoesOn
    <3> QED BY <2>6, <3>1, <3>2 DEF Write
  <2>7. CASE Shutdown(h)
    BY <1>1, <1>2, <1>3, <2>7 DEF Shutdown, HandleRecord, GoesOn
  <2>8. CASE OnReadEnd(h)
    BY <1>1, <1>2, <1>3, <2>8 DEF OnReadEnd, HandleRecord, GoesOn
  <2>9. CASE AfterConnect(h)
    <3>1. CASE hd' = [hd EXCEPT ![h].link = "connected", ![h].fed = FALSE,
                                ![h].watch = @ \cup {"read"}]
      BY <1>1, <1>2, <1>3, <3>1 DEF HandleRecord, GoesOn
    <3>2. CASE hd' = [hd EXCEPT ![h].link = "failed", ![h].fed = FALSE]
      BY <1>1, <1>2, <1>3, <3>2 DEF HandleRecord, GoesOn
    <3> QED BY <2>9, <3>1, <3>2 DEF AfterConnect
  <2> QED BY <2>1, <2>2, <2>3, <2>4, <2>5, <2>6, <2>7, <2>8, <2>9
<1> QED BY <1>2, <1>4, <1>5, StreamStays DEF Destroying, GoesOn

\* A stream becomes writable.
LEMMA WritableBalances ==
  ASSUME CountInv, HandleInv', NEW h \in Handles, OnWritable(h)
  PROVE  Balanced(h)
<1>1. hd \in [Handles -> HandleRecord] /\ hd[h] \in HandleRecord /\ WatchersOf(h)
  BY DEF CountInv, HandleInv, HandlesTypeOK
<1>2. hd[h].wrap = "open" /\ hd[h].kind \in StreamKinds /\ cb = Idle /\ refs' = refs
      /\ cb' = [at |-> "writes", h |-> h]
  BY DEF OnWritable, Open, LoopReady
<1>3. hd[h].watch \subseteq {"read", "write"}
  BY <1>1, <1>2 DEF WatchersOf
<1>4. GoesOn(h)
  <2>1. CASE hd' = [hd EXCEPT ![h].fed = FALSE, ![h].watch =
                      IF hd[h].queue = <<>> THEN @ ELSE @ \cup {"write"}]
    BY <1>1, <1>2, <1>3, <2>1 DEF HandleRecord, GoesOn
  <2>2. CASE hd' = [hd EXCEPT ![h].queue = Tail(@), ![h].fed = TRUE,
                              ![h].completed = Append(@, Head(hd[h].queue))]
    BY <1>1, <1>2, <1>3, <2>2 DEF HandleRecord, GoesOn
  <2> QED BY <2>1, <2>2 DEF OnWritable
<1>5. \A g \in Handles : ~Destroying(g) /\ ~Destroying(g)'
  BY <1>2 DEF Destroying, Idle
<1> QED BY <1>2, <1>4, <1>5, StreamStays DEF GoesOn

\* A socket for datagrams that stays open owes less by each watcher it starts.
LEMMA UdpStays ==
  ASSUME CountInv, HandleInv', NEW h \in Handles,
         \A g \in Handles \ {h} : hd'[g] = hd[g] /\ (Destroying(g)' <=> Destroying(g)),
         hd[h].wrap = "open", hd[h].kind = "udp", hd'[h].wrap = "open", hd'[h].kind = "udp", ~hd'[h].unref,
         hd'[h].watch \subseteq {"read", "write"},
         refs' = refs + (((IF "read" \in hd[h].watch THEN 1 ELSE 0)
                            - (IF "read" \in hd'[h].watch THEN 1 ELSE 0))
                         + ((IF "write" \in hd[h].watch THEN 1 ELSE 0)
                              - (IF "write" \in hd'[h].watch THEN 1 ELSE 0)))
  PROVE  Balanced(h)
<1>1. refs \in Int /\ hd[h] \in HandleRecord /\ hd'[h] \in HandleRecord
  BY DEF CountInv, HandleInv, HandlesTypeOK
<1>2. WatchersOf(h)'
  BY DEF WatchersOf, StreamKinds
<1>3. refs' = refs + (Owed(hd'[h]) - Owed(hd[h]))
  BY <1>1, OwedIs
<1> QED BY <1>2, <1>3 DEF Balanced

\* The calls and events of such a socket.
LEMMA UdpBalances ==
  ASSUME CountInv, HandleInv', NEW h \in Handles, NEW r,
         RecvStart(h) \/ RecvStop(h) \/ Send(h, r) \/ OnUdpWritable(h)
  PROVE  Balanced(h)
<1>1. hd \in [Handles -> HandleRecord] /\ hd[h] \in HandleRecord /\ WatchersOf(h) /\ refs \in Int
  BY DEF CountInv, HandleInv, HandlesTypeOK
<1>2. hd[h].wrap = "open" /\ hd[h].kind = "udp"
  BY DEF RecvStart, RecvStop, Send, OnUdpWritable, Open
<1>3. hd[h].watch \subseteq {"read", "write"} /\ ~hd[h].unref
  BY <1>1, <1>2 DEF WatchersOf, StreamKinds
<1>4. CASE RecvStart(h)
  <2>1. /\ \A g \in Handles \ {h} : hd'[g] = hd[g]
        /\ hd'[h].wrap = "open" /\ hd'[h].kind = "udp" /\ ~hd'[h].unref /\ cb' = cb
        /\ hd'[h].watch = hd[h].watch \cup {"read"}
        /\ refs' = refs + (IF "read" \in hd[h].watch THEN 0 ELSE -1)
    BY <1>1, <1>2, <1>3, <1>4 DEF RecvStart, UdpStarted, HandleRecord
  <2> QED BY <1>1, <1>2, <1>3, <2>1, UdpStays DEF Destroying
<1>5. CASE RecvStop(h)
  <2>1. /\ \A g \in Handles \ {h} : hd'[g] = hd[g]
        /\ hd'[h].wrap = "open" /\ hd'[h].kind = "udp" /\ ~hd'[h].unref /\ cb' = cb
        /\ hd'[h].watch = hd[h].watch \ {"read"}
    BY <1>1, <1>2, <1>3, <1>5 DEF RecvStop, HandleRecord
  <2>2. refs' = refs + (IF "read" \in hd[h].watch THEN 1 ELSE 0)
    <3>1. Cardinality({"read"} \cap hd[h].watch) = IF "read" \in hd[h].watch THEN 1 ELSE 0
      BY ReadAndWrite
    <3> QED BY <1>5, <3>1 DEF RecvStop, UdpStopped
  <2> QED BY <2>2, <1>1, <1>2, <1>3, <2>1, UdpStays DEF Destroying
<1>6. CASE Send(h, r)
  <2>1. /\ \A g \in Handles \ {h} : hd'[g] = hd[g]
        /\ hd'[h].wrap = "open" /\ hd'[h].kind = "udp" /\ ~hd'[h].unref /\ cb' = cb
        /\ hd'[h].watch = hd[h].watch \cup {"write"}
        /\ refs' = refs + (IF "write" \in hd[h].watch THEN 0 ELSE -1)
    BY <1>1, <1>2, <1>3, <1>6 DEF Send, UdpStarted, HandleRecord
  <2> QED BY <1>1, <1>2, <1>3, <2>1, UdpStays DEF Destroying
<1>7. CASE OnUdpWritable(h)
  <2>1. /\ \A g \in Handles \ {h} : hd'[g] = hd[g]
        /\ hd'[h].wrap = "open" /\ hd'[h].kind = "udp" /\ ~hd'[h].unref /\ refs' = refs
        /\ hd'[h].watch = hd[h].watch /\ cb = Idle /\ cb' = [at |-> "writes", h |-> h]
    <3>1. PICK n \in 0 .. Len(hd[h].queue) :
            hd' = [hd EXCEPT ![h].queue = SubSeq(@, n + 1, Len(@)), ![h].fed = FALSE,
                             ![h].completed = @ \o SubSeq(hd[h].queue, 1, n)]
      BY <1>7 DEF OnUdpWritable
    <3> QED BY <1>1, <1>2, <1>3, <1>7, <3>1 DEF OnUdpWritable, LoopReady, HandleRecord
  <2>2. \A g \in Handles : ~Destroying(g) /\ ~Destroying(g)'
    BY <2>1 DEF Destroying, Idle
  <2> QED BY <1>1, <1>2, <1>3, <2>1, <2>2, UdpStays
<1> QED BY <1>4, <1>5, <1>6, <1>7

\* A child that is spawned or exits, and a watch of a file.
LEMMA ChildBalances ==
  ASSUME Persistent \subseteq {TRUE}, CountInv, HandleInv', NEW h \in Handles,
         Spawn(h) \/ OnExit(h) \/ FsEventStart(h)
  PROVE  Balanced(h)
<1>1. /\ hd \in [Handles -> HandleRecord] /\ hd[h] \in HandleRecord /\ WatchersOf(h)
      /\ refs \in Int /\ hd'[h] \in HandleRecord
  BY DEF CountInv, HandleInv, HandlesTypeOK
<1>2. hd[h].wrap = "open" /\ cb' = cb
  BY DEF Spawn, OnExit, FsEventStart, Open
<1>7. hd[h].kind \in {"process", "fsevent"} => ~hd[h].unref
  BY <1>1 DEF WatchersOf, StreamKinds
<1>3. ASSUME hd[h].kind = "process", hd[h].inited \/ hd[h].link = "fresh",
             \A g \in Handles \ {h} : hd'[g] = hd[g],
             hd'[h].wrap = "open", hd'[h].kind = "process",
             hd'[h].watch = {} \/ (hd'[h].watch = {"child"} /\ hd'[h].inited),
             hd'[h].inited \/ hd'[h].link = "failed", ~hd'[h].unref,
             refs' = refs + (IF hd[h].inited THEN 0 ELSE 1)
      PROVE  Balanced(h)
  <2>1. WatchersOf(h)'
    BY <1>3 DEF WatchersOf, StreamKinds
  <2>2. Owed(hd'[h]) = 1 /\ Owed(hd[h]) = IF hd[h].inited THEN 1 ELSE 0
    BY <1>1, <1>2, <1>3, OwedIs
  <2>3. refs' = refs + (Owed(hd'[h]) - Owed(hd[h]))
    BY <1>1, <1>3, <2>2
  <2> QED BY <1>2, <1>3, <2>1, <2>3 DEF Balanced, Destroying
<1>4. CASE Spawn(h)
  <2>1. hd[h].kind = "process" /\ ~hd[h].inited /\ hd[h].link = "fresh" /\ hd[h].watch = {}
        /\ refs' = refs + 1
    BY <1>1, <1>2, <1>4 DEF Spawn, Open, WatchersOf
  <2>2. CASE hd' = [hd EXCEPT ![h].inited = TRUE, ![h].watch = {"child"},
                              ![h].link = "connected"]
    <3>1. /\ \A g \in Handles \ {h} : hd'[g] = hd[g]
          /\ hd'[h].wrap = "open" /\ hd'[h].kind = "process" /\ ~hd'[h].unref
          /\ hd'[h].watch = {"child"} /\ hd'[h].inited
      BY <1>1, <1>2, <1>7, <2>1, <2>2 DEF HandleRecord
    <3> QED BY <1>3, <2>1, <3>1
  <2>3. CASE hd' = [hd EXCEPT ![h].link = "failed"]
    <3>1. /\ \A g \in Handles \ {h} : hd'[g] = hd[g]
          /\ hd'[h].wrap = "open" /\ hd'[h].kind = "process" /\ ~hd'[h].unref
          /\ hd'[h].watch = {} /\ hd'[h].link = "failed"
      BY <1>1, <1>2, <1>7, <2>1, <2>3 DEF HandleRecord
    <3> QED BY <1>3, <2>1, <3>1
  <2> QED BY <1>4, <2>2, <2>3 DEF Spawn
<1>5. CASE OnExit(h)
  <2>1. hd[h].kind = "process" /\ hd[h].inited /\ refs' = refs
    BY <1>1, <1>2, <1>5 DEF OnExit, Open, WatchersOf
  <2>2. /\ \A g \in Handles \ {h} : hd'[g] = hd[g]
        /\ hd'[h].wrap = "open" /\ hd'[h].kind = "process" /\ ~hd'[h].unref
        /\ hd'[h].watch = {} /\ hd'[h].inited
    BY <1>1, <1>2, <1>5, <1>7, <2>1 DEF OnExit, HandleRecord
  <2> QED BY <1>1, <1>3, <2>1, <2>2
<1>6. CASE FsEventStart(h)
  <2>1. hd[h].kind = "fsevent"
    BY <1>6 DEF FsEventStart, Open
  <2>2. PICK persistent \in Persistent :
          /\ hd' = [hd EXCEPT ![h].inited = TRUE, ![h].watch = {"read"}, ![h].keep = persistent]
          /\ refs' = refs + 1 - 1 + (IF persistent THEN 0 ELSE -1)
    BY <1>6 DEF FsEventStart
  <2>3. persistent = TRUE
    OBVIOUS
  <2>4. /\ \A g \in Handles \ {h} : hd'[g] = hd[g]
        /\ hd'[h].wrap = "open" /\ hd'[h].kind = "fsevent" /\ ~hd'[h].unref
        /\ hd'[h].watch = {"read"} /\ hd'[h].inited /\ hd'[h].keep
    BY <1>1, <1>2, <1>7, <2>1, <2>2, <2>3 DEF HandleRecord
  <2>5. refs' = refs
    BY <1>1, <2>2, <2>3
  <2>6. WatchersOf(h)'
    BY <2>4 DEF WatchersOf, StreamKinds
  <2>7. Owed(hd'[h]) = 0 /\ Owed(hd[h]) = 0
    BY <1>1, <1>2, <2>1, <2>4, OwedIs
  <2> QED BY <1>1, <1>2, <2>4, <2>5, <2>6, <2>7 DEF Balanced, Destroying
<1> QED BY <1>4, <1>5, <1>6

\* A new wrap, of a kind that is counted or not.
LEMMA NewBalances ==
  ASSUME CountInv, HandleInv', NEW h \in Handles, hd[h].wrap = "none", cb' = cb,
         \A g \in Handles \ {h} : hd'[g] = hd[g],
         hd'[h].wrap = "open", hd'[h].watch = {}, ~hd'[h].active, hd'[h].keep, ~hd'[h].unref,
         hd'[h].kind = "fsevent" => ~hd'[h].inited, hd'[h].kind # "none",
         hd'[h].kind = "process" => ~hd'[h].inited /\ hd'[h].link = "fresh",
         refs' = refs + (IF hd'[h].kind \in StreamKinds \cup {"udp"} THEN 1 ELSE 0)
  PROVE  Balanced(h)
<1>1. hd[h] \in HandleRecord /\ hd'[h] \in HandleRecord /\ refs \in Int
  BY DEF CountInv, HandleInv, HandlesTypeOK
<1>2. WatchersOf(h)'
  BY DEF WatchersOf
<1>3. Owed(hd[h]) = 0
  BY <1>1, OwedIs
<1>4. Owed(hd'[h]) = IF hd'[h].kind \in StreamKinds \cup {"udp"} THEN 1 ELSE 0
  <2>1. hd'[h].kind \in StreamKinds \cup {"udp", "timer", "process", "fsevent"}
    BY <1>1 DEF HandleRecord
  <2>2. {"timer", "process", "fsevent", "udp"} \cap StreamKinds = {}
    BY DEF StreamKinds
  <2> QED BY <1>1, <2>1, <2>2, OwedIs
<1>5. refs' = refs + (Owed(hd'[h]) - Owed(hd[h]))
  BY <1>1, <1>3, <1>4
<1> QED BY <1>2, <1>5 DEF Balanced, Destroying

\* The constructors, and a connection that is taken.
LEMMA NewCallsBalance ==
  ASSUME CountInv, HandleInv', NEW h \in Handles,
         \/ NewTcp(h) \/ NewPipe(h) \/ NewTty(h) \/ NewUdp(h)
         \/ NewTimer(h) \/ NewProcess(h) \/ NewFsEvent(h)
  PROVE  Balanced(h)
<1>1. hd \in [Handles -> HandleRecord] /\ refs \in Int
  BY DEF CountInv, HandleInv, HandlesTypeOK
<1>2. ASSUME NEW kind, NEW new, NEW added \in Int, Wrap(h, kind, new, added),
             kind \in StreamKinds \cup {"udp", "timer", "process", "fsevent"},
             \/ new = NoWrap
             \/ new = [NoWrap EXCEPT !.inited = TRUE]
             \/ new = [NoWrap EXCEPT !.inited = TRUE, !.link = "connected"],
             kind \in {"process", "fsevent"} => new = NoWrap,
             added = IF kind \in StreamKinds \cup {"udp"} THEN 1 ELSE 0
      PROVE  Balanced(h)
  <2>1. /\ hd[h].wrap = "none" /\ cb' = cb /\ refs' = refs + added
        /\ \A g \in Handles \ {h} : hd'[g] = hd[g]
        /\ hd'[h] = [new EXCEPT !.kind = kind, !.wrap = "open"]
    BY <1>1, <1>2 DEF Wrap
  <2>2. /\ hd'[h].wrap = "open" /\ hd'[h].kind = kind /\ hd'[h].watch = {}
        /\ ~hd'[h].active /\ hd'[h].keep /\ ~hd'[h].unref
        /\ kind \in {"process", "fsevent"} => ~hd'[h].inited /\ hd'[h].link = "fresh"
    <3>1. CASE new = NoWrap
      BY <2>1, <3>1 DEF NoWrap
    <3>2. CASE new = [NoWrap EXCEPT !.inited = TRUE]
      BY <1>2, <2>1, <3>2 DEF NoWrap
    <3>3. CASE new = [NoWrap EXCEPT !.inited = TRUE, !.link = "connected"]
      BY <1>2, <2>1, <3>3 DEF NoWrap
    <3> QED BY <1>2, <3>1, <3>2, <3>3
  <2>3. kind # "none"
    BY <1>2 DEF StreamKinds
  <2> QED BY <1>2, <2>1, <2>2, <2>3, NewBalances
<1>3. 1 - 1 = 0
  OBVIOUS
<1> QED BY <1>2, <1>3 DEF NewTcp, NewPipe, NewTty, NewUdp, NewTimer, NewProcess, NewFsEvent,
        StreamKinds

LEMMA ConnectionBalances ==
  ASSUME CountInv, HandleInv', NEW h \in Handles, NEW c \in Handles, OnConnection(h, c)
  PROVE  Balanced(c)
<1>1. hd \in [Handles -> HandleRecord] /\ refs \in Int /\ hd[h].kind \in {"tcp", "pipe"}
  BY DEF CountInv, HandleInv, HandlesTypeOK, OnConnection, Open
<1>2. PICK kind \in {"tcp", "pipe"} : kind = hd[h].kind
  BY <1>1
<1>3. /\ hd[c].wrap = "none" /\ cb' = cb /\ refs' = refs + 1
      /\ \A g \in Handles \ {c} : hd'[g] = hd[g]
      /\ hd'[c] = [NoWrap EXCEPT !.kind = kind, !.wrap = "open", !.inited = TRUE,
                                 !.link = "connected"]
  BY <1>1, <1>2 DEF OnConnection
<1>4. /\ hd'[c].wrap = "open" /\ hd'[c].kind = kind /\ hd'[c].watch = {}
      /\ ~hd'[c].active /\ hd'[c].keep /\ ~hd'[c].unref
  BY <1>3 DEF NoWrap
<1>5. kind \in StreamKinds
  BY DEF StreamKinds
<1> QED BY <1>2, <1>3, <1>4, <1>5, NewBalances

\* close gives back what was taken away for a handle, and the handle owes itself.
LEMMA CloseBalances ==
  ASSUME CountInv, HandleInv', NEW h \in Handles, Close(h)
  PROVE  Balanced(h)
<1>1. /\ hd \in [Handles -> HandleRecord] /\ hd[h] \in HandleRecord /\ WatchersOf(h)
      /\ refs \in Int /\ hd'[h] \in HandleRecord /\ CallbackOf
  BY DEF CountInv, HandleInv, HandlesTypeOK
<1>2. /\ hd[h].wrap = "open" /\ hd[h].inited /\ cb' = cb
      /\ refs' = refs + StoppedRefs(h) + (IF hd[h].unref THEN 1 ELSE 0)
  BY DEF Close
<1>3. ~Destroying(h) /\ ~Destroying(h)'
  BY <1>1, <1>2 DEF CallbackOf, Destroying
<1>4. /\ \A g \in Handles \ {h} : hd'[g] = hd[g]
      /\ hd'[h].wrap = "closing" /\ hd'[h].kind = hd[h].kind /\ hd'[h].watch = {"idle"}
      /\ ~hd'[h].unref /\ ~hd'[h].active /\ hd'[h].inited
  BY <1>1, <1>2 DEF Close, HandleRecord
<1>5. WatchersOf(h)'
  BY <1>1, <1>2, <1>3, <1>4 DEF WatchersOf
<1>6. CASE hd[h].kind \in StreamKinds
  <2>1. StoppedRefs(h) = 0
    BY <1>6 DEF StoppedRefs, StreamKinds
  <2>2. Owed(hd'[h]) = 1 /\ Owed(hd[h]) = IF hd[h].unref THEN 0 ELSE 1
    BY <1>1, <1>2, <1>4, <1>6, OwedIs
  <2>3. refs' = refs + (Owed(hd'[h]) - Owed(hd[h]))
    BY <1>1, <1>2, <2>1, <2>2
  <2> QED BY <1>2, <1>4, <1>5, <2>3 DEF Balanced, Destroying
<1>7. CASE hd[h].kind \notin StreamKinds
  <2>1. refs' = refs + StoppedRefs(h) + 0
    BY <1>1, <1>2, <1>7 DEF WatchersOf
  <2>2. CASE hd[h].kind = "udp"
    <3>1. StoppedRefs(h) = (IF "read" \in hd[h].watch THEN 1 ELSE 0)
                             + (IF "write" \in hd[h].watch THEN 1 ELSE 0)
      BY <2>2, ReadAndWrite DEF StoppedRefs, UdpStopped
    <3>2. /\ Owed(hd'[h]) = 1
          /\ Owed(hd[h]) = 1 - (IF "read" \in hd[h].watch THEN 1 ELSE 0)
                             - (IF "write" \in hd[h].watch THEN 1 ELSE 0)
      BY <1>1, <1>2, <1>4, <2>2, OwedIs
    <3> QED BY <1>1, <2>1, <3>1, <3>2, <1>2, <1>4, <1>5 DEF Balanced, Destroying
  <2>3. CASE hd[h].kind = "timer"
    <3>1. StoppedRefs(h) = 0
      BY <2>3 DEF StoppedRefs, TimerRef
    <3>2. Owed(hd'[h]) = 0 /\ Owed(hd[h]) = 0
      BY <1>1, <1>2, <1>4, <2>3, OwedIs
    <3> QED BY <1>1, <2>1, <3>1, <3>2, <1>2, <1>4, <1>5 DEF Balanced, Destroying
  <2>4. CASE hd[h].kind = "process"
    <3>1. StoppedRefs(h) = 0
      BY <2>4 DEF StoppedRefs
    <3>2. Owed(hd'[h]) = 1 /\ Owed(hd[h]) = 1
      BY <1>1, <1>2, <1>4, <2>4, OwedIs
    <3> QED BY <1>1, <2>1, <3>1, <3>2, <1>2, <1>4, <1>5 DEF Balanced, Destroying
  <2>5. CASE hd[h].kind = "fsevent"
    <3>1. StoppedRefs(h) = 1
      BY <2>5 DEF StoppedRefs
    <3>2. Owed(hd'[h]) = 1 /\ Owed(hd[h]) = 0
      BY <1>1, <1>2, <1>4, <2>5, OwedIs
    <3> QED BY <1>1, <2>1, <3>1, <3>2, <1>2, <1>4, <1>5 DEF Balanced, Destroying
  <2>6. hd[h].kind \in {"udp", "timer", "process", "fsevent"}
    BY <1>1, <1>2, <1>7 DEF HandleRecord, WatchersOf
  <2> QED BY <2>2, <2>3, <2>4, <2>5, <2>6
<1> QED BY <1>6, <1>7

\* A handle that closes owes itself, but for a timer.
LEMMA ClosingOwes ==
  ASSUME NEW w \in HandleRecord, w.wrap = "closing", ~w.unref,
         w.watch \in {{}, {"idle"}}, w.kind = "process" => w.inited, w.kind # "none"
  PROVE  Owed(w) = IF w.kind = "timer" THEN 0 ELSE 1
<1>1. w.kind \in StreamKinds \cup {"udp", "timer", "process", "fsevent"}
  BY DEF HandleRecord
<1>2. "timer" \notin StreamKinds
  BY DEF StreamKinds
<1> QED BY <1>1, <1>2, OwedIs

\* The end of a handle.
LEMMA EndsBalance ==
  ASSUME CountInv, HandleInv', NEW h \in Handles,
         FinishClose(h) \/ AnswerDestroyed(h) \/ OnClose(h)
  PROVE  Balanced(h)
<1>1. /\ hd \in [Handles -> HandleRecord] /\ hd[h] \in HandleRecord /\ WatchersOf(h)
      /\ refs \in Int /\ hd'[h] \in HandleRecord /\ CallbackOf
  BY DEF CountInv, HandleInv, HandlesTypeOK
<1>2. hd[h].wrap = "closing" /\ \A g \in Handles \ {h} : hd'[g] = hd[g]
  BY <1>1 DEF FinishClose, AnswerDestroyed, OnClose, CallbackOf
<1>3. Owed(hd[h]) = IF hd[h].kind = "timer" THEN 0 ELSE 1
  BY <1>1, <1>2, ClosingOwes DEF WatchersOf
<1>4. CASE FinishClose(h)
  <2>1. /\ cb = Idle /\ cb' = [at |-> "destroy", h |-> h] /\ refs' = refs
        /\ hd' = [hd EXCEPT ![h].watch = {}]
    BY <1>4 DEF FinishClose, LoopReady
  <2>2. /\ hd'[h].wrap = "closing" /\ hd'[h].kind = hd[h].kind /\ hd'[h].watch = {}
        /\ hd'[h].unref = hd[h].unref /\ hd'[h].active = hd[h].active
        /\ hd'[h].inited = hd[h].inited
    BY <1>1, <1>2, <2>1 DEF HandleRecord
  <2>3. Destroying(h)' /\ \A g \in Handles \ {h} : ~Destroying(g) /\ ~Destroying(g)'
    BY <2>1 DEF Destroying, Idle
  <2>4. WatchersOf(h)'
    BY <1>1, <1>2, <2>2, <2>3 DEF WatchersOf
  <2>5. Owed(hd'[h]) = Owed(hd[h])
    BY <1>1, <1>2, <1>3, <2>2, ClosingOwes DEF WatchersOf
  <2> QED BY <1>1, <1>2, <1>3, <2>1, <2>3, <2>4, <2>5 DEF Balanced
<1>5. CASE AnswerDestroyed(h)
  <2>1. Destroying(h) /\ cb' = cb /\ refs' = refs
    BY <1>5 DEF AnswerDestroyed, Destroying
  <2>2. PICK from \in {"queue", "completed"} : hd' = [hd EXCEPT ![h][from] = Tail(@)]
    BY <1>5 DEF AnswerDestroyed, DestroyNext
  <2>3. /\ hd'[h].wrap = "closing" /\ hd'[h].kind = hd[h].kind /\ hd'[h].watch = {}
        /\ hd'[h].unref = hd[h].unref /\ hd'[h].active = hd[h].active
        /\ hd'[h].inited = hd[h].inited
    BY <1>1, <1>2, <2>1, <2>2 DEF HandleRecord, WatchersOf
  <2>4. Destroying(h)'
    BY <2>1 DEF Destroying
  <2>5. WatchersOf(h)'
    BY <1>1, <1>2, <2>3, <2>4 DEF WatchersOf
  <2>6. Owed(hd'[h]) = Owed(hd[h])
    BY <1>1, <1>2, <1>3, <2>3, ClosingOwes DEF WatchersOf
  <2> QED BY <1>1, <1>2, <1>3, <2>1, <2>5, <2>6 DEF Balanced, Destroying
<1>6. CASE OnClose(h)
  <2>1. /\ Destroying(h) /\ cb' = Idle /\ hd' = [hd EXCEPT ![h].wrap = "gone"]
        /\ refs' = refs - 1 + (IF hd[h].kind = "timer" /\ ~hd[h].active THEN 1 ELSE 0)
    BY <1>6 DEF OnClose, Destroying
  <2>2. /\ hd'[h].wrap = "gone" /\ hd'[h].kind = hd[h].kind /\ hd'[h].watch = {}
        /\ hd'[h].unref = hd[h].unref
    BY <1>1, <1>2, <2>1 DEF HandleRecord, WatchersOf
  <2>3. WatchersOf(h)'
    BY <1>1, <1>2, <2>2 DEF WatchersOf
  <2>4. Owed(hd'[h]) = 0
    BY <1>1, <2>2, OwedIs
  <2>5. refs' = refs + (Owed(hd'[h]) - Owed(hd[h]))
    BY <1>1, <1>2, <1>3, <2>1, <2>4 DEF WatchersOf
  <2>6. \A g \in Handles \ {h} : ~Destroying(g) /\ ~Destroying(g)'
    BY <2>1 DEF Destroying, Idle
  <2> QED BY <1>2, <2>3, <2>5, <2>6 DEF Balanced
<1> QED BY <1>4, <1>5, <1>6

\* The callbacks of writes, and what comes after them.
LEMMA DrainsBalance ==
  ASSUME CountInv, HandleInv', NEW h \in Handles, AfterWrite(h) \/ Drain(h)
  PROVE  Balanced(h)
<1>1. /\ hd \in [Handles -> HandleRecord] /\ hd[h] \in HandleRecord /\ WatchersOf(h)
      /\ refs \in Int /\ hd'[h] \in HandleRecord /\ CallbackOf
  BY DEF CountInv, HandleInv, HandlesTypeOK
<1>2. /\ hd[h].wrap \in {"open", "closing"} /\ cb = [at |-> "writes", h |-> h]
      /\ cb' = cb \/ cb' = Idle
  BY <1>1 DEF AfterWrite, Drain, CallbackOf
<1>3. \A g \in Handles : ~Destroying(g) /\ ~Destroying(g)'
  BY <1>2 DEF Destroying, Idle
<1>4. ASSUME \A g \in Handles \ {h} : hd'[g] = hd[g],
             hd'[h].wrap = hd[h].wrap, hd'[h].kind = hd[h].kind,
             hd'[h].unref = hd[h].unref, hd'[h].active = hd[h].active,
             hd'[h].inited = hd[h].inited, hd'[h].link = hd[h].link, hd'[h].keep = hd[h].keep,
             \/ hd'[h].watch = hd[h].watch /\ refs' = refs
             \/ /\ hd'[h].watch = hd[h].watch \ {"write"}
                /\ refs' = IF hd[h].kind = "udp" THEN refs + UdpStopped(h, {"write"}) ELSE refs
      PROVE  Balanced(h)
  <2>1. WatchersOf(h)'
    BY <1>1, <1>2, <1>3, <1>4 DEF WatchersOf
  <2>2. UdpStopped(h, {"write"}) = IF "write" \in hd[h].watch THEN 1 ELSE 0
    BY ReadAndWrite DEF UdpStopped
  <2>3. refs' = refs + (Owed(hd'[h]) - Owed(hd[h]))
    <3>1. CASE hd[h].kind = "udp"
      BY <1>1, <1>2, <1>4, <2>2, <3>1, OwedIs
    <3>2. CASE hd[h].kind # "udp"
      <4>1. Owed(hd'[h]) = Owed(hd[h])
        BY <1>1, <1>2, <1>4, <3>2 DEF Owed
      <4> QED BY <1>1, <1>4, <3>2, <4>1, OwedIsNumber
    <3> QED BY <3>1, <3>2
  <2> QED BY <1>3, <1>4, <2>1, <2>3 DEF Balanced
<1>5. CASE AfterWrite(h)
  <2>1. hd' = [hd EXCEPT ![h].completed = Tail(@)] /\ refs' = refs
    BY <1>5 DEF AfterWrite
  <2> QED BY <1>1, <1>4, <2>1 DEF HandleRecord
<1>6. CASE Drain(h)
  <2>1. CASE hd[h].queue # <<>>
    BY <1>4, <1>6, <2>1 DEF Drain
  <2>2. CASE hd[h].queue = <<>>
    <3>1. refs' = IF hd[h].kind = "udp" THEN refs + UdpStopped(h, {"write"}) ELSE refs
      BY <1>6, <2>2 DEF Drain
    <3>2. CASE hd' = [hd EXCEPT ![h].watch = @ \ {"write"}]
      BY <1>1, <1>4, <3>1, <3>2 DEF HandleRecord
    <3>3. ASSUME NEW result \in {"done", "failed"},
                 hd' = [hd EXCEPT ![h].watch = @ \ {"write"}, ![h].shut = result,
                                  ![h].told = IF @ = 2 THEN 2 ELSE @ + 1]
          PROVE  Balanced(h)
      BY <1>1, <1>4, <3>1, <3>3 DEF HandleRecord
    <3> QED BY <1>6, <2>2, <3>2, <3>3 DEF Drain
  <2> QED BY <2>1, <2>2
<1> QED BY <1>5, <1>6

\* At the start no handle is owed anything.
LEMMA CountStart ==
  ASSUME IsFiniteSet(Handles), HandleInit
  PROVE  CountInv
<1>1. hd = [h \in Handles |-> NoWrap] /\ refs = 0 /\ cb = Idle
  BY DEF HandleInit
<1>2. \A h \in Handles : WatchersOf(h)
  BY <1>1 DEF WatchersOf, NoWrap
<1>3. PICK w \in [Handles -> Int] : w = [h \in Handles |-> Owed(hd[h])]
  BY OwedIsNumber
<1>4. \A h \in Handles : w[h] = 0
  <2>1. Owed(NoWrap) = 0
    BY DEF Owed, NoWrap
  <2> QED BY <1>1, <1>3, <2>1
<1> DEFINE g == CHOOSE g : IsSum(g, w, Handles)
<1>5. IsSum(g, w, Handles)
  BY SumExists
<1>6. Total(w) = g[Handles]
  BY DEF Total
<1> HIDE DEF g
<1>7. Total(w) = 0
  BY <1>4, <1>5, <1>6, SumOfNothing
<1> QED BY <1>1, <1>2, <1>3, <1>7, HandlesStart DEF CountInv

\* Every step of the handles is one handle's, and balanced.
LEMMA CountStep ==
  ASSUME CountConstants, CountInv, HandleNext \/ UNCHANGED handleVars
  PROVE  CountInv'
<1>1. HandleInv'
  BY HandleStep DEF CountInv
<1>2. IsFiniteSet(Handles) /\ Persistent \subseteq {TRUE}
  BY DEF CountConstants
<1>3. ASSUME NEW h \in Handles, Program(h)
      PROVE  Balanced(h)
  <2>1. CASE \/ NewTcp(h) \/ NewPipe(h) \/ NewTty(h) \/ NewUdp(h)
             \/ NewTimer(h) \/ NewProcess(h) \/ NewFsEvent(h)
    BY <1>1, <2>1, NewCallsBalance
  <2>2. CASE \/ Unref(h) \/ Ref(h) \/ TimerStop(h)
             \/ \E repeat \in BOOLEAN : TimerStart(h, repeat) \/ TimerSetRepeat(h, repeat)
    BY <1>1, <2>2, FlagsBalance
  <2>3. CASE \/ Connect(h) \/ PipeConnect(h) \/ Listen(h) \/ ReadStart(h) \/ ReadStop(h)
             \/ Shutdown(h)
    BY <1>1, <2>3, StreamsBalance
  <2>4. CASE RecvStart(h) \/ RecvStop(h)
    BY <1>1, <2>4, UdpBalances
  <2>5. CASE \E r \in Reqs : Write(h, r) \/ Send(h, r)
    BY <1>1, <2>5, StreamsBalance, UdpBalances
  <2>6. CASE Spawn(h) \/ FsEventStart(h)
    BY <1>1, <1>2, <2>6, ChildBalances
  <2>7. CASE Close(h)
    BY <1>1, <2>7, CloseBalances
  <2> QED BY <1>3, <2>1, <2>2, <2>3, <2>4, <2>5, <2>6, <2>7 DEF Program
<1>4. ASSUME NEW h \in Handles, LoopStep(h)
      PROVE  Balanced(h)
  BY <1>1, <1>4, EndsBalance, DrainsBalance DEF LoopStep
<1>5. ASSUME NEW h \in Handles, Event(h)
      PROVE  \E c \in Handles : Balanced(c)
  <2>1. CASE AfterConnect(h) \/ OnReadEnd(h)
    BY <1>1, <2>1, StreamsBalance
  <2>2. CASE \E c \in Handles : OnConnection(h, c)
    BY <1>1, <2>2, ConnectionBalances
  <2>3. CASE OnWritable(h)
    BY <1>1, <2>3, WritableBalances
  <2>4. CASE OnUdpWritable(h)
    BY <1>1, <2>4, UdpBalances
  <2>5. CASE OnTimeout(h)
    BY <1>1, <2>5, FlagsBalance
  <2>6. CASE OnExit(h)
    BY <1>1, <1>2, <2>6, ChildBalances
  <2> QED BY <1>5, <2>1, <2>2, <2>3, <2>4, <2>5, <2>6 DEF Event
<1>6. CASE UNCHANGED handleVars
  BY <1>1, <1>6 DEF CountInv, handleVars, WatchersOf, Destroying
<1>7. CASE HandleNext
  BY <1>1, <1>2, <1>3, <1>4, <1>5, <1>7, BalancedStep DEF HandleNext
<1> QED BY <1>6, <1>7

\* The watchers of a handle are as many as a number.
LEMMA HeldIsNumber ==
  ASSUME HandleInv, NEW h \in Handles
  PROVE  Cardinality(hd[h].watch) \in Int
<1>1. UdpStopped(h, hd[h].watch) \in Int
  BY WatchersCounted
<1>2. hd[h].watch \cap hd[h].watch = hd[h].watch
  OBVIOUS
<1> QED BY <1>1, <1>2 DEF UdpStopped

\* With its watchers a handle counts for the loop if and only if it is wanted.
LEMMA CountedIfWanted ==
  ASSUME CountInv, cb = Idle, NEW h \in Handles
  PROVE  /\ Owed(hd[h]) + Cardinality(hd[h].watch) >= 0
         /\ Owed(hd[h]) + Cardinality(hd[h].watch) > 0 <=> Wanted(h)
<1> DEFINE n == Cardinality(hd[h].watch)
<1>1. hd[h] \in HandleRecord /\ WatchersOf(h) /\ HandleInv
  BY DEF CountInv, HandleInv, HandlesTypeOK
<1>2. ~Destroying(h)
  BY DEF Destroying, Idle
<1>3. /\ hd[h].watch = {} => n = 0
      /\ hd[h].watch \in {{"idle"}, {"timer"}, {"child"}, {"read"}} => n = 1
      /\ hd[h].watch \subseteq {"read", "write"} =>
           n = (IF "read" \in hd[h].watch THEN 1 ELSE 0)
                 + (IF "write" \in hd[h].watch THEN 1 ELSE 0)
  <2>1. hd[h].watch \subseteq {"read", "write"} => {"read", "write"} \cap hd[h].watch = hd[h].watch
    OBVIOUS
  <2>2. Cardinality({"read", "write"} \cap hd[h].watch) =
          (IF "read" \in hd[h].watch THEN 1 ELSE 0) + (IF "write" \in hd[h].watch THEN 1 ELSE 0)
    BY ReadAndWrite
  <2>3. Cardinality({}) = 0
    BY FS_EmptySet
  <2>4. /\ Cardinality({"idle"}) = 1 /\ Cardinality({"timer"}) = 1 /\ Cardinality({"child"}) = 1
        /\ Cardinality({"read"}) = 1
    BY FS_Singleton
  <2> QED BY <2>1, <2>2, <2>3, <2>4
<1> HIDE DEF n
<1>4. CASE hd[h].wrap \in {"none", "gone"}
  <2>1. Owed(hd[h]) = 0 /\ n = 0 /\ ~Wanted(h)
    BY <1>1, <1>3, <1>4, OwedIs DEF WatchersOf, Wanted
  <2> QED BY <2>1 DEF n
<1>5. CASE hd[h].wrap = "closing"
  <2>1. n = 1 /\ Wanted(h)
    BY <1>1, <1>2, <1>3, <1>5 DEF WatchersOf, Wanted
  <2>2. Owed(hd[h]) \in {0, 1}
    BY <1>1, <1>5, ClosingOwes DEF WatchersOf
  <2> QED BY <2>1, <2>2 DEF n
<1>6. CASE hd[h].wrap = "open"
  <2>1. CASE hd[h].kind \in StreamKinds
    <3>1. hd[h].watch \subseteq {"read", "write"}
      BY <1>1, <1>6, <2>1 DEF WatchersOf
    <3>2. Owed(hd[h]) = IF hd[h].unref THEN 0 ELSE 1
      BY <1>1, <1>6, <2>1, OwedIs
    <3>3. n >= 0 /\ n \in Int /\ (n > 0 <=> hd[h].watch # {})
      BY <1>3, <3>1
    <3>4. Wanted(h) <=> ~hd[h].unref \/ hd[h].watch # {}
      BY <1>6, <2>1 DEF Wanted, IsStream, StreamKinds
    <3>5. CASE hd[h].unref
      BY <3>2, <3>3, <3>4, <3>5 DEF n
    <3>6. CASE ~hd[h].unref
      BY <3>2, <3>3, <3>4, <3>6 DEF n
    <3> QED BY <3>5, <3>6
  <2>2. CASE hd[h].kind = "udp"
    <3>1. hd[h].watch \subseteq {"read", "write"} /\ Wanted(h)
      BY <1>1, <1>6, <2>2 DEF WatchersOf, Wanted
    <3>2. Owed(hd[h]) + n = 1
      BY <1>1, <1>3, <1>6, <2>2, <3>1, OwedIs
    <3> QED BY <3>1, <3>2 DEF n
  <2>3. CASE hd[h].kind = "timer"
    <3>1. Owed(hd[h]) = 0 /\ n \in {0, 1} /\ (n = 1 <=> hd[h].active)
      BY <1>1, <1>3, <1>6, <2>3, OwedIs DEF WatchersOf
    <3>2. Wanted(h) <=> hd[h].active
      BY <1>6, <2>3 DEF Wanted, IsStream, StreamKinds
    <3> QED BY <3>1, <3>2 DEF n
  <2>4. CASE hd[h].kind = "process"
    <3>1. n \in {0, 1} /\ (n = 1 => hd[h].inited)
      BY <1>1, <1>3, <1>6, <2>4 DEF WatchersOf
    <3>2. Owed(hd[h]) = IF hd[h].inited \/ hd[h].link = "failed" THEN 1 ELSE 0
      BY <1>1, <1>6, <2>4, OwedIs
    <3>3. Wanted(h) <=> hd[h].inited \/ hd[h].link = "failed"
      BY <1>6, <2>4 DEF Wanted, IsStream, StreamKinds
    <3>4. CASE hd[h].inited \/ hd[h].link = "failed"
      BY <3>1, <3>2, <3>3, <3>4 DEF n
    <3>5. CASE ~(hd[h].inited \/ hd[h].link = "failed")
      BY <3>1, <3>2, <3>3, <3>5 DEF n
    <3> QED BY <3>4, <3>5
  <2>5. CASE hd[h].kind = "fsevent"
    <3>1. Owed(hd[h]) = 0 /\ n \in {0, 1} /\ (n = 1 <=> hd[h].inited) /\ hd[h].keep
      BY <1>1, <1>3, <1>6, <2>5, OwedIs DEF WatchersOf
    <3>2. Wanted(h) <=> hd[h].inited
      BY <1>6, <2>5, <3>1 DEF Wanted, IsStream, StreamKinds
    <3> QED BY <3>1, <3>2 DEF n
  <2>6. hd[h].kind \in StreamKinds \cup {"udp", "timer", "process", "fsevent"}
    BY <1>1, <1>6 DEF HandleRecord, WatchersOf
  <2> QED BY <2>1, <2>2, <2>3, <2>4, <2>5, <2>6
<1> QED BY <1>1, <1>4, <1>5, <1>6 DEF HandleRecord

\* The count is the sum of what the handles owe and of their watchers.
LEMMA CountSays ==
  ASSUME IsFiniteSet(Handles), CountInv
  PROVE  LoopRunsWhileWanted
<1>1. SUFFICES ASSUME cb = Idle
               PROVE  LoopRefs > 0 <=> \E h \in Handles : Wanted(h)
  BY DEF LoopRunsWhileWanted
<1>2. PICK w \in [Handles -> Int] : w = [h \in Handles |-> Owed(hd[h])]
  BY OwedIsNumber
<1>3. PICK v \in [Handles -> Int] : v = [h \in Handles |-> Cardinality(hd[h].watch)]
  BY HeldIsNumber DEF CountInv
<1> DEFINE g == CHOOSE g : IsSum(g, w, Handles)
           f == CHOOSE iter : iter = [s \in SUBSET Handles |-> IF s = {} THEN 0
                  ELSE Cardinality(hd[Pick(s)].watch) + iter[s \ {Pick(s)}]]
<1>4. IsSum(g, w, Handles) /\ refs = g[Handles]
  BY <1>2, SumExists DEF CountInv, Total
<1>5. IsSum(f, v, Handles)
  <2>1. \A s \in SUBSET Handles : s # {} => v[Pick(s)] = Cardinality(hd[Pick(s)].watch)
    BY <1>3, OneLess
  <2>2. \A y : IsSum(y, v, Handles) <=> y = [s \in SUBSET Handles |-> IF s = {} THEN 0
                  ELSE Cardinality(hd[Pick(s)].watch) + y[s \ {Pick(s)}]]
    BY <2>1 DEF IsSum
  <2>3. \E y : IsSum(y, v, Handles)
    BY SumExists
  <2> QED BY <2>2, <2>3
<1>6. LoopRefs = refs + f[Handles]
  BY DEF LoopRefs, MapThenSumSet, MapThenFoldSet, Pick
<1> HIDE DEF f, g
<1>7. \A h \in Handles : /\ w[h] + v[h] >= 0
                         /\ w[h] + v[h] > 0 <=> Wanted(h)
  BY <1>1, <1>2, <1>3, CountedIfWanted
<1>8. g[Handles] + f[Handles] > 0 <=> \E h \in Handles : w[h] + v[h] > 0
  BY <1>4, <1>5, <1>7, SumsAbove
<1> QED BY <1>4, <1>6, <1>7, <1>8

\* Between two events the loop runs on if and only if some handle wants it, for any
\* handles, when all watches of files are persistent (HandleWrap::Ref and Unref,
\* TimerWrap::StateChange, uv__handle_init, uv__finish_close).
THEOREM LoopRunsAsWanted ==
  ASSUME CountConstants
  PROVE  HandleSpec => []LoopRunsWhileWanted
<1>1. HandleInit => CountInv
  BY CountStart DEF CountConstants
<1>2. CountInv /\ [HandleNext]_handleVars => CountInv'
  BY CountStep
<1>3. CountInv => LoopRunsWhileWanted
  BY CountSays DEF CountConstants
<1> QED BY <1>1, <1>2, <1>3, PTL DEF HandleSpec

-----------------------------------------------------------------------------
(* The slab of reads. *)

\* A region lies in an older slab, or in the current one below what is used.
Under(r, f) ==
    r.slab < slab[f] \/ (r.slab = slab[f] /\ r.base + r.len =< used[f])

Within ==
    /\ \A f \in Files : used[f] =< SlabSize
    /\ \A h \in busy : Under(buf[h], FileOf(h))
    /\ \A s \in given : Under(s, "stream")

\* A region lies in an older slab than that of the streams, or below b.
Beneath(r, b) == r.slab < slab["stream"] \/ r.base + r.len =< b

\* The read of the stream that allocated last is on top of its slab: what it
\* gives back is nobody else's.
OnTop ==
    \A h \in busy \cap Streams : last["stream"] = h =>
        /\ buf[h].slab = slab["stream"]
        /\ buf[h].base + buf[h].len = used["stream"]
        /\ \A g \in (busy \cap Streams) \ {h} : Beneath(buf[g], buf[h].base)
        /\ \A s \in given : Beneath(s, buf[h].base)

SlabInv == SlabTypeOK /\ ReadsWhereNamed /\ SlicesUntouched /\ Within /\ OnTop

-----------------------------------------------------------------------------

\* Nothing is read or given at the start.
LEMMA InitInv == SlabInit => SlabInv
  BY SlabAssumption
     DEF SlabInit, SlabInv, SlabTypeOK, ReadsWhereNamed, SlicesUntouched, Within, OnTop,
         Files, Readers, Regions

\* Each reader belongs to one of the two files.
LEMMA FileOfFile ==
  ASSUME NEW h \in Readers
  PROVE  /\ FileOf(h) \in Files
         /\ h \in Streams <=> FileOf(h) = "stream"
         /\ h \in UdpSockets <=> FileOf(h) = "udp"
  BY SlabAssumption DEF FileOf, Files, Readers

\* A buffer taken above all that is used, in the current slab or in a new one.
LEMMA TakeInv ==
  ASSUME SlabInv, NEW h \in Readers \ busy, NEW suggested \in Suggested,
         NEW s \in Nat, NEW base \in Nat,
         base < SlabSize,
         s > slab[FileOf(h)] \/ (s = slab[FileOf(h)] /\ s > 0 /\ base = used[FileOf(h)]),
         TakeBuffer(h, FileOf(h), s, base, suggested)
  PROVE  SlabInv'
<1> DEFINE f   == FileOf(h)
           len == Least(SlabSize - base, suggested)
           new == [slab |-> s, base |-> base, len |-> len]
<1>1. /\ len \in Nat /\ len > 0 /\ base + len =< SlabSize
      /\ f \in Files
  BY SlabAssumption, FileOfFile DEF Least
<1>2. /\ slab \in [Files -> Nat] /\ used \in [Files -> Nat]
      /\ last \in [Files -> Readers \cup {"none"}]
      /\ held \in [Readers -> Nat] /\ offset \in [Readers -> Nat]
      /\ busy \subseteq Readers /\ buf \in [Readers -> Regions] /\ given \subseteq Regions
  BY DEF SlabInv, SlabTypeOK
<1>3. /\ slab' = [slab EXCEPT ![f] = s]
      /\ used' = [used EXCEPT ![f] = base + len]
      /\ last' = [last EXCEPT ![f] = h]
      /\ held' = [held EXCEPT ![h] = s]
      /\ offset' = [offset EXCEPT ![h] = base]
      /\ buf' = [buf EXCEPT ![h] = new]
      /\ busy' = busy \cup {h}
      /\ given' = given
  BY DEF TakeBuffer
<1>4. new \in Regions /\ new.slab = s /\ new.base = base /\ new.len = len
  BY <1>1 DEF Regions
<1> HIDE DEF f, len, new
<1>5. /\ buf'[h] = new /\ \A g \in busy : g # h /\ buf'[g] = buf[g]
      /\ slab'[f] = s /\ used'[f] = base + len
      /\ \A k \in Files \ {f} : slab'[k] = slab[k] /\ used'[k] = used[k] /\ last'[k] = last[k]
      /\ last'[f] = h
  BY <1>1, <1>2, <1>3
<1>6. /\ s > 0 /\ (s > slab[f] \/ (s = slab[f] /\ base = used[f]))
  BY <1>1, <1>2 DEF f
<1>7. \A r \in Regions : Under(r, f) => Apart(new, r) /\ Under(r, f)'
                                        /\ (r.slab < s \/ r.base + r.len =< base)
  BY <1>1, <1>2, <1>4, <1>5, <1>6 DEF Under, Apart, Regions
<1>8. \A r \in Regions, k \in Files \ {f} : Under(r, k) => Under(r, k)'
  BY <1>5 DEF Under
<1>9. /\ \A g \in busy : Under(buf[g], FileOf(g)) /\ buf[g] \in Regions
      /\ \A r \in given : Under(r, "stream") /\ r \in Regions
  BY <1>2 DEF SlabInv, Within
<1>10. SlabTypeOK'
  BY <1>1, <1>2, <1>3, <1>4 DEF SlabTypeOK
<1>11. ReadsWhereNamed'
  <2>1. ReadsWhereNamed
    BY DEF SlabInv
  <2> QED BY <2>1, <1>1, <1>2, <1>3, <1>4, <1>5, <1>6 DEF ReadsWhereNamed
<1>12. Within'
  <2>1. \A k \in Files : used'[k] =< SlabSize
    BY <1>1, <1>2, <1>5 DEF SlabInv, Within
  <2>2. \A g \in busy' : Under(buf[g], FileOf(g))'
    <3>1. Under(buf[h], f)'
      BY <1>1, <1>4, <1>5 DEF Under
    <3>2. ASSUME NEW g \in busy PROVE Under(buf[g], FileOf(g))'
      <4>1. FileOf(g) \in Files
        BY <1>2, FileOfFile
      <4>2. CASE FileOf(g) = f
        BY <4>2, <1>5, <1>7, <1>9 DEF Under
      <4>3. CASE FileOf(g) # f
        BY <4>1, <4>3, <1>5, <1>8, <1>9 DEF Under
      <4> QED BY <4>2, <4>3
    <3> QED BY <3>1, <3>2, <1>3 DEF f
  <2>3. \A r \in given' : Under(r, "stream")'
    BY <1>3, <1>7, <1>8, <1>9 DEF Files
  <2> QED BY <2>1, <2>2, <2>3 DEF Within
<1>13. SlicesUntouched'
  <2>1. \A g \in (busy \cap Streams)' : \A r \in given' : Apart(buf'[g], r)
    <3>1. h \in Streams => f = "stream"
      BY FileOfFile DEF f
    <3> QED BY <3>1, <1>3, <1>5, <1>7, <1>9 DEF SlabInv, SlicesUntouched
  <2>2. \A g, k \in busy' : FileOf(g) = FileOf(k) /\ g # k => Apart(buf'[g], buf'[k])
    <3>1. ASSUME NEW g \in busy, FileOf(g) = f PROVE Apart(new, buf[g]) /\ Apart(buf[g], new)
      BY <3>1, <1>7, <1>9 DEF Apart
    <3> QED BY <3>1, <1>3, <1>5 DEF SlabInv, SlicesUntouched, f
  <2> QED BY <2>1, <2>2 DEF SlicesUntouched
<1>14. OnTop'
  <2>1. CASE f = "stream"
    <3>1. \A g \in (busy' \cap Streams) \ {h} : Beneath(buf[g], base)'
      <4> TAKE g \in (busy' \cap Streams) \ {h}
      <4>1. g \in busy /\ FileOf(g) = f
        BY <1>2, <1>3, <2>1, FileOfFile
      <4> QED BY <4>1, <2>1, <1>5, <1>7, <1>9 DEF Beneath
    <3>2. \A r \in given' : Beneath(r, base)'
      BY <2>1, <1>3, <1>5, <1>7, <1>9 DEF Beneath
    <3> QED BY <3>1, <3>2, <2>1, <1>4, <1>5 DEF OnTop
  <2>2. CASE f = "udp"
    <3>1. /\ h \notin Streams
          /\ slab'["stream"] = slab["stream"] /\ used'["stream"] = used["stream"]
          /\ last'["stream"] = last["stream"]
      BY <2>2, <1>5, FileOfFile DEF f, Files
    <3>2. busy' \cap Streams = busy \cap Streams
      BY <3>1, <1>3
    <3> QED BY <3>1, <3>2, <1>3, <1>5 DEF SlabInv, OnTop, Beneath
  <2> QED BY <2>1, <2>2, <1>1 DEF Files
<1> QED BY <1>10, <1>11, <1>12, <1>13, <1>14 DEF SlabInv

\* A stream asks for a buffer: from the slab in use, or from a new one.
LEMMA OnAllocInv ==
  ASSUME SlabInv, NEW h \in Streams, NEW suggested \in Suggested, OnAlloc(h, suggested)
  PROVE  SlabInv'
<1>1. h \in Readers \ busy /\ FileOf(h) = "stream"
  BY DEF OnAlloc, FileOf, Readers
<1>2. slab["stream"] \in Nat /\ used["stream"] \in Nat
  BY DEF SlabInv, SlabTypeOK, Files
<1>3. CASE Full("stream") /\ NewSlab(h, "stream", suggested)
  BY <1>1, <1>2, <1>3, TakeInv, SlabAssumption DEF NewSlab
<1>4. CASE /\ ~Full("stream")
           /\ TakeBuffer(h, "stream", slab["stream"], used["stream"], suggested)
  <2>1. slab["stream"] > 0 /\ used["stream"] < SlabSize
    BY <1>2, <1>4, SlabAssumption DEF Full
  <2> QED BY <2>1, <1>1, <1>2, <1>4, TakeInv
<1> QED BY <1>3, <1>4 DEF OnAlloc

\* A socket does the same in the slab of its file.
LEMMA UdpOnAllocInv ==
  ASSUME SlabInv, NEW h \in UdpSockets, NEW suggested \in Suggested, UdpOnAlloc(h, suggested)
  PROVE  SlabInv'
<1>1. h \in Readers \ busy /\ FileOf(h) = "udp"
  BY SlabAssumption DEF UdpOnAlloc, FileOf, Readers
<1>2. slab["udp"] \in Nat /\ used["udp"] \in Nat
  BY DEF SlabInv, SlabTypeOK, Files
<1>3. CASE Full("udp") /\ NewSlab(h, "udp", suggested)
  BY <1>1, <1>2, <1>3, TakeInv, SlabAssumption DEF NewSlab
<1>4. CASE /\ ~Full("udp")
           /\ TakeBuffer(h, "udp", slab["udp"], used["udp"], suggested)
  <2>1. slab["udp"] > 0 /\ used["udp"] < SlabSize
    BY <1>2, <1>4, SlabAssumption DEF Full
  <2> QED BY <2>1, <1>1, <1>2, <1>4, TakeInv
<1> QED BY <1>3, <1>4 DEF UdpOnAlloc

\* A read that ends gives back the part of its buffer above the first n bytes,
\* which are all that is left of it: only if it is on top.
LEMMA UnreadInv ==
  ASSUME SlabInv, NEW h \in Streams \cap busy, NEW n \in 0 .. buf[h].len,
         Unread(h, n),
         busy' = busy \ {h},
         held' = [held EXCEPT ![h] = 0],
         given' = given \/ given' = given \cup {[slab |-> held[h], base |-> offset[h], len |-> n]},
         UNCHANGED <<slab, last, offset, buf>>
  PROVE  SlabInv'
<1> DEFINE piece == [slab |-> held[h], base |-> offset[h], len |-> n]
<1>1. /\ slab \in [Files -> Nat] /\ used \in [Files -> Nat]
      /\ last \in [Files -> Readers \cup {"none"}]
      /\ held \in [Readers -> Nat] /\ offset \in [Readers -> Nat]
      /\ busy \subseteq Readers /\ buf \in [Readers -> Regions] /\ given \subseteq Regions
  BY DEF SlabInv, SlabTypeOK
<1>2. h \in Readers /\ FileOf(h) = "stream"
  BY <1>1 DEF FileOf
<1>3. /\ buf[h] \in Regions
      /\ piece \in Regions
      /\ piece.slab = buf[h].slab /\ piece.base = buf[h].base /\ piece.len = n
      /\ n \in Nat /\ n =< buf[h].len
  BY <1>1, <1>2 DEF SlabInv, ReadsWhereNamed, Regions
<1> HIDE DEF piece
<1>4. /\ slab' = slab /\ last' = last /\ offset' = offset /\ buf' = buf
      /\ given' \subseteq given \cup {piece}
  BY DEF piece
<1>5. used'["udp"] = used["udp"] /\ used' \in [Files -> Int]
  BY <1>1, <1>3 DEF Unread, Files, Regions
<1>6. SlicesUntouched'
  <2>1. \A g \in busy \ {h} : Apart(buf[g], buf[h]) \/ FileOf(g) # "stream"
    BY <1>2 DEF SlabInv, SlicesUntouched
  <2>2. \A g \in (busy \ {h}) \cap Streams : Apart(buf[g], piece)
    <3> TAKE g \in (busy \ {h}) \cap Streams
    <3>1. Apart(buf[g], buf[h]) /\ buf[g] \in Regions
      BY <2>1, <1>1 DEF FileOf
    <3> QED BY <3>1, <1>3 DEF Apart, Regions
  <2> QED BY <2>2, <1>4 DEF SlabInv, SlicesUntouched
<1>7. CASE last["stream"] = h
  <2>1. used'["stream"] = buf[h].base + n
    BY <1>1, <1>3, <1>7 DEF SlabInv, OnTop, Unread, Files, Regions
  <2>2. /\ buf[h].slab = slab["stream"]
        /\ \A g \in (busy \cap Streams) \ {h} : Beneath(buf[g], buf[h].base)
        /\ \A s \in given : Beneath(s, buf[h].base)
    BY <1>7 DEF SlabInv, OnTop
  <2>3. SlabTypeOK'
    <3>1. used' \in [Files -> Nat]
      BY <2>1, <1>1, <1>3, <1>5 DEF Files, Regions
    <3> QED BY <3>1, <1>1, <1>2, <1>3, <1>4 DEF SlabTypeOK
  <2>4. Within'
    <3>1. \A f \in Files : used'[f] =< SlabSize
      BY <2>1, <1>1, <1>2, <1>3, <1>5, SlabAssumption
      DEF SlabInv, Within, ReadsWhereNamed, Files, Regions
    <3>2. \A g \in busy' : Under(buf[g], FileOf(g))'
      <4> TAKE g \in busy'
      <4>1. g \in busy \ {h} /\ g \in Readers /\ buf[g] \in Regions
        BY <1>1
      <4>2. Under(buf[g], FileOf(g))
        BY <4>1 DEF SlabInv, Within
      <4>3. CASE g \in Streams
        <5>1. FileOf(g) = "stream"
          BY <4>3 DEF FileOf
        <5>2. Beneath(buf[g], buf[h].base)
          BY <2>2, <4>1, <4>3
        <5>3. slab["stream"] \in Nat
          BY <1>1 DEF Files
        <5> QED BY <5>1, <5>2, <5>3, <4>1, <4>2, <2>1, <1>3, <1>4 DEF Under, Beneath, Regions
      <4>4. CASE g \notin Streams
        <5>1. FileOf(g) = "udp"
          BY <4>4 DEF FileOf
        <5> QED BY <5>1, <4>2, <1>4, <1>5 DEF Under
      <4> QED BY <4>3, <4>4
    <3>3. \A s \in given' : Under(s, "stream")'
      <4> TAKE s \in given'
      <4>1. slab["stream"] \in Nat
        BY <1>1 DEF Files
      <4>2. CASE s = piece
        BY <4>1, <4>2, <2>1, <2>2, <1>3, <1>4 DEF Under, Regions
      <4>3. CASE s \in given
        <5>1. Under(s, "stream") /\ Beneath(s, buf[h].base) /\ s \in Regions
          BY <4>3, <2>2, <1>1 DEF SlabInv, Within
        <5> QED BY <5>1, <4>1, <2>1, <1>3, <1>4 DEF Under, Beneath, Regions
      <4> QED BY <4>2, <4>3, <1>4
    <3> QED BY <3>1, <3>2, <3>3 DEF Within
  <2>5. ReadsWhereNamed'
    BY <1>1, <1>2, <1>4 DEF SlabInv, ReadsWhereNamed
  <2>6. OnTop'
    BY <1>4, <1>7 DEF OnTop
  <2> QED BY <2>3, <2>4, <2>5, <2>6, <1>6 DEF SlabInv
<1>8. CASE last["stream"] # h
  <2>1. used' = used
    BY <1>8 DEF Unread
  <2>2. SlabTypeOK'
    BY <2>1, <1>1, <1>2, <1>3, <1>4 DEF SlabTypeOK
  <2>3. Within'
    <3>1. /\ \A f \in Files : used[f] =< SlabSize
          /\ \A g \in busy : Under(buf[g], FileOf(g))
          /\ \A s \in given : Under(s, "stream")
      BY DEF SlabInv, Within
    <3>2. Under(piece, "stream")
      <4>1. slab["stream"] \in Nat /\ used["stream"] \in Nat
        BY <1>1 DEF Files
      <4> QED BY <4>1, <3>1, <1>2, <1>3 DEF Under, Regions
    <3> QED BY <3>1, <3>2, <2>1, <1>4 DEF Within, Under
  <2>4. ReadsWhereNamed'
    BY <1>1, <1>2, <1>4 DEF SlabInv, ReadsWhereNamed
  <2>5. OnTop'
    <3> SUFFICES ASSUME NEW g \in (busy \cap Streams) \ {h}, last["stream"] = g
                 PROVE  /\ buf[g].slab = slab["stream"]
                        /\ buf[g].base + buf[g].len = used["stream"]
                        /\ \A k \in (busy \cap Streams) \ {g} : Beneath(buf[k], buf[g].base)
                        /\ \A s \in given \cup {piece} : Beneath(s, buf[g].base)
      BY <2>1, <1>4 DEF OnTop, Beneath
    <3>1. /\ buf[g].slab = slab["stream"]
          /\ buf[g].base + buf[g].len = used["stream"]
          /\ \A k \in (busy \cap Streams) \ {g} : Beneath(buf[k], buf[g].base)
          /\ \A s \in given : Beneath(s, buf[g].base)
      BY DEF SlabInv, OnTop
    <3>2. Beneath(piece, buf[g].base)
      <4>1. Beneath(buf[h], buf[g].base)
        BY <3>1
      <4>2. slab["stream"] \in Nat /\ buf[g] \in Regions
        BY <1>1 DEF Files
      <4> QED BY <4>1, <4>2, <1>3 DEF Beneath, Regions
    <3> QED BY <3>1, <3>2
  <2> QED BY <2>2, <2>3, <2>4, <2>5, <1>6 DEF SlabInv
<1> QED BY <1>7, <1>8

\* The three ends of a read.
LEMMA OnReadInv ==
  ASSUME SlabInv, NEW h \in Streams, NEW n \in Nat, OnRead(h, n)
  PROVE  SlabInv'
  BY UnreadInv DEF OnRead

\* ... with nothing kept,
LEMMA OnReadFailedInv ==
  ASSUME SlabInv, NEW h \in Streams, OnReadFailed(h)
  PROVE  SlabInv'
<1>1. h \in Readers /\ buf[h].len \in Nat
  BY DEF SlabInv, SlabTypeOK, Readers, Regions
<1>2. h \in Streams \cap busy /\ 0 \in 0 .. buf[h].len
  BY <1>1 DEF OnReadFailed
<1>3. /\ Unread(h, 0) /\ busy' = busy \ {h} /\ held' = [held EXCEPT ![h] = 0]
      /\ given' = given /\ UNCHANGED <<slab, last, offset, buf>>
  BY DEF OnReadFailed
<1> QED BY <1>2, <1>3, UnreadInv

\* ... with nothing given back,
LEMMA OnRecvInv ==
  ASSUME SlabInv, NEW h \in UdpSockets, OnRecv(h)
  PROVE  SlabInv'
<1>1. SlabTypeOK' /\ ReadsWhereNamed' /\ SlicesUntouched'
  BY DEF OnRecv, SlabInv, SlabTypeOK, ReadsWhereNamed, SlicesUntouched
<1>2. Within' /\ OnTop'
  BY DEF OnRecv, SlabInv, Within, Under, OnTop, Beneath
<1> QED BY <1>1, <1>2 DEF SlabInv

\* and a step of something else.
LEMMA StutterInv == SlabInv /\ UNCHANGED slabVars => SlabInv'
  BY DEF slabVars, SlabInv, SlabTypeOK, ReadsWhereNamed, SlicesUntouched, Within, Under,
         OnTop, Beneath

\* The invariant that carries the three results below.
THEOREM SlabInvariant == SlabSpec => []SlabInv
<1>1. SlabInv /\ [SlabNext]_slabVars => SlabInv'
  BY OnAllocInv, UdpOnAllocInv, OnReadInv, OnReadFailedInv, OnRecvInv, StutterInv, SlabAssumption
  DEF SlabNext
<1> QED BY <1>1, InitInv, PTL DEF SlabSpec

\* Every variable of the slabs keeps its type.
THEOREM SlabTypes == SlabSpec => []SlabTypeOK
<1>1. SlabInv => SlabTypeOK
  BY DEF SlabInv
<1> QED BY <1>1, SlabInvariant, PTL

\* No read under way goes to bytes of a slice the program was given, or to
\* those of another read (stream_wrap.cc:222-238, the two places that give a
\* part of the slab back).
THEOREM SlicesStayUntouched == SlabSpec => []SlicesUntouched
<1>1. SlabInv => SlicesUntouched
  BY DEF SlabInv
<1> QED BY <1>1, SlabInvariant, PTL

\* A read ends where the wrap says it began, in a slab the wrap keeps alive.
THEOREM ReadsAreWhereNamed == SlabSpec => []ReadsWhereNamed
<1>1. SlabInv => ReadsWhereNamed
  BY DEF SlabInv
<1> QED BY <1>1, SlabInvariant, PTL

\* A sequence without its last element.
LEMMA WithoutLast ==
  ASSUME NEW D, NEW s \in Seq(D), s # <<>>
  PROVE  /\ SubSeq(s, 1, Len(s) - 1) \in Seq(D)
         /\ Len(SubSeq(s, 1, Len(s) - 1)) = Len(s) - 1
         /\ \A k \in 1 .. Len(s) - 1 : SubSeq(s, 1, Len(s) - 1)[k] = s[k]
<1>1. Len(s) \in Nat /\ Len(s) # 0 /\ Len(s) - 1 \in Int /\ 1 \in Int
  OBVIOUS
<1>2. \A k \in 1 .. Len(s) - 1 : s[k] \in D
  BY <1>1
<1>3. /\ SubSeq(s, 1, Len(s) - 1) \in Seq(D)
      /\ Len(SubSeq(s, 1, Len(s) - 1)) = IF 1 <= Len(s) - 1 THEN (Len(s) - 1) - 1 + 1 ELSE 0
      /\ \A k \in 1 .. (Len(s) - 1) - 1 + 1 : SubSeq(s, 1, Len(s) - 1)[k] = s[1 + k - 1]
  BY <1>1, <1>2, SubSeqProperties
<1> DEFINE u == SubSeq(s, 1, Len(s) - 1)
<1> HIDE DEF u
<1>4. Len(u) = Len(s) - 1
  <2>1. Len(u) = IF 1 <= Len(s) - 1 THEN (Len(s) - 1) - 1 + 1 ELSE 0
    BY <1>3 DEF u
  <2>2. PICK n \in Nat : n = Len(s)
    BY <1>1
  <2>3. CASE 1 <= n - 1
    <3>1. Len(u) = (n - 1) - 1 + 1
      BY <2>1, <2>2, <2>3
    <3> QED BY <2>2, <3>1
  <2>4. CASE ~(1 <= n - 1)
    <3>1. Len(u) = 0
      BY <2>1, <2>2, <2>4
    <3> QED BY <1>1, <2>2, <2>4, <3>1
  <2> QED BY <2>3, <2>4
<1>5. ASSUME NEW k \in 1 .. Len(s) - 1 PROVE u[k] = s[k]
  <2>1. k \in 1 .. (Len(s) - 1) - 1 + 1 /\ 1 + k - 1 = k
    BY <1>1
  <2> QED BY <1>3, <2>1 DEF u
<1> QED BY <1>3, <1>4, <1>5 DEF u

-----------------------------------------------------------------------------
(* The HTTP parser: header lines reach JavaScript whole. *)

\* The arrays have room for a line when they have been flushed; the bounds are numbers.
HttpConstants == MaxFields \in Nat \ {0, 1} /\ {MaxHeaders, MaxMessages, MaxCuts} \subseteq Nat

\* A string that can still be read, and says what it was made of.
Readable(p) == p \in StringPtr /\ (p.at = "gone" => p.text = <<>>)

\* A readable string gives its text, and can go on; saved, it outlives its buffer.
LEMMA StringFacts ==
  ASSUME NEW p, Readable(p), NEW piece \in Text
  PROVE  /\ ReadText(p) = p.text /\ p.text \in Text
         /\ Readable(Update(p, piece)) /\ Update(p, piece).text = p.text \o piece
         /\ Readable(Released(Save(p))) /\ Released(Save(p)).text = p.text
<1>1. p \in [at : {"null", "buffer", "heap", "gone"}, text : Text]
  BY DEF Readable, StringPtr
<1>2. ReadText(p) = p.text /\ p.text \in Text
  BY <1>1 DEF Readable, ReadText
<1>3. Readable(Update(p, piece)) /\ Update(p, piece).text = p.text \o piece
  <2>1. p.text \o piece \in Text
    BY <1>2 DEF Text
  <2>2. PICK at \in {"buffer", "heap"} : at = IF p.at = "null" THEN "buffer" ELSE "heap"
    OBVIOUS
  <2>3. Update(p, piece) = [at |-> at, text |-> p.text \o piece]
    BY <1>2, <2>2 DEF Update
  <2> QED BY <2>1, <2>3 DEF Readable, StringPtr
<1>4. Readable(Released(Save(p))) /\ Released(Save(p)).text = p.text
  BY <1>1 DEF Readable, StringPtr, Released, Save
<1> QED BY <1>2, <1>3, <1>4

\* The null string, and what becomes of any string.
LEMMA StringRest ==
  /\ Readable(NullString) /\ NullString.text = <<>>
  /\ \A p \in StringPtr : Released(p) \in StringPtr
<1>1. <<>> \in Text
  BY DEF Text
<1>2. Readable(NullString) /\ NullString.text = <<>>
  BY <1>1 DEF NullString, Readable, StringPtr
<1>3. \A p \in StringPtr : Released(p) \in StringPtr
  BY DEF StringPtr, Released
<1> QED BY <1>2, <1>3

\* The parser object.
ParserRecord ==
  [url : StringPtr, fields : [1 .. MaxFields -> StringPtr],
   values : [1 .. MaxFields -> StringPtr], numFields : 0 .. MaxFields - 1,
   numValues : 0 .. MaxFields - 1, haveFlushed : BOOLEAN]

\* What it counts can be read.
ParserGood(q) ==
  /\ q \in ParserRecord /\ q.numValues \in {q.numFields, q.numFields - 1}
  /\ Readable(q.url)
  /\ \A k \in 1 .. q.numFields : Readable(q.fields[k])
  /\ \A k \in 1 .. q.numValues : Readable(q.values[k])

\* The header lines it has, the last perhaps without its value.
Line(q, k) == <<q.fields[k].text, IF k <= q.numValues THEN q.values[k].text ELSE <<>>>>
Lines(q) == [k \in 1 .. q.numFields |-> Line(q, k)]

LEMMA LinesAre ==
  ASSUME NEW q, ParserGood(q)
  PROVE  /\ Lines(q) \in Seq(Text \X Text) /\ Len(Lines(q)) = q.numFields
         /\ \A k \in 1 .. q.numFields : Lines(q)[k] = Line(q, k)
<1>1. q.numFields \in Nat
  BY DEF ParserGood, ParserRecord
<1>2. \A k \in 1 .. q.numFields : Line(q, k) \in Text \X Text
  <2>1. TAKE k \in 1 .. q.numFields
  <2>2. q.fields[k].text \in Text
    BY DEF ParserGood, Readable, StringPtr
  <2>3. CASE k <= q.numValues
    <3>1. k \in 1 .. q.numValues
      BY <2>3, <1>1 DEF ParserGood, ParserRecord
    <3>2. q.values[k].text \in Text
      BY <3>1 DEF ParserGood, Readable, StringPtr
    <3> QED BY <2>2, <2>3, <3>2 DEF Line
  <2>4. CASE ~(k <= q.numValues)
    <3>1. <<>> \in Text
      BY DEF Text
    <3> QED BY <2>2, <2>4, <3>1 DEF Line
  <2> QED BY <2>3, <2>4
<1> QED BY <1>1, <1>2 DEF Lines

\* Of a parser all whose lines have values JavaScript is given the lines.
LEMMA HeadersMade ==
  ASSUME NEW q, ParserGood(q), q.numValues = q.numFields
  PROVE  CreateHeaders(q) = Lines(q) /\ ReadText(q.url) = q.url.text
<1>0. <<>> \in Text
  BY DEF Text
<1>1. \A k \in 1 .. q.numFields :
        ReadText(q.fields[k]) = q.fields[k].text /\ ReadText(q.values[k]) = q.values[k].text
  BY <1>0, StringFacts DEF ParserGood
<1>2. ReadText(q.url) = q.url.text
  BY <1>0, StringFacts DEF ParserGood
<1>3. \A k \in 1 .. q.numValues : k <= q.numValues
  BY DEF ParserGood, ParserRecord
<1> QED BY <1>1, <1>2, <1>3 DEF CreateHeaders, Lines, Line

\* The buffer is given back: all that is counted is as it was.
LEMMA SaveKeeps ==
  ASSUME HttpConstants, NEW q, ParserGood(q), NEW r, r = BufferGone(SaveAll(q))
  PROVE  /\ ParserGood(r) /\ Lines(r) = Lines(q) /\ r.url.text = q.url.text
         /\ r.numFields = q.numFields /\ r.numValues = q.numValues
         /\ r.haveFlushed = q.haveFlushed
<1>0. <<>> \in Text
  BY DEF Text
<1>1. /\ q \in ParserRecord /\ q.numFields \in 0 .. MaxFields - 1 /\ MaxFields \in Nat
      /\ q.numValues \in 0 .. MaxFields - 1 /\ q.numValues \in {q.numFields, q.numFields - 1}
      /\ q.fields \in [1 .. MaxFields -> StringPtr]
      /\ q.values \in [1 .. MaxFields -> StringPtr]
  BY DEF ParserGood, ParserRecord, HttpConstants
<1>2. PICK s : s = SaveAll(q)
  OBVIOUS
<1>3. /\ s.url = Save(q.url) /\ s.numFields = q.numFields /\ s.numValues = q.numValues
      /\ s.haveFlushed = q.haveFlushed
      /\ s.fields = [d \in 1 .. MaxFields |->
                       IF d <= q.numFields THEN Save(q.fields[d]) ELSE q.fields[d]]
      /\ s.values = [d \in 1 .. MaxFields |->
                       IF d <= q.numValues THEN Save(q.values[d]) ELSE q.values[d]]
      /\ DOMAIN s = DOMAIN q
  BY <1>1, <1>2 DEF SaveAll, ParserRecord
<1>4. /\ r.url = Released(s.url) /\ r.numFields = q.numFields /\ r.numValues = q.numValues
      /\ r.haveFlushed = q.haveFlushed
      /\ r.fields = [d \in 1 .. MaxFields |-> Released(s.fields[d])]
      /\ r.values = [d \in 1 .. MaxFields |-> Released(s.values[d])]
      /\ r = [url |-> r.url, fields |-> r.fields, values |-> r.values,
              numFields |-> r.numFields, numValues |-> r.numValues, haveFlushed |-> r.haveFlushed]
  BY <1>1, <1>2, <1>3 DEF SaveAll, BufferGone, ParserRecord
<1>5. \A d \in 1 .. q.numFields : /\ Readable(r.fields[d]) /\ r.fields[d].text = q.fields[d].text
                                  /\ r.fields[d] \in StringPtr
  <2>1. TAKE d \in 1 .. q.numFields
  <2>2. r.fields[d] = Released(Save(q.fields[d]))
    BY <1>1, <1>3, <1>4
  <2> QED BY <1>0, <2>2, StringFacts DEF ParserGood, Readable
<1>6. \A d \in 1 .. q.numValues : /\ Readable(r.values[d]) /\ r.values[d].text = q.values[d].text
                                  /\ r.values[d] \in StringPtr
  <2>1. TAKE d \in 1 .. q.numValues
  <2>2. r.values[d] = Released(Save(q.values[d]))
    BY <1>1, <1>3, <1>4
  <2> QED BY <1>0, <2>2, StringFacts DEF ParserGood, Readable
<1>7. /\ Readable(r.url) /\ r.url.text = q.url.text /\ r.url \in StringPtr
  BY <1>0, <1>3, <1>4, StringFacts DEF ParserGood, Readable
<1>8. r.fields \in [1 .. MaxFields -> StringPtr] /\ r.values \in [1 .. MaxFields -> StringPtr]
  <2>1. \A d \in 1 .. MaxFields : r.fields[d] \in StringPtr
    <3>1. TAKE d \in 1 .. MaxFields
    <3>2. CASE d <= q.numFields
      BY <1>1, <1>5, <3>2
    <3>3. CASE ~(d <= q.numFields)
      <4>1. r.fields[d] = Released(q.fields[d]) /\ q.fields[d] \in StringPtr
        BY <1>1, <1>3, <1>4, <3>3 DEF ParserRecord
      <4> QED BY <4>1, StringRest
    <3> QED BY <3>2, <3>3
  <2>2. \A d \in 1 .. MaxFields : r.values[d] \in StringPtr
    <3>1. TAKE d \in 1 .. MaxFields
    <3>2. CASE d <= q.numValues
      BY <1>1, <1>6, <3>2
    <3>3. CASE ~(d <= q.numValues)
      <4>1. r.values[d] = Released(q.values[d]) /\ q.values[d] \in StringPtr
        BY <1>1, <1>3, <1>4, <3>3 DEF ParserRecord
      <4> QED BY <4>1, StringRest
    <3> QED BY <3>2, <3>3
  <2> QED BY <1>4, <2>1, <2>2
<1>9. ParserGood(r)
  <2>1. r \in ParserRecord
    BY <1>1, <1>4, <1>7, <1>8 DEF ParserRecord
  <2> QED BY <1>4, <1>5, <1>6, <1>7, <2>1 DEF ParserGood
<1>10. Lines(r) = Lines(q)
  <2>1. \A k \in 1 .. q.numFields : Line(r, k) = Line(q, k)
    <3>1. TAKE k \in 1 .. q.numFields
    <3>2. CASE k <= q.numValues
      <4>1. k \in 1 .. q.numValues
        BY <1>1, <3>2
      <4>2. r.fields[k].text = q.fields[k].text /\ r.values[k].text = q.values[k].text
        BY <1>5, <1>6, <4>1
      <4> QED BY <1>4, <4>2 DEF Line
    <3>3. CASE ~(k <= q.numValues)
      BY <1>4, <1>5, <3>3 DEF Line
    <3> QED BY <3>2, <3>3
  <2> QED BY <1>4, <2>1 DEF Lines
<1> QED BY <1>4, <1>7, <1>9, <1>10

\* The parser r is q with one string set: the field k, or the value k.
SetsField(q, r, k, p) == r = [q EXCEPT !.numFields = k, !.fields[k] = p]
SetsValue(q, r, k, p) == r = [q EXCEPT !.numValues = k, !.values[k] = p]

\* What is set is a string of the last line, or begins one.
FieldStep(q, r, k, p) ==
  /\ ParserGood(q) /\ Readable(p) /\ k \in 1 .. MaxFields - 1 /\ SetsField(q, r, k, p)
  /\ k \in {q.numFields, q.numFields + 1} /\ q.numValues = k - 1
ValueStep(q, r, k, p) ==
  /\ ParserGood(q) /\ Readable(p) /\ k \in 1 .. MaxFields - 1 /\ SetsValue(q, r, k, p)
  /\ k \in {q.numValues, q.numValues + 1} /\ q.numFields = k

\* The last line is the line k; the lines before it are as they were.
LineStep(q, r, k) ==
  /\ ParserGood(r) /\ r.numFields = k /\ r.url = q.url /\ r.haveFlushed = q.haveFlushed
  /\ \A d \in 1 .. k - 1 : Line(r, d) = Line(q, d)

\* A field is set.
LEMMA FieldSet ==
  ASSUME HttpConstants, NEW q, NEW r, NEW k, NEW p, FieldStep(q, r, k, p)
  PROVE  LineStep(q, r, k) /\ r.numValues = q.numValues /\ Line(r, k) = <<p.text, <<>>>>
<1>0. /\ ParserGood(q) /\ Readable(p) /\ k \in 1 .. MaxFields - 1 /\ SetsField(q, r, k, p)
      /\ k \in {q.numFields, q.numFields + 1} /\ q.numValues = k - 1
  BY DEF FieldStep
<1>1. /\ q \in ParserRecord /\ q.numFields \in 0 .. MaxFields - 1 /\ MaxFields \in Nat
      /\ q.numValues \in 0 .. MaxFields - 1 /\ q.numValues \in {q.numFields, q.numFields - 1}
      /\ q.fields \in [1 .. MaxFields -> StringPtr]
      /\ q.values \in [1 .. MaxFields -> StringPtr] /\ p \in StringPtr
      /\ k \in 1 .. MaxFields /\ k \in Nat
  BY <1>0 DEF ParserGood, ParserRecord, Readable, StringPtr, HttpConstants
<1>2. PICK f : f = [q.fields EXCEPT ![k] = p]
  OBVIOUS
<1>3. /\ f \in [1 .. MaxFields -> StringPtr] /\ f[k] = p
      /\ \A d \in 1 .. MaxFields : d # k => f[d] = q.fields[d]
  BY <1>1, <1>2
<1>4. r = [q EXCEPT !.numFields = k, !.fields = f]
  BY <1>0, <1>1, <1>2 DEF ParserRecord, SetsField
<1>5. /\ r \in ParserRecord /\ r.fields = f /\ r.numFields = k /\ r.values = q.values
      /\ r.numValues = q.numValues /\ r.url = q.url /\ r.haveFlushed = q.haveFlushed
  <2>1. k \in 0 .. MaxFields - 1
    BY <1>0, <1>1
  <2> QED BY <1>1, <1>3, <1>4, <2>1 DEF ParserRecord
<1>6. ParserGood(r)
  <2>1. \A d \in 1 .. k : d \in 1 .. MaxFields
    BY <1>1
  <2>2. /\ \A d \in 1 .. q.numFields : Readable(q.fields[d])
        /\ \A d \in 1 .. q.numValues : Readable(q.values[d])
        /\ Readable(q.url)
    BY <1>0 DEF ParserGood
  <2>3. \A d \in 1 .. k : Readable(f[d])
    <3>1. TAKE d \in 1 .. k
    <3>2. CASE d = k
      BY <1>0, <1>3, <3>2
    <3>3. CASE d # k
      <4>1. d \in 1 .. q.numFields /\ d \in 1 .. MaxFields
        BY <1>0, <1>1, <2>1, <3>3
      <4> QED BY <1>3, <2>2, <3>3, <4>1
    <3> QED BY <3>2, <3>3
  <2>4. r.numValues \in {r.numFields, r.numFields - 1}
    BY <1>0, <1>5
  <2> QED BY <1>5, <2>2, <2>3, <2>4 DEF ParserGood
<1>7. Line(r, k) = <<p.text, <<>>>>
  BY <1>0, <1>1, <1>3, <1>5 DEF Line
<1>8. \A d \in 1 .. k - 1 : Line(r, d) = Line(q, d)
  BY <1>0, <1>1, <1>3, <1>5 DEF Line
<1> QED BY <1>0, <1>5, <1>6, <1>7, <1>8 DEF LineStep

\* A value is set.
LEMMA ValueSet ==
  ASSUME HttpConstants, NEW q, NEW r, NEW k, NEW p, ValueStep(q, r, k, p)
  PROVE  /\ LineStep(q, r, k) /\ r.numValues = k
         /\ Line(r, k) = <<q.fields[k].text, p.text>>
<1>0. /\ ParserGood(q) /\ Readable(p) /\ k \in 1 .. MaxFields - 1 /\ SetsValue(q, r, k, p)
      /\ k \in {q.numValues, q.numValues + 1} /\ q.numFields = k
  BY DEF ValueStep
<1>1. /\ q \in ParserRecord /\ q.numFields \in 0 .. MaxFields - 1 /\ MaxFields \in Nat
      /\ q.numValues \in 0 .. MaxFields - 1 /\ q.numValues \in {q.numFields, q.numFields - 1}
      /\ q.fields \in [1 .. MaxFields -> StringPtr]
      /\ q.values \in [1 .. MaxFields -> StringPtr] /\ p \in StringPtr
      /\ k \in 1 .. MaxFields /\ k \in Nat
  BY <1>0 DEF ParserGood, ParserRecord, Readable, StringPtr, HttpConstants
<1>2. PICK f : f = [q.values EXCEPT ![k] = p]
  OBVIOUS
<1>3. /\ f \in [1 .. MaxFields -> StringPtr] /\ f[k] = p
      /\ \A d \in 1 .. MaxFields : d # k => f[d] = q.values[d]
  BY <1>1, <1>2
<1>4. r = [q EXCEPT !.numValues = k, !.values = f]
  BY <1>0, <1>1, <1>2 DEF ParserRecord, SetsValue
<1>5. /\ r \in ParserRecord /\ r.values = f /\ r.numValues = k /\ r.fields = q.fields
      /\ r.numFields = q.numFields /\ r.url = q.url /\ r.haveFlushed = q.haveFlushed
  <2>1. k \in 0 .. MaxFields - 1
    BY <1>0, <1>1
  <2> QED BY <1>1, <1>3, <1>4, <2>1 DEF ParserRecord
<1>6. ParserGood(r)
  <2>1. \A d \in 1 .. k : d \in 1 .. MaxFields
    BY <1>1
  <2>2. /\ \A d \in 1 .. q.numFields : Readable(q.fields[d])
        /\ \A d \in 1 .. q.numValues : Readable(q.values[d])
        /\ Readable(q.url)
    BY <1>0 DEF ParserGood
  <2>3. \A d \in 1 .. r.numFields : Readable(r.fields[d])
    BY <1>0, <1>1, <1>3, <1>5, <2>1, <2>2
  <2>4. \A d \in 1 .. r.numValues : Readable(r.values[d])
    BY <1>0, <1>1, <1>3, <1>5, <2>1, <2>2
  <2>5. r.numValues \in {r.numFields, r.numFields - 1}
    BY <1>0, <1>5
  <2> QED BY <1>5, <2>2, <2>3, <2>4, <2>5 DEF ParserGood
<1>7. Line(r, k) = <<q.fields[k].text, p.text>>
  BY <1>0, <1>1, <1>3, <1>5 DEF Line
<1>8. \A d \in 1 .. k - 1 : Line(r, d) = Line(q, d)
  BY <1>0, <1>1, <1>3, <1>5 DEF Line
<1> QED BY <1>0, <1>5, <1>6, <1>7, <1>8 DEF LineStep

\* What follows B is followed by one more, or has another end.
LEMMA Behind ==
  ASSUME NEW D, NEW Q \in Seq(D), NEW L \in Seq(D), NEW x \in D
  PROVE  /\ Q \o Append(L, x) = Append(Q \o L, x) /\ Q \o L \in Seq(D)
         /\ Len(L) > 0 => /\ Len(Q \o L) \in Nat \ {0} /\ (Q \o L)[Len(Q \o L)] = L[Len(L)]
                          /\ [Q \o L EXCEPT ![Len(Q \o L)] = x] = Q \o [L EXCEPT ![Len(L)] = x]
<1>1. Q \o Append(L, x) = Append(Q \o L, x) /\ Q \o L \in Seq(D)
  OBVIOUS
<1>2. ASSUME Len(L) > 0
      PROVE  /\ Len(Q \o L) \in Nat \ {0} /\ (Q \o L)[Len(Q \o L)] = L[Len(L)]
             /\ [Q \o L EXCEPT ![Len(Q \o L)] = x] = Q \o [L EXCEPT ![Len(L)] = x]
  <2>1. PICK H, n : H = Q \o L /\ n = Len(Q) + Len(L)
    OBVIOUS
  <2>2. /\ Len(Q) \in Nat /\ Len(L) \in Nat \ {0} /\ H \in Seq(D) /\ Len(H) = n /\ n \in Nat \ {0}
        /\ \A d \in 1 .. n : H[d] = IF d <= Len(Q) THEN Q[d] ELSE L[d - Len(Q)]
    BY <1>2, <2>1
  <2> n = Len(Q) + Len(L) /\ x \in D /\ Q \in Seq(D)
    BY <2>1
  <2>3. PICK E : E = [L EXCEPT ![Len(L)] = x]
    OBVIOUS
  <2>4. E \in Seq(D) /\ Len(E) = Len(L) /\ E[Len(L)] = x /\ \A d \in 1 .. Len(L) - 1 : E[d] = L[d]
    BY <1>2, <2>3
  <2>5. PICK Y : Y = [H EXCEPT ![n] = x]
    OBVIOUS
  <2>6. Y \in Seq(D) /\ Len(Y) = n /\ Y[n] = x /\ \A d \in 1 .. n - 1 : Y[d] = H[d]
    BY <2>2, <2>5
  <2>7. PICK U : U = Q \o E
    OBVIOUS
  <2>8. /\ U \in Seq(D) /\ Len(U) = n
        /\ \A d \in 1 .. n : U[d] = IF d <= Len(Q) THEN Q[d] ELSE E[d - Len(Q)]
    <3>1. E \in Seq(D) /\ Len(Q) + Len(E) = n
      BY <2>2, <2>4
    <3>2. /\ U \in Seq(D) /\ Len(U) = Len(Q) + Len(E)
          /\ \A d \in 1 .. Len(Q) + Len(E) : U[d] = IF d <= Len(Q) THEN Q[d] ELSE E[d - Len(Q)]
      BY <2>7, <3>1
    <3> QED BY <3>1, <3>2
  <2>9. \A d \in 1 .. n : Y[d] = U[d]
    <3>1. TAKE d \in 1 .. n
    <3>2. CASE d = n
      BY <2>2, <2>4, <2>6, <2>8, <3>2
    <3>3. CASE d # n /\ d <= Len(Q)
      <4>1. d \in 1 .. n - 1
        BY <2>2, <3>3
      <4>2. Y[d] = H[d]
        BY <2>6, <4>1
      <4>3. H[d] = Q[d]
        BY <2>2, <3>3
      <4>4. U[d] = Q[d]
        BY <2>8, <3>3
      <4> QED BY <4>2, <4>3, <4>4
    <3>4. CASE d # n /\ ~(d <= Len(Q))
      <4>1. d - Len(Q) \in 1 .. Len(L) - 1 /\ d \in 1 .. n - 1
        BY <2>1, <2>2, <3>4
      <4> QED BY <2>2, <2>4, <2>6, <2>8, <3>4, <4>1
    <3> QED BY <3>2, <3>3, <3>4
  <2>10. Y = U
    BY <2>6, <2>8, <2>9, SeqEqual
  <2>11. H[n] = L[Len(L)]
    BY <2>1, <2>2
  <2> QED BY <2>1, <2>2, <2>3, <2>5, <2>7, <2>10, <2>11
<1> QED BY <1>1, <1>2

\* A line is begun.
NewLine(q, r, k, p) == FieldStep(q, r, k, p) /\ k = q.numFields + 1
LineAdded(q, r, k, p) ==
  /\ ParserGood(r) /\ r.numFields = k /\ r.numValues = q.numValues
  /\ r.haveFlushed = q.haveFlushed
  /\ Lines(r) = Append(Lines(q), <<p.text, <<>>>>) /\ <<p.text, <<>>>> \in Text \X Text

LEMMA LineBegun ==
  ASSUME HttpConstants, NEW q, NEW r, NEW k, NEW p, NewLine(q, r, k, p)
  PROVE  LineAdded(q, r, k, p)
<1>0. /\ ParserGood(q) /\ Readable(p) /\ k \in 1 .. MaxFields - 1 /\ SetsField(q, r, k, p)
      /\ k \in {q.numFields, q.numFields + 1} /\ q.numValues = k - 1
      /\ FieldStep(q, r, k, p) /\ k = q.numFields + 1
  BY DEF FieldStep, NewLine
<1>1. q.numFields \in Nat /\ MaxFields \in Nat
  BY <1>0 DEF ParserGood, ParserRecord, HttpConstants
<1>2. k = q.numFields + 1 /\ k - 1 = q.numFields
  BY <1>0, <1>1
<1>5. /\ ParserGood(r) /\ r.numFields = k /\ r.numValues = q.numValues
      /\ r.url = q.url /\ r.haveFlushed = q.haveFlushed
      /\ Line(r, k) = <<p.text, <<>>>>
      /\ \A d \in 1 .. k - 1 : Line(r, d) = Line(q, d)
  <2>2. LineStep(q, r, k) /\ r.numValues = q.numValues /\ Line(r, k) = <<p.text, <<>>>>
    BY <1>0, FieldSet
  <2> QED BY <2>2 DEF LineStep
<1>6. /\ Lines(q) \in Seq(Text \X Text) /\ Len(Lines(q)) = q.numFields
      /\ \A d \in 1 .. q.numFields : Lines(q)[d] = Line(q, d)
  BY <1>0, LinesAre
<1>7. /\ Lines(r) \in Seq(Text \X Text) /\ Len(Lines(r)) = k
      /\ \A d \in 1 .. k : Lines(r)[d] = Line(r, d)
  <2>1. /\ Lines(r) \in Seq(Text \X Text) /\ Len(Lines(r)) = r.numFields
        /\ \A d \in 1 .. r.numFields : Lines(r)[d] = Line(r, d)
    <3>1. ParserGood(r)
      BY <1>5
    <3> QED BY <3>1, LinesAre
  <2> QED BY <1>5, <2>1
<1>8. <<p.text, <<>>>> \in Text \X Text
  <2>1. p.text \in Text
    BY <1>0 DEF Readable, StringPtr
  <2>2. <<>> \in Text
    BY DEF Text
  <2> QED BY <2>1, <2>2
<1>9. Lines(r) = Append(Lines(q), <<p.text, <<>>>>)
  <2>1. PICK E, L, x : E = Lines(r) /\ L = Lines(q) /\ x = <<p.text, <<>>>>
    OBVIOUS
  <2>2. /\ L \in Seq(Text \X Text) /\ E \in Seq(Text \X Text) /\ x \in Text \X Text
        /\ Len(E) = Len(L) + 1 /\ E[Len(L) + 1] = x
        /\ \A d \in 1 .. Len(L) : E[d] = L[d]
    <3>1. /\ L \in Seq(Text \X Text) /\ Len(L) = k - 1
          /\ \A d \in 1 .. k - 1 : L[d] = Line(q, d)
      BY <1>2, <1>6, <2>1
    <3>2. /\ E \in Seq(Text \X Text) /\ Len(E) = k /\ k \in Nat \ {0}
          /\ \A d \in 1 .. k : E[d] = Line(r, d)
      BY <1>1, <1>2, <1>7, <2>1
    <3>3. E[k] = x /\ x \in Text \X Text
      BY <1>5, <1>8, <2>1, <3>2
    <3>4. \A d \in 1 .. k - 1 : E[d] = L[d]
      BY <1>5, <3>1, <3>2
    <3> QED BY <3>1, <3>2, <3>3, <3>4
  <2>3. E = Append(L, x)
    BY <2>2
  <2> QED BY <2>1, <2>3
<1> QED BY <1>5, <1>8, <1>9 DEF LineStep, LineAdded

\* The last line of two parsers differs, and nothing else.
LEMMA LastLine ==
  ASSUME NEW q, NEW r, ParserGood(q), ParserGood(r), NEW k \in Nat \ {0},
         q.numFields = k, r.numFields = k, \A d \in 1 .. k - 1 : Line(r, d) = Line(q, d)
  PROVE  /\ Len(Lines(q)) = k /\ Lines(q)[k] = Line(q, k)
         /\ Lines(r) = [Lines(q) EXCEPT ![k] = Line(r, k)] /\ Line(r, k) \in Text \X Text
<1>1. /\ Lines(q) \in Seq(Text \X Text) /\ Len(Lines(q)) = k
      /\ \A d \in 1 .. k : Lines(q)[d] = Line(q, d)
  BY LinesAre
<1>2. /\ Lines(r) \in Seq(Text \X Text) /\ Len(Lines(r)) = k
      /\ \A d \in 1 .. k : Lines(r)[d] = Line(r, d)
  BY LinesAre
<1>3. PICK E, L, x : E = Lines(r) /\ L = Lines(q) /\ x = Line(r, k)
  OBVIOUS
<1>4. /\ L \in Seq(Text \X Text) /\ E \in Seq(Text \X Text)
      /\ Len(E) = k /\ Len(L) = k /\ E[k] = x /\ \A d \in 1 .. k - 1 : E[d] = L[d]
  BY <1>1, <1>2, <1>3
<1>5. E = [L EXCEPT ![k] = x] /\ x \in Text \X Text
  <2>1. PICK Y : Y = [L EXCEPT ![k] = x]
    OBVIOUS
  <2>2. x \in Text \X Text
    BY <1>4
  <2>3. /\ Y \in Seq(Text \X Text) /\ Len(Y) = k /\ Y[k] = x
        /\ \A d \in 1 .. k - 1 : Y[d] = L[d]
    BY <1>4, <2>1, <2>2
  <2>4. \A d \in 1 .. k : Y[d] = E[d]
    BY <1>4, <2>3
  <2> QED BY <1>4, <2>1, <2>2, <2>3, <2>4, SeqEqual
<1> QED BY <1>1, <1>3, <1>5

\* A string is made empty, then set.
LEMMA SetTwice ==
  ASSUME NEW q \in ParserRecord, NEW k \in 1 .. MaxFields, NEW z, NEW p, NEW s, NEW r
  PROVE  /\ SetsField(q, s, k, z) /\ r = [s EXCEPT !.fields[k] = p] => SetsField(q, r, k, p)
         /\ SetsValue(q, s, k, z) /\ r = [s EXCEPT !.values[k] = p] => SetsValue(q, r, k, p)
<1>1. ASSUME SetsField(q, s, k, z), r = [s EXCEPT !.fields[k] = p]
      PROVE  SetsField(q, r, k, p)
  <2>1. PICK f, h : f = [q.fields EXCEPT ![k] = z] /\ h = [q.fields EXCEPT ![k] = p]
    OBVIOUS
  <2>2. q.fields \in [1 .. MaxFields -> StringPtr]
    BY DEF ParserRecord
  <2>3. [f EXCEPT ![k] = p] = h
    BY <2>1, <2>2
  <2>4. s = [q EXCEPT !.numFields = k, !.fields = f]
    BY <1>1, <2>1 DEF SetsField
  <2>5. s.fields = f
    BY <2>4 DEF ParserRecord
  <2>6. r = [s EXCEPT !.fields = h]
    BY <1>1, <2>3, <2>5
  <2>7. r = [q EXCEPT !.numFields = k, !.fields = h]
    BY <2>4, <2>6 DEF ParserRecord
  <2> QED BY <2>1, <2>7 DEF SetsField
<1>2. ASSUME SetsValue(q, s, k, z), r = [s EXCEPT !.values[k] = p]
      PROVE  SetsValue(q, r, k, p)
  <2>1. PICK f, h : f = [q.values EXCEPT ![k] = z] /\ h = [q.values EXCEPT ![k] = p]
    OBVIOUS
  <2>2. q.values \in [1 .. MaxFields -> StringPtr]
    BY DEF ParserRecord
  <2>3. [f EXCEPT ![k] = p] = h
    BY <2>1, <2>2
  <2>4. s = [q EXCEPT !.numValues = k, !.values = f]
    BY <1>2, <2>1 DEF SetsValue
  <2>5. s.values = f
    BY <2>4 DEF ParserRecord
  <2>6. r = [s EXCEPT !.values = h]
    BY <1>2, <2>3, <2>5
  <2>7. r = [q EXCEPT !.numValues = k, !.values = h]
    BY <2>4, <2>6 DEF ParserRecord
  <2> QED BY <2>1, <2>7 DEF SetsValue
<1> QED BY <1>1, <1>2

\* The header lines h are those of B and of the parser q, whose last line changes.
LastChanges(h, Q, q, r, k) ==
  /\ Q \in Seq(Text \X Text) /\ ParserGood(q) /\ h = Q \o Lines(q)
  /\ k \in Nat \ {0} /\ q.numFields = k /\ LineStep(q, r, k)
LastChanged(h, Q, q, r, k) ==
  /\ Len(h) \in Nat \ {0} /\ h \in Seq(Text \X Text) /\ h[Len(h)] = Line(q, k)
  /\ Line(r, k) \in Text \X Text
  /\ [h EXCEPT ![Len(h)] = Line(r, k)] = Q \o Lines(r)

LEMMA LastTold ==
  ASSUME NEW h, NEW Q, NEW q, NEW r, NEW k, LastChanges(h, Q, q, r, k)
  PROVE  LastChanged(h, Q, q, r, k)
<1>1. /\ Q \in Seq(Text \X Text) /\ ParserGood(q) /\ ParserGood(r) /\ h = Q \o Lines(q)
      /\ k \in Nat \ {0} /\ q.numFields = k /\ r.numFields = k
      /\ \A d \in 1 .. k - 1 : Line(r, d) = Line(q, d)
  BY DEF LastChanges, LineStep
<1>2. PICK D : D = Text \X Text
  OBVIOUS
<1>3. PICK L, E, x : L = Lines(q) /\ E = Lines(r) /\ x = Line(r, k)
  OBVIOUS
<1>4. Len(L) = k /\ L[k] = Line(q, k) /\ E = [L EXCEPT ![k] = x] /\ x \in Text \X Text
  BY <1>1, <1>3, LastLine
<1>5. L \in Seq(Text \X Text)
  BY <1>1, <1>3, LinesAre
<1>6. Q \in Seq(D) /\ L \in Seq(D) /\ x \in D /\ Len(L) > 0
  BY <1>1, <1>2, <1>4, <1>5
<1>7. /\ Len(Q \o L) \in Nat \ {0} /\ (Q \o L)[Len(Q \o L)] = L[Len(L)]
      /\ [Q \o L EXCEPT ![Len(Q \o L)] = x] = Q \o [L EXCEPT ![Len(L)] = x]
      /\ Q \o L \in Seq(D)
  BY <1>6, Behind
<1> QED BY <1>1, <1>2, <1>3, <1>4, <1>6, <1>7 DEF LastChanged

\* One of a pair is set.
LEMMA PairSet ==
  ASSUME NEW a, NEW b, NEW c
  PROVE  [<<a, b>> EXCEPT ![1] = c] = <<c, b>> /\ [<<a, b>> EXCEPT ![2] = c] = <<a, c>>
OBVIOUS

\* A field goes on.
FieldMore(q, r, piece) ==
  /\ ParserGood(q) /\ q.numValues + 1 = q.numFields /\ piece \in Text
  /\ r = [q EXCEPT !.fields[q.numFields] = Update(@, piece)]
FieldHasMore(q, r, piece) ==
  /\ LineStep(q, r, q.numFields) /\ r.numValues = q.numValues
  /\ q.numFields \in Nat \ {0} /\ q.fields[q.numFields].text \in Text
  /\ Line(q, q.numFields) = <<q.fields[q.numFields].text, <<>>>>
  /\ Line(r, q.numFields) = <<q.fields[q.numFields].text \o piece, <<>>>>

LEMMA FieldGoesOn ==
  ASSUME HttpConstants, NEW q, NEW r, NEW piece, FieldMore(q, r, piece)
  PROVE  FieldHasMore(q, r, piece)
<1>0. /\ ParserGood(q) /\ q.numValues + 1 = q.numFields /\ piece \in Text
      /\ r = [q EXCEPT !.fields[q.numFields] = Update(@, piece)]
  BY DEF FieldMore
<1>1. /\ q.numFields \in 1 .. MaxFields - 1 /\ q.numValues \in Nat /\ MaxFields \in Nat
      /\ q \in ParserRecord /\ q.fields \in [1 .. MaxFields -> StringPtr]
  BY <1>0 DEF ParserGood, ParserRecord, HttpConstants
<1>2. PICK k, p : k = q.numFields /\ p = Update(q.fields[k], piece)
  OBVIOUS
<1>3. Readable(q.fields[k])
  BY <1>0, <1>1, <1>2 DEF ParserGood
<1>4. Readable(p) /\ p.text = q.fields[k].text \o piece /\ q.fields[k].text \in Text
  BY <1>0, <1>2, <1>3, StringFacts
<1>5. SetsField(q, r, k, p)
  <2>1. r = [q EXCEPT !.fields[k] = p]
    BY <1>0, <1>2
  <2> QED BY <1>1, <1>2, <2>1 DEF ParserRecord, SetsField
<1>6. k \in 1 .. MaxFields - 1 /\ k \in {q.numFields, q.numFields + 1} /\ q.numValues = k - 1
  BY <1>0, <1>1, <1>2
<1>7. LineStep(q, r, k) /\ r.numValues = q.numValues /\ Line(r, k) = <<p.text, <<>>>>
  <2>1. FieldStep(q, r, k, p)
    BY <1>0, <1>4, <1>5, <1>6 DEF FieldStep
  <2> QED BY <2>1, FieldSet
<1>8. Line(q, k) = <<q.fields[k].text, <<>>>>
  BY <1>1, <1>6 DEF Line
<1> QED BY <1>1, <1>2, <1>4, <1>7, <1>8 DEF FieldHasMore

\* A value begins, or goes on.
ValueMore(q, r, piece) ==
  /\ ParserGood(q) /\ q.numFields > 0 /\ piece \in Text
  /\ \/ /\ q.numValues = q.numFields
        /\ r = [q EXCEPT !.values[q.numValues] = Update(@, piece)]
     \/ /\ q.numValues # q.numFields
        /\ \E s : /\ s = [q EXCEPT !.numValues = @ + 1, !.values[q.numValues + 1] = NullString]
                  /\ r = [s EXCEPT !.values[s.numValues] = Update(@, piece)]
ValueText(q) == IF q.numValues = q.numFields THEN q.values[q.numFields].text ELSE <<>>
ValueHasMore(q, r, piece) ==
  /\ LineStep(q, r, q.numFields) /\ r.numValues = q.numFields
  /\ q.numFields \in Nat \ {0} /\ ValueText(q) \in Text
  /\ Line(q, q.numFields) = <<q.fields[q.numFields].text, ValueText(q)>>
  /\ Line(r, q.numFields) = <<q.fields[q.numFields].text, ValueText(q) \o piece>>

LEMMA ValueGoesOn ==
  ASSUME HttpConstants, NEW q, NEW r, NEW piece, ValueMore(q, r, piece)
  PROVE  ValueHasMore(q, r, piece)
<1>0. ParserGood(q) /\ q.numFields > 0 /\ piece \in Text
  BY DEF ValueMore
<1>1. /\ q.numFields \in 1 .. MaxFields - 1 /\ q.numValues \in Nat /\ MaxFields \in Nat
      /\ q \in ParserRecord /\ q.values \in [1 .. MaxFields -> StringPtr]
      /\ q.numValues \in {q.numFields, q.numFields - 1}
  BY <1>0 DEF ParserGood, ParserRecord, HttpConstants
<1>2. PICK k, v : k = q.numFields /\ v = ValueText(q)
  OBVIOUS
<1>3. k \in 1 .. MaxFields - 1 /\ k \in {q.numValues, q.numValues + 1} /\ q.numFields = k
  BY <1>1, <1>2
<1>4. ASSUME NEW p, Readable(p), p.text = v \o piece, SetsValue(q, r, k, p), v \in Text
      PROVE  ValueHasMore(q, r, piece)
  <2>1. ValueStep(q, r, k, p)
    BY <1>0, <1>3, <1>4 DEF ValueStep
  <2>2. LineStep(q, r, k) /\ r.numValues = k /\ Line(r, k) = <<q.fields[k].text, p.text>>
    BY <2>1, ValueSet
  <2>3. Line(q, k) = <<q.fields[k].text, v>>
    BY <1>1, <1>2 DEF Line, ValueText
  <2> QED BY <1>1, <1>2, <1>4, <2>2, <2>3 DEF ValueHasMore
<1>5. CASE q.numValues = q.numFields
  <2>1. PICK p : p = Update(q.values[k], piece)
    OBVIOUS
  <2>2. Readable(q.values[k])
    BY <1>0, <1>1, <1>2, <1>5 DEF ParserGood
  <2>3. Readable(p) /\ p.text = q.values[k].text \o piece /\ q.values[k].text \in Text
    BY <1>0, <2>1, <2>2, StringFacts
  <2>4. r = [q EXCEPT !.values[k] = p]
    BY <1>2, <1>5, <2>1 DEF ValueMore
  <2>5. SetsValue(q, r, k, p)
    BY <1>1, <1>2, <1>5, <2>4 DEF ParserRecord, SetsValue
  <2>6. v = q.values[k].text
    BY <1>2, <1>5 DEF ValueText
  <2> QED BY <1>4, <2>3, <2>5, <2>6
<1>6. CASE q.numValues # q.numFields
  <2>1. PICK s : /\ s = [q EXCEPT !.numValues = @ + 1, !.values[q.numValues + 1] = NullString]
                 /\ r = [s EXCEPT !.values[s.numValues] = Update(@, piece)]
    BY <1>6 DEF ValueMore
  <2>2. PICK z : z = NullString
    OBVIOUS
  <2>3. Readable(z) /\ z.text = <<>>
    BY <2>2, StringRest
  <2>4. k = q.numValues + 1 /\ k \in 1 .. MaxFields
    BY <1>1, <1>2, <1>6
  <2>5. SetsValue(q, s, k, z)
    BY <2>1, <2>2, <2>4 DEF SetsValue
  <2>6. s.numValues = k /\ s.values[k] = z
    BY <1>1, <2>4, <2>5 DEF SetsValue, ParserRecord
  <2>7. PICK p : p = Update(z, piece)
    OBVIOUS
  <2>8. Readable(p) /\ p.text = z.text \o piece
    BY <1>0, <2>3, <2>7, StringFacts
  <2>9. r = [s EXCEPT !.values[k] = p]
    BY <2>1, <2>6, <2>7
  <2>10. SetsValue(q, r, k, p)
    BY <1>1, <2>4, <2>5, <2>9, SetTwice
  <2>11. v = <<>> /\ v \in Text
    BY <1>2, <1>6 DEF ValueText, Text
  <2> QED BY <1>4, <2>3, <2>8, <2>10, <2>11
<1> QED BY <1>5, <1>6

-----------------------------------------------------------------------------

\* Where in a message http_parser is, and what JavaScript keeps.
Stages == {"idle", "url", "line", "field", "colon", "value", "cut", "body", "error"}
GrammarRecord ==
  [stage : Stages, message : Nat, lines : Nat, piece : Nat, trailing : BOOLEAN, split : BOOLEAN]
Lists == Seq(Text \X Text)
JsRecord == [headers : Lists, url : Text, incoming : Message]

\* The counts are those of the stage.
Counts(g, q) ==
  /\ g.stage \in {"line", "value", "cut"} => q.numFields = q.numValues
  /\ g.stage \in {"field", "colon"} => q.numFields = q.numValues + 1
  /\ g.stage \in {"value", "cut"} => q.numFields > 0
  /\ g.stage \in {"url", "body"} => q.numFields = 0 /\ q.numValues = 0

\* What JavaScript has of the lines of the message.
KeptLines(j, g) == IF g.trailing THEN j.incoming.headers \o j.headers ELSE j.headers

\* Among the lines: it and the parser have them all, each once and in order.
Among(j, g, m, q) ==
  g.stage \in {"line", "field", "colon", "value", "cut"} =>
    /\ m.headers = KeptLines(j, g) \o Lines(q)
    /\ ~g.trailing /\ ~q.haveFlushed => j.headers = <<>>

\* Before and after them.
Outside(j, g, m) ==
  /\ g.stage \in {"url", "body"} => ~g.trailing
  /\ g.stage = "url" => j.headers = <<>> /\ m.headers = <<>>
  /\ g.stage \in {"idle", "body"} => j.headers = <<>> /\ j.incoming.headers = m.headers

HttpTyped(j, g, m) == j \in JsRecord /\ g \in GrammarRecord /\ m \in Message

\* All of it, of a parser that a connection has, or that is free.
HttpRight(q, j, g, m, has) ==
  /\ ParserGood(q) /\ HttpTyped(j, g, m) /\ Counts(g, q)
  /\ ~has => j.headers = <<>>
  /\ has => Among(j, g, m, q) /\ Outside(j, g, m)

HttpInv ==
  /\ HttpRight(parser, js, grammar, httpSent, taken)
  /\ running => taken

\* Parser::Init makes a good one.
LEMMA ParserInitGood ==
  ASSUME HttpConstants
  PROVE  /\ ParserGood(ParserInit) /\ ParserInit.numFields = 0 /\ ParserInit.numValues = 0
         /\ ~ParserInit.haveFlushed
<1>1. Readable(NullString) /\ NullString \in StringPtr
  BY StringRest DEF Readable
<1>2. MaxFields - 1 \in Nat
  BY DEF HttpConstants
<1>3. ParserInit \in ParserRecord /\ ParserInit.url = NullString
      /\ ParserInit.numFields = 0 /\ ParserInit.numValues = 0 /\ ~ParserInit.haveFlushed
  BY <1>1, <1>2 DEF ParserInit, ParserRecord
<1> QED BY <1>1, <1>3 DEF ParserGood

\* Of a parser without lines.
LEMMA NoLines ==
  ASSUME NEW q, q.numFields = 0
  PROVE  Lines(q) = <<>>
BY DEF Lines

\* The parser r is q with another url, or with none of its lines, or marked as flushed.
LEMMA OtherUrl ==
  ASSUME NEW q, ParserGood(q), NEW p, Readable(p), NEW r, r = [q EXCEPT !.url = p]
  PROVE  /\ ParserGood(r) /\ Lines(r) = Lines(q) /\ r.numFields = q.numFields
         /\ r.numValues = q.numValues /\ r.haveFlushed = q.haveFlushed
<1>1. q \in ParserRecord /\ p \in StringPtr
  BY DEF ParserGood, Readable
<1>2. /\ r \in ParserRecord /\ r.url = p /\ r.fields = q.fields /\ r.values = q.values
      /\ r.numFields = q.numFields /\ r.numValues = q.numValues /\ r.haveFlushed = q.haveFlushed
  BY <1>1 DEF ParserRecord
<1>3. ParserGood(r)
  BY <1>2 DEF ParserGood
<1>4. Lines(r) = Lines(q)
  BY <1>2 DEF Lines, Line
<1> QED BY <1>2, <1>3, <1>4

\* Its lines are gone.
LEMMA Emptied ==
  ASSUME HttpConstants, NEW q, ParserGood(q), NEW r,
         r = [q EXCEPT !.numFields = 0, !.numValues = 0]
  PROVE  /\ ParserGood(r) /\ r.numFields = 0 /\ r.numValues = 0
         /\ r.haveFlushed = q.haveFlushed
<1>1. q \in ParserRecord /\ 0 \in 0 .. MaxFields - 1
  BY DEF ParserGood, HttpConstants
<1>2. /\ r \in ParserRecord /\ r.url = q.url /\ r.haveFlushed = q.haveFlushed
      /\ r.numFields = 0 /\ r.numValues = 0
  BY <1>1 DEF ParserRecord
<1> QED BY <1>2 DEF ParserGood

\* A flush: what it has to say is said.
LEMMA FlushedGood ==
  ASSUME NEW q, ParserGood(q), NEW r, r = Flushed(q)
  PROVE  /\ ParserGood(r) /\ r.numFields = q.numFields /\ r.numValues = q.numValues
         /\ r.haveFlushed
<1>1. Readable(NullString)
  BY StringRest
<1>2. PICK s : s = [q EXCEPT !.url = NullString]
  OBVIOUS
<1>3. /\ ParserGood(s) /\ s.numFields = q.numFields /\ s.numValues = q.numValues
  BY <1>1, <1>2, OtherUrl
<1>4. r = [s EXCEPT !.haveFlushed = TRUE]
  BY <1>2 DEF Flushed, ParserGood, ParserRecord
<1>5. s \in ParserRecord
  BY <1>3 DEF ParserGood
<1>6. /\ r \in ParserRecord /\ r.url = s.url /\ r.fields = s.fields /\ r.values = s.values
      /\ r.numFields = s.numFields /\ r.numValues = s.numValues /\ r.haveFlushed
  BY <1>4, <1>5 DEF ParserRecord
<1> QED BY <1>3, <1>6 DEF ParserGood

\* JavaScript is given the lines, and the url.
LEMMA HeadersGiven ==
  ASSUME NEW q, ParserGood(q), q.numValues = q.numFields, NEW j \in JsRecord, NEW k,
         k = OnHeaders(j, q)
  PROVE  k \in JsRecord /\ k.headers = j.headers \o Lines(q) /\ k.incoming = j.incoming
<1>1. CreateHeaders(q) = Lines(q) /\ ReadText(q.url) = q.url.text
  BY HeadersMade
<1>2. Lines(q) \in Lists /\ q.url.text \in Text
  BY LinesAre DEF Lists, ParserGood, Readable, StringPtr
<1>3. PICK h, u : h = j.headers \o Lines(q) /\ u = j.url \o q.url.text
  OBVIOUS
<1>4. h \in Lists /\ u \in Text
  BY <1>2, <1>3 DEF JsRecord, Lists, Text
<1>5. k = [j EXCEPT !.headers = h, !.url = u]
  BY <1>1, <1>3 DEF OnHeaders
<1>6. k \in JsRecord /\ k.headers = h /\ k.incoming = j.incoming
  BY <1>4, <1>5 DEF JsRecord
<1> QED BY <1>3, <1>6

\* At the start.
LEMMA HttpStart ==
  ASSUME HttpConstants, HttpInit
  PROVE  HttpInv
<1>1. parser = ParserInit /\ ParserGood(parser) /\ parser.numFields = 0 /\ parser.numValues = 0
  BY ParserInitGood DEF HttpInit
<1>2. <<>> \in Text /\ <<>> \in Lists /\ NoMessage \in Message /\ NoMessage.headers = <<>>
  BY DEF Text, Lists, NoMessage, Message
<1>3. js \in JsRecord /\ js.headers = <<>> /\ js.incoming.headers = httpSent.headers
  BY <1>2 DEF HttpInit, JsRecord
<1>4. grammar \in GrammarRecord /\ grammar.stage = "idle" /\ httpSent \in Message
  BY <1>2 DEF HttpInit, GrammarRecord, Stages
<1>5. HttpTyped(js, grammar, httpSent) /\ Counts(grammar, parser)
  BY <1>1, <1>3, <1>4 DEF HttpTyped, Counts
<1>6. ~running /\ ~taken
  BY DEF HttpInit
<1> QED BY <1>1, <1>3, <1>5, <1>6 DEF HttpInv, HttpRight

\* A connection takes the parser.
LEMMA AllocStep ==
  ASSUME HttpConstants, HttpInv, AllocParser
  PROVE  HttpInv'
<1>1. HttpTyped(js, grammar, httpSent) /\ js.headers = <<>>
  BY DEF HttpInv, HttpRight, AllocParser
<1>2. parser' = ParserInit /\ ParserGood(parser')
  BY ParserInitGood DEF AllocParser
<1>3. NoMessage \in Message /\ NoMessage.headers = <<>>
  BY DEF Text, NoMessage, Message
<1>4. js' \in JsRecord /\ js'.headers = <<>> /\ js'.incoming.headers = httpSent'.headers
      /\ httpSent' \in Message
  BY <1>1, <1>3 DEF AllocParser, HttpTyped, JsRecord
<1>5. grammar' \in GrammarRecord /\ grammar'.stage = "idle"
  BY <1>1 DEF AllocParser, HttpTyped, GrammarRecord, Stages
<1>6. HttpTyped(js', grammar', httpSent') /\ Counts(grammar', parser')
      /\ Among(js', grammar', httpSent', parser') /\ Outside(js', grammar', httpSent')
  BY <1>4, <1>5 DEF HttpTyped, Counts, Among, Outside
<1>7. taken'
  BY DEF AllocParser
<1> QED BY <1>2, <1>6, <1>7 DEF HttpInv, HttpRight

\* The connection closes.
LEMMA FreeStep ==
  ASSUME HttpInv, FreeParser
  PROVE  HttpInv'
<1>1. /\ ParserGood(parser) /\ HttpTyped(js, grammar, httpSent) /\ Counts(grammar, parser)
      /\ parser' = parser /\ grammar' = grammar /\ httpSent' = httpSent /\ ~taken' /\ ~running'
  BY DEF HttpInv, HttpRight, FreeParser
<1>2. <<>> \in Lists /\ NoMessage \in Message
  BY DEF Text, Lists, NoMessage, Message
<1>3. js' \in JsRecord /\ js'.headers = <<>>
  BY <1>1, <1>2 DEF FreeParser, HttpTyped, JsRecord
<1>4. HttpTyped(js', grammar', httpSent')
  BY <1>1, <1>3 DEF HttpTyped
<1> QED BY <1>1, <1>3, <1>4 DEF HttpInv, HttpRight

\* Only the split of the grammar and the strings of the parser change: nothing is told.
LEMMA SameTold ==
  ASSUME HttpInv, NEW q, ParserGood(q), q.numFields = parser.numFields,
         q.numValues = parser.numValues, q.haveFlushed = parser.haveFlushed,
         Lines(q) = Lines(parser), NEW g \in GrammarRecord, g.stage = grammar.stage,
         g.trailing = grammar.trailing
  PROVE  HttpRight(q, js, g, httpSent, taken)
<1>1. HttpTyped(js, g, httpSent) /\ Counts(g, q)
  BY DEF HttpInv, HttpRight, HttpTyped, Counts
<1>2. taken => Among(js, g, httpSent, q) /\ Outside(js, g, httpSent)
  BY DEF HttpInv, HttpRight, Among, Outside, KeptLines
<1> QED BY <1>1, <1>2 DEF HttpInv, HttpRight

\* An execute begins.
LEMMA BeginStep ==
  ASSUME HttpInv, ExecuteBegin
  PROVE  HttpInv'
<1>1. ParserGood(parser) /\ grammar \in GrammarRecord
  BY DEF HttpInv, HttpRight, HttpTyped
<1>2. grammar' \in GrammarRecord /\ grammar'.stage = grammar.stage
      /\ grammar'.trailing = grammar.trailing
  BY <1>1 DEF ExecuteBegin, GrammarRecord
<1>3. HttpRight(parser, js, grammar', httpSent, taken)
  BY <1>1, <1>2, SameTold
<1> QED BY <1>3 DEF ExecuteBegin, HttpInv

\* And ends: the strings outlive the buffer.
LEMMA EndStep ==
  ASSUME HttpConstants, HttpInv, ExecuteEnd
  PROVE  HttpInv'
<1>1. ParserGood(parser) /\ grammar \in GrammarRecord
  BY DEF HttpInv, HttpRight, HttpTyped
<1>2. PICK q : q = BufferGone(SaveAll(parser))
  OBVIOUS
<1>3. /\ ParserGood(q) /\ Lines(q) = Lines(parser)
      /\ q.numFields = parser.numFields /\ q.numValues = parser.numValues
      /\ q.haveFlushed = parser.haveFlushed
  BY <1>1, <1>2, SaveKeeps
<1>4. HttpRight(q, js, grammar, httpSent, taken)
  BY <1>1, <1>3, SameTold
<1> QED BY <1>2, <1>4 DEF ExecuteEnd, HttpInv

\* A message begins.
LEMMA MessageStep ==
  ASSUME HttpConstants, HttpInv, OnMessageBegin
  PROVE  HttpInv'
<1>1. /\ ParserGood(parser) /\ HttpTyped(js, grammar, httpSent) /\ taken
      /\ Outside(js, grammar, httpSent) /\ grammar.stage = "idle"
  BY DEF HttpInv, HttpRight, OnMessageBegin, Called
<1>2. PICK s : s = [parser EXCEPT !.url = NullString]
  OBVIOUS
<1>3. ParserGood(s)
  BY <1>1, <1>2, StringRest, OtherUrl
<1>4. parser' = [s EXCEPT !.numFields = 0, !.numValues = 0]
  BY <1>1, <1>2 DEF OnMessageBegin, ParserGood, ParserRecord
<1>5. ParserGood(parser') /\ parser'.numFields = 0 /\ parser'.numValues = 0
  BY <1>3, <1>4, Emptied
<1>6. NoMessage \in Message /\ NoMessage.headers = <<>>
  BY DEF Text, NoMessage, Message
<1>7. grammar' \in GrammarRecord /\ grammar'.stage = "url" /\ ~grammar'.trailing
  <2>1. PICK n : n = grammar.message + 1
    OBVIOUS
  <2>2. n \in Nat /\ 0 \in Nat
    BY <1>1, <2>1 DEF HttpTyped, GrammarRecord
  <2>3. grammar' = [stage |-> "url", message |-> n, lines |-> 0,
                    piece |-> 0, trailing |-> FALSE, split |-> FALSE]
    BY <2>1 DEF OnMessageBegin
  <2> QED BY <2>2, <2>3 DEF GrammarRecord, Stages
<1>8. js' = js /\ js.headers = <<>> /\ httpSent' = NoMessage /\ taken'
  BY <1>1 DEF OnMessageBegin, Outside
<1>9. HttpTyped(js', grammar', httpSent') /\ Counts(grammar', parser')
      /\ Among(js', grammar', httpSent', parser') /\ Outside(js', grammar', httpSent')
  BY <1>1, <1>5, <1>6, <1>7, <1>8 DEF HttpTyped, Counts, Among, Outside
<1> QED BY <1>5, <1>8, <1>9 DEF HttpInv, HttpRight

\* A piece of a token makes a text.
LEMMA PieceText ==
  ASSUME NEW g \in GrammarRecord, NEW token \in {"url", "field", "value"}
  PROVE  /\ <<Piece(g, token)>> \in Text
         /\ \A t \in Text : Append(t, Piece(g, token)) = t \o <<Piece(g, token)>>
<1> DEFINE PieceSet == Nat \X {"garbage", "url", "field", "value"} \X Nat \X Nat
<1>1. PICK m, l, c : m = g.message /\ l = g.lines /\ c = g.piece
  OBVIOUS
<1>2. m \in Nat /\ l \in Nat /\ c \in Nat
  BY <1>1 DEF GrammarRecord
<1>3. Piece(g, token) = <<m, token, l, c>>
  BY <1>1 DEF Piece
<1>4. <<m, token, l, c>> \in PieceSet
  BY <1>2
<1>5. PICK x \in PieceSet : x = Piece(g, token)
  BY <1>3, <1>4
<1> HIDE DEF PieceSet
<1>6. <<x>> \in Seq(PieceSet) /\ \A t \in Seq(PieceSet) : Append(t, x) = t \o <<x>>
  OBVIOUS
<1> QED BY <1>5, <1>6 DEF Text, PieceSet

\* A piece of the url.
LEMMA UrlStep ==
  ASSUME HttpConstants, HttpInv, OnUrl
  PROVE  HttpInv'
<1>1. /\ ParserGood(parser) /\ HttpTyped(js, grammar, httpSent) /\ taken
      /\ Outside(js, grammar, httpSent) /\ Counts(grammar, parser) /\ grammar.stage = "url"
      /\ Readable(parser.url)
  BY DEF HttpInv, HttpRight, OnUrl, Called, ParserGood
<1>2. PICK x : x = Piece(grammar, "url")
  OBVIOUS
<1>3. <<x>> \in Text /\ \A t \in Text : Append(t, x) = t \o <<x>>
  BY <1>1, <1>2, PieceText DEF HttpTyped
<1>4. PICK p : p = Update(parser.url, <<x>>)
  OBVIOUS
<1>5. Readable(p)
  BY <1>1, <1>3, <1>4, StringFacts
<1>6. parser' = [parser EXCEPT !.url = p]
  BY <1>2, <1>4 DEF OnUrl
<1>7. /\ ParserGood(parser') /\ Lines(parser') = Lines(parser)
      /\ parser'.numFields = parser.numFields /\ parser'.numValues = parser.numValues
  BY <1>1, <1>5, <1>6, OtherUrl
<1>8. parser'.numFields = 0 /\ parser'.numValues = 0 /\ Lines(parser') = <<>>
  BY <1>1, <1>7, NoLines DEF Counts
<1>9. PICK u : u = Append(httpSent.url, x)
  OBVIOUS
<1>10. u \in Text /\ httpSent \in Message
  BY <1>1, <1>3, <1>9 DEF HttpTyped, Message, Text
<1>11. httpSent' = [httpSent EXCEPT !.url = u]
  BY <1>2, <1>9 DEF OnUrl
<1>12. httpSent' \in Message /\ httpSent'.headers = httpSent.headers
  BY <1>10, <1>11 DEF Message
<1>13. PICK more \in BOOLEAN :
        grammar' = [grammar EXCEPT !.stage = IF more THEN "url" ELSE "line",
                                   !.piece = IF more THEN 1 ELSE 0, !.split = more]
  BY DEF OnUrl
<1>14. /\ grammar' \in GrammarRecord /\ grammar'.stage \in {"url", "line"}
       /\ grammar'.trailing = grammar.trailing
  <2>1. PICK a \in {"url", "line"}, c \in Nat :
          grammar' = [grammar EXCEPT !.stage = a, !.piece = c, !.split = more]
    BY <1>13
  <2>2. grammar \in GrammarRecord /\ a \in Stages
    BY <1>1 DEF HttpTyped, Stages
  <2> QED BY <2>1, <2>2 DEF GrammarRecord
<1>15. /\ js' = js /\ js.headers = <<>> /\ httpSent'.headers = <<>> /\ taken'
       /\ ~grammar'.trailing
  BY <1>1, <1>12, <1>14 DEF OnUrl, Outside
<1>16. <<>> \o <<>> = <<>>
  OBVIOUS
<1>17. HttpTyped(js', grammar', httpSent') /\ Counts(grammar', parser')
       /\ Among(js', grammar', httpSent', parser') /\ Outside(js', grammar', httpSent')
  <2>1. HttpTyped(js', grammar', httpSent')
    BY <1>1, <1>12, <1>14, <1>15 DEF HttpTyped
  <2>2. Counts(grammar', parser')
    BY <1>8, <1>14 DEF Counts
  <2>3. Among(js', grammar', httpSent', parser')
    BY <1>8, <1>14, <1>15, <1>16 DEF Among, KeptLines
  <2>4. Outside(js', grammar', httpSent')
    BY <1>14, <1>15 DEF Outside
  <2> QED BY <2>1, <2>2, <2>3, <2>4
<1> QED BY <1>7, <1>15, <1>17 DEF HttpInv, HttpRight

\* A listener throws at a piece of the body.
LEMMA BodyStep ==
  ASSUME HttpInv, OnBody
  PROVE  HttpInv'
<1>1. /\ ParserGood(parser) /\ HttpTyped(js, grammar, httpSent) /\ taken
      /\ Outside(js, grammar, httpSent) /\ Counts(grammar, parser) /\ grammar.stage = "body"
  BY DEF HttpInv, HttpRight, OnBody, Called
<1>2. /\ grammar' \in GrammarRecord /\ grammar'.stage = "error"
      /\ parser' = parser /\ js' = js /\ httpSent' = httpSent /\ taken' = taken
  <2>1. /\ grammar \in GrammarRecord /\ "error" \in Stages
        /\ grammar' = [grammar EXCEPT !.stage = "error", !.split = TRUE]
    BY <1>1 DEF OnBody, HttpTyped, Stages
  <2>2. grammar' \in GrammarRecord /\ grammar'.stage = "error"
    BY <2>1 DEF GrammarRecord
  <2> QED BY <2>2 DEF OnBody
<1>3. HttpTyped(js', grammar', httpSent') /\ Counts(grammar', parser')
  BY <1>1, <1>2 DEF HttpTyped, Counts
<1>4. Among(js', grammar', httpSent', parser') /\ Outside(js', grammar', httpSent')
  BY <1>2 DEF Among, Outside
<1> QED BY <1>1, <1>2, <1>3, <1>4 DEF HttpInv, HttpRight

\* The last chunk.
LEMMA TrailersStep ==
  ASSUME HttpInv, OnTrailers
  PROVE  HttpInv'
<1>1. /\ ParserGood(parser) /\ HttpTyped(js, grammar, httpSent) /\ taken
      /\ Outside(js, grammar, httpSent) /\ Counts(grammar, parser) /\ grammar.stage = "body"
  BY DEF HttpInv, HttpRight, OnTrailers, Called
<1>2. /\ grammar' \in GrammarRecord /\ grammar'.stage = "line" /\ grammar'.trailing
      /\ parser' = parser /\ js' = js /\ httpSent' = httpSent /\ taken' = taken
  BY <1>1 DEF OnTrailers, HttpTyped, GrammarRecord, Stages
<1>3. parser.numFields = 0 /\ parser.numValues = 0 /\ Lines(parser) = <<>>
  BY <1>1, NoLines DEF Counts
<1>4. js.headers = <<>> /\ js.incoming.headers = httpSent.headers
  BY <1>1 DEF Outside
<1>5. httpSent.headers \o <<>> = httpSent.headers
  BY <1>1 DEF HttpTyped, Message
<1>6. HttpTyped(js', grammar', httpSent') /\ Counts(grammar', parser')
  BY <1>1, <1>2, <1>3 DEF HttpTyped, Counts
<1>7. Among(js', grammar', httpSent', parser')
  BY <1>2, <1>3, <1>4, <1>5 DEF Among, KeptLines
<1>8. Outside(js', grammar', httpSent')
  BY <1>2 DEF Outside
<1> QED BY <1>1, <1>2, <1>6, <1>7, <1>8 DEF HttpInv, HttpRight

\* OnHeaderField begins a line in a parser with room for it.
BeginsField(q, r, x) ==
  /\ ParserGood(q) /\ q.numValues = q.numFields /\ q.numFields + 1 < MaxFields
  /\ <<x>> \in Text
  /\ r = [WithField(q) EXCEPT !.fields[WithField(q).numFields] = Update(@, <<x>>)]
FieldIsBegun(q, r, x) ==
  /\ ParserGood(r) /\ r.numFields = q.numFields + 1 /\ r.numValues = q.numValues
  /\ r.haveFlushed = q.haveFlushed
  /\ Lines(r) = Append(Lines(q), <<<<x>>, <<>>>>) /\ <<<<x>>, <<>>>> \in Text \X Text

LEMMA FieldBegun ==
  ASSUME HttpConstants, NEW q, NEW r, NEW x, BeginsField(q, r, x)
  PROVE  FieldIsBegun(q, r, x)
<1>a. PICK s : s = WithField(q)
  OBVIOUS
<1>0. /\ ParserGood(q) /\ q.numValues = q.numFields /\ q.numFields + 1 < MaxFields
      /\ <<x>> \in Text
      /\ r = [s EXCEPT !.fields[s.numFields] = Update(@, <<x>>)]
  BY <1>a DEF BeginsField
<1>1. /\ q \in ParserRecord /\ q.numFields \in Nat /\ MaxFields \in Nat
      /\ q.fields \in [1 .. MaxFields -> StringPtr]
  BY <1>0 DEF ParserGood, ParserRecord, HttpConstants
<1>2. PICK k : k = q.numFields + 1
  OBVIOUS
<1>3. k \in 1 .. MaxFields
  BY <1>0, <1>1, <1>2
<1>4. PICK z : z = NullString
  OBVIOUS
<1>5. Readable(z) /\ z.text = <<>>
  BY <1>4, StringRest
<1>6. SetsField(q, s, k, z)
  BY <1>a, <1>2, <1>4 DEF SetsField, WithField
<1>7. s.numFields = k /\ s.fields[k] = z
  BY <1>1, <1>3, <1>6 DEF SetsField, ParserRecord
<1>8. PICK p : p = Update(z, <<x>>)
  OBVIOUS
<1>9. Readable(p) /\ p.text = <<>> \o <<x>>
  BY <1>0, <1>5, <1>8, StringFacts
<1>10. p.text = <<x>>
  BY <1>9 DEF Text
<1>11. r = [s EXCEPT !.fields[k] = p]
  BY <1>0, <1>7, <1>8
<1>12. SetsField(q, r, k, p)
  BY <1>1, <1>3, <1>6, <1>11, SetTwice
<1>13. NewLine(q, r, k, p)
  BY <1>0, <1>1, <1>2, <1>9, <1>12 DEF FieldStep, NewLine
<1>14. /\ ParserGood(r) /\ r.numFields = k /\ r.numValues = q.numValues
       /\ r.haveFlushed = q.haveFlushed
       /\ Lines(r) = Append(Lines(q), <<p.text, <<>>>>) /\ <<p.text, <<>>>> \in Text \X Text
  <2>1. LineAdded(q, r, k, p)
    BY <1>13, LineBegun
  <2> QED BY <2>1 DEF LineAdded
<1> QED BY <1>2, <1>10, <1>14 DEF FieldIsBegun

\* What OnHeaderField does to the grammar.
LEMMA FieldGrammar ==
  ASSUME HttpInv, OnHeaderField
  PROVE  /\ taken /\ taken' /\ running' = running
         /\ grammar' \in GrammarRecord /\ grammar'.stage \in {"field", "colon"}
         /\ grammar'.trailing = grammar.trailing
         /\ LET g == IF NewField THEN [grammar EXCEPT !.lines = @ + 1, !.piece = 0] ELSE grammar
            IN  g \in GrammarRecord
<1>1. PICK g : g = IF NewField THEN [grammar EXCEPT !.lines = @ + 1, !.piece = 0] ELSE grammar
  OBVIOUS
<1>2. grammar \in GrammarRecord /\ taken
  BY DEF HttpInv, HttpRight, HttpTyped, OnHeaderField, Called
<1>3. g \in GrammarRecord /\ g.trailing = grammar.trailing
  <2>1. CASE NewField
    <3>1. PICK n : n = grammar.lines + 1
      OBVIOUS
    <3>2. n \in Nat
      BY <1>2, <3>1 DEF GrammarRecord
    <3>3. g = [grammar EXCEPT !.lines = n, !.piece = 0]
      BY <1>1, <2>1, <3>1
    <3> QED BY <1>2, <3>2, <3>3 DEF GrammarRecord
  <2>2. CASE ~NewField
    BY <1>1, <1>2, <2>2
  <2> QED BY <2>1, <2>2
<1>4. PICK more \in BOOLEAN :
        grammar' = [g EXCEPT !.stage = IF more THEN "field" ELSE "colon",
                             !.piece = IF more THEN 1 ELSE 0, !.split = more]
  BY <1>1 DEF OnHeaderField
<1>5. PICK a \in {"field", "colon"}, c \in Nat :
        grammar' = [g EXCEPT !.stage = a, !.piece = c, !.split = more]
  BY <1>4
<1>6. a \in Stages
  BY DEF Stages
<1>7. grammar' \in GrammarRecord /\ grammar'.stage = a /\ grammar'.trailing = g.trailing
  BY <1>3, <1>5, <1>6 DEF GrammarRecord
<1>8. taken' /\ running' = running
  BY <1>2 DEF OnHeaderField
<1> QED BY <1>1, <1>2, <1>3, <1>7, <1>8

\* Among the lines all is right.
LEMMA AmongRight ==
  ASSUME NEW q, NEW j, NEW g, NEW m, ParserGood(q), HttpTyped(j, g, m), Counts(g, q),
         g.stage \in {"line", "field", "colon", "value", "cut"},
         m.headers = KeptLines(j, g) \o Lines(q),
         ~g.trailing /\ ~q.haveFlushed => j.headers = <<>>
  PROVE  HttpRight(q, j, g, m, TRUE)
BY DEF HttpRight, Among, Outside

\* A header field: a new one, and the array has room for it.
LEMMA NewFieldStep ==
  ASSUME HttpConstants, HttpInv, OnHeaderField, NewField, ~Filled
  PROVE  HttpInv'
<1>1. /\ ParserGood(parser) /\ HttpTyped(js, grammar, httpSent) /\ Counts(grammar, parser)
      /\ Among(js, grammar, httpSent, parser) /\ taken /\ taken' /\ running' = running
      /\ grammar' \in GrammarRecord /\ grammar'.stage \in {"field", "colon"}
      /\ grammar'.trailing = grammar.trailing
  BY FieldGrammar DEF HttpInv, HttpRight
<1>2. PICK g : g = [grammar EXCEPT !.lines = @ + 1, !.piece = 0]
  OBVIOUS
<1>3. g \in GrammarRecord
  BY <1>2, FieldGrammar
<1>4. PICK x : x = Piece(g, "field")
  OBVIOUS
<1>5. <<x>> \in Text
  BY <1>3, <1>4, PieceText
<1>6. /\ parser.numValues = parser.numFields /\ grammar.stage \in {"line", "value"}
      /\ parser' = [WithField(parser) EXCEPT
                      !.fields[WithField(parser).numFields] = Update(@, <<x>>)]
      /\ httpSent' = [httpSent EXCEPT !.headers = Append(@, <<<<x>>, <<>>>>)]
      /\ js' = js
  BY <1>2, <1>4 DEF OnHeaderField, NewField, Filled, Begun
<1>7. parser.numFields + 1 < MaxFields
  <2>1. parser.numFields \in 0 .. MaxFields - 1 /\ MaxFields \in Nat
    BY <1>1 DEF ParserGood, ParserRecord, HttpConstants
  <2>2. parser.numFields + 1 # MaxFields
    BY DEF Filled
  <2> QED BY <2>1, <2>2
<1>8. BeginsField(parser, parser', x)
  BY <1>1, <1>5, <1>6, <1>7 DEF BeginsField
<1>9. FieldIsBegun(parser, parser', x)
  BY <1>8, FieldBegun
<1>10. PICK Q, L, y : Q = KeptLines(js, grammar) /\ L = Lines(parser) /\ y = <<<<x>>, <<>>>>
  OBVIOUS
<1>11. Q \in Lists /\ L \in Lists /\ y \in Text \X Text
  <2>1. js.headers \in Lists /\ js.incoming.headers \in Lists
    BY <1>1 DEF HttpTyped, JsRecord, Message, Lists
  <2>2. Q \in Lists
    BY <1>10, <2>1 DEF KeptLines, Lists
  <2> QED BY <1>1, <1>9, <1>10, <2>2, LinesAre DEF Lists, FieldIsBegun
<1>12. httpSent.headers = Q \o L /\ Q \o L \in Lists /\ Append(Q \o L, y) = Q \o Append(L, y)
       /\ Append(Q \o L, y) \in Lists
  <2>1. httpSent.headers = Q \o L
    BY <1>1, <1>6, <1>10 DEF Among
  <2>2. Q \o L \in Lists /\ Append(Q \o L, y) = Q \o Append(L, y)
    <3>1. PICK D : D = Text \X Text
      OBVIOUS
    <3>2. Q \in Seq(D) /\ L \in Seq(D) /\ y \in D
      BY <1>11, <3>1 DEF Lists
    <3>3. Q \o L \in Seq(D) /\ Append(Q \o L, y) = Q \o Append(L, y)
      BY <3>2
    <3> QED BY <3>1, <3>3 DEF Lists
  <2>3. Append(Q \o L, y) \in Lists
    BY <1>11, <2>2 DEF Lists
  <2> QED BY <2>1, <2>2, <2>3
<1>13. httpSent' \in Message /\ httpSent'.headers = Q \o Append(L, y)
  <2>1. PICK h : h = Append(Q \o L, y)
    OBVIOUS
  <2>2. httpSent' = [httpSent EXCEPT !.headers = h] /\ h \in Seq(Text \X Text)
    BY <1>6, <1>10, <1>12, <2>1 DEF Lists
  <2>3. httpSent \in Message
    BY <1>1 DEF HttpTyped
  <2>4. httpSent' \in Message /\ httpSent'.headers = h
    BY <2>2, <2>3 DEF Message
  <2> QED BY <1>12, <2>1, <2>4
<1>14. httpSent'.headers = KeptLines(js', grammar') \o Lines(parser')
  BY <1>1, <1>6, <1>9, <1>10, <1>13 DEF FieldIsBegun, KeptLines
<1>15. HttpTyped(js', grammar', httpSent') /\ Counts(grammar', parser')
  BY <1>1, <1>6, <1>9, <1>13 DEF HttpTyped, Counts, FieldIsBegun
<1>16. ~grammar'.trailing /\ ~parser'.haveFlushed => js'.headers = <<>>
  BY <1>1, <1>6, <1>9 DEF FieldIsBegun, Among
<1>17. ParserGood(parser')
  BY <1>9 DEF FieldIsBegun
<1>18. HttpRight(parser', js', grammar', httpSent', TRUE)
  BY <1>1, <1>14, <1>15, <1>16, <1>17, AmongRight
<1> QED BY <1>1, <1>18 DEF HttpInv, HttpRight

\* A header field: a new one, and what is in the array is flushed before.
LEMMA FlushFieldStep ==
  ASSUME HttpConstants, HttpInv, OnHeaderField, Filled
  PROVE  HttpInv'
<1>1. /\ ParserGood(parser) /\ HttpTyped(js, grammar, httpSent) /\ Counts(grammar, parser)
      /\ Among(js, grammar, httpSent, parser) /\ taken /\ taken' /\ running' = running
      /\ grammar' \in GrammarRecord /\ grammar'.stage \in {"field", "colon"}
      /\ grammar'.trailing = grammar.trailing
  BY FieldGrammar DEF HttpInv, HttpRight
<1>2. PICK g : g = [grammar EXCEPT !.lines = @ + 1, !.piece = 0]
  OBVIOUS
<1>3. NewField
  BY DEF Filled
<1>4. g \in GrammarRecord
  BY <1>2, <1>3, FieldGrammar
<1>5. PICK x : x = Piece(g, "field")
  OBVIOUS
<1>6. <<x>> \in Text
  BY <1>4, <1>5, PieceText
<1>7. PICK f, e : f = Flushed(parser) /\ e = [f EXCEPT !.numFields = 0, !.numValues = 0]
  OBVIOUS
<1>8. ParserGood(f) /\ f.haveFlushed
  BY <1>1, <1>7, FlushedGood
<1>9. ParserGood(e) /\ e.numFields = 0 /\ e.numValues = 0 /\ e.haveFlushed = f.haveFlushed
  BY <1>7, <1>8, Emptied
<1>10. /\ parser.numValues = parser.numFields /\ grammar.stage \in {"line", "value"}
       /\ parser' = [WithField(e) EXCEPT
                       !.fields[WithField(e).numFields] = Update(@, <<x>>)]
       /\ httpSent' = [httpSent EXCEPT !.headers = Append(@, <<<<x>>, <<>>>>)]
       /\ js' = OnHeaders(js, parser)
  BY <1>2, <1>3, <1>5, <1>7 DEF OnHeaderField, NewField, Begun
<1>11. BeginsField(e, parser', x)
  <2>1. 0 + 1 < MaxFields
    BY DEF HttpConstants
  <2> QED BY <1>6, <1>9, <1>10, <2>1 DEF BeginsField
<1>12. FieldIsBegun(e, parser', x)
  BY <1>11, FieldBegun
<1>13. Lines(e) = <<>>
  BY <1>9, NoLines
<1>14. PICK Q, L, y, D : /\ Q = KeptLines(js, grammar) /\ L = Lines(parser) /\ y = <<<<x>>, <<>>>>
                         /\ D = Text \X Text
  OBVIOUS
<1>15. PICK h, c : h = js.headers /\ c = js.incoming.headers
  OBVIOUS
<1>16. h \in Seq(D) /\ c \in Seq(D) /\ L \in Seq(D) /\ y \in D
  <2>1. L \in Seq(Text \X Text)
    BY <1>1, <1>14, LinesAre
  <2> QED BY <1>1, <1>12, <1>14, <1>15, <2>1
          DEF HttpTyped, JsRecord, Message, Lists, FieldIsBegun
<1>17. js' \in JsRecord /\ js'.headers = h \o L /\ js'.incoming.headers = c
  <2>1. js \in JsRecord
    BY <1>1 DEF HttpTyped
  <2>2. PICK k : k = OnHeaders(js, parser)
    OBVIOUS
  <2>3. k \in JsRecord /\ k.headers = js.headers \o Lines(parser) /\ k.incoming = js.incoming
    BY <1>1, <1>10, <2>1, <2>2, HeadersGiven
  <2> QED BY <1>10, <1>14, <1>15, <2>2, <2>3
<1>18. Q = IF grammar.trailing THEN c \o h ELSE h
  BY <1>14, <1>15 DEF KeptLines
<1>19. KeptLines(js', grammar') = Q \o L /\ Q \o L \in Seq(D)
  <2>1. c \o (h \o L) = (c \o h) \o L
    BY <1>16
  <2>2. Q \in Seq(D)
    BY <1>16, <1>18
  <2>3. Q \o L \in Seq(D)
    BY <1>16, <2>2
  <2> QED BY <1>1, <1>17, <1>18, <2>1, <2>3 DEF KeptLines
<1>20. Lines(parser') = <<y>>
  BY <1>12, <1>13, <1>14 DEF FieldIsBegun
<1>21. httpSent.headers = Q \o L
  BY <1>1, <1>10, <1>14 DEF Among
<1>22. httpSent' \in Message /\ httpSent'.headers = KeptLines(js', grammar') \o Lines(parser')
  <2>1. PICK H, w : H = Q \o L /\ w = Append(H, y)
    OBVIOUS
  <2>2. w \in Seq(D) /\ w = H \o <<y>>
    BY <1>16, <1>19, <2>1
  <2>3. httpSent' = [httpSent EXCEPT !.headers = w] /\ w \in Seq(Text \X Text)
    BY <1>10, <1>14, <1>21, <2>1, <2>2
  <2>4. httpSent \in Message
    BY <1>1 DEF HttpTyped
  <2>5. httpSent' \in Message /\ httpSent'.headers = w
    BY <2>3, <2>4 DEF Message
  <2> QED BY <1>19, <1>20, <2>1, <2>2, <2>5
<1>23. ParserGood(parser') /\ parser'.haveFlushed /\ parser'.numFields = parser'.numValues + 1
  BY <1>8, <1>9, <1>12 DEF FieldIsBegun
<1>24. HttpTyped(js', grammar', httpSent') /\ Counts(grammar', parser')
  BY <1>1, <1>17, <1>22, <1>23 DEF HttpTyped, Counts
<1>25. HttpRight(parser', js', grammar', httpSent', TRUE)
  BY <1>1, <1>22, <1>23, <1>24, AmongRight
<1> QED BY <1>1, <1>25 DEF HttpInv, HttpRight

\* A header field: more of the last.
LEMMA MoreFieldStep ==
  ASSUME HttpConstants, HttpInv, OnHeaderField, ~NewField
  PROVE  HttpInv'
<1>1. /\ ParserGood(parser) /\ HttpTyped(js, grammar, httpSent) /\ Counts(grammar, parser)
      /\ Among(js, grammar, httpSent, parser) /\ taken /\ taken' /\ running' = running
      /\ grammar' \in GrammarRecord /\ grammar'.stage \in {"field", "colon"}
      /\ grammar'.trailing = grammar.trailing
  BY FieldGrammar DEF HttpInv, HttpRight
<1>2. PICK x : x = Piece(grammar, "field")
  OBVIOUS
<1>3. <<x>> \in Text /\ \A t \in Text : Append(t, x) = t \o <<x>>
  BY <1>1, <1>2, PieceText DEF HttpTyped
<1>4. /\ grammar.stage = "field" /\ js' = js
      /\ parser' = [parser EXCEPT !.fields[parser.numFields] = Update(@, <<x>>)]
      /\ httpSent' = [httpSent EXCEPT !.headers[Len(httpSent.headers)][1] = Append(@, x)]
  BY <1>2 DEF OnHeaderField, Filled, Begun
<1>5. parser.numValues + 1 = parser.numFields
  <2>1. parser.numFields = parser.numValues + 1
    BY <1>1, <1>4 DEF Counts
  <2> QED BY <2>1
<1>6. FieldHasMore(parser, parser', <<x>>)
  <2>1. FieldMore(parser, parser', <<x>>)
    BY <1>1, <1>3, <1>4, <1>5 DEF FieldMore
  <2> QED BY <2>1, FieldGoesOn
<1>7. PICK k, t : k = parser.numFields /\ t = parser.fields[k].text
  OBVIOUS
<1>8. /\ LineStep(parser, parser', k) /\ parser'.numValues = parser.numValues
      /\ k \in Nat \ {0} /\ t \in Text
      /\ Line(parser, k) = <<t, <<>>>> /\ Line(parser', k) = <<t \o <<x>>, <<>>>>
  BY <1>6, <1>7 DEF FieldHasMore
<1>9. PICK Q, h : Q = KeptLines(js, grammar) /\ h = httpSent.headers
  OBVIOUS
<1>10. LastChanged(h, Q, parser, parser', k)
  <2>1. Q \in Seq(Text \X Text)
    <3>1. js.headers \in Lists /\ js.incoming.headers \in Lists
      BY <1>1 DEF HttpTyped, JsRecord, Message, Lists
    <3> QED BY <1>9, <3>1 DEF KeptLines, Lists
  <2>2. h = Q \o Lines(parser)
    BY <1>1, <1>4, <1>9 DEF Among
  <2>3. LastChanges(h, Q, parser, parser', k)
    BY <1>1, <1>7, <1>8, <2>1, <2>2 DEF LastChanges
  <2> QED BY <2>3, LastTold
<1>11. PICK n, y : n = Len(h) /\ y = Line(parser', k)
  OBVIOUS
<1>12. /\ n \in Nat \ {0} /\ h \in Seq(Text \X Text) /\ h[n] = <<t, <<>>>>
       /\ y \in Text \X Text /\ [h EXCEPT ![n] = y] = Q \o Lines(parser')
  BY <1>8, <1>10, <1>11 DEF LastChanged
<1>13. PICK w : w = [h EXCEPT ![n] = y]
  OBVIOUS
<1>14. httpSent' = [httpSent EXCEPT !.headers = w]
  <2>1. httpSent' = [httpSent EXCEPT !.headers =
                          [h EXCEPT ![n] = [h[n] EXCEPT ![1] = Append(h[n][1], x)]]]
    BY <1>4, <1>9, <1>11
  <2>2. h[n][1] = t
    BY <1>12
  <2>3. Append(t, x) = t \o <<x>>
    BY <1>3, <1>8
  <2>4. [<<t, <<>>>> EXCEPT ![1] = t \o <<x>>] = <<t \o <<x>>, <<>>>>
    BY PairSet
  <2>5. [h[n] EXCEPT ![1] = Append(h[n][1], x)] = y
    BY <1>8, <1>11, <1>12, <2>2, <2>3, <2>4
  <2> QED BY <1>13, <2>1, <2>5
<1>15. httpSent' \in Message /\ httpSent'.headers = Q \o Lines(parser')
  <2>1. w \in Seq(Text \X Text)
    BY <1>11, <1>12, <1>13
  <2>2. httpSent \in Message
    BY <1>1 DEF HttpTyped
  <2>3. httpSent' \in Message /\ httpSent'.headers = w
    BY <1>14, <2>1, <2>2 DEF Message
  <2> QED BY <1>12, <1>13, <2>3
<1>16. httpSent'.headers = KeptLines(js', grammar') \o Lines(parser')
  BY <1>1, <1>4, <1>9, <1>15 DEF KeptLines
<1>17. ParserGood(parser') /\ parser'.numFields = k /\ parser'.haveFlushed = parser.haveFlushed
  BY <1>8 DEF LineStep
<1>18. HttpTyped(js', grammar', httpSent') /\ Counts(grammar', parser')
  <2>1. parser'.numFields = parser'.numValues + 1
    BY <1>5, <1>7, <1>8, <1>17
  <2> QED BY <1>1, <1>4, <1>15, <2>1 DEF HttpTyped, Counts
<1>19. ~grammar'.trailing /\ ~parser'.haveFlushed => js'.headers = <<>>
  BY <1>1, <1>4, <1>17 DEF Among
<1>20. HttpRight(parser', js', grammar', httpSent', TRUE)
  BY <1>1, <1>16, <1>17, <1>18, <1>19, AmongRight
<1> QED BY <1>1, <1>20 DEF HttpInv, HttpRight

\* A header value, or more of it.
LEMMA ValueStepRight ==
  ASSUME HttpConstants, HttpInv, OnHeaderValue
  PROVE  HttpInv'
<1>0. grammar \in GrammarRecord /\ parser \in ParserRecord
  BY DEF HttpInv, HttpRight, HttpTyped, ParserGood
<1>1. /\ ParserGood(parser) /\ HttpTyped(js, grammar, httpSent) /\ Counts(grammar, parser)
      /\ Among(js, grammar, httpSent, parser) /\ taken /\ taken' = taken /\ running' = running
      /\ js' = js /\ grammar \in GrammarRecord
      /\ grammar.stage \in {"colon", "value", "cut"}
  BY DEF HttpInv, HttpRight, HttpTyped, OnHeaderValue, Called
<1>2. PICK empty \in BOOLEAN, more \in BOOLEAN :
        LET it == IF empty THEN <<>> ELSE <<Piece(grammar, "value")>>
            q  == IF NewValue THEN [parser EXCEPT !.numValues = @ + 1,
                                          !.values[parser.numValues + 1] = NullString]
                                ELSE parser
        IN  /\ parser' = [q EXCEPT !.values[q.numValues] = Update(@, it)]
            /\ httpSent' = [httpSent EXCEPT !.headers[Len(httpSent.headers)][2] = @ \o it]
            /\ grammar' = [grammar EXCEPT !.stage = IF more THEN "cut" ELSE "value",
                                          !.piece = @ + 1, !.split = more]
  BY DEF OnHeaderValue
<1>3. PICK it : it = IF empty THEN <<>> ELSE <<Piece(grammar, "value")>>
  OBVIOUS
<1>4. it \in Text
  <2>1. <<Piece(grammar, "value")>> \in Text
    BY <1>1, PieceText
  <2>2. <<>> \in Text
    BY DEF Text
  <2> QED BY <1>3, <2>1, <2>2
<1>5. PICK s : s = [parser EXCEPT !.numValues = @ + 1,
                                  !.values[parser.numValues + 1] = NullString]
  OBVIOUS
<1>6. /\ parser.numFields > 0
      /\ ~NewValue => parser' = [parser EXCEPT !.values[parser.numValues] = Update(@, it)]
      /\ NewValue => parser' = [s EXCEPT !.values[s.numValues] = Update(@, it)]
      /\ httpSent' = [httpSent EXCEPT !.headers[Len(httpSent.headers)][2] = @ \o it]
  <2>1. parser.numFields > 0
    <3>1. parser.numValues \in Nat
      BY <1>0 DEF ParserRecord, HttpConstants
    <3>2. CASE grammar.stage = "colon"
      <4>1. parser.numFields = parser.numValues + 1
        BY <1>1, <3>2 DEF Counts
      <4> QED BY <3>1, <4>1
    <3>3. CASE grammar.stage \in {"value", "cut"}
      BY <1>1, <3>3 DEF Counts
    <3> QED BY <1>1, <3>2, <3>3
  <2> QED BY <1>2, <1>3, <1>5, <2>1
<1>7. /\ grammar' \in GrammarRecord /\ grammar'.stage \in {"value", "cut"}
      /\ grammar'.trailing = grammar.trailing
  <2>1. PICK c : c = grammar.piece + 1
    OBVIOUS
  <2>2. c \in Nat
    BY <1>0, <2>1 DEF GrammarRecord
  <2>3. PICK a \in {"value", "cut"} :
          grammar' = [grammar EXCEPT !.stage = a, !.piece = c, !.split = more]
    BY <1>2, <2>1
  <2>4. a \in Stages
    BY DEF Stages
  <2> QED BY <1>1, <2>2, <2>3, <2>4 DEF GrammarRecord
<1>8. ValueHasMore(parser, parser', it)
  <2>1. ValueMore(parser, parser', it)
    BY <1>1, <1>4, <1>5, <1>6 DEF ValueMore, NewValue
  <2> QED BY <2>1, ValueGoesOn
<1>9. PICK k, t, v : k = parser.numFields /\ t = parser.fields[k].text /\ v = ValueText(parser)
  OBVIOUS
<1>10. /\ LineStep(parser, parser', k) /\ parser'.numValues = k
       /\ k \in Nat \ {0} /\ v \in Text
       /\ Line(parser, k) = <<t, v>> /\ Line(parser', k) = <<t, v \o it>>
  BY <1>8, <1>9 DEF ValueHasMore
<1>11. PICK Q, h : Q = KeptLines(js, grammar) /\ h = httpSent.headers
  OBVIOUS
<1>12. LastChanged(h, Q, parser, parser', k)
  <2>1. Q \in Seq(Text \X Text)
    <3>1. js.headers \in Lists /\ js.incoming.headers \in Lists
      BY <1>1 DEF HttpTyped, JsRecord, Message, Lists
    <3> QED BY <1>11, <3>1 DEF KeptLines, Lists
  <2>2. h = Q \o Lines(parser)
    BY <1>1, <1>11 DEF Among
  <2>3. LastChanges(h, Q, parser, parser', k)
    BY <1>1, <1>9, <1>10, <2>1, <2>2 DEF LastChanges
  <2> QED BY <2>3, LastTold
<1>13. PICK n, y : n = Len(h) /\ y = Line(parser', k)
  OBVIOUS
<1>14. /\ n \in Nat \ {0} /\ h \in Seq(Text \X Text) /\ h[n] = <<t, v>>
       /\ y \in Text \X Text /\ [h EXCEPT ![n] = y] = Q \o Lines(parser')
  BY <1>10, <1>12, <1>13 DEF LastChanged
<1>15. PICK w : w = [h EXCEPT ![n] = y]
  OBVIOUS
<1>16. httpSent' = [httpSent EXCEPT !.headers = w]
  <2>1. httpSent' = [httpSent EXCEPT !.headers =
                          [h EXCEPT ![n] = [h[n] EXCEPT ![2] = h[n][2] \o it]]]
    BY <1>6, <1>11, <1>13
  <2>2. h[n][2] = v
    BY <1>14
  <2>3. [<<t, v>> EXCEPT ![2] = v \o it] = <<t, v \o it>>
    BY PairSet
  <2>4. [h[n] EXCEPT ![2] = h[n][2] \o it] = y
    BY <1>10, <1>13, <1>14, <2>2, <2>3
  <2> QED BY <1>15, <2>1, <2>4
<1>17. httpSent' \in Message /\ httpSent'.headers = Q \o Lines(parser')
  <2>1. w \in Seq(Text \X Text)
    BY <1>13, <1>14, <1>15
  <2>2. httpSent \in Message
    BY <1>1 DEF HttpTyped
  <2>3. httpSent' \in Message /\ httpSent'.headers = w
    BY <1>16, <2>1, <2>2 DEF Message
  <2> QED BY <1>14, <1>15, <2>3
<1>18. httpSent'.headers = KeptLines(js', grammar') \o Lines(parser')
  BY <1>1, <1>7, <1>11, <1>17 DEF KeptLines
<1>19. ParserGood(parser') /\ parser'.numFields = k /\ parser'.haveFlushed = parser.haveFlushed
  BY <1>10 DEF LineStep
<1>20. HttpTyped(js', grammar', httpSent') /\ Counts(grammar', parser')
  <2>1. HttpTyped(js', grammar', httpSent')
    BY <1>1, <1>7, <1>17 DEF HttpTyped
  <2>2. parser'.numFields = parser'.numValues /\ parser'.numFields > 0
    BY <1>10, <1>19
  <2> QED BY <1>7, <2>1, <2>2 DEF Counts
<1>21. ~grammar'.trailing /\ ~parser'.haveFlushed => js'.headers = <<>>
  BY <1>1, <1>7, <1>19 DEF Among
<1>22. HttpRight(parser', js', grammar', httpSent', TRUE)
  BY <1>7, <1>18, <1>19, <1>20, <1>21, AmongRight
<1> QED BY <1>1, <1>22 DEF HttpInv, HttpRight

\* The header lines end: JavaScript has all of them.
LEMMA CompleteStep ==
  ASSUME HttpConstants, HttpInv, OnHeadersComplete
  PROVE  HttpInv'
<1>0. grammar \in GrammarRecord /\ js \in JsRecord /\ httpSent \in Message
  BY DEF HttpInv, HttpRight, HttpTyped
<1>1. /\ ParserGood(parser) /\ Counts(grammar, parser) /\ Among(js, grammar, httpSent, parser)
      /\ taken /\ taken' /\ httpSent' = httpSent /\ running' = running
      /\ grammar.stage \in {"line", "value"} /\ ~grammar.trailing
  BY DEF HttpInv, HttpRight, OnHeadersComplete, LinesEnd, Called
<1>2. /\ parser.numValues = parser.numFields
      /\ httpSent.headers = js.headers \o Lines(parser)
      /\ ~parser.haveFlushed => js.headers = <<>>
  BY <1>1 DEF Counts, Among, KeptLines
<1>3. PICK j, L : j = OnHeaders(js, parser) /\ L = Lines(parser)
  OBVIOUS
<1>4. j \in JsRecord /\ j.headers = js.headers \o L
  BY <1>0, <1>1, <1>2, <1>3, HeadersGiven
<1>5. L \in Lists /\ <<>> \in Lists /\ <<>> \in Text
  BY <1>1, <1>3, LinesAre DEF Lists, Text
<1>6. ASSUME parser.haveFlushed
      PROVE  /\ js' \in JsRecord /\ js'.headers = <<>> /\ js'.incoming.headers = httpSent.headers
             /\ ParserGood(parser') /\ parser'.numFields = 0 /\ parser'.numValues = 0
  <2>1. PICK m : m = [url |-> j.url, headers |-> j.headers]
    OBVIOUS
  <2>2. m \in Message /\ m.headers = httpSent.headers
    BY <1>2, <1>3, <1>4, <2>1 DEF JsRecord, Lists, Message
  <2>3. js' = [headers |-> <<>>, url |-> <<>>, incoming |-> m]
    BY <1>3, <1>6, <2>1 DEF OnHeadersComplete
  <2>4. js' \in JsRecord /\ js'.headers = <<>> /\ js'.incoming.headers = httpSent.headers
    BY <1>5, <2>2, <2>3 DEF JsRecord
  <2>5. PICK f : f = Flushed(parser)
    OBVIOUS
  <2>6. parser' = [f EXCEPT !.numFields = 0, !.numValues = 0]
    BY <1>6, <2>5 DEF OnHeadersComplete
  <2>7. ParserGood(f)
    BY <1>1, <2>5, FlushedGood
  <2>8. ParserGood(parser') /\ parser'.numFields = 0 /\ parser'.numValues = 0
    BY <2>6, <2>7, Emptied
  <2> QED BY <2>4, <2>8
<1>7. ASSUME ~parser.haveFlushed
      PROVE  /\ js' \in JsRecord /\ js'.headers = <<>> /\ js'.incoming.headers = httpSent.headers
             /\ ParserGood(parser') /\ parser'.numFields = 0 /\ parser'.numValues = 0
  <2>1. PICK m : m = [url |-> ReadText(parser.url), headers |-> CreateHeaders(parser)]
    OBVIOUS
  <2>2. CreateHeaders(parser) = L /\ ReadText(parser.url) = parser.url.text
    BY <1>1, <1>2, <1>3, HeadersMade
  <2>3. parser.url.text \in Text
    BY <1>1 DEF ParserGood, Readable, StringPtr
  <2>4. <<>> \o L = L
    BY <1>5 DEF Lists
  <2>5. m \in Message /\ m.headers = httpSent.headers
    BY <1>2, <1>3, <1>5, <1>7, <2>1, <2>2, <2>3, <2>4 DEF Lists, Message
  <2>6. js' = [js EXCEPT !.incoming = m]
    BY <1>7, <2>1 DEF OnHeadersComplete
  <2>7. js' \in JsRecord /\ js'.headers = js.headers /\ js'.incoming.headers = httpSent.headers
    BY <1>0, <2>5, <2>6 DEF JsRecord
  <2>8. parser' = [parser EXCEPT !.numFields = 0, !.numValues = 0]
    BY <1>7 DEF OnHeadersComplete
  <2>9. ParserGood(parser') /\ parser'.numFields = 0 /\ parser'.numValues = 0
    BY <1>1, <2>8, Emptied
  <2> QED BY <1>2, <1>7, <2>7, <2>9
<1>8. /\ js' \in JsRecord /\ js'.headers = <<>> /\ js'.incoming.headers = httpSent.headers
      /\ ParserGood(parser') /\ parser'.numFields = 0 /\ parser'.numValues = 0
  BY <1>2, <1>6, <1>7
<1>9. /\ grammar' \in GrammarRecord /\ grammar'.stage \in {"body", "error"} /\ ~grammar'.trailing
  <2>1. PICK a \in {"body", "error"} :
          grammar' = [grammar EXCEPT !.stage = a, !.split = a = "error"]
    BY DEF OnHeadersComplete
  <2>2. PICK b \in BOOLEAN : b = (a = "error")
    OBVIOUS
  <2>3. grammar' = [grammar EXCEPT !.stage = a, !.split = b] /\ a \in Stages
    BY <2>1, <2>2 DEF Stages
  <2> QED BY <1>0, <1>1, <2>1, <2>3 DEF GrammarRecord
<1>10. HttpTyped(js', grammar', httpSent') /\ Counts(grammar', parser')
  <2>1. HttpTyped(js', grammar', httpSent')
    BY <1>0, <1>1, <1>8, <1>9 DEF HttpTyped
  <2>2. Counts(grammar', parser')
    BY <1>8, <1>9 DEF Counts
  <2> QED BY <2>1, <2>2
<1>11. Among(js', grammar', httpSent', parser') /\ Outside(js', grammar', httpSent')
  BY <1>1, <1>8, <1>9 DEF Among, Outside
<1> QED BY <1>1, <1>8, <1>10, <1>11 DEF HttpInv, HttpRight

\* The message is complete: the trailers are added, and the listener may throw.
LEMMA MessageCompleteStep ==
  ASSUME HttpConstants, HttpInv, OnMessageComplete
  PROVE  HttpInv'
<1>0. grammar \in GrammarRecord /\ js \in JsRecord /\ httpSent \in Message
  BY DEF HttpInv, HttpRight, HttpTyped
<1>1. /\ ParserGood(parser) /\ Counts(grammar, parser) /\ Among(js, grammar, httpSent, parser)
      /\ Outside(js, grammar, httpSent)
      /\ taken /\ taken' /\ httpSent' = httpSent /\ running' = running
      /\ grammar.trailing => grammar.stage \in {"line", "value"}
      /\ ~grammar.trailing => grammar.stage = "body"
  BY DEF HttpInv, HttpRight, OnMessageComplete, LinesEnd, Called
<1>2. parser.numValues = parser.numFields
  BY <1>1 DEF Counts
<1>3. PICK j : j = IF Trailing THEN OnHeaders(js, parser) ELSE js
  OBVIOUS
<1>4. PICK c, h, L : c = js.incoming.headers /\ h = js.headers /\ L = Lines(parser)
  OBVIOUS
<1>5. PICK D : D = Text \X Text
  OBVIOUS
<1>6. c \in Seq(D) /\ h \in Seq(D) /\ L \in Seq(D)
  <2>1. L \in Seq(Text \X Text)
    BY <1>1, <1>4, LinesAre
  <2> QED BY <1>0, <1>4, <1>5, <2>1 DEF JsRecord, Message, Lists
<1>7. j \in JsRecord /\ j.headers = h \o L
  <2>1. CASE Trailing
    BY <1>0, <1>1, <1>2, <1>3, <1>4, <2>1, HeadersGiven
  <2>2. CASE ~Trailing
    <3>1. parser.numFields = 0
      <4>1. parser.numFields \in 0 .. MaxFields - 1 /\ MaxFields \in Nat
        BY <1>1 DEF ParserGood, ParserRecord, HttpConstants
      <4> QED BY <2>2, <4>1 DEF Trailing
    <3>2. L = <<>>
      BY <1>4, <3>1, NoLines
    <3>3. h \o <<>> = h
      BY <1>6
    <3> QED BY <1>0, <1>3, <1>4, <2>2, <3>2, <3>3
  <2> QED BY <2>1, <2>2
<1>8. httpSent.headers = c \o (h \o L)
  <2>1. CASE grammar.trailing
    <3>1. httpSent.headers = (c \o h) \o L
      BY <1>1, <1>4, <2>1 DEF Among, KeptLines
    <3>2. (c \o h) \o L = c \o (h \o L)
      BY <1>6
    <3> QED BY <3>1, <3>2
  <2>2. CASE ~grammar.trailing
    <3>1. h = <<>> /\ c = httpSent.headers /\ L = <<>>
      BY <1>1, <1>4, <2>2, NoLines DEF Outside, Counts
    <3>2. c \o (<<>> \o <<>>) = c
      BY <1>6
    <3> QED BY <3>1, <3>2
  <2> QED BY <2>1, <2>2
<1>9. PICK w, m : w = c \o j.headers /\ m = [js.incoming EXCEPT !.headers = w]
  OBVIOUS
<1>10. w \in Seq(D) /\ w = httpSent.headers
  <2>1. h \o L \in Seq(D)
    BY <1>6
  <2>2. c \o (h \o L) \in Seq(D)
    BY <1>6, <2>1
  <2> QED BY <1>7, <1>8, <1>9, <2>2
<1>11. m \in Message /\ m.headers = w
  <2>1. js.incoming \in Message
    BY <1>0 DEF JsRecord
  <2> QED BY <1>5, <1>9, <1>10, <2>1 DEF Message
<1>12. js' = [headers |-> <<>>, url |-> <<>>, incoming |-> m]
  BY <1>3, <1>4, <1>9 DEF OnMessageComplete
<1>13. <<>> \in Lists /\ <<>> \in Text
  BY DEF Lists, Text
<1>14. js' \in JsRecord /\ js'.headers = <<>> /\ js'.incoming.headers = httpSent.headers
  BY <1>10, <1>11, <1>12, <1>13 DEF JsRecord
<1>15. ParserGood(parser')
  <2>1. CASE Trailing
    <3>1. parser' = Flushed(parser)
      BY <2>1 DEF OnMessageComplete
    <3> QED BY <1>1, <3>1, FlushedGood
  <2>2. CASE ~Trailing
    BY <1>1, <2>2 DEF OnMessageComplete
  <2> QED BY <2>1, <2>2
<1>16. grammar' \in GrammarRecord /\ grammar'.stage \in {"idle", "error"}
  <2>1. PICK stage \in {"idle", "error"} :
          grammar' = [grammar EXCEPT !.stage = stage, !.split = stage = "error"]
    BY DEF OnMessageComplete
  <2>2. PICK split \in BOOLEAN : split = (stage = "error")
    OBVIOUS
  <2>3. grammar' = [grammar EXCEPT !.stage = stage, !.split = split] /\ stage \in Stages
    BY <2>1, <2>2 DEF Stages
  <2> QED BY <1>0, <2>3 DEF GrammarRecord
<1>17. HttpTyped(js', grammar', httpSent') /\ Counts(grammar', parser')
  BY <1>0, <1>1, <1>14, <1>16 DEF HttpTyped, Counts
<1>18. Among(js', grammar', httpSent', parser') /\ Outside(js', grammar', httpSent')
  BY <1>1, <1>14, <1>16 DEF Among, Outside
<1> QED BY <1>1, <1>15, <1>17, <1>18 DEF HttpInv, HttpRight

\* Every step.
LEMMA HttpStep ==
  ASSUME HttpConstants, HttpInv, HttpNext
  PROVE  HttpInv'
<1>1. CASE OnHeaderField
  <2>1. Filled \/ (NewField /\ ~Filled) \/ ~NewField
    OBVIOUS
  <2> QED BY <1>1, <2>1, NewFieldStep, FlushFieldStep, MoreFieldStep
<1>2. CASE \/ AllocParser \/ FreeParser \/ ExecuteBegin \/ ExecuteEnd \/ OnMessageBegin
  BY <1>2, AllocStep, FreeStep, BeginStep, EndStep, MessageStep
<1>3. CASE \/ OnUrl \/ OnHeaderValue \/ OnHeadersComplete \/ OnBody \/ OnTrailers
           \/ OnMessageComplete
  BY <1>3, UrlStep, ValueStepRight, CompleteStep, BodyStep, TrailersStep, MessageCompleteStep
<1> QED BY <1>1, <1>2, <1>3 DEF HttpNext

\* Nothing at all happens.
LEMMA HttpRest ==
  ASSUME HttpInv, UNCHANGED httpVars
  PROVE  HttpInv'
BY DEF HttpInv, httpVars

\* What the run checks of the parser follows.
LEMMA HttpFacts ==
  ASSUME HttpInv
  PROVE  LinesWhole /\ NoDanglingString
<1>1. LinesWhole
  BY DEF HttpInv, HttpRight, Outside, LinesWhole
<1>2. NoDanglingString
  <2>1. /\ Readable(parser.url)
        /\ \A k \in 1 .. parser.numFields : Readable(parser.fields[k])
        /\ \A k \in 1 .. parser.numValues : Readable(parser.values[k])
    BY DEF HttpInv, HttpRight, ParserGood
  <2> QED BY <2>1 DEF NoDanglingString, Readable
<1> QED BY <1>1, <1>2

\* The header lines of a message reach JavaScript whole, once and in order, and no string that
\* is still to be read points into a buffer that is gone (node_http_parser.cc with the
\* callbacks of lib/http.js), for an array of any size from two on and any messages.
THEOREM LinesComeWhole ==
  ASSUME HttpConstants
  PROVE  HttpSpec => [](LinesWhole /\ NoDanglingString)
<1>1. HttpInit => HttpInv
  BY HttpStart
<1>2. HttpInv /\ [HttpNext]_httpVars => HttpInv'
  BY HttpStep, HttpRest
<1>3. HttpInv => LinesWhole /\ NoDanglingString
  BY HttpFacts
<1> QED BY <1>1, <1>2, <1>3, PTL DEF HttpSpec
=============================================================================
