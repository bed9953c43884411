------------------------------ MODULE Handles ------------------------------
(***************************************************************************)
(* The handles of the Node.js runtime that globalsd and its client run on  *)
(* (src/node_v0.6.19/node/src/: handle_wrap.cc, stream_wrap.cc,            *)
(* tcp_wrap.cc, pipe_wrap.cc, tty_wrap.cc, udp_wrap.cc, timer_wrap.cc,     *)
(* process_wrap.cc, fs_event_wrap.cc): an object of the program that wraps *)
(* a handle of libuv, the references that keep the event loop running, the *)
(* requests written to a stream, and the two steps in which a handle ends. *)
(*                                                                         *)
(* One thread runs everything. cb says what the loop is in the middle of:  *)
(* the callbacks of the writes of a handle, or the end of a closed handle. *)
(* The program runs inside those callbacks, so its calls (the first part   *)
(* of Next) may come at every moment; an event of the loop starts only     *)
(* when the one before has ended and something keeps the loop alive.       *)
(* Data, addresses and options are left out; a request is a name.          *)
(***************************************************************************)
EXTENDS Integers, Sequences, FiniteSets, FiniteSetsExt

CONSTANTS Handles,     \* the wrap objects the program may make
          Reqs,        \* the write requests
          Kinds,       \* the kinds of handle that are made
          Persistent,  \* the values fs.watch is given for "persistent"
          NoHandle

\* fs.watch hands uv_fs_event_init a flag.
ASSUME HandlesAssumption == Persistent \subseteq BOOLEAN

StreamKinds == {"tcp", "pipe", "tty"}

VARIABLES hd,        \* hd[h]: the wrap and the handle of libuv inside it
          refs,      \* uv_ref less uv_unref, by node and by libuv
          sent,      \* sent[h]: the writes libuv has taken, in order (history)
          answered,  \* answered[h]: those whose callback has run, in order (history)
          cb         \* what the loop is in the middle of
handleVars == <<hd, refs, sent, answered, cb>>

\* wrap: open (handle__ is set), closing (handle__ is NULL), gone (deleted).
\* watch: the watchers of libev that are active. queue, completed: the two
\* queues of libuv. fed: an event fed to the write watcher.
NoWrap == [kind |-> "none", wrap |-> "none", inited |-> FALSE,
           unref |-> FALSE, active |-> FALSE, repeat |-> FALSE, keep |-> TRUE,
           link |-> "fresh", shut |-> "no", told |-> 0, fed |-> FALSE,
           watch |-> {}, queue |-> <<>>, completed |-> <<>>]

Idle == [at |-> "idle", h |-> NoHandle]

HandleInit ==
    /\ hd = [h \in Handles |-> NoWrap]
    /\ refs = 0
    /\ sent = [h \in Handles |-> <<>>]
    /\ answered = [h \in Handles |-> <<>>]
    /\ cb = Idle

IsStream(h) == hd[h].kind \in StreamKinds
Open(h, kinds) == hd[h].wrap = "open" /\ hd[h].kind \in kinds

\* The reference count of the loop (libev's activecnt): an active watcher
\* counts one, and so does each uv_ref.
LoopRefs == refs + MapThenSumSet(LAMBDA h : Cardinality(hd[h].watch), Handles)

Requested(h, r) == \E i \in DOMAIN sent[h] : sent[h][i] = r

-----------------------------------------------------------------------------
(* Calls of the program *)

\* The constructors. uv_tcp_init and its kin take a reference of the loop;
\* a process and a watch of a file have no handle yet.
Wrap(h, kind, new, taken) ==
    /\ hd[h].wrap = "none"
    /\ kind \in Kinds
    /\ hd' = [hd EXCEPT ![h] = [new EXCEPT !.kind = kind, !.wrap = "open"]]
    /\ refs' = refs + taken
    /\ UNCHANGED <<sent, answered, cb>>

NewTcp(h)     == Wrap(h, "tcp", [NoWrap EXCEPT !.inited = TRUE], 1)
NewPipe(h)    == Wrap(h, "pipe", [NoWrap EXCEPT !.inited = TRUE], 1)
NewTty(h)     == Wrap(h, "tty", [NoWrap EXCEPT !.inited = TRUE, !.link = "connected"], 1)
NewUdp(h)     == Wrap(h, "udp", [NoWrap EXCEPT !.inited = TRUE, !.link = "connected"], 1)
\* uv_timer_init refers to the loop and TimerWrap takes that back at once.
NewTimer(h)   == Wrap(h, "timer", [NoWrap EXCEPT !.inited = TRUE], 1 - 1)
NewProcess(h) == Wrap(h, "process", NoWrap, 0)
NewFsEvent(h) == Wrap(h, "fsevent", NoWrap, 0)

\* unref and ref, on pipes and terminals only. A second call does nothing.
Unref(h) ==
    /\ Open(h, {"pipe", "tty"})
    /\ ~hd[h].unref
    /\ hd' = [hd EXCEPT ![h].unref = TRUE]
    /\ refs' = refs - 1
    /\ UNCHANGED <<sent, answered, cb>>

Ref(h) ==
    /\ Open(h, {"pipe", "tty"})
    /\ hd[h].unref
    /\ hd' = [hd EXCEPT ![h].unref = FALSE]
    /\ refs' = refs + 1
    /\ UNCHANGED <<sent, answered, cb>>

\* TimerWrap::StateChange: a timer refers to the loop while it is active.
\* on: whether its watcher is active now; the difference it makes to refs.
TimerRef(h, on) == IF on /\ ~hd[h].active THEN 1
                   ELSE IF ~on /\ hd[h].active THEN -1 ELSE 0

\* uv_timer_start fails on an active timer; else it starts the watcher and
\* takes the watcher's own reference away.
TimerStart(h, repeat) ==
    /\ Open(h, {"timer"})
    /\ ~hd[h].active
    /\ hd' = [hd EXCEPT ![h].watch = {"timer"}, ![h].repeat = repeat,
                        ![h].active = TRUE]
    /\ refs' = refs - 1 + TimerRef(h, TRUE)
    /\ UNCHANGED <<sent, answered, cb>>

TimerStop(h) ==
    /\ Open(h, {"timer"})
    /\ hd' = [hd EXCEPT ![h].watch = {}, ![h].repeat = FALSE, ![h].active = FALSE]
    /\ refs' = refs + (IF hd[h].active THEN 1 ELSE 0) + TimerRef(h, FALSE)
    /\ UNCHANGED <<sent, answered, cb>>

\* setRepeat changes whether the watcher is armed again when it fires.
TimerSetRepeat(h, repeat) ==
    /\ Open(h, {"timer"})
    /\ hd[h].active
    /\ hd' = [hd EXCEPT ![h].repeat = repeat]
    /\ UNCHANGED <<refs, sent, answered, cb>>

\* connect of a socket: the answer comes when it is writable. net.js connects
\* a handle once.
Connect(h) ==
    /\ Open(h, {"tcp"})
    /\ hd[h].link = "fresh"
    /\ hd' = [hd EXCEPT ![h].link = "connecting", ![h].watch = @ \cup {"write"}]
    /\ UNCHANGED <<refs, sent, answered, cb>>

\* The connection of a pipe is made at once; the event that reports it is fed.
PipeConnect(h) ==
    /\ Open(h, {"pipe"})
    /\ hd[h].link = "fresh"
    /\ \E found \in BOOLEAN :
         hd' = [hd EXCEPT ![h].link = IF found THEN "connecting" ELSE "refused",
                          ![h].watch = IF found THEN {"read", "write"} ELSE {},
                          ![h].fed = TRUE]
    /\ UNCHANGED <<refs, sent, answered, cb>>

Listen(h) ==
    /\ Open(h, {"tcp", "pipe"})
    /\ hd[h].link = "fresh"
    /\ hd' = [hd EXCEPT ![h].link = "listening", ![h].watch = @ \cup {"read"}]
    /\ UNCHANGED <<refs, sent, answered, cb>>

ReadStart(h) ==
    /\ Open(h, StreamKinds)
    /\ hd[h].link = "connected"
    /\ hd' = [hd EXCEPT ![h].watch = @ \cup {"read"}]
    /\ UNCHANGED <<refs, sent, answered, cb>>

ReadStop(h) ==
    /\ Open(h, StreamKinds)
    /\ hd[h].link = "connected"
    /\ hd' = [hd EXCEPT ![h].watch = @ \ {"read"}]
    /\ UNCHANGED <<refs, sent, answered, cb>>

\* recvStart and recvStop. libuv takes the reference of a watcher of a UDP
\* socket away when it starts it, and gives it back when it stops it.
UdpStarted(h, w) == IF w \in hd[h].watch THEN 0 ELSE -1
UdpStopped(h, ws) == Cardinality(ws \cap hd[h].watch)

RecvStart(h) ==
    /\ Open(h, {"udp"})
    /\ hd' = [hd EXCEPT ![h].watch = @ \cup {"read"}]
    /\ refs' = refs + UdpStarted(h, "read")
    /\ UNCHANGED <<sent, answered, cb>>

RecvStop(h) ==
    /\ Open(h, {"udp"})
    /\ hd' = [hd EXCEPT ![h].watch = @ \ {"read"}]
    /\ refs' = refs + UdpStopped(h, {"read"})
    /\ UNCHANGED <<sent, answered, cb>>

\* write: libuv writes at once when nothing waits, and answers by an event
\* it feeds to itself; else, and when the socket is full, the request waits.
\* A socket that is closing refuses it (fd is -1), and the request is deleted
\* before anyone has seen it. net.js writes to connected sockets it has not
\* shut down.
Write(h, r) ==
    /\ Open(h, StreamKinds)
    /\ hd[h].link = "connected" /\ hd[h].shut = "no"
    /\ \A g \in Handles : ~Requested(g, r)
    /\ sent' = [sent EXCEPT ![h] = Append(@, r)]
    /\ \/ /\ hd[h].queue = <<>>                       \* written, or failed
          /\ hd' = [hd EXCEPT ![h].completed = Append(@, r), ![h].fed = TRUE]
       \/ /\ hd' = [hd EXCEPT ![h].queue = Append(@, r),
                              ![h].watch = @ \cup {"write"}]
    /\ UNCHANGED <<refs, answered, cb>>

\* send: a datagram waits for the socket to become writable.
Send(h, r) ==
    /\ Open(h, {"udp"})
    /\ \A g \in Handles : ~Requested(g, r)
    /\ sent' = [sent EXCEPT ![h] = Append(@, r)]
    /\ hd' = [hd EXCEPT ![h].queue = Append(@, r), ![h].watch = @ \cup {"write"}]
    /\ refs' = refs + UdpStarted(h, "write")
    /\ UNCHANGED <<answered, cb>>

\* shutdown: net.js calls it once.
Shutdown(h) ==
    /\ Open(h, {"tcp", "pipe"})
    /\ hd[h].link = "connected" /\ hd[h].shut = "no"
    /\ hd' = [hd EXCEPT ![h].shut = "asked", ![h].watch = @ \cup {"write"}]
    /\ UNCHANGED <<refs, sent, answered, cb>>

\* spawn: uv_spawn2 takes its reference before it can fail, and does not give
\* it back; only a successful spawn sets handle__ (kept in inited).
Spawn(h) ==
    /\ Open(h, {"process"})
    /\ ~hd[h].inited /\ hd[h].link = "fresh"
    /\ \/ hd' = [hd EXCEPT ![h].inited = TRUE, ![h].watch = {"child"},
                           ![h].link = "connected"]
       \/ hd' = [hd EXCEPT ![h].link = "failed"]
    /\ refs' = refs + 1
    /\ UNCHANGED <<sent, answered, cb>>

\* start of a watch of a file. A watch that is not persistent gives back the
\* reference of its handle, and nothing remembers that it has.
FsEventStart(h) ==
    /\ Open(h, {"fsevent"})
    /\ ~hd[h].inited
    /\ \E persistent \in Persistent :
         /\ hd' = [hd EXCEPT ![h].inited = TRUE, ![h].watch = {"read"},
                             ![h].keep = persistent]
         /\ refs' = refs + 1 - 1 + (IF persistent THEN 0 ELSE -1)
    /\ UNCHANGED <<sent, answered, cb>>

-----------------------------------------------------------------------------
(* The end of a handle, in two steps *)

\* close: uv_close stops every watcher, HandleWrap::Ref takes back an unref,
\* and a timer's StateChange its reference. What it stops it has counted, so
\* the references that were taken away for it come back. The handle is
\* finished in a later iteration of the loop, by an idle watcher. A wrap
\* without a handle of libuv is left as it is.
StoppedRefs(h) ==
    CASE hd[h].kind = "udp"     -> UdpStopped(h, {"read", "write"})
      [] hd[h].kind = "timer"   -> (IF hd[h].active THEN 1 ELSE 0) + TimerRef(h, FALSE)
      [] hd[h].kind = "fsevent" -> 1
      [] OTHER                  -> 0

Close(h) ==
    /\ hd[h].wrap = "open" /\ hd[h].inited
    /\ hd' = [hd EXCEPT ![h].wrap = "closing", ![h].watch = {"idle"},
                        ![h].fed = FALSE, ![h].unref = FALSE,
                        ![h].active = FALSE, ![h].repeat = FALSE]
    /\ refs' = refs + StoppedRefs(h) + (IF hd[h].unref THEN 1 ELSE 0)
    /\ UNCHANGED <<sent, answered, cb>>

LoopReady == cb = Idle /\ LoopRefs > 0

\* The loop comes to a closing handle: its writes are answered first.
FinishClose(h) ==
    /\ LoopReady
    /\ hd[h].wrap = "closing"
    /\ hd' = [hd EXCEPT ![h].watch = {}]
    /\ cb' = [at |-> "destroy", h |-> h]
    /\ UNCHANGED <<refs, sent, answered>>

\* A stream answers the writes that still wait, with an error, and then those
\* that are done; a UDP socket the other way round.
DestroyNext(h) ==
    LET q == hd[h].queue
        c == hd[h].completed
    IN IF c # <<>> /\ (q = <<>> \/ hd[h].kind = "udp") THEN "completed" ELSE "queue"

AnswerDestroyed(h) ==
    /\ cb = [at |-> "destroy", h |-> h]
    /\ hd[h].queue # <<>> \/ hd[h].completed # <<>>
    /\ LET from == DestroyNext(h)
       IN /\ answered' = [answered EXCEPT ![h] = Append(@, Head(hd[h][from]))]
          /\ hd' = [hd EXCEPT ![h][from] = Tail(@)]
    /\ UNCHANGED <<refs, sent, cb>>

\* Mutant: the wrap is deleted before the writes are answered.
OnCloseFirst(h) ==
    /\ cb = [at |-> "destroy", h |-> h]
    /\ hd' = [hd EXCEPT ![h].wrap = "gone"]
    /\ refs' = refs - 1 + (IF hd[h].kind = "timer" /\ ~hd[h].active THEN 1 ELSE 0)
    /\ cb' = Idle
    /\ UNCHANGED <<sent, answered>>

\* OnClose deletes the wrap; ~TimerWrap refers to the loop once more, for the
\* reference libuv now takes away.
OnClose(h) ==
    /\ cb = [at |-> "destroy", h |-> h]
    /\ hd[h].queue = <<>> /\ hd[h].completed = <<>>
    /\ hd' = [hd EXCEPT ![h].wrap = "gone"]
    /\ refs' = refs - 1 + (IF hd[h].kind = "timer" /\ ~hd[h].active THEN 1 ELSE 0)
    /\ cb' = Idle
    /\ UNCHANGED <<sent, answered>>

-----------------------------------------------------------------------------
(* Events of the loop *)

\* The answer to a connect: on success the read watcher starts.
AfterConnect(h) ==
    /\ LoopReady
    /\ Open(h, {"tcp", "pipe"})
    /\ hd[h].fed \/ "write" \in hd[h].watch
    /\ hd[h].link \in {"connecting", "refused"}
    /\ \/ /\ hd[h].link = "connecting"
          /\ hd' = [hd EXCEPT ![h].link = "connected", ![h].fed = FALSE,
                              ![h].watch = @ \cup {"read"}]
       \/ /\ hd[h].link = "refused" \/ hd[h].kind = "tcp"
          /\ hd' = [hd EXCEPT ![h].link = "failed", ![h].fed = FALSE]
    /\ UNCHANGED <<refs, sent, answered, cb>>

\* A connection to a listening handle: a new wrap of the same kind takes it.
OnConnection(h, c) ==
    /\ LoopReady
    /\ Open(h, {"tcp", "pipe"}) /\ hd[h].link = "listening"
    /\ hd[c].wrap = "none"
    /\ hd' = [hd EXCEPT ![c] = [NoWrap EXCEPT !.kind = hd[h].kind, !.wrap = "open",
                                              !.inited = TRUE, !.link = "connected"]]
    /\ refs' = refs + 1
    /\ UNCHANGED <<sent, answered, cb>>

\* The end of the data, or an error: libuv stops reading.
OnReadEnd(h) ==
    /\ LoopReady
    /\ Open(h, StreamKinds) /\ hd[h].link = "connected"
    /\ "read" \in hd[h].watch
    /\ hd' = [hd EXCEPT ![h].watch = @ \ {"read"}]
    /\ UNCHANGED <<refs, sent, answered, cb>>

\* The socket is writable, or an event was fed: uv__write tries the first
\* waiting request; then the callbacks begin.
OnWritable(h) ==
    /\ LoopReady
    /\ Open(h, StreamKinds) /\ hd[h].link \in {"connected", "failed"}
    /\ hd[h].fed \/ "write" \in hd[h].watch
    /\ \/ hd' = [hd EXCEPT ![h].fed = FALSE, ![h].watch =
                    IF hd[h].queue = <<>> THEN @ ELSE @ \cup {"write"}]
       \/ /\ hd[h].queue # <<>>
          /\ hd' = [hd EXCEPT ![h].queue = Tail(@), ![h].fed = TRUE,
                              ![h].completed = Append(@, Head(hd[h].queue))]
    /\ cb' = [at |-> "writes", h |-> h]
    /\ UNCHANGED <<refs, sent, answered>>

\* uv__udp_run_pending: datagrams go out until the socket is full.
OnUdpWritable(h) ==
    /\ LoopReady
    /\ Open(h, {"udp"})
    /\ hd[h].fed \/ "write" \in hd[h].watch
    /\ \E n \in 0 .. Len(hd[h].queue) :
         hd' = [hd EXCEPT ![h].queue = SubSeq(@, n + 1, Len(@)), ![h].fed = FALSE,
                          ![h].completed = @ \o SubSeq(hd[h].queue, 1, n)]
    /\ cb' = [at |-> "writes", h |-> h]
    /\ UNCHANGED <<refs, sent, answered>>

ShutdownDue(h) == hd[h].shut \in {"asked", "failed"} /\ hd[h].wrap = "open"

\* AfterWrite and OnSend: the callback of the program, then delete req_wrap.
AfterWrite(h) ==
    /\ cb = [at |-> "writes", h |-> h]
    /\ hd[h].completed # <<>>
    /\ answered' = [answered EXCEPT ![h] = Append(@, Head(hd[h].completed))]
    /\ hd' = [hd EXCEPT ![h].completed = Tail(@)]
    /\ UNCHANGED <<refs, sent, cb>>

\* When no request waits the write watcher stops, and a shutdown the program
\* asked for is tried, unless the handle was closed by a callback. AfterShutdown
\* is called with the result. One that failed is tried again by the next event
\* (a write that has just been answered has fed one), with the same request.
Drain(h) ==
    /\ cb = [at |-> "writes", h |-> h]
    /\ hd[h].completed = <<>>
    /\ \/ hd[h].queue # <<>> /\ UNCHANGED hd
       \/ /\ hd[h].queue = <<>>
          /\ ~ShutdownDue(h)
          /\ hd' = [hd EXCEPT ![h].watch = @ \ {"write"}]
       \/ /\ hd[h].queue = <<>>
          /\ ShutdownDue(h)
          /\ \E result \in {"done", "failed"} :
               hd' = [hd EXCEPT ![h].watch = @ \ {"write"}, ![h].shut = result,
                                ![h].told = IF @ = 2 THEN 2 ELSE @ + 1]
    /\ refs' = IF hd[h].queue = <<>> /\ hd[h].kind = "udp"
               THEN refs + UdpStopped(h, {"write"}) ELSE refs
    /\ cb' = Idle
    /\ UNCHANGED <<sent, answered>>

\* A timer fires. libev stops a watcher that does not repeat, and libuv gives
\* it back the reference it took away.
OnTimeout(h) ==
    /\ LoopReady
    /\ Open(h, {"timer"}) /\ hd[h].watch = {"timer"}
    /\ hd' = IF hd[h].repeat THEN hd
             ELSE [hd EXCEPT ![h].watch = {}, ![h].active = FALSE]
    /\ refs' = IF hd[h].repeat THEN refs ELSE refs + 1 + TimerRef(h, FALSE)
    /\ UNCHANGED <<sent, answered, cb>>

\* The child exits; libuv stops its watcher.
OnExit(h) ==
    /\ LoopReady
    /\ Open(h, {"process"}) /\ hd[h].watch = {"child"}
    /\ hd' = [hd EXCEPT ![h].watch = {}]
    /\ UNCHANGED <<refs, sent, answered, cb>>

-----------------------------------------------------------------------------
Program(h) ==
    \/ NewTcp(h) \/ NewPipe(h) \/ NewTty(h) \/ NewUdp(h)
    \/ NewTimer(h) \/ NewProcess(h) \/ NewFsEvent(h)
    \/ Unref(h) \/ Ref(h)
    \/ \E repeat \in BOOLEAN : TimerStart(h, repeat) \/ TimerSetRepeat(h, repeat)
    \/ TimerStop(h)
    \/ Connect(h) \/ PipeConnect(h) \/ Listen(h) \/ ReadStart(h) \/ ReadStop(h)
    \/ RecvStart(h) \/ RecvStop(h)
    \/ \E r \in Reqs : Write(h, r) \/ Send(h, r)
    \/ Shutdown(h) \/ Spawn(h) \/ FsEventStart(h) \/ Close(h)

\* What the loop does by itself, without news from outside.
LoopStep(h) ==
    \/ FinishClose(h) \/ AnswerDestroyed(h) \/ OnClose(h) \/ AfterWrite(h) \/ Drain(h)

Event(h) ==
    \/ AfterConnect(h) \/ \E c \in Handles : OnConnection(h, c)
    \/ OnReadEnd(h) \/ OnWritable(h) \/ OnUdpWritable(h) \/ OnTimeout(h) \/ OnExit(h)

HandleNext == \E h \in Handles : Program(h) \/ LoopStep(h) \/ Event(h)

\* Closing handles are taken up in every iteration of libev, whatever else
\* happens in it; a callback that has begun goes on.
HandleFairness ==
    /\ SF_handleVars(\E h \in Handles : FinishClose(h))
    /\ \A h \in Handles : WF_handleVars(AnswerDestroyed(h) \/ OnClose(h)
                                          \/ AfterWrite(h) \/ Drain(h))

HandleSpec == HandleInit /\ [][HandleNext]_handleVars /\ HandleFairness
-----------------------------------------------------------------------------
(* Properties *)

HandleRecord ==
    [kind: StreamKinds \cup {"udp", "timer", "process", "fsevent", "none"},
     wrap: {"none", "open", "closing", "gone"},
     inited: BOOLEAN, unref: BOOLEAN, active: BOOLEAN, repeat: BOOLEAN,
     keep: BOOLEAN, fed: BOOLEAN,
     link: {"fresh", "connecting", "refused", "connected", "listening", "failed"},
     shut: {"no", "asked", "done", "failed"}, told: 0 .. 2,
     watch: SUBSET {"read", "write", "timer", "child", "idle"},
     queue: Seq(Reqs), completed: Seq(Reqs)]

\* Types of the state of the handles.
HandlesTypeOK ==
    /\ hd \in [Handles -> HandleRecord]
    /\ refs \in Int
    /\ sent \in [Handles -> Seq(Reqs)]
    /\ answered \in [Handles -> Seq(Reqs)]
    /\ cb \in [at: {"idle", "writes", "destroy"}, h: Handles \cup {NoHandle}]

\* What the program may count on to keep the process alive: a handle that is
\* closing, an active timer, a stream or a socket it did not unref, one that
\* reads or writes, a child, a persistent watch. A child that could not be
\* spawned keeps it alive too: its reference is never given back.
Wanted(h) ==
    \/ hd[h].wrap = "closing"
    \/ /\ hd[h].wrap = "open"
       /\ \/ IsStream(h) /\ (~hd[h].unref \/ hd[h].watch # {})
          \/ hd[h].kind = "udp"
          \/ hd[h].kind = "timer" /\ hd[h].active
          \/ hd[h].kind = "process" /\ (hd[h].inited \/ hd[h].link = "failed")
          \/ hd[h].kind = "fsevent" /\ hd[h].inited /\ hd[h].keep

\* Between two events the loop runs on if and only if some handle wants it:
\* node, libuv and libev count references on their own (HandleWrap::Ref and
\* Unref, TimerWrap::StateChange and its destructor, uv__handle_init and
\* uv__finish_close, the watchers of libev), and one too few ends the process
\* under an open socket, one too many keeps it for ever.
LoopRunsWhileWanted ==
    cb = Idle => (LoopRefs > 0 <=> \E h \in Handles : Wanted(h))

Answers(h) == answered[h] \o hd[h].completed \o hd[h].queue

\* Every write libuv has taken is answered once: it is waiting, done or
\* answered, in the order it was made as long as the handle is not destroyed
\* under it, and none is left when the wrap its callback uses is deleted. And
\* the answer to a shutdown comes after the answers to all the writes before
\* it (uv__drain, after uv__write_callbacks).
WritesAccounted ==
    \A h \in Handles :
        /\ Len(Answers(h)) = Len(sent[h])
        /\ \A r \in Reqs : Requested(h, r) => \E i \in DOMAIN Answers(h) : Answers(h)[i] = r
        /\ cb # [at |-> "destroy", h |-> h] /\ hd[h].wrap # "gone" => Answers(h) = sent[h]
        /\ hd[h].wrap = "gone" => Len(answered[h]) = Len(sent[h])
        /\ hd[h].told > 0 => answered[h] = sent[h]

\* A closed handle is finished and its wrap deleted, whatever the program and
\* the other handles do.
CloseEnds ==
    \A h \in Handles : hd[h].wrap = "closing" ~> hd[h].wrap = "gone"
=============================================================================
