----------------------------- MODULE ThreadPool -----------------------------
(***************************************************************************)
(* The event loop of the Node.js runtime, the thread pool behind fs, zlib  *)
(* and crypto, and process.nextTick (src/node_v0.6.19/node/: src/node.cc,  *)
(* src/node_file.cc, src/node_crypto.cc, deps/uv/src/unix/uv-eio.c and     *)
(* eio/eio.c, src/node.js). Workers take requests from one queue and put   *)
(* results into another; they wake the main thread only when that queue    *)
(* was empty. The main thread polls a bounded number of results at a time  *)
(* and starts an idle watcher when some are left. The loop ends when       *)
(* nothing refers to it any more.                                          *)
(***************************************************************************)
EXTENDS Integers, Sequences, FiniteSets

CONSTANTS Work,      \* the requests the program may make
          Ticks,     \* the functions it may give to nextTick
          Threads,   \* workers of the pool
          MaxPoll    \* eio_set_max_poll_reqs

ASSUME PoolAssumption == Threads \in Nat \ {0} /\ MaxPoll \in Nat \ {0}

VARIABLES reqs,      \* req_queue
          running,   \* requests a worker executes
          ress,      \* res_queue
          answered,  \* requests whose callback has been called, in order (history)
          started,   \* has uv_eio_init run?
          want,      \* uv_eio_want_poll_notifier has been sent
          done,      \* uv_eio_done_poll_notifier has been sent
          poller,    \* is the idle watcher uv_eio_poller active?
          refs,      \* uv_ref less uv_unref, and other handles that are active
          socket,    \* is there another handle that keeps the loop alive?
          main,      \* the main thread
          needTick,  \* need_tick_cb
          spinner,   \* is tick_spinner active?
          ticks,     \* nextTickQueue
          tickIndex, \* nextTickIndex
          asked,     \* functions given to nextTick, in order (history)
          ran        \* functions that have been called, in order (history)
poolVars  == <<reqs, running, ress, answered, started, want, done, poller>>
tickVars  == <<needTick, spinner, ticks, tickIndex, asked, ran>>
loopVars  == <<poolVars, tickVars, refs, socket, main>>

\* at: "loop" between callbacks, "poll" in eio_poll, "js" in a callback, "tick"
\* in _tickCallback, "exited" after uv_run, "killed" by an uncaught exception.
\* via: the watcher that polls. left: results it may still take. last: length
\* of the queue when _tickCallback began. from: where a callback returns to.
AtLoop == [at |-> "loop", via |-> "none", left |-> 0, last |-> 0, from |-> "loop"]

LoopInit ==
    /\ reqs = <<>> /\ running = {} /\ ress = <<>> /\ answered = <<>>
    /\ started = FALSE
    /\ want = FALSE /\ done = FALSE /\ poller = FALSE
    /\ refs = 1 /\ socket = TRUE
    /\ main = [AtLoop EXCEPT !.at = "js"]           \* node::Load runs the program
    /\ needTick = FALSE /\ spinner = FALSE
    /\ ticks = <<>> /\ tickIndex = 0 /\ asked = <<>> /\ ran = <<>>

Elems(s) == {s[i] : i \in DOMAIN s}
Made == Elems(reqs) \cup running \cup Elems(ress) \cup Elems(answered)
B(b) == IF b THEN 1 ELSE 0

-----------------------------------------------------------------------------
(* What a callback of the program may do *)

\* An asynchronous call of fs, zlib, randomBytes or PBKDF2 (ASYNC_CALL,
\* uv_queue_work). The first one starts the pool, with its poller active.
Submit(w) ==
    /\ main.at = "js"
    /\ w \notin Made
    /\ reqs' = Append(reqs, w)
    /\ started' = TRUE
    /\ poller' = (poller \/ ~started)
    /\ refs' = refs + 1 + B(~started)
    /\ UNCHANGED <<running, ress, answered, want, done, tickVars, socket, main>>

\* StartTickSpinner: the spinner keeps the loop alive until the next Tick.
StartTickSpinner ==
    /\ needTick' = TRUE
    /\ spinner' = TRUE
    /\ refs' = refs + B(~spinner)

NextTick(t) ==
    /\ main.at = "js"
    /\ t \notin Elems(asked)
    /\ ticks' = Append(ticks, t)
    /\ asked' = Append(asked, t)
    /\ StartTickSpinner
    /\ UNCHANGED <<poolVars, tickIndex, ran, socket, main>>

CloseSocket ==
    /\ main.at = "js"
    /\ socket
    /\ socket' = FALSE
    /\ refs' = refs - 1
    /\ UNCHANGED <<poolVars, tickVars, main>>

\* The callback returns to eio_poll, to _tickCallback or to the loop.
Return ==
    /\ main.at = "js"
    /\ main' = [main EXCEPT !.at = main.from]
    /\ UNCHANGED <<poolVars, tickVars, refs, socket>>

\* Mutant: after the listeners of uncaughtException nobody asks for a Tick.
ThrowQuietly ==
    /\ main.at = "js"
    /\ main' = [main EXCEPT !.at = IF main.from = "tick" THEN "loop" ELSE main.from]
    /\ UNCHANGED <<poolVars, tickVars, refs, socket>>

\* It throws: FatalException ends the process, or calls the listeners of
\* uncaughtException and makes sure of another Tick. _tickCallback ends there
\* and keeps its place in the queue; eio_poll goes on.
Throw ==
    /\ main.at = "js"
    /\ \/ /\ main' = [main EXCEPT !.at = "killed"]
          /\ UNCHANGED <<needTick, spinner, refs>>
       \/ /\ main' = [main EXCEPT !.at = IF main.from = "tick" THEN "loop" ELSE main.from]
          /\ StartTickSpinner
    /\ UNCHANGED <<poolVars, ticks, tickIndex, asked, ran, socket>>

-----------------------------------------------------------------------------
(* The workers *)

Take ==
    /\ reqs # <<>> /\ Cardinality(running) < Threads
    /\ running' = running \cup {Head(reqs)}
    /\ reqs' = Tail(reqs)
    /\ UNCHANGED <<ress, answered, started, want, done, poller, tickVars, refs, socket, main>>

\* The result is queued; the main thread is woken if the queue was empty.
Finish(w) ==
    /\ w \in running
    /\ running' = running \ {w}
    /\ ress' = Append(ress, w)
    /\ want' = (want \/ ress = <<>>)
    /\ UNCHANGED <<reqs, answered, started, done, poller, tickVars, refs, socket, main>>

-----------------------------------------------------------------------------
(* The loop *)

Poll(via) == main' = [AtLoop EXCEPT !.at = "poll", !.via = via, !.left = MaxPoll]

WantPoll ==
    /\ main.at = "loop" /\ want
    /\ want' = FALSE
    /\ Poll("want")
    /\ UNCHANGED <<reqs, running, ress, answered, started, done, poller, tickVars, refs, socket>>

DonePoll ==
    /\ main.at = "loop" /\ done
    /\ done' = FALSE
    /\ Poll("done")
    /\ UNCHANGED <<reqs, running, ress, answered, started, want, poller, tickVars, refs, socket>>

IdlePoll ==
    /\ main.at = "loop" /\ poller
    /\ Poll("idle")
    /\ UNCHANGED <<poolVars, tickVars, refs, socket>>

\* eio_poll takes a result; the reference of the request is given back and
\* its callback runs (uv__fs_after and After, EIO_PBKDF2After, ...).
After ==
    /\ main.at = "poll" /\ main.left > 0 /\ ress # <<>>
    /\ ress' = Tail(ress)
    /\ done' = (done \/ Tail(ress) = <<>>)
    /\ answered' = Append(answered, Head(ress))
    /\ refs' = refs - 1
    /\ main' = [main EXCEPT !.at = "js", !.left = @ - 1, !.from = "poll"]
    /\ UNCHANGED <<reqs, running, started, want, poller, tickVars, socket>>

\* Mutant: results that are left wait for the next notification.
PollEndsLeaving ==
    /\ main.at = "poll"
    /\ main.left = 0 \/ ress = <<>>
    /\ poller' = IF main.via = "want" THEN poller ELSE poller /\ main.left = 0
    /\ refs' = refs + B(poller') - B(poller)
    /\ main' = AtLoop
    /\ UNCHANGED <<reqs, running, ress, answered, started, want, done, tickVars, socket>>

\* Mutant: the reference is given back whether or not the poller held one.
PollEndsUnref ==
    /\ main.at = "poll"
    /\ main.left = 0 \/ ress = <<>>
    /\ poller' = (main.left = 0)
    /\ refs' = refs - B(~poller')
    /\ main' = AtLoop
    /\ UNCHANGED <<reqs, running, ress, answered, started, want, done, tickVars, socket>>

\* eio_poll returns -1 when it has taken all it may. The notifier of waiting
\* results then starts the poller; the other two stop it when it is 0.
PollEnds ==
    /\ main.at = "poll"
    /\ main.left = 0 \/ ress = <<>>
    /\ poller' = IF main.via = "want" THEN poller \/ main.left = 0
                 ELSE poller /\ main.left = 0
    /\ refs' = refs + B(poller') - B(poller)
    /\ main' = AtLoop
    /\ UNCHANGED <<reqs, running, ress, answered, started, want, done, tickVars, socket>>

\* PrepareTick, CheckTick and Spin.
Tick ==
    /\ main.at = "loop" /\ needTick
    /\ needTick' = FALSE
    /\ spinner' = FALSE
    /\ refs' = refs - B(spinner)
    /\ main' = IF ticks = <<>> THEN main
               ELSE [AtLoop EXCEPT !.at = "tick", !.last = Len(ticks), !.from = "tick"]
    /\ UNCHANGED <<poolVars, ticks, tickIndex, asked, ran, socket>>

\* _tickCallback calls the functions that were there when it began.
TickCallback ==
    /\ main.at = "tick" /\ tickIndex < main.last
    /\ ran' = Append(ran, ticks[tickIndex + 1])
    /\ tickIndex' = tickIndex + 1
    /\ main' = [main EXCEPT !.at = "js"]
    /\ UNCHANGED <<poolVars, needTick, spinner, ticks, asked, refs, socket>>

\* Mutant: nextTickIndex stays where it is.
TickEndsKeeping ==
    /\ main.at = "tick" /\ tickIndex >= main.last
    /\ ticks' = SubSeq(ticks, tickIndex + 1, Len(ticks))
    /\ main' = AtLoop
    /\ UNCHANGED <<poolVars, needTick, spinner, tickIndex, asked, ran, refs, socket>>

TickEnds ==
    /\ main.at = "tick" /\ tickIndex >= main.last
    /\ ticks' = SubSeq(ticks, tickIndex + 1, Len(ticks))
    /\ tickIndex' = 0
    /\ main' = AtLoop
    /\ UNCHANGED <<poolVars, needTick, spinner, asked, ran, refs, socket>>

\* An event of another handle calls the program.
OtherEvent ==
    /\ main.at = "loop" /\ socket
    /\ main' = [AtLoop EXCEPT !.at = "js"]
    /\ UNCHANGED <<poolVars, tickVars, refs, socket>>

\* uv_run returns when nothing refers to the loop.
Exit ==
    /\ main.at = "loop" /\ refs = 0
    /\ main' = [main EXCEPT !.at = "exited"]
    /\ UNCHANGED <<poolVars, tickVars, refs, socket>>

MainStep == Return \/ WantPoll \/ DonePoll \/ IdlePoll \/ After \/ PollEnds
               \/ Tick \/ TickCallback \/ TickEnds

LoopNext ==
    \/ \E w \in Work : Submit(w) \/ Finish(w)
    \/ \E t \in Ticks : NextTick(t)
    \/ CloseSocket \/ Throw \/ Take \/ MainStep \/ OtherEvent \/ Exit

\* Callbacks return, workers go on, and libev comes to the notifiers that are
\* pending and to the watchers of the ticks while other events come between
\* them for ever. The idle watcher it runs only when nothing else is pending
\* (idle_reify): steady events of other handles may keep it waiting.
LoopFairness ==
    /\ WF_loopVars(Return) /\ WF_loopVars(Take)
    /\ \A w \in Work : WF_loopVars(Finish(w))
    /\ WF_loopVars(After \/ PollEnds) /\ WF_loopVars(TickCallback \/ TickEnds)
    /\ SF_loopVars(WantPoll) /\ SF_loopVars(DonePoll) /\ WF_loopVars(IdlePoll)
    /\ SF_loopVars(Tick)

LoopSpec == LoopInit /\ [][LoopNext]_loopVars /\ LoopFairness
-----------------------------------------------------------------------------
(* Properties *)

\* Types of the state of the loop.
LoopTypeOK ==
    /\ reqs \in Seq(Work) /\ ress \in Seq(Work) /\ answered \in Seq(Work)
    /\ running \subseteq Work
    /\ started \in BOOLEAN /\ want \in BOOLEAN /\ done \in BOOLEAN /\ poller \in BOOLEAN
    /\ refs \in Nat /\ socket \in BOOLEAN
    /\ main \in [at: {"loop", "poll", "js", "tick", "exited", "killed"},
                 via: {"none", "want", "done", "idle"}, left: 0 .. MaxPoll, last: Nat,
                 from: {"loop", "poll", "tick"}]
    /\ needTick \in BOOLEAN /\ spinner \in BOOLEAN
    /\ ticks \in Seq(Ticks) /\ tickIndex \in Nat
    /\ asked \in Seq(Ticks) /\ ran \in Seq(Ticks)

\* The loop ends only when nothing is left to do: every request is answered
\* and every function given to nextTick has run. (node.cc: tick_spinner keeps
\* "the event loop alive long enough"; each request holds a reference.)
NothingLeftAtExit ==
    main.at = "exited" => /\ reqs = <<>> /\ running = {} /\ ress = <<>>
                          /\ ran = asked /\ ~socket

\* The functions given to nextTick run in that order, each once, also when
\* one of them throws and the rest run in a later Tick.
TicksInOrder == ran = SubSeq(asked, 1, Len(ran))

\* The pool keeps the promise of a work queue: whatever the workers and the
\* polls do between each other, no wake-up is lost and no request is answered
\* twice, or early, or never; the last unless events of other handles keep the
\* idle watcher, which fetches what one poll leaves, from its turn for ever.
Status(w) ==
    IF w \in Elems(answered) THEN "answered"
    ELSE IF w \in Elems(ress) THEN "done"
    ELSE IF w \in Elems(reqs) \cup running THEN "submitted"
    ELSE "new"

Queue == INSTANCE WorkQueue WITH
    status <- [w \in Work |-> Status(w)],
    over <- main.at \in {"exited", "killed"}

Starved == []<><<OtherEvent>>_loopVars

AnswersWork == Queue!WorkSpec /\ (Queue!Prompt \/ Starved)

\* A function given to nextTick runs, or the process is ended by an exception.
TicksRun == \A t \in Ticks : t \in Elems(asked) ~> t \in Elems(ran) \/ main.at = "killed"

=============================================================================
