----------------------------- MODULE MCEventLoop -----------------------------
(***************************************************************************)
(* One instance for TLC of the parts of the Node.js runtime around its     *)
(* event loop.  They share no state: each behaviour is one of the part     *)
(* that `part` names, while the others stay as they began.                 *)
(***************************************************************************)
EXTENDS ThreadPool

CONSTANTS Handles, Reqs, Kinds, Persistent, NoHandle, \* Handles
          Queries, Errors, MaxTries, NoQuery,         \* Resolver
          Samples, Looked, Fast, Wait, MaxGarbage, MaxEvents  \* IdleCollector

VARIABLES part,
          hd, handleRefs, sent, answeredReqs, cb,
          dns, calling, ending, pending, dnsSocket, ticking, errno, nextTicks, status, called,
          timer, idle, tickTimes, head, garbage, phase, due, expired, events, woken

H == INSTANCE Handles WITH refs <- handleRefs, answered <- answeredReqs
D == INSTANCE Resolver WITH socket <- dnsSocket
I == INSTANCE IdleCollector

hVars == <<hd, handleRefs, sent, answeredReqs, cb>>
dVars == <<dns, calling, ending, pending, dnsSocket, ticking, errno, nextTicks, status, called>>
iVars == <<timer, idle, tickTimes, head, garbage, phase, due, expired, events, woken>>
vars == <<part, loopVars, hVars, dVars, iVars>>

Init == /\ part \in {"pool", "handles", "dns", "idle"}
        /\ LoopInit /\ H!HandleInit /\ D!DnsInit /\ I!IdleInit

Next == /\ UNCHANGED part
        /\ IF part = "pool" THEN LoopNext ELSE UNCHANGED loopVars
        /\ IF part = "handles" THEN H!HandleNext ELSE UNCHANGED hVars
        /\ IF part = "dns" THEN D!DnsNext ELSE UNCHANGED dVars
        /\ IF part = "idle" THEN I!IdleNext ELSE UNCHANGED iVars

\* The fairness of each part; what only this process does before it has begun
\* to wait is asked of the behaviours of its own.
PoolFairness ==
    /\ WF_loopVars(part = "pool" /\ Return) /\ WF_loopVars(Take)
    /\ \A w \in Work : WF_loopVars(Finish(w))
    /\ WF_loopVars(After \/ PollEnds) /\ WF_loopVars(TickCallback \/ TickEnds)
    /\ SF_loopVars(WantPoll) /\ SF_loopVars(DonePoll)
    /\ WF_loopVars(part = "pool" /\ IdlePoll) /\ SF_loopVars(Tick)

Spec == Init /\ [][Next]_vars /\ PoolFairness /\ H!HandleFairness /\ D!DnsFairness
          /\ I!IdleFairness
-----------------------------------------------------------------------------
\* Types of the state of each part.
TypesOK == LoopTypeOK /\ H!HandlesTypeOK /\ D!DnsTypeOK /\ I!IdleTypeOK

\* What is given to nextTick runs in that order, each once, also when one of
\* them throws; and the loop ends with every request answered and every such
\* function run.
TicksRunInOrder == TicksInOrder /\ NothingLeftAtExit

\* A closed handle is finished and its wrap deleted, every query that does not
\* throw is answered, what nextTick was given runs, and a process that has nothing
\* more to do lets its heap be compacted and then sleeps.
EverythingEnds == H!CloseEnds /\ D!CallsAnswered /\ TicksRun /\ I!GoesQuiet

\* The callback of a query is called at most once, never inside the call that
\* asks, and with the error of its own query whatever the others did to errno;
\* and the loop listens for answers just while a query waits.
OwnAnswerOnce == D!OwnAnswerOnce /\ D!WatchedWhileWaiting

=============================================================================
