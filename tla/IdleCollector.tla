---------------------------- MODULE IdleCollector ----------------------------
(***************************************************************************)
(* The collector of the idle process: a check watcher keeps the times of   *)
(* the last turns of the loop, and a timer going; after a while with few   *)
(* turns an idle watcher lets V8 compact its heap step by step, and then   *)
(* both stop, so that the process sleeps.                                  *)
(* A turn of the loop of libev: it sleeps, unless an idle watcher is       *)
(* active, and then calls the check watchers, the idle watchers if nothing *)
(* else has happened, the timers that have run out, and those of I/O.      *)
(***************************************************************************)
EXTENDS Integers

CONSTANTS Samples,     \* turns kept (RPM_SAMPLES)
          Looked,      \* pairs of turns that Check compares (GC_WAIT_TIME / FAST_TICK)
          Fast,        \* a turn so soon after the one before shows work (FAST_TICK)
          Wait,        \* period of the timer (GC_WAIT_TIME)
          MaxGarbage,  \* bound: steps V8 needs to compact the heap
          MaxEvents    \* bound: events that wake the process

VARIABLES timer,       \* time until gc_timer runs out, or Off
          idle,        \* gc_idle is active
          tickTimes,   \* how long ago each turn kept was
          head,        \* place of the turn that is kept next
          garbage,     \* steps of compaction left
          phase,       \* of the turn: "sleep", "check", "idle", "timer" or "callbacks"
          due, expired,\* gc_idle is called in this turn, gc_timer has run out
          events,      \* events so far
          woken        \* an event began this turn

idleVars == <<timer, idle, tickTimes, head, garbage, phase, due, expired, events, woken>>

Off == -1
Old == Wait + Fast     \* so long ago that no test tells it from longer

\* TICK_TIME(n): C divides negative numbers towards 0, so near the start of the
\* ring the index is negative, and what is read is memory before the ring.
TickTime(n, ring, h) == IF h >= n THEN {ring[h - n]} ELSE 0..Old

StartGCTimer == timer' = IF timer = Off THEN Wait ELSE timer
StopGCTimer == timer' = Off

\* The process sleeps for a time d; a timer that runs out starts again.
Sleep(d) ==
    /\ phase = "sleep" /\ phase' = "check"
    /\ idle => d = 0
    /\ expired' = (timer = d)
    /\ timer' = IF timer = Off THEN Off ELSE IF timer = d THEN Wait ELSE timer - d
    /\ tickTimes' = [k \in 0..Samples - 1 |->
                       IF tickTimes[k] + d > Old THEN Old ELSE tickTimes[k] + d]
    /\ UNCHANGED <<idle, head>>

\* An event ends the sleep.
Event == /\ events < MaxEvents /\ events' = events + 1
         /\ \E d \in 0..Wait : (timer # Off => d <= timer) /\ Sleep(d)
         /\ due' = FALSE
         /\ woken' = TRUE
         /\ UNCHANGED garbage

\* The timer ends it, or the idle watcher does not let it begin.
Turn == /\ idle \/ timer # Off
        /\ Sleep(IF idle THEN 0 ELSE timer)
        /\ due' = (idle /\ ~expired')
        /\ woken' = FALSE
        /\ UNCHANGED <<garbage, events>>

\* The check watcher: it notes the turn, keeps the timer going, and starts the
\* idle watcher unless one of the last pairs of turns was close together.
Check ==
    /\ phase = "check" /\ phase' = "idle"
    /\ StartGCTimer
    /\ LET ring == [tickTimes EXCEPT ![head] = 0]
           h == (head + 1) % Samples
       IN  /\ tickTimes' = ring /\ head' = h
           /\ \E t \in [1..Looked + 1 -> 0..Old] :
                /\ \A n \in 1..Looked + 1 : t[n] \in TickTime(n, ring, h)
                /\ idle' = (idle \/ \A n \in 1..Looked : t[n + 1] - t[n] >= Fast)
    /\ UNCHANGED <<garbage, due, expired, events, woken>>

\* The idle watcher: V8 goes on compacting, and says when it is done.
Idle ==
    /\ phase = "idle" /\ phase' = "timer"
    /\ IF due
       THEN /\ garbage' = IF garbage = 0 THEN 0 ELSE garbage - 1
            /\ IF garbage <= 1
               THEN idle' = FALSE /\ StopGCTimer /\ expired' = FALSE
               ELSE UNCHANGED <<idle, timer, expired>>
       ELSE UNCHANGED <<garbage, idle, timer, expired>>
    /\ UNCHANGED <<tickTimes, head, due, events, woken>>

\* The timer: a large heap is compacted at once, another when the last turns
\* but two are as long ago as the timer waits.
CheckStatus ==
    /\ phase = "timer" /\ phase' = "callbacks"
    /\ IF expired
       THEN \E large \in BOOLEAN, t \in TickTime(3, tickTimes, head) :
              idle' = (idle \/ large \/ t >= Wait)
       ELSE UNCHANGED idle
    /\ UNCHANGED <<timer, tickTimes, head, garbage, due, expired, events, woken>>

\* Last in the turn, the callback of the event: it may leave garbage.
Callbacks ==
    /\ phase = "callbacks" /\ phase' = "sleep"
    /\ \/ UNCHANGED garbage
       \/ woken /\ garbage' = MaxGarbage
    /\ UNCHANGED <<timer, idle, tickTimes, head, due, expired, events, woken>>

IdleInit == /\ timer = Off /\ idle = FALSE /\ due = FALSE /\ expired = FALSE
            /\ tickTimes = [k \in 0..Samples - 1 |-> Old] /\ head = 0
            /\ garbage = 0 /\ phase = "sleep" /\ events = 0 /\ woken = FALSE

IdleNext == Event \/ Turn \/ Check \/ Idle \/ CheckStatus \/ Callbacks

IdleFairness == WF_idleVars(Turn \/ Check \/ Idle \/ CheckStatus \/ Callbacks)
-----------------------------------------------------------------------------
IdleTypeOK == /\ timer \in 0..Wait \cup {Off} /\ idle \in BOOLEAN
              /\ tickTimes \in [0..Samples - 1 -> 0..Old] /\ head \in 0..Samples - 1
              /\ garbage \in 0..MaxGarbage
              /\ phase \in {"sleep", "check", "idle", "timer", "callbacks"}

\* When no event comes any more the process comes to sleep, with neither a timer
\* nor an idle watcher to wake it, whatever was read before the ring.
GoesQuiet == <>[](~idle /\ timer = Off)

=============================================================================
