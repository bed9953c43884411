------------------------------ MODULE Watchers ------------------------------
(***************************************************************************)
(* The watchers that sit on libev itself: IOWatcher, StatWatcher (behind   *)
(* fs.watchFile) and SignalWatcher (behind process.on('SIG...')).  Each is *)
(* an ObjectWrap: while it is started a reference keeps the collector off  *)
(* it; and libev's loop runs as long as its count is not zero.             *)
(***************************************************************************)
EXTENDS Integers, FiniteSets

CONSTANTS Objects,      \* watcher objects a program may come to make
          MaxListeners, \* bound on the listeners of the signal
          NoObject

VARIABLES watcher,       \* the objects
          loop,          \* activecnt of libev's loop
          statWatchers,  \* statWatchers[filename], for one file
          signalWatchers,\* signalWatchers[type], for one signal
          listeners      \* listeners of that signal

watcherVars == <<watcher, loop, statWatchers, signalWatchers, listeners>>

Unmade == [kind |-> "none", alive |-> FALSE, held |-> FALSE, active |-> FALSE,
           refs |-> 0, weak |-> FALSE, persistent |-> FALSE, callback |-> FALSE]

WatcherInit == /\ watcher = [o \in Objects |-> Unmade]
               /\ loop = 0
               /\ statWatchers = NoObject /\ signalWatchers = NoObject
               /\ listeners = 0

(***************************************************************************)
(* ObjectWrap.                                                             *)
(***************************************************************************)
Wrap(kind) == [Unmade EXCEPT !.kind = kind, !.alive = TRUE, !.held = TRUE, !.weak = TRUE]

Ref(w) == [w EXCEPT !.refs = @ + 1, !.weak = FALSE]

Unref(w) == [w EXCEPT !.refs = @ - 1, !.weak = w.refs = 1]

\* The object is gone when nothing but weak handles leads to it.
WeakCallback(o) ==
    /\ watcher[o].alive /\ watcher[o].weak /\ ~watcher[o].held
    /\ watcher' = [watcher EXCEPT ![o].alive = FALSE]
    /\ UNCHANGED <<loop, statWatchers, signalWatchers, listeners>>

(***************************************************************************)
(* IOWatcher.                                                              *)
(***************************************************************************)
IoStarted(w) == IF w.active THEN w ELSE Ref([w EXCEPT !.active = TRUE])

IoStopped(w) == IF w.active THEN Unref([w EXCEPT !.active = FALSE]) ELSE w

Count(w) == IF w.active THEN 1 ELSE 0

\* The watcher o becomes w; the loop counts it while it is active.
IoBecomes(o, w) == /\ watcher' = [watcher EXCEPT ![o] = w]
                   /\ loop' = loop + (Count(w) - Count(watcher[o]))
                   /\ UNCHANGED <<statWatchers, signalWatchers, listeners>>

Io(o) == watcher[o].kind = "io" /\ watcher[o].alive

IoNew(o) == watcher[o].kind = "none" /\ IoBecomes(o, Wrap("io"))

IoStart(o) == Io(o) /\ watcher[o].held /\ IoBecomes(o, IoStarted(watcher[o]))

IoStop(o) == Io(o) /\ watcher[o].held /\ IoBecomes(o, IoStopped(watcher[o]))

\* The program sets the property callback, to a function or to null.
IoSetCallback(o, on) == Io(o) /\ watcher[o].held /\ IoBecomes(o, [watcher[o] EXCEPT !.callback = on])

IoForget(o) == Io(o) /\ watcher[o].held /\ IoBecomes(o, [watcher[o] EXCEPT !.held = FALSE])

\* libev finds the descriptor ready: the function is called, and may do any of
\* the above; a watcher with no function stops itself.
IoCallback(o) == /\ watcher[o].kind = "io" /\ watcher[o].active
                 /\ ~watcher[o].callback
                 /\ IoBecomes(o, IoStopped(watcher[o]))

(***************************************************************************)
(* StatWatcher and fs.watchFile.  One that is not persistent gives back    *)
(* the count ev_stat_start took.                                           *)
(***************************************************************************)
Keeps(w) == IF w.persistent THEN 1 ELSE 0

StatStarted(w, persistent) == Ref([w EXCEPT !.active = TRUE, !.persistent = persistent])

\* Mutant: Stop asks for the count of any watcher, persistent or not.
StatStoppedCounting(w) ==
    [after |-> IF w.active THEN Unref([w EXCEPT !.active = FALSE]) ELSE w,
     count |-> IF w.active THEN 1 ELSE 0]

\* Stop, after its 'stop' event: the object after it, what the loop loses.
StatStopped(w) ==
    [after |-> IF w.active THEN Unref([w EXCEPT !.active = FALSE]) ELSE w,
     count |-> IF w.active THEN Keeps(w) ELSE 0]

WatchFile(o, persistent) ==
    /\ statWatchers = NoObject /\ watcher[o].kind = "none"
    /\ LET w == StatStarted(Wrap("stat"), persistent)
       IN watcher' = [watcher EXCEPT ![o] = w] /\ loop' = loop + Keeps(w)
    /\ statWatchers' = o
    /\ UNCHANGED <<signalWatchers, listeners>>

\* fs.unwatchFile, and stop() of the watcher that watchFile has returned, which
\* leaves it in the table.
StopStat(drop) ==
    /\ statWatchers # NoObject
    /\ LET stopped == StatStopped(watcher[statWatchers])
       IN /\ watcher' = [watcher EXCEPT ![statWatchers] =
                 IF drop THEN [stopped.after EXCEPT !.held = FALSE] ELSE stopped.after]
          /\ loop' = loop - stopped.count
    /\ statWatchers' = IF drop THEN NoObject ELSE statWatchers
    /\ UNCHANGED <<signalWatchers, listeners>>

UnwatchFile == StopStat(TRUE)

StatStop == StopStat(FALSE)

(***************************************************************************)
(* SignalWatcher and the signals among the events of process.  The loop    *)
(* never waits for a signal.                                               *)
(***************************************************************************)
SignalStarted(w) == IF w.active THEN w ELSE Ref([w EXCEPT !.active = TRUE])

SignalStopped(w) == IF w.active THEN Unref([w EXCEPT !.active = FALSE]) ELSE w

\* process.addListener.
AddListener(o) ==
    /\ listeners < MaxListeners
    /\ listeners' = listeners + 1
    /\ \/ /\ signalWatchers = NoObject /\ watcher[o].kind = "none"
          /\ watcher' = [watcher EXCEPT ![o] = SignalStarted(Wrap("signal"))]
          /\ signalWatchers' = o
       \/ /\ signalWatchers = o
          /\ watcher' = IF listeners' = 1 THEN [watcher EXCEPT ![o] = SignalStarted(@)] ELSE watcher
          /\ UNCHANGED signalWatchers
    /\ UNCHANGED <<loop, statWatchers>>

RemoveListener ==
    /\ listeners > 0
    /\ listeners' = listeners - 1
    /\ watcher' = IF listeners' = 0 THEN [watcher EXCEPT ![signalWatchers] = SignalStopped(@)] ELSE watcher
    /\ UNCHANGED <<loop, statWatchers, signalWatchers>>

\* process.removeAllListeners is not wrapped: the watcher stays started.
RemoveAllListeners ==
    /\ listeners > 0
    /\ listeners' = 0
    /\ UNCHANGED <<watcher, loop, statWatchers, signalWatchers>>

WatcherNext ==
    \/ \E o \in Objects : \/ IoNew(o) \/ IoStart(o) \/ IoStop(o) \/ IoForget(o) \/ IoCallback(o)
                          \/ \E on \in BOOLEAN : IoSetCallback(o, on)
                          \/ WeakCallback(o)
                          \/ \E p \in BOOLEAN : WatchFile(o, p)
                          \/ AddListener(o)
    \/ UnwatchFile \/ StatStop \/ RemoveListener \/ RemoveAllListeners

WatcherSpec == WatcherInit /\ [][WatcherNext]_watcherVars

-----------------------------------------------------------------------------
WatcherTypeOK ==
    /\ \A o \in Objects : watcher[o] \in
          [kind : {"none", "io", "stat", "signal"}, alive : BOOLEAN, held : BOOLEAN, active : BOOLEAN,
           refs : 0 .. 1, weak : BOOLEAN, persistent : BOOLEAN, callback : BOOLEAN]
    /\ loop \in 0 .. Cardinality(Objects)
    /\ {statWatchers, signalWatchers} \subseteq Objects \cup {NoObject}
    /\ listeners \in 0 .. MaxListeners

\* A started watcher is an object that is still there and that the collector
\* leaves alone, a stopped one is the collector's to take; the loop counts the
\* started watchers that shall keep it running, those alone; and a signal that
\* has a listener has a started watcher.
WatchersHoldLoop ==
    /\ \A o \in Objects : LET w == watcher[o]
                          IN /\ w.active => w.alive /\ w.refs = 1 /\ ~w.weak
                             /\ w.alive /\ ~w.active => w.weak
    /\ loop = Cardinality({o \in Objects : /\ watcher[o].active
                                           /\ \/ watcher[o].kind = "io"
                                              \/ watcher[o].kind = "stat" /\ watcher[o].persistent})
    /\ listeners > 0 => watcher[signalWatchers].active
=============================================================================
