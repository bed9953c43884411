------------------------------ MODULE Debugger ------------------------------
(***************************************************************************)
(* How another process makes node start the agent of V8's debugger, by a   *)
(* signal on POSIX and by a thread it starts inside node on Windows, and   *)
(* how messages for the debugger reach the thread of JavaScript.           *)
(***************************************************************************)
EXTENDS Integers, FiniteSets

CONSTANTS Debuggers,    \* processes that call process._debugProcess
          Together,     \* whether two of them may be at work at once on Windows
          MaxMessages   \* bound: messages of the client

VARIABLES platform,     \* "posix" or "windows"
          useAgent,     \* node was started with --debug
          mapping,      \* of the handler's address: "none", "made" or "set"
          signalled,    \* SIGUSR1 is pending
          thread,       \* in node, of each debugger, of "signal" and of "main": its place
          running,      \* debugger_running
          agents,       \* agents started
          breaks,       \* V8 was asked to break
          pc, open,     \* of each debugger: its place, and the handles it has open
          queue,        \* messages V8 has queued
          taken,        \* messages the client has sent
          agent,        \* place of the debug thread: "read" or "dispatch"
          sent,         \* debug_watcher is pending
          loop          \* place of the thread of JavaScript: "loop" or "process"

debugVars == <<platform, useAgent, mapping, signalled, thread, running, agents, breaks,
               pc, open, queue, taken, agent, sent, loop>>

nodeVars == <<thread, running, agents, breaks>>
debuggerVars == <<pc, open>>
messageVars == <<queue, taken, agent, sent, loop>>

Goto(t, place) == thread' = [thread EXCEPT ![t] = place]
Bystanders == UNCHANGED <<platform, useAgent, mapping, signalled, debuggerVars, messageVars>>
-----------------------------------------------------------------------------
(* In node.                                                                *)

\* EnableDebug, at the start of main, in the handler of the signal, or in a
\* thread of a debugger: V8 starts an agent if it has none, and node notes it.
EnableDebug(t) ==
    \/ /\ thread[t] = "enable"
       /\ Goto(t, IF agents = 0 THEN "create" ELSE "note")
       /\ UNCHANGED <<running, agents, breaks>>
    \/ /\ thread[t] = "create"
       /\ agents' = agents + 1 /\ Goto(t, "note")
       /\ UNCHANGED <<running, breaks>>
    \/ /\ thread[t] = "note"
       /\ running' = TRUE
       /\ Goto(t, IF t \in Debuggers THEN "break" ELSE "ended")
       /\ UNCHANGED <<agents, breaks>>

\* Init: the agent at once, or the means to start it later.
Start ==
    /\ thread["main"] = "init"
    /\ IF useAgent
       THEN Goto("main", "enable") /\ UNCHANGED <<mapping, running, agents, breaks>>
       ELSE /\ Goto("main", IF platform = "windows" THEN "register" ELSE "ended")
            /\ UNCHANGED <<mapping, running, agents, breaks>>
    /\ UNCHANGED <<platform, useAgent, signalled, debuggerVars, messageVars>>

\* RegisterDebugSignalHandler: the address goes into a mapping with a name, the
\* handle to which stays open.
RegisterDebugSignalHandler ==
    /\ \/ /\ thread["main"] = "register" /\ mapping' = "made" /\ Goto("main", "set")
       \/ /\ thread["main"] = "set" /\ mapping' = "set" /\ Goto("main", "ended")
       \/ /\ thread["main"] \in {"register", "set"}
          /\ mapping' = "none" /\ Goto("main", "ended")
    /\ UNCHANGED <<platform, useAgent, signalled, running, agents, breaks,
                   debuggerVars, messageVars>>

\* The handler of SIGUSR1, with all signals blocked while it runs.
EnableDebugSignalHandler ==
    /\ signalled /\ thread["signal"] = "ended" /\ thread["main"] = "ended" /\ ~useAgent
    /\ signalled' = FALSE
    /\ breaks' = TRUE
    /\ Goto("signal", IF running THEN "ended" ELSE "enable")
    /\ UNCHANGED <<platform, useAgent, mapping, running, agents, debuggerVars, messageVars>>

\* The thread that a debugger has started.
EnableDebugThreadProc(d) ==
    /\ \/ /\ thread[d] = "test"
          /\ Goto(d, IF running THEN "break" ELSE "enable")
          /\ UNCHANGED breaks
       \/ /\ thread[d] = "break"
          /\ breaks' = TRUE /\ Goto(d, "ended")
    /\ UNCHANGED <<running, agents>>
-----------------------------------------------------------------------------
(* In a debugger.                                                          *)

Step(d, from, to, handles) ==
    /\ pc[d] = from
    /\ pc' = [pc EXCEPT ![d] = to]
    /\ open' = [open EXCEPT ![d] = @ \cup handles]

\* process._debugProcess(pid) on POSIX, where node listens to the signal.
DebugProcessPosix(d) ==
    /\ platform = "posix" /\ thread["main"] = "ended" /\ ~useAgent
    /\ Step(d, "start", "done", {})
    /\ signalled' = TRUE
    /\ UNCHANGED <<platform, useAgent, mapping, nodeVars, messageVars>>

\* On Windows: node's process and mapping are opened, the mapping is viewed, a
\* thread started at the address in it and waited for; each of these may fail.
\* (One whose wait fails leaves its thread at work beside that of the next.)
DebugProcess(d) ==
    /\ platform = "windows"
    /\ \/ /\ Together \/ \A e \in Debuggers : pc[e] \in {"start", "done"}
          /\ Step(d, "start", "process", {"process"})
          /\ UNCHANGED thread
       \/ /\ mapping # "none" /\ Step(d, "process", "mapping", {"mapping"})
          /\ UNCHANGED thread
       \/ /\ Step(d, "mapping", IF mapping = "set" THEN "view" ELSE "out", {"view"})
          /\ UNCHANGED thread
       \/ Step(d, "view", "wait", {"thread"}) /\ Goto(d, "test")
       \/ thread[d] = "ended" /\ Step(d, "wait", "out", {}) /\ UNCHANGED thread
       \/ /\ \E at \in {"process", "mapping", "view"} \cup (IF Together THEN {"wait"} ELSE {}) :
               Step(d, at, "out", {})
          /\ UNCHANGED thread
    /\ UNCHANGED <<platform, useAgent, mapping, signalled, running, agents, breaks, messageVars>>

\* out: whatever is open is closed.
Out(d) ==
    /\ pc[d] = "out"
    /\ pc' = [pc EXCEPT ![d] = "done"]
    /\ open' = [open EXCEPT ![d] = @ \ {"process", "thread", "view", "mapping"}]
    /\ UNCHANGED <<platform, useAgent, mapping, signalled, nodeVars, messageVars>>
-----------------------------------------------------------------------------
(* Messages.                                                               *)

Elsewhere == UNCHANGED <<platform, useAgent, mapping, signalled, nodeVars, debuggerVars>>

\* V8's debug thread queues a message of the client, and then calls node.
Receive ==
    /\ agents > 0 /\ agent = "read" /\ taken < MaxMessages
    /\ queue' = queue + 1 /\ taken' = taken + 1 /\ agent' = "dispatch"
    /\ UNCHANGED <<sent, loop>> /\ Elsewhere

\* The watcher is woken; once more makes no difference to a pending one.
DebugMessageDispatch ==
    /\ agent = "dispatch" /\ agent' = "read"
    /\ sent' = TRUE
    /\ UNCHANGED <<queue, taken, loop>> /\ Elsewhere

\* In the loop: the watcher is no longer pending when its callback is called, and
\* that has V8 process all messages it finds.
DebugMessageCallback ==
    /\ \/ /\ loop = "loop" /\ sent
          /\ sent' = FALSE /\ loop' = "process"
          /\ UNCHANGED queue
       \/ /\ loop = "process" /\ loop' = "loop"
          /\ queue' = 0
          /\ UNCHANGED sent
    /\ UNCHANGED <<taken, agent>> /\ Elsewhere
-----------------------------------------------------------------------------
Threads == Debuggers \cup {"main", "signal"}

DebugInit ==
    /\ platform \in {"posix", "windows"} /\ useAgent \in BOOLEAN
    /\ mapping = "none" /\ signalled = FALSE
    /\ thread = [t \in Threads |-> IF t = "main" THEN "init"
                                   ELSE IF t = "signal" THEN "ended" ELSE "none"]
    /\ running = FALSE /\ agents = 0 /\ breaks = FALSE
    /\ pc = [d \in Debuggers |-> "start"] /\ open = [d \in Debuggers |-> {}]
    /\ queue = 0 /\ taken = 0 /\ agent = "read" /\ sent = FALSE /\ loop = "loop"

DebugNext ==
    \/ Start \/ RegisterDebugSignalHandler \/ EnableDebugSignalHandler
    \/ \E t \in Threads : EnableDebug(t) /\ Bystanders
    \/ \E d \in Debuggers : EnableDebugThreadProc(d) /\ Bystanders
    \/ \E d \in Debuggers : DebugProcessPosix(d) \/ DebugProcess(d) \/ Out(d)
    \/ Receive \/ DebugMessageDispatch \/ DebugMessageCallback
-----------------------------------------------------------------------------
DebugTypeOK ==
    /\ mapping \in {"none", "made", "set"}
    /\ thread \in [Threads -> {"none", "init", "register", "set", "test", "enable", "create",
                               "note", "break", "ended"}]
    /\ agents \in 0..Cardinality(Threads)
    /\ open \in [Debuggers -> SUBSET {"process", "mapping", "view", "thread"}]
    /\ queue \in 0..MaxMessages /\ taken \in 0..MaxMessages

\* However often node is asked to, it starts one agent; who has asked it, and not
\* failed, finds one started.
OneAgent == /\ agents <= 1
            /\ \A t \in Threads : thread[t] = "break" => running
            /\ running => agents = 1

\* A debugger that has done leaves no handle open, and the thread it starts runs
\* at an address that was set.
HandlesClosed == /\ \A d \in Debuggers : pc[d] = "done" => open[d] = {}
                 /\ \A d \in Debuggers : thread[d] # "none" => mapping = "set"

\* No message is forgotten: while one is queued the loop is processing, or is
\* going to, or the debug thread is about to wake it.
NoMessageForgotten == queue > 0 => sent \/ loop = "process" \/ agent = "dispatch"

=============================================================================
