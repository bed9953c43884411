------------------------------ MODULE Resolver ------------------------------
(***************************************************************************)
(* The dns module of the Node.js runtime: lib/dns.js over                  *)
(* src/node_v0.6.19/node/src/cares_wrap.cc, which asks c-ares              *)
(* (deps/uv/src/unix/cares.c, deps/uv/src/ares) for records and the thread *)
(* pool for getaddrinfo. c-ares may answer while it is being called; the   *)
(* error of an answer travels in the global variable errno.                *)
(*                                                                         *)
(* One turn of the event loop is several steps here, since the callback of *)
(* an application may call the module again before c-ares has finished     *)
(* with the query that is being answered. Two queries that one packet or   *)
(* one tick of the timer would end are ended by two turns.                 *)
(***************************************************************************)
EXTENDS Integers, Sequences, FiniteSets

CONSTANTS Queries,     \* the calls of the module
          Errors,      \* codes of c-ares but ARES_SUCCESS
          MaxTries,    \* times a query is sent before it is ETIMEOUT
          NoQuery

VARIABLES dns,         \* stage of each query; immediately: the API has returned
          calling,     \* the query whose API call is going on, or NoQuery
          ending,      \* the query c-ares is ending, or NoQuery
          pending,     \* the channel's queries, with the times they were sent
          socket,      \* the channel has its socket: the loop's ares task
          ticking,     \* the loop's timer for c-ares
          errno,       \* the global variable
          nextTicks,   \* callbacks handed to nextTick
          status,      \* how each query ended (history)
          called       \* what each callback was called with, and when (history)
dnsVars == <<dns, calling, ending, pending, socket, ticking, errno, nextTicks, status, called>>

Success == "SUCCESS"

DnsInit ==
    /\ dns = [q \in Queries |-> [stage |-> "new", immediately |-> FALSE]]
    /\ calling = NoQuery /\ ending = NoQuery
    /\ pending = [q \in {} |-> 0]
    /\ socket = FALSE /\ ticking = FALSE
    /\ errno = Success
    /\ nextTicks = <<>>
    /\ status = [q \in Queries |-> "none"]
    /\ called = [q \in Queries |-> <<>>]

\* A turn can begin.
Free == calling = NoQuery /\ ending = NoQuery

-----------------------------------------------------------------------------
(* Callbacks *)

\* The exception was made when the answer came.
Reason(t) == t.reason

CallBack(q, reason) == called' = [called EXCEPT ![q] = Append(@, [reason |-> reason, by |-> calling])]

\* Mutant: the callback is called during the API call.
AsyncCallbackAtOnce(q, reason) == CallBack(q, reason) /\ UNCHANGED nextTicks

\* makeAsync: during the API call the callback is left to nextTick.
AsyncCallback(q, reason) ==
    IF dns[q].immediately
    THEN CallBack(q, reason) /\ UNCHANGED nextTicks
    ELSE /\ nextTicks' = Append(nextTicks, [query |-> q, reason |-> reason])
         /\ UNCHANGED called

\* QueryWrap::Callback, ParseError or CallOnComplete, and onanswer: an error is
\* put into errno and taken from it at once.
Answered(q, s) ==
    /\ errno' = IF s = Success THEN errno ELSE s
    /\ status' = [status EXCEPT ![q] = s]
    /\ AsyncCallback(q, s)

RunTick ==
    /\ Free
    /\ nextTicks # <<>>
    /\ CallBack(Head(nextTicks).query, Reason(Head(nextTicks)))
    /\ nextTicks' = Tail(nextTicks)
    /\ UNCHANGED <<dns, calling, ending, pending, socket, ticking, errno, status>>

-----------------------------------------------------------------------------
(* A call of the API *)

Stage(q, s) == dns' = [dns EXCEPT ![q].stage = s]

\* An application calls, in a turn of its own or in a callback.
CallApi(q) ==
    /\ calling = NoQuery
    /\ dns[q].stage = "new"
    /\ Stage(q, "calling")
    /\ calling' = q
    /\ UNCHANGED <<ending, pending, socket, ticking, errno, nextTicks, status, called>>

During(q) == calling = q /\ dns[q].stage = "calling"

\* Send: c-ares opens its socket for the first query, which makes the loop
\* watch it and start the timer.
SendQuery(q) ==
    /\ During(q)
    /\ Stage(q, "sent")
    /\ pending' = [r \in DOMAIN pending \cup {q} |-> IF r = q THEN 1 ELSE pending[r]]
    /\ socket' = TRUE /\ ticking' = TRUE
    /\ UNCHANGED <<calling, ending, errno, nextTicks, status, called>>

\* c-ares answers from within ares_query: a bad name, no server, no memory.
\* lookup of no name or of an address calls back without asking anyone.
AnswerInCall(q, s) ==
    /\ During(q)
    /\ Stage(q, "over")
    /\ Answered(q, s)
    /\ UNCHANGED <<calling, ending, pending, socket, ticking>>

\* Query: Send refuses a name that is no address, getaddrinfo fails to start:
\* null is returned and the API throws.
Refuse(q, s) ==
    /\ During(q)
    /\ Stage(q, "thrown")
    /\ errno' = s
    /\ calling' = NoQuery
    /\ UNCHANGED <<ending, pending, socket, ticking, nextTicks, status, called>>

\* getaddrinfo in the thread pool.
GetAddrInfo(q) ==
    /\ During(q)
    /\ Stage(q, "thread")
    /\ UNCHANGED <<calling, ending, pending, socket, ticking, errno, nextTicks, status, called>>

ReturnWrap(q) ==
    /\ calling = q /\ dns[q].stage # "calling"
    /\ calling' = NoQuery
    /\ dns' = [dns EXCEPT ![q].immediately = TRUE]
    /\ UNCHANGED <<ending, pending, socket, ticking, errno, nextTicks, status, called>>

-----------------------------------------------------------------------------
(* Answers *)

\* end_query calls the callback first. A packet whose query has ended already
\* finds nothing; a reply that cannot be parsed is an error.
AresAnswer(q, s) ==
    /\ Free
    /\ q \in DOMAIN pending
    /\ ending' = q
    /\ Stage(q, "over")
    /\ Answered(q, s)
    /\ UNCHANGED <<calling, pending, socket, ticking>>

\* The timer: a query that has waited too long is sent again, or ended.
AresTimeout(q) ==
    /\ Free
    /\ ticking /\ q \in DOMAIN pending
    /\ IF pending[q] < MaxTries
       THEN /\ pending' = [pending EXCEPT ![q] = @ + 1]
            /\ UNCHANGED <<dns, ending, errno, nextTicks, status, called>>
       ELSE /\ ending' = q
            /\ Stage(q, "over")
            /\ Answered(q, "ETIMEOUT")
            /\ UNCHANGED pending
    /\ UNCHANGED <<calling, socket, ticking>>

\* What is in the channel after the callback.
Remaining(q) == DOMAIN pending \ {q}

\* The rest of end_query: without a query left the socket is closed, the task
\* removed and, being the last, the timer stopped.
EndQuery ==
    /\ calling = NoQuery /\ ending # NoQuery
    /\ LET rest == Remaining(ending) IN
       /\ pending' = [q \in DOMAIN pending \ {ending} |-> pending[q]]
       /\ socket' = (rest # {}) /\ ticking' = (rest # {})
    /\ ending' = NoQuery
    /\ UNCHANGED <<dns, calling, errno, nextTicks, status, called>>

AfterGetAddrInfo(q, s) ==
    /\ Free
    /\ dns[q].stage = "thread"
    /\ Stage(q, "over")
    /\ Answered(q, s)
    /\ UNCHANGED <<calling, ending, pending, socket, ticking>>

Statuses == Errors \cup {Success}

ServeQuery(q) ==
    \/ SendQuery(q) \/ GetAddrInfo(q) \/ ReturnWrap(q)
    \/ \E s \in Statuses : AnswerInCall(q, s)
    \/ \E s \in Errors : Refuse(q, s)

DnsNext ==
    \/ \E q \in Queries :
         \/ CallApi(q) \/ ServeQuery(q)
         \/ AresTimeout(q)
         \/ \E s \in Statuses : AresAnswer(q, s) \/ AfterGetAddrInfo(q, s)
    \/ EndQuery \/ RunTick

\* A call of the API comes to its end, ticks and the pool's answers are served,
\* and the timer of c-ares ticks while it is active. Packets may get lost.
DnsFairness ==
    /\ WF_dnsVars(EndQuery) /\ WF_dnsVars(RunTick)
    /\ \A q \in Queries :
         /\ WF_dnsVars(ServeQuery(q)) /\ WF_dnsVars(AresTimeout(q))
         /\ WF_dnsVars(\E s \in Statuses : AfterGetAddrInfo(q, s))

DnsSpec == DnsInit /\ [][DnsNext]_dnsVars /\ DnsFairness
-----------------------------------------------------------------------------
(* Properties *)

\* Types of the queries and the channel.
DnsTypeOK ==
    /\ \A q \in Queries : dns[q].stage \in {"new", "calling", "sent", "thread", "over", "thrown"}
    /\ {calling, ending} \subseteq Queries \cup {NoQuery}
    /\ DOMAIN pending \subseteq Queries
    /\ \A q \in DOMAIN pending : pending[q] \in 1 .. MaxTries
    /\ {socket, ticking} \subseteq BOOLEAN

\* A callback is called once, never before its API call has returned, and with
\* the error of its own query, whatever other queries did to errno; never when
\* the API has thrown.
OwnAnswerOnce ==
    \A q \in Queries :
      /\ Len(called[q]) =< 1
      /\ \A i \in DOMAIN called[q] :
           called[q][i].by # q /\ called[q][i].reason = status[q]
      /\ dns[q].stage \in {"new", "sent", "thread", "thrown"} => called[q] = <<>>

\* Between turns the loop watches the channel's socket and the timer ticks just
\* when a query waits: else an answer would not be read, or the loop not end.
WatchedWhileWaiting ==
    Free => (socket <=> DOMAIN pending # {}) /\ (ticking <=> DOMAIN pending # {})

\* Every call that does not throw is answered.
CallsAnswered ==
    \A q \in Queries : dns[q].stage = "calling" ~> (called[q] # <<>> \/ dns[q].stage = "thrown")
=============================================================================
