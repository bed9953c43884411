------------------------------ MODULE TlsPair ------------------------------
(***************************************************************************)
(* A TLS connection of the runtime: crypto::Connection                     *)
(* (src/node_v0.6.19/node/src/node_crypto.cc) between the two memory BIOs  *)
(* of OpenSSL, and the SecurePair of lib/tls.js that moves data through    *)
(* it. The cleartext stream belongs to the program, the encrypted one is   *)
(* piped to and from a socket. cycle() pulls and pushes both; every event  *)
(* it emits runs code of the program, which may call the streams again, so *)
(* cycle is re-entered and four locks say which of its parts are running.  *)
(* The stack of calls is explicit: its last frame acts.                    *)
(*                                                                         *)
(* A record of the TLS stream is one item: "hs" a flight of the handshake, *)
(* "close" the alert, "bad" a record that does not verify, else data. The  *)
(* peer is an OpenSSL that sends what the protocol allows. SNI, NPN and    *)
(* the certificates are left out.                                          *)
(***************************************************************************)
EXTENDS Integers, Sequences

CONSTANTS IsServer,    \* the sides that are modelled
          Writes,      \* what the program writes, in order
          PeerWrites,  \* what the peer's program writes, in order
          Renegs,      \* renegotiations the peer may start
          RenegLimit,  \* CLIENT_RENEG_LIMIT
          HighWater,   \* pending records from which write() returns false (128K)
          MaxPauses    \* bound on the calls of pause

VARIABLES pair,    \* SecurePair, its streams and its Connection
          stack,   \* the calls under way
          ticks,   \* process.nextTick
          sock,    \* the socket and the peer
          app      \* the program
tlsVars == <<pair, stack, ticks, sock, app>>

Sides == {"clear", "enc"}
Forward(w) == IF w = "clear" THEN "enc" ELSE "clear"

NewStream == [pending |-> <<>>, paused |-> FALSE, needDrain |-> FALSE,
              writable |-> TRUE, last |-> FALSE, done |-> FALSE]

\* need: flights still to come before SSL_is_init_finished. in, out: the BIOs.
NewConnection(server) ==
    [server |-> server, begun |-> FALSE, need |-> 2, in |-> <<>>, out |-> <<>>,
     error |-> FALSE, dead |-> FALSE, handshakes |-> 0]

TlsInit ==
    /\ \E server \in IsServer :
         pair = [done |-> FALSE, secure |-> FALSE, lock |-> {}, writeCalled |-> FALSE,
                 str |-> [w \in Sides |-> NewStream], ssl |-> NewConnection(server)]
    /\ stack = <<>>
    /\ ticks = <<"start">>
    /\ sock = [paused |-> FALSE, flights |-> 0, data |-> 0, bad |-> FALSE,
               alert |-> FALSE, eof |-> FALSE, got |-> <<>>]
    /\ app = [wrote |-> 0, got |-> <<>>, pauses |-> 0]

-----------------------------------------------------------------------------
(* Frames *)

Frame(fn, w) == [fn |-> fn, side |-> w, step |-> "start", depth |-> 0,
                 secure |-> FALSE, stage |-> 0, rv |-> 0, item |-> "none", chunk |-> <<>>]

Running(fn) == stack # <<>> /\ stack[Len(stack)].fn = fn
Top == stack[Len(stack)]
Below == SubSeq(stack, 1, Len(stack) - 1)
At(frame) == Append(Below, frame)         \* the last frame goes on as frame
Step(s) == [Top EXCEPT !.step = s]
Code == Frame("code", "clear")            \* a callback of the program

\* A call of cycle: nothing when the pair is done.
Cycle(p, depth) == IF p.done THEN <<>>
                   ELSE <<[Frame("cycle", "clear") EXCEPT !.depth = depth,
                                                          !.secure = p.secure]>>
Called(p) == IF p.done THEN p ELSE [p EXCEPT !.writeCalled = FALSE]

\* SecurePair.destroy: ssl.close() frees the SSL, and no stream may write.
Destroy(p) == [p EXCEPT !.done = TRUE,
                        !.str = [w \in Sides |-> [@[w] EXCEPT !.writable = FALSE]]]
Ended(p, q) == IF q.done /\ ~p.done THEN Append(ticks, "end") ELSE ticks

\* SecurePair.error: before the handshake is over the pair is destroyed; the
\* program hears of the error in both cases.
Fail(p) == IF p.secure THEN [p EXCEPT !.ssl.error = FALSE] ELSE Destroy(p)

\* CryptoStream._done of side w: the pair ends when both streams are done.
BothDone(p, w) == p.str[Forward(w)].done /\ ~p.done

\* Mutant: nobody looks whether the other stream is done.
MarkDoneAlone(p, w) == [p EXCEPT !.str[w].done = TRUE]

MarkDone(p, w) ==
    LET q == [p EXCEPT !.str[w].done = TRUE]
    IN IF BothDone(p, w) THEN Destroy(q) ELSE q
DoneCode(p, w) == IF BothDone(p, w) /\ ~p.secure THEN <<Code>> ELSE <<>>

\* The stage of cycle that a pull or a push is, and its end.
Stage(f) == <<f.fn, f.side>>
Unlock(p) == [p EXCEPT !.lock = @ \ {Stage(Top)}]

\* The lock is released when the stage has returned, after what it emitted.
LeaveStage ==
    /\ stack # <<>> /\ Top.step = "leave"
    /\ pair' = Unlock(pair)
    /\ stack' = Below
    /\ UNCHANGED <<ticks, sock, app>>

-----------------------------------------------------------------------------
(* SecurePair.cycle *)

Stages == <<<<"pull", "enc">>, <<"pull", "clear">>, <<"push", "clear">>, <<"push", "enc">>>>

\* Each stage runs under its lock, unless a call further out is in it.
CycleStage ==
    /\ Running("cycle")
    /\ Top.stage < 4
    /\ LET s == Stages[Top.stage + 1]
           next == [Top EXCEPT !.stage = @ + 1]
       IN IF s \in pair.lock
          THEN stack' = At(next) /\ UNCHANGED pair
          ELSE /\ pair' = [pair EXCEPT !.lock = @ \cup {s}]
               /\ stack' = Append(At(next), Frame(s[1], s[2]))
    /\ UNCHANGED <<ticks, sock, app>>

\* Once more when the handshake has ended meanwhile, or something was written.
Again(f) == (~f.secure /\ pair.secure) \/ (f.depth = 0 /\ pair.writeCalled)

CycleEnd ==
    /\ Running("cycle")
    /\ Top.stage = 4
    /\ stack' = IF Again(Top) THEN Below \o Cycle(pair, Top.depth + 1) ELSE Below
    /\ UNCHANGED <<pair, ticks, sock, app>>

-----------------------------------------------------------------------------
(* CryptoStream._pull: from the pending writes into the Connection *)

Pending == pair.str[Top.side].pending

\* EncIn: BIO_write takes all of it.
EncIn(p, item) == [p EXCEPT !.ssl.in = Append(@, item)]

PullEncrypted ==
    /\ Running("pull") /\ Top.side = "enc" /\ Top.step = "start"
    /\ ~pair.done /\ Pending # <<>> /\ Head(Pending) # "EOF"
    /\ pair' = EncIn([pair EXCEPT !.str["enc"].pending = Tail(@)], Head(Pending))
    /\ UNCHANGED <<stack, ticks, sock, app>>

PullClear ==
    /\ Running("pull") /\ Top.side = "clear" /\ Top.step = "start"
    /\ ~pair.done /\ Pending # <<>> /\ Head(Pending) # "EOF"
    /\ pair' = [pair EXCEPT !.str["clear"].pending = Tail(@)]
    /\ stack' = Append(At([Top EXCEPT !.step = "took", !.item = Head(Pending)]),
                       [Frame("ssl", "clear") EXCEPT !.step = "clearIn",
                                                     !.item = Head(Pending)])
    /\ UNCHANGED <<ticks, sock, app>>

\* Shutdown: the alert is written when no handshake is under way.
Shutdown(ssl) == IF ssl.need = 0 /\ ~ssl.dead THEN [ssl EXCEPT !.out = Append(@, "close")]
                 ELSE ssl

PullEnd ==
    /\ Running("pull") /\ Top.step = "start"
    /\ ~pair.done /\ Pending # <<>> /\ Head(Pending) = "EOF"
    /\ LET p == [pair EXCEPT !.str[Top.side].pending = Tail(@),
                             !.str[Forward(Top.side)].last = TRUE,
                             !.ssl = IF Top.side = "clear" THEN Shutdown(@) ELSE @]
       IN /\ pair' = Called(p)
          /\ stack' = At(Step("ending")) \o Cycle(p, 0)
    /\ UNCHANGED <<ticks, sock, app>>

PullEnded ==
    /\ Running("pull") /\ Top.step = "ending"
    /\ LET p == MarkDone(pair, Top.side)
       IN /\ pair' = p
          /\ ticks' = Ended(pair, p)
          /\ stack' = At(Step("leave")) \o DoneCode(pair, Top.side)
    /\ UNCHANGED <<sock, app>>

\* clearIn has returned: an error ends the pull; a write that did not go
\* through is put back; else its callback runs.
PullTook ==
    /\ Running("pull") /\ Top.step = "took"
    /\ \/ /\ ~pair.done /\ pair.ssl.error
          /\ pair' = Fail(pair)
          /\ ticks' = Ended(pair, pair')
          /\ stack' = Append(At(Step("leave")), Code)
       \/ /\ pair.done \/ ~pair.ssl.error
          /\ LET first == ~pair.done /\ ~pair.secure /\ pair.ssl.need = 0
             IN /\ pair' = [pair EXCEPT !.secure = @ \/ first]
                /\ stack' = IF first THEN Append(At(Step("secure")), Code) ELSE At(Step("secure"))
          /\ UNCHANGED ticks
    /\ UNCHANGED <<sock, app>>
\* Mutant: a write that did not go through is put behind the others.
PullWrittenLast ==
    /\ Running("pull") /\ Top.step = "secure"
    /\ IF Top.rv =< 0
       THEN /\ pair' = [pair EXCEPT !.str["clear"].pending = Append(@, Top.item)]
            /\ stack' = At(Step("drain"))
       ELSE /\ stack' = Append(At(Step("start")), Code)
            /\ UNCHANGED pair
    /\ UNCHANGED <<ticks, sock, app>>

PullWritten ==
    /\ Running("pull") /\ Top.step = "secure"
    /\ IF Top.rv =< 0
       THEN /\ pair' = [pair EXCEPT !.str["clear"].pending = <<Top.item>> \o @]
            /\ stack' = At(Step("drain"))
       ELSE /\ stack' = Append(At(Step("start")), Code)
            /\ UNCHANGED pair
    /\ UNCHANGED <<ticks, sock, app>>

PullDrain ==
    /\ Running("pull")
    /\ Top.step = "drain" \/ (Top.step = "start" /\ (pair.done \/ Pending = <<>>))
    /\ LET w == Top.side
           drained == /\ pair.str[w].needDrain /\ Pending = <<>>
                      /\ ~pair.str[Forward(w)].paused
       IN /\ pair' = [Unlock(pair) EXCEPT !.str[w].needDrain = @ /\ ~drained]
          /\ ticks' = IF drained THEN Append(ticks, w) ELSE ticks
    /\ stack' = Below
    /\ UNCHANGED <<sock, app>>

-----------------------------------------------------------------------------
(* CryptoStream._push: from the Connection to the listeners of 'data' *)

PushStops ==
    /\ Running("push") /\ Top.step = "start"
    /\ pair.str[Top.side].paused \/ (Top.side = "enc" /\ ~pair.str["enc"].writable)
    /\ pair' = Unlock(pair)
    /\ stack' = Below
    /\ UNCHANGED <<ticks, sock, app>>

PushClear ==
    /\ Running("push") /\ Top.side = "clear"
    /\ Top.step = "more" \/ (Top.step = "start" /\ ~pair.str["clear"].paused)
    /\ stack' = IF pair.done THEN At([Step("secure") EXCEPT !.rv = -1])
                ELSE Append(At([Step("took") EXCEPT !.rv = 0]),
                            [Frame("ssl", "clear") EXCEPT !.step = "clearOut"])
    /\ UNCHANGED <<pair, ticks, sock, app>>

\* EncOut: BIO_read of all there is. The socket takes it, and may ask for a
\* pause (a pipe pauses its source when the write returns false).
PushEncrypted ==
    /\ Running("push") /\ Top.side = "enc" /\ Top.step = "start"
    /\ ~pair.done /\ pair.ssl.out # <<>>
    /\ ~pair.str["enc"].paused /\ pair.str["enc"].writable
    /\ sock' = [sock EXCEPT !.got = @ \o pair.ssl.out]
    /\ \E full \in BOOLEAN :
         /\ full => app.pauses < MaxPauses
         /\ pair' = [pair EXCEPT !.ssl.out = <<>>, !.str["enc"].paused = full]
         /\ app' = [app EXCEPT !.pauses = @ + (IF full THEN 1 ELSE 0)]
    /\ UNCHANGED <<stack, ticks>>

\* clearOut has returned.
PushTook ==
    /\ Running("push") /\ Top.step = "took"
    /\ \/ /\ ~pair.done /\ pair.ssl.error
          /\ pair' = Fail(pair)
          /\ ticks' = Ended(pair, pair')
          /\ stack' = Append(At(Step("leave")), Code)
       \/ /\ pair.done \/ ~pair.ssl.error
          /\ LET first == ~pair.done /\ ~pair.secure /\ pair.ssl.need = 0
             IN /\ pair' = [pair EXCEPT !.secure = @ \/ first]
                /\ stack' = IF first THEN Append(At(Step("secure")), Code) ELSE At(Step("secure"))
          /\ UNCHANGED ticks
    /\ UNCHANGED <<sock, app>>

PushMore ==
    /\ Running("push") /\ Top.step = "secure" /\ Top.rv > 0
    /\ stack' = At([Step("more") EXCEPT !.chunk = Append(@, Top.item)])
    /\ UNCHANGED <<pair, ticks, sock, app>>

PushData ==
    /\ Running("push") /\ Top.step = "secure" /\ Top.rv =< 0
    /\ Top.chunk # <<>>
    /\ app' = [app EXCEPT !.got = @ \o Top.chunk]
    /\ stack' = Append(At([Step("start") EXCEPT !.chunk = <<>>]), Code)
    /\ UNCHANGED <<pair, ticks, sock>>
\* Nothing was read: a stream that was to end after its last push is done.
NothingRead ==
    \/ Top.side = "clear" /\ Top.step = "secure" /\ Top.rv =< 0 /\ Top.chunk = <<>>
    \/ /\ Top.side = "enc" /\ Top.step = "start"
       /\ ~pair.str["enc"].paused /\ pair.str["enc"].writable
       /\ pair.done \/ pair.ssl.out = <<>>

PushNothing ==
    /\ Running("push") /\ NothingRead
    /\ LET w == Top.side
           left == ~pair.done /\ w = "clear" /\ pair.ssl.in # <<>>
           last == pair.str[w].last /\ ~left
           p == IF last THEN MarkDone(pair, w) ELSE pair
       IN /\ pair' = p
          /\ ticks' = Ended(pair, p)
          /\ stack' = At(Step("leave")) \o (IF last THEN DoneCode(pair, w) ELSE <<>>)
    /\ UNCHANGED <<sock, app>>

-----------------------------------------------------------------------------
(* Calls of OpenSSL: start, clearIn and clearOut *)

Ssl == pair.ssl
Return(rv, item) ==
    IF Below = <<>> THEN <<>>
    ELSE [Below EXCEPT ![Len(Below)] = [@ EXCEPT !.rv = rv,
                                        !.item = IF item = "none" THEN @ ELSE item]]

\* The first SSL_accept or SSL_connect: a client says hello, a server calls
\* SSLInfoCallback (onhandshakestart) from inside.
SslBegin ==
    /\ Running("ssl") /\ ~Ssl.begun
    /\ pair' = [pair EXCEPT !.ssl.begun = TRUE,
                            !.ssl.out = IF Ssl.server THEN @ ELSE Append(@, "hs")]
    /\ stack' = IF Ssl.server THEN Append(stack, Frame("handshake", "clear")) ELSE stack
    /\ UNCHANGED <<ticks, sock, app>>
\* A flight of the peer. SSL_read finds the first one of a renegotiation.
Handshaking == Ssl.need > 0 \/ Top.step = "clearOut"

SslFlight ==
    /\ Running("ssl") /\ Ssl.begun /\ ~Ssl.dead /\ Handshaking
    /\ Ssl.in # <<>> /\ Head(Ssl.in) = "hs"
    /\ LET again == Ssl.need = 0
       IN /\ pair' = [pair EXCEPT
                !.ssl = [@ EXCEPT !.in = Tail(@), !.need = IF again THEN 1 ELSE @ - 1,
                                  !.out = IF Ssl.server \/ Ssl.need = 2
                                          THEN Append(@, "hs") ELSE @]]
          /\ stack' = IF again THEN Append(stack, Frame("handshake", "clear")) ELSE stack
    /\ UNCHANGED <<ticks, sock, app>>

\* A record that does not verify: HandleSSLError leaves the error for tls.js.
SslBad ==
    /\ Running("ssl") /\ Ssl.begun /\ ~Ssl.dead /\ Handshaking
    /\ Ssl.in # <<>> /\ Head(Ssl.in) = "bad"
    /\ pair' = [pair EXCEPT !.ssl = [@ EXCEPT !.in = Tail(@), !.dead = TRUE, !.error = TRUE]]
    /\ stack' = Return(-1, "none")
    /\ UNCHANGED <<ticks, sock, app>>

\* Nothing more to read: SSL_ERROR_WANT_READ.
SslWants ==
    /\ Running("ssl") /\ Ssl.begun
    /\ \/ Ssl.dead
       \/ Ssl.need > 0 /\ Ssl.in = <<>>
       \/ Top.step = "clearOut" /\ Ssl.need = 0 /\ Ssl.in = <<>>
    /\ stack' = Return(-1, "none")
    /\ UNCHANGED <<pair, ticks, sock, app>>

\* The alert of the peer makes SSL_read return 0.
SslRead ==
    /\ Running("ssl") /\ Top.step = "clearOut" /\ Ssl.begun /\ ~Ssl.dead
    /\ Ssl.need = 0
    /\ Ssl.in # <<>> /\ Head(Ssl.in) \notin {"hs", "bad"}
    /\ pair' = [pair EXCEPT !.ssl.in = Tail(@)]
    /\ stack' = IF Head(Ssl.in) = "close" THEN Return(0, "none") ELSE Return(1, Head(Ssl.in))
    /\ UNCHANGED <<ticks, sock, app>>

SslWritten ==
    /\ Running("ssl") /\ Ssl.begun /\ ~Ssl.dead /\ Ssl.need = 0
    /\ Top.step \in {"clearIn", "start"}
    /\ pair' = IF Top.step = "clearIn" THEN [pair EXCEPT !.ssl.out = Append(@, Top.item)]
               ELSE pair
    /\ stack' = Return(1, "none")
    /\ UNCHANGED <<ticks, sock, app>>
\* onhandshakestart counts; the error of too many is left to the next tick,
\* since "OpenSSL is not re-entrant" (tls.js:570-572).
OnHandshakeStart ==
    /\ Running("handshake")
    /\ LET n == Ssl.handshakes + 1
       IN /\ pair' = [pair EXCEPT !.ssl.handshakes = n]
          /\ ticks' = IF n > 1 /\ n >= RenegLimit THEN Append(ticks, "error") ELSE ticks
          /\ stack' = Below
    /\ UNCHANGED <<sock, app>>

-----------------------------------------------------------------------------
(* The program, in a callback or in an event of its own *)

InCode == Running("code") \/ stack = <<>>
Wait == UNCHANGED <<ticks, sock>>

\* CryptoStream.write: needDrain is decided when cycle has returned.
WriteCalls(w, item) ==
    LET p == [pair EXCEPT !.str[w].pending = Append(@, item), !.writeCalled = TRUE]
    IN /\ pair' = Called(p)
       /\ stack' = stack \o <<Frame("write", w)>> \o Cycle(p, 0)

Write ==
    /\ InCode
    /\ pair.str["clear"].writable /\ app.wrote < Len(Writes)
    /\ WriteCalls("clear", Writes[app.wrote + 1])
    /\ app' = [app EXCEPT !.wrote = @ + 1]
    /\ Wait

Data(pending) == SelectSeq(pending, LAMBDA x : x # "EOF")

WriteReturns ==
    /\ Running("write")
    /\ LET w == Top.side
           need == \/ pair.str[w].needDrain
                   \/ Len(Data(pair.str[w].pending)) >= HighWater
                   \/ pair.str[Forward(w)].paused
       IN /\ pair' = [pair EXCEPT !.str[w].needDrain = need]
          /\ sock' = IF w = "enc" THEN [sock EXCEPT !.paused = need] ELSE sock
    /\ stack' = Below
    /\ UNCHANGED <<ticks, app>>

\* CryptoStream.end
EndCalls(w) ==
    /\ ~pair.done /\ pair.str[w].writable
    /\ LET p == [pair EXCEPT !.str[w].pending = Append(@, "EOF"), !.str[w].writable = FALSE]
       IN /\ pair' = Called(p)
          /\ stack' = stack \o Cycle(p, 0)

End ==
    /\ InCode
    /\ EndCalls("clear")
    /\ UNCHANGED app /\ Wait

Pause ==
    /\ InCode
    /\ app.pauses < MaxPauses /\ ~pair.str["clear"].paused
    /\ pair' = [pair EXCEPT !.str["clear"].paused = TRUE]
    /\ app' = [app EXCEPT !.pauses = @ + 1]
    /\ UNCHANGED stack /\ Wait
ResumeCalls(w) ==
    /\ pair.str[w].paused
    /\ LET p == [pair EXCEPT !.str[w].paused = FALSE]
       IN /\ pair' = Called(p)
          /\ stack' = stack \o Cycle(p, 0)

Resume ==
    /\ InCode
    /\ ResumeCalls("clear")
    /\ UNCHANGED app /\ Wait

DestroyCalls ==
    /\ InCode
    /\ ~pair.done
    /\ pair' = Destroy(pair)
    /\ ticks' = Ended(pair, pair')
    /\ UNCHANGED <<stack, sock, app>>

CodeReturns ==
    /\ Running("code")
    /\ stack' = Below
    /\ UNCHANGED <<pair, app>> /\ Wait

-----------------------------------------------------------------------------
(* Events of the loop: ticks and the socket *)

Tick ==
    /\ stack = <<>> /\ ticks # <<>>
    /\ ticks' = Tail(ticks)
    /\ CASE Head(ticks) = "start" ->
              /\ pair' = Called(pair)
              /\ sock' = sock
              /\ stack' = IF pair.done THEN <<>>
                          ELSE Cycle(pair, 0) \o <<[Frame("ssl", "clear") EXCEPT !.step = "start"]>>
         [] Head(ticks) = "enc" -> pair' = pair /\ stack' = <<>> /\ sock' = [sock EXCEPT !.paused = FALSE]
         [] OTHER -> pair' = pair /\ stack' = <<Code>> /\ sock' = sock
    /\ UNCHANGED app

Idle == stack = <<>> /\ ticks = <<>>

Flights == Len(SelectSeq(sock.got, LAMBDA x : x = "hs"))
PeerDone ==                        \* the peer has finished every handshake it began
    /\ sock.flights >= 2 /\ sock.flights % 2 = 0
    /\ Ssl.server => Flights >= sock.flights
PeerSays(item) ==
    CASE item = "hs" -> IF Ssl.server
                        THEN /\ sock.flights < 2 + 2 * Renegs /\ Flights >= sock.flights
                        ELSE sock.flights < 2 /\ Flights > sock.flights
      [] item = "close" -> PeerDone
      [] item = "bad" -> ~sock.bad
      [] OTHER -> PeerDone /\ sock.data < Len(PeerWrites) /\ item = PeerWrites[sock.data + 1]

PeerItems == {"hs", "bad"} \cup {PeerWrites[i] : i \in DOMAIN PeerWrites}

\* The pair is started in the iteration of the loop that made it.
SocketReads ==
    /\ stack = <<>> /\ ~sock.eof /\ ~sock.paused
    /\ IF ticks = <<>> THEN TRUE ELSE Head(ticks) # "start"

\* A record comes in: the socket writes it to the encrypted stream.
SocketData ==
    /\ SocketReads /\ ~sock.alert
    /\ pair.str["enc"].writable
    /\ \E item \in PeerItems :
         /\ PeerSays(item)
         /\ sock' = [sock EXCEPT !.flights = @ + (IF item = "hs" THEN 1 ELSE 0),
                                 !.data = @ + (IF item \in {"hs", "bad"} THEN 0 ELSE 1),
                                 !.bad = @ \/ item = "bad"]
         /\ WriteCalls("enc", item)
    /\ UNCHANGED <<ticks, app>>

\* The peer closes: its alert, if it can, and the end of the connection.
SocketAlert ==
    /\ SocketReads /\ ~sock.alert
    /\ pair.str["enc"].writable /\ PeerSays("close")
    /\ sock' = [sock EXCEPT !.alert = TRUE]
    /\ WriteCalls("enc", "close")
    /\ UNCHANGED <<ticks, app>>

SocketEnd ==
    /\ SocketReads
    /\ sock' = [sock EXCEPT !.eof = TRUE]
    /\ EndCalls("enc")
    /\ UNCHANGED <<ticks, app>>

\* The socket has written what it held back.
SocketDrained ==
    /\ stack = <<>>
    /\ ResumeCalls("enc")
    /\ UNCHANGED <<ticks, sock, app>>

-----------------------------------------------------------------------------
TlsNext ==
    \/ CycleStage \/ LeaveStage \/ CycleEnd
    \/ PullEncrypted \/ PullClear \/ PullEnd \/ PullEnded \/ PullTook \/ PullWritten \/ PullDrain
    \/ PushStops \/ PushClear \/ PushEncrypted \/ PushTook \/ PushMore \/ PushData \/ PushNothing
    \/ SslBegin \/ SslFlight \/ SslBad \/ SslWants \/ SslRead \/ SslWritten \/ OnHandshakeStart
    \/ Write \/ WriteReturns \/ End \/ Pause \/ Resume \/ DestroyCalls \/ CodeReturns
    \/ Tick \/ SocketData \/ SocketAlert \/ SocketEnd \/ SocketDrained

TlsSpec == TlsInit /\ [][TlsNext]_tlsVars
-----------------------------------------------------------------------------
(* Properties *)

Items == {"hs", "bad", "close", "EOF", "none"}
           \cup {Writes[i] : i \in DOMAIN Writes} \cup {PeerWrites[i] : i \in DOMAIN PeerWrites}

\* Types of the state of the pair.
TlsTypeOK ==
    /\ pair.lock \subseteq {Stages[i] : i \in DOMAIN Stages}
    /\ \A w \in Sides : /\ pair.str[w].pending \in Seq(Items)
                        /\ pair.str[w].done \in BOOLEAN
    /\ pair.ssl.need \in 0 .. 2 /\ pair.ssl.in \in Seq(Items) /\ pair.ssl.out \in Seq(Items)
    /\ \A i \in DOMAIN stack :
         stack[i].fn \in {"cycle", "pull", "push", "ssl", "handshake", "code", "write"}
    /\ ticks \in Seq({"start", "end", "error"} \cup Sides)

\* OpenSSL is not re-entered, and its SSL not freed, from one of its own
\* callbacks; each stage of cycle has at most one call in it.
NotReentered ==
    /\ \A i, j \in DOMAIN stack : stack[i].fn = "ssl" /\ stack[j].fn = "ssl" => i = j
    /\ pair.done => \A i \in DOMAIN stack : stack[i].fn # "ssl"
    /\ \A i, j \in DOMAIN stack :
         stack[i].fn \in {"pull", "push"} /\ Stage(stack[i]) = Stage(stack[j]) => i = j

Prefix(s, t) == Len(s) =< Len(t) /\ s = SubSeq(t, 1, Len(s))
Payload(s) == SelectSeq(s, LAMBDA x : x \notin {"hs", "close", "bad", "EOF"})

\* What the program writes goes out in that order, and it receives what the
\* peer wrote in that order, whatever callbacks write, pause or end meanwhile
\* and whatever handshake makes a write wait.
InOrder ==
    /\ Prefix(Payload(sock.got), Writes)
    /\ Prefix(app.got, PeerWrites)

\* When the calls have returned, nothing that could move has stayed behind:
\* cycle is called again wherever one is needed, though its locks make inner
\* calls skip what outer ones are in.
NothingStays ==
    Idle /\ ~pair.done =>
      /\ Payload(pair.str["enc"].pending) = <<>>
      /\ pair.str["enc"].writable /\ ~pair.str["enc"].paused => pair.ssl.out = <<>>
      /\ ~pair.ssl.dead /\ ~pair.str["clear"].paused => pair.ssl.in = <<>>
      /\ pair.secure /\ ~pair.ssl.dead /\ pair.ssl.need = 0 => pair.str["clear"].pending = <<>>

\* "then this stream should eventually emit 'drain' event" (tls.js:122-129): a
\* socket that was told to wait is told to go on, unless the program has
\* paused the stream or something still waits.
DrainFollows ==
    Idle /\ ~pair.done /\ ~pair.ssl.dead =>
      \A w \in Sides : pair.str[w].needDrain =>
          pair.str[Forward(w)].paused \/ pair.str[w].pending # <<>>

\* A pair whose two sides have ended, and whose streams run, is destroyed.
EndsWhenDone ==
    Idle /\ pair.str["enc"].last /\ pair.str["clear"].last
         /\ ~pair.str["enc"].paused /\ ~pair.str["clear"].paused => pair.done
=============================================================================
