-------------------------------- MODULE Wire --------------------------------
(***************************************************************************)
(* Clients and globalsd: requests over TCP connections, served one packet  *)
(* at a time by a process that handles each packet without interruption.   *)
(*                                                                         *)
(* A request is [op, rows].  `find' is answered with rows results, `save'  *)
(* of a stored object with one; `add' does its work and returns nothing,   *)
(* on which the server throws before it answers; `bad' has an operation    *)
(* that Collection does not have.                                          *)
(*                                                                         *)
(* A packet ends between two characters: both ends make a string of each   *)
(* packet by itself (data.toString, globalsd/index.js:161, client.js:72),  *)
(* and a character of several bytes that is cut comes out garbled. What is *)
(* said here is said of text whose characters are not cut.                 *)
(***************************************************************************)
EXTENDS Naturals, Sequences, SequencesExt

CONSTANTS
  NewLine,       \* END_OF_MESSAGE
  Clients,
  Requests,      \* the requests applications make
  MaxRequests,   \* bound on the requests of one client
  MidCuts,       \* may a packet end inside an object?
  Stream,        \* clients with resultMode 'stream'; the others have 'batch'
  Faults         \* "disconnect": clients that go away

ASSUME WireAssumption ==
  /\ Requests \subseteq [op : {"find", "save", "add", "bad"}, rows : Nat]
  /\ \A r \in Requests : r.op = "save" => r.rows = 1
  /\ MaxRequests \in Nat
  /\ MidCuts \in BOOLEAN
  /\ Stream \subseteq Clients

VARIABLES
  asked,         \* per client: the requests sent, numbered by get_id
  up, down,      \* per client: what is on its way to and from the server
  server,        \* globalsd: the partial_object all connections share, the
                 \* requests served per client, what a packet's sender gets
  client,        \* per client: the local state of its data handler
  called,        \* per client: the calls of its callbacks
  gone           \* clients that have disconnected

wvars == <<asked, up, down, server, client, called, gone>>

-----------------------------------------------------------------------------
(* How both ends cut a TCP stream into objects. The text of an object is two *)
(* tokens, so that a packet can end inside it; the line feed is a token of   *)
(* its own, written by a call of its own.                                    *)

Text(m) == <<[msg |-> m, part |-> 1], [msg |-> m, part |-> 2]>>

EndOfMessage == [msg |-> NewLine, part |-> 0]

Line(m) == Append(Text(m), EndOfMessage)

\* Does JSON.parse accept the text?
IsObject(seg) == seg # <<>> /\ seg = Text(seg[1].msg)

\* data.toString().split('\n').
Split(packet) ==
  LET pieces[n \in 0..Len(packet)] ==
        IF n = 0 THEN <<<<>>>>
        ELSE LET p == pieces[n - 1] IN
             IF packet[n] = EndOfMessage THEN Append(p, <<>>)
             ELSE [p EXCEPT ![Len(p)] = Append(@, packet[n])]
  IN  pieces[Len(packet)]

\* Mutant: the cut object is not put in front of the next packet.
PiecesAlone(partial, packet) == Split(packet)

\* The pieces of a packet; the first continues the cut object of the last.
Pieces(partial, packet) == [Split(packet) EXCEPT ![1] = partial \o @]

\* Mutant: partial_object is not emptied after an object.
HandledKeeping(st, seg, t) ==
  IF seg = <<>> THEN st
  ELSE IF ~IsObject(seg) \/ t.threw THEN [st EXCEPT !.partial = seg]
  ELSE t.state

\* One piece, t being what the handler makes of the object in it: its state
\* and whether it threw.  Whatever it throws is caught as if the text were
\* cut, after what it has done.
Handled(st, seg, t) ==
  IF seg = <<>> THEN st
  ELSE IF ~IsObject(seg) THEN [st EXCEPT !.partial = seg]
  ELSE [t.state EXCEPT !.partial = IF t.threw THEN seg ELSE <<>>]

-----------------------------------------------------------------------------
(* Messages. *)

Ask(c, n, r) == [from |-> c, id |-> n, req |-> r]
Ack(n, k)    == [id |-> n, count |-> k]
Row(n, k)    == [id |-> n, row |-> k]
BadRequest   == [status |-> 400]

IsAck(m) == "count" \in DOMAIN m

Rows(n, k) == [i \in 1..k |-> Row(n, i)]

\* A packet: a part of the stream that ends, without MidCuts, where one of
\* the writer's calls of socket.write did.
Packets(stream) ==
  {n \in 1..Len(stream) : MidCuts \/ stream[n].part # 1}

-----------------------------------------------------------------------------
(* globalsd/index.js: the data handler and onRequest. *)

\* The answer: a header with the number of results, then the results.
Reply(n, k) == Line(Ack(n, k)) \o FlattenSeq([i \in 1..k |-> Line(Row(n, i))])

\* Mutant: the header has the number of the request after.
OnRequestNext(st, m) ==
  LET did == [st EXCEPT !.served[m.from] = Append(@, m.id)] IN
  [threw |-> FALSE,
   state |-> [did EXCEPT !.out = @ \o Reply(m.id + 1, m.req.rows)]]

\* Mutant: the header has the number of requests the daemon has served.
OnRequestNumbering(st, m) ==
  LET did == [st EXCEPT !.served[m.from] = Append(@, m.id)]
      all == MapThenFoldSet(+, 0, LAMBDA c : Len(did.served[c]),
                            LAMBDA S : CHOOSE c \in S : TRUE, Clients) IN
  [threw |-> FALSE, state |-> [did EXCEPT !.out = @ \o Reply(all, m.req.rows)]]

\* add returns nothing: result.forEach throws.
OnRequest(st, m) ==
  LET did == [st EXCEPT !.served[m.from] = Append(@, m.id)] IN
  CASE m.req.op = "bad" ->
         [threw |-> FALSE, state |-> [st EXCEPT !.out = @ \o Line(BadRequest)]]
    [] m.req.op = "add" ->
         [threw |-> TRUE, state |-> did]
    [] OTHER ->
         [threw |-> FALSE,
          state |-> [did EXCEPT !.out = @ \o Reply(m.id, m.req.rows)]]

ServerReceived(st, packet) ==
  FoldLeft(LAMBDA s, seg : Handled(s, seg, OnRequest(s, seg[1].msg)),
           st, Pieces(st.partial, packet))

\* Mutant: the daemon does not outlive a connection.
ServerDataFragile(c) ==
  \E n \in Packets(up[c]) :
    LET st == ServerReceived(server, SubSeq(up[c], 1, n)) IN
    /\ gone = {}
    /\ up' = [up EXCEPT ![c] = SubSeq(@, n + 1, Len(@))]
    /\ server' = [st EXCEPT !.out = <<>>]
    /\ down' = [down EXCEPT ![c] = @ \o st.out]
    /\ UNCHANGED <<asked, client, called, gone>>

ServerData(c) ==
  \E n \in Packets(up[c]) :
    LET st == ServerReceived(server, SubSeq(up[c], 1, n)) IN
    /\ up' = [up EXCEPT ![c] = SubSeq(@, n + 1, Len(@))]
    /\ server' = [st EXCEPT !.out = <<>>]
    /\ down' = IF c \in gone THEN down ELSE [down EXCEPT ![c] = @ \o st.out]
    /\ UNCHANGED <<asked, client, called, gone>>

-----------------------------------------------------------------------------
(* globalsd/lib/client.js. *)

Fresh == [partial |-> <<>>, size |-> 0, counter |-> 0, current |-> 0,
          batch |-> <<>>, calls |-> <<>>]

\* dataCallbacks[current](results): only requests that were sent have one.
Callback(c, st, results) ==
  IF st.current \notin DOMAIN asked[c] THEN [threw |-> TRUE, state |-> st]
  ELSE [threw |-> FALSE,
        state |-> [st EXCEPT !.calls = Append(@, <<st.current, results>>)]]

\* Mutant: the batch is not emptied with a header.
OnObjectKeeping(c, st, m) ==
  IF IsAck(m)
  THEN LET ack == [st EXCEPT !.size = m.count, !.counter = 0, !.current = m.id]
       IN  IF m.count > 0 THEN [threw |-> FALSE, state |-> ack]
           ELSE Callback(c, ack, <<>>)
  ELSE LET got == [st EXCEPT !.counter = @ + 1, !.batch = Append(@, m)] IN
       IF got.counter = got.size THEN Callback(c, got, got.batch)
       ELSE [threw |-> FALSE, state |-> got]

\* Mutant: the counter is not reset with a header.
OnObjectCounting(c, st, m) ==
  IF IsAck(m)
  THEN LET ack == [st EXCEPT !.size = m.count, !.current = m.id, !.batch = <<>>]
       IN  IF m.count > 0 THEN [threw |-> FALSE, state |-> ack]
           ELSE Callback(c, ack, <<>>)
  ELSE LET got == [st EXCEPT !.counter = @ + 1, !.batch = Append(@, m)] IN
       IF got.counter = got.size THEN Callback(c, got, got.batch)
       ELSE [threw |-> FALSE, state |-> got]

OnObject(c, st, m) ==
  IF IsAck(m)
  THEN LET ack == [st EXCEPT !.size = m.count, !.counter = 0, !.current = m.id]
           new == [ack EXCEPT !.batch = <<>>]
       IN  IF m.count > 0 THEN [threw |-> FALSE, state |-> new]
           ELSE LET t == Callback(c, ack, <<>>) IN
                IF t.threw THEN t ELSE [t EXCEPT !.state.batch = <<>>]
  ELSE LET one == [st EXCEPT !.counter = @ + 1] IN
       IF c \in Stream THEN Callback(c, one, <<m>>)
       ELSE LET got == [one EXCEPT !.batch = Append(@, m)] IN
            IF got.counter = got.size THEN Callback(c, got, got.batch)
            ELSE [threw |-> FALSE, state |-> got]

ClientReceived(c, st, packet) ==
  FoldLeft(LAMBDA s, seg : Handled(s, seg, OnObject(c, s, seg[1].msg)),
           st, Pieces(st.partial, packet))

ClientData(c) ==
  \E n \in Packets(down[c]) :
    LET st == ClientReceived(c, client[c], SubSeq(down[c], 1, n)) IN
    /\ c \notin gone
    /\ down' = [down EXCEPT ![c] = SubSeq(@, n + 1, Len(@))]
    /\ client' = [client EXCEPT ![c] = [st EXCEPT !.calls = <<>>]]
    /\ called' = [called EXCEPT ![c] = @ \o st.calls]
    /\ UNCHANGED <<asked, up, server, gone>>

\* send: the request under the next id, its callback kept under that id, the
\* text and the line feed in two writes.
Send(c, r) ==
  /\ c \notin gone
  /\ Len(asked[c]) < MaxRequests
  /\ asked' = [asked EXCEPT ![c] = Append(@, r)]
  /\ up' = [up EXCEPT ![c] = @ \o Line(Ask(c, Len(asked[c]) + 1, r))]
  /\ UNCHANGED <<down, server, client, called, gone>>

\* The connection ends, and what its last packets held is lost from some
\* point on; the 'end' handlers of both sides do nothing.
Disconnect(c) ==
  /\ "disconnect" \in Faults
  /\ c \notin gone
  /\ gone' = gone \cup {c}
  /\ \E n \in Packets(up[c]) \cup {0} : up' = [up EXCEPT ![c] = SubSeq(@, 1, n)]
  /\ down' = [down EXCEPT ![c] = <<>>]
  /\ UNCHANGED <<asked, server, client, called>>

-----------------------------------------------------------------------------

Init ==
  /\ asked = [c \in Clients |-> <<>>]
  /\ up = [c \in Clients |-> <<>>]
  /\ down = [c \in Clients |-> <<>>]
  /\ server = [partial |-> <<>>, served |-> [c \in Clients |-> <<>>],
               out |-> <<>>]
  /\ client = [c \in Clients |-> Fresh]
  /\ called = [c \in Clients |-> <<>>]
  /\ gone = {}

Next ==
  \E c \in Clients :
    \/ \E r \in Requests : Send(c, r)
    \/ ServerData(c)
    \/ ClientData(c)
    \/ Disconnect(c)

\* The event loops of both ends read what their sockets have.
Fairness ==
  \A c \in Clients : WF_wvars(ServerData(c)) /\ WF_wvars(ClientData(c))

Spec == Init /\ [][Next]_wvars /\ Fairness

-----------------------------------------------------------------------------
(* Properties. *)

Messages ==
  [from : Clients, id : Nat, req : Requests] \cup [id : Nat, count : Nat]
    \cup [id : Nat, row : Nat] \cup {BadRequest}

Tokens == [msg : Messages, part : {1, 2}] \cup {EndOfMessage}

\* The type of the state; a client waits for the results of a request it
\* made (client.js:85).
TypeOK ==
  /\ asked \in [Clients -> Seq(Requests)]
  /\ \A c \in Clients : Len(asked[c]) <= MaxRequests
  /\ up \in [Clients -> Seq(Tokens)]
  /\ down \in [Clients -> Seq(Tokens)]
  /\ server.partial \in Seq(Tokens)
  /\ server.served \in [Clients -> Seq(1..MaxRequests)]
  /\ server.out = <<>>
  /\ \A c \in Clients :
       /\ client[c].partial \in Seq(Tokens)
       /\ client[c].size \in Nat /\ client[c].counter \in Nat
       /\ client[c].current \in 0..Len(asked[c])
       /\ client[c].batch \in Seq(Messages)
       /\ client[c].calls = <<>>
  /\ called \in [Clients -> Seq((1..MaxRequests) \X Seq(Messages))]
  /\ gone \subseteq Clients

\* What globalsd keeps of a packet is the cut object at its end, whose other
\* half is the next thing its connection brings (globalsd/index.js:147-148
\* and the comment at :187).
PartialContinues ==
  server.partial # <<>> =>
    \E c \in Clients \ gone :
      up[c] # <<>> /\ IsObject(Append(server.partial, up[c][1]))

\* The client has collected the results of the request whose header came
\* last, in order and without those of another (client.js:82-97).
ResultsBelong ==
  \A c \in Clients :
    LET st == client[c] IN
    /\ st.counter <= st.size
    /\ st.batch = IF c \in Stream THEN <<>> ELSE Rows(st.current, st.counter)

\* What the callback of the n-th request is due: in batch mode one call with
\* all results, in stream mode one call for each, and one for none.
DueCalls(c, n, r) ==
  LET rows == Rows(n, r.rows) IN
  IF c \in Stream /\ r.rows > 0 THEN [i \in 1..r.rows |-> <<n, <<rows[i]>>>>]
  ELSE <<<<n, rows>>>>

Remote == INSTANCE RemoteCalls WITH
  Client <- Clients, Request <- Requests, Calls <- DueCalls,
  served <- server.served

\* The clients and globalsd implement the remote calls: each request is served
\* once, in order, and its callback gets its own results (client.js:33-37).
ImplementsCalls == Remote!CSpec

Due(c, n) == FlattenSeq([i \in 1..n |-> DueCalls(c, i, asked[c][i])])

\* Each client that stays has all its answers again and again: MaxRequests
\* ends the sending, so the callback of each request is called with all that
\* is due (client.js:119-131).
AllAnswered ==
  \A c \in Clients :
    []<>(c \in gone \/ called[c] = Due(c, Len(asked[c])))

=============================================================================
