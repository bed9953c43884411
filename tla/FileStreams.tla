---------------------------- MODULE FileStreams ----------------------------
(***************************************************************************)
(* Streams over files: ReadStream and WriteStream of Node's lib/fs.js, the *)
(* calls of node_file.cc they make, the threads that carry these out in    *)
(* any order, and the table of file descriptors of the kernel, where an    *)
(* open takes the lowest number that is free.  All readers cut their       *)
(* buffers from one pool.                                                  *)
(***************************************************************************)
EXTENDS Naturals, Sequences, FiniteSets
LOCAL INSTANCE SequencesExt

CONSTANTS Readers,      \* ReadStreams, each over a file of its own
          Writers,      \* WriteStreams, each over a file of its own
          FileSize,     \* bytes in the file of a reader
          ReadOptions,  \* options of a reader: [start, last]
          PoolSize,     \* bytes of a pool
          MinPoolSpace, \* a pool with less room is left behind
          BufferSize,   \* bytes a reader asks for at most
          Chunks,       \* what a program writes: sequences of bytes
          MaxWrites,    \* bound on the writes to one stream
          MaxStreams,   \* bound on the streams made
          MaxPauses,    \* bound on the calls of pause of one stream
          EarlyDestroy, \* may destroy() be called with a request under way?
          None

VARIABLES readers, writers,  \* the objects of lib/fs.js
          pools,             \* the pools made so far; the last is in use
          requests,          \* calls the threads have not carried out
          answers,           \* results the event loop has not handed out
          fds,               \* the kernel's table: whose file, where in it
          files,             \* bytes in the file of each writer
          asked              \* bytes each program has written

fileVars == <<readers, writers, pools, requests, answers, fds, files, asked>>

Fds == 1 .. Cardinality(Readers) + Cardinality(Writers)

NewReader == [made |-> FALSE, fd |-> None, readable |-> TRUE, paused |-> FALSE, reading |-> FALSE,
              held |-> None, start |-> 0, pos |-> None, last |-> None, onOpen |-> FALSE, given |-> <<>>, pauses |-> 0]

NewWriter == [made |-> FALSE, fd |-> None, writable |-> TRUE, busy |-> FALSE, queue |-> <<>>,
              onOpen |-> FALSE, writes |-> 0, ended |-> FALSE, closed |-> FALSE]

FileInit == /\ readers = [r \in Readers |-> NewReader]
            /\ writers = [w \in Writers |-> NewWriter]
            /\ pools = <<>> /\ requests = {} /\ answers = <<>>
            /\ fds = [n \in Fds |-> None]
            /\ files = [w \in Writers |-> <<>>]
            /\ asked = [w \in Writers |-> <<>>]

Made == Cardinality({r \in Readers : readers[r].made}) + Cardinality({w \in Writers : writers[w].made})

Least(S) == CHOOSE n \in S : \A k \in S : n <= k

(***************************************************************************)
(* node_file.cc: a call becomes a request for the threads.                 *)
(***************************************************************************)
Open(s) == [call |-> "open", of |-> s]

Close(s, fd) == [call |-> "close", of |-> s, fd |-> fd]

Read(s, fd, pool, off, len, pos) ==
    [call |-> "read", of |-> s, fd |-> fd, pool |-> pool, off |-> off, len |-> len, pos |-> pos]

Write(s, fd, bytes) == [call |-> "write", of |-> s, fd |-> fd, bytes |-> bytes]

(***************************************************************************)
(* ReadStream.                                                             *)
(***************************************************************************)
Blank == [used |-> 0, bytes |-> [k \in 0 .. PoolSize - 1 |-> None]]

\* The pools after allocNewPool, when the one in use has too little room.
Pools == IF pools = <<>> \/ PoolSize - Last(pools).used < MinPoolSpace THEN Append(pools, Blank) ELSE pools

\* Bytes the next read asks for: what the pool has, what a buffer takes, and
\* what is left up to the last byte wanted.
ToRead(s) == LET room == {PoolSize - Last(Pools).used, BufferSize}
             IN Least(IF s.pos = None THEN room ELSE room \cup {(s.last + 1) - s.pos})

\* Mutant: the room of the bytes asked for is not taken.
TakenNone(n) == Pools

Taken(n) == [Pools EXCEPT ![Len(Pools)].used = @ + n]

\* _read of the reader r, whose object is s and which has made the requests
\* in more before.
ReadOn(r, s, more) ==
    IF s.made /\ s.readable /\ ~s.paused /\ ~s.reading
    THEN LET n == ToRead(s)
         IN /\ readers' = [readers EXCEPT ![r] =
                  [s EXCEPT !.reading = TRUE, !.pos = IF @ = None THEN None ELSE @ + n]]
            /\ requests' = requests \cup more
                 \cup {Read(r, s.fd, Len(Pools), Last(Pools).used, n, s.pos)}
            /\ pools' = Taken(n)
    ELSE /\ readers' = [readers EXCEPT ![r] = s]
         /\ requests' = requests \cup more
         /\ UNCHANGED pools

Files == <<writers, files, asked>>

CreateReader(r, opts) ==
    /\ ~readers[r].made /\ Made < MaxStreams
    /\ readers' = [readers EXCEPT ![r] =
           [@ EXCEPT !.made = TRUE, !.pos = opts.start, !.last = opts.last,
                     !.start = IF opts.start = None THEN 0 ELSE opts.start]]
    /\ requests' = requests \cup {Open(r)}
    /\ UNCHANGED <<pools, answers, fds, Files>>

\* The object after destroy() and the requests that makes: the file is closed
\* at once, or as soon as it is open.
Destroyed(s) == IF s.readable THEN [s EXCEPT !.readable = FALSE, !.onOpen = s.fd = None] ELSE s

CloseCalls(r, s) == IF s.readable /\ s.fd # None THEN {Close(r, s.fd)} ELSE {}

DestroyReader(r) ==
    /\ readers[r].made /\ readers[r].readable
    /\ EarlyDestroy \/ ~readers[r].reading
    /\ readers' = [readers EXCEPT ![r] = Destroyed(@)]
    /\ requests' = requests \cup CloseCalls(r, readers[r])
    /\ UNCHANGED <<pools, answers, fds, Files>>

PauseReader(r) ==
    /\ readers[r].made /\ ~readers[r].paused /\ readers[r].pauses < MaxPauses
    /\ readers' = [readers EXCEPT ![r].paused = TRUE, ![r].pauses = @ + 1]
    /\ UNCHANGED <<pools, requests, answers, fds, Files>>

\* What a listener of 'data' may do to the stream: nothing, pause, destroy.
Listened(s, deed) ==
    CASE deed = "pause" -> [s EXCEPT !.paused = TRUE, !.pauses = @ + 1]
      [] deed = "destroy" -> Destroyed(s)
      [] OTHER -> s

Deeds(s) == {"none", "destroy"} \cup (IF s.pauses < MaxPauses THEN {"pause"} ELSE {})

EmitData(s, slice) == [s EXCEPT !.given = Append(@, slice), !.held = None]

\* The data event with this slice, what its listener does, and _read.
DataAndRead(r, s, slice) ==
    \E deed \in Deeds(s) :
        LET t == EmitData(s, slice)
        IN ReadOn(r, Listened(t, deed), IF deed = "destroy" THEN CloseCalls(r, t) ELSE {})

ResumeReader(r) ==
    LET s == [readers[r] EXCEPT !.paused = FALSE]
    IN /\ s.made /\ readers[r].paused
       /\ \/ /\ s.held # None /\ DataAndRead(r, s, s.held)
          \/ /\ s.held = None /\ s.fd = None
             /\ readers' = [readers EXCEPT ![r] = s] /\ UNCHANGED <<pools, requests>>
          \/ /\ s.held = None /\ s.fd # None /\ ReadOn(r, s, {})
       /\ UNCHANGED <<answers, fds, Files>>

\* The callback of fs.open: 'open', with destroy's listener, then _read.
ReaderOpened(r, fd) ==
    LET s == [readers[r] EXCEPT !.fd = fd]
    IN ReadOn(r, s, IF s.onOpen THEN {Close(r, fd)} ELSE {})

\* afterRead.
ReaderFailed(r) ==
    /\ readers' = [readers EXCEPT ![r].reading = FALSE, ![r].readable = FALSE]
    /\ UNCHANGED <<requests, pools>>

AfterRead(r, req, n) ==
    LET s == [readers[r] EXCEPT !.reading = FALSE]
        slice == [pool |-> req.pool, off |-> req.off, len |-> n]
    IN \/ /\ n = 0
          /\ readers' = [readers EXCEPT ![r] = Destroyed(s)]
          /\ requests' = requests \cup CloseCalls(r, s)
          /\ UNCHANGED pools
       \/ /\ n > 0 /\ (s.paused \/ ~s.readable)
          /\ readers' = [readers EXCEPT ![r] = IF s.paused THEN [s EXCEPT !.held = slice] ELSE s]
          /\ UNCHANGED <<requests, pools>>
       \/ /\ n > 0 /\ ~s.paused /\ s.readable
          /\ DataAndRead(r, s, slice)

(***************************************************************************)
(* WriteStream.                                                            *)
(***************************************************************************)
Reads == <<readers, pools>>

\* The request for the first entry of the queue.
Asked(w, s) == LET e == Head(s.queue)
               IN CASE e.method = "open" -> Open(w)
                    [] e.method = "close" -> Close(w, s.fd)
                    [] e.method = "write" -> Write(w, s.fd, e.bytes)

\* flush of the writer w, whose object is s, after the requests in more.
Flush(w, s, more) ==
    LET goes == ~s.busy /\ s.queue # <<>>
    IN /\ writers' = [writers EXCEPT ![w] = IF goes THEN [s EXCEPT !.busy = TRUE, !.queue = Tail(@)] ELSE s]
       /\ requests' = requests \cup more \cup (IF goes THEN {Asked(w, s)} ELSE {})

CreateWriter(w) ==
    /\ ~writers[w].made /\ Made < MaxStreams
    /\ Flush(w, [writers[w] EXCEPT !.made = TRUE, !.queue = <<[method |-> "open"]>>], {})
    /\ UNCHANGED <<answers, fds, files, asked, Reads>>

WriteWriter(w, bytes) ==
    LET s == writers[w]
    IN /\ s.made /\ s.writable /\ s.writes < MaxWrites
       /\ Flush(w, [s EXCEPT !.queue = Append(@, [method |-> "write", bytes |-> bytes]), !.writes = @ + 1], {})
       /\ asked' = [asked EXCEPT ![w] = @ \o bytes]
       /\ UNCHANGED <<answers, fds, files, Reads>>

\* end(), also called destroySoon.
EndWriter(w) ==
    LET s == writers[w]
    IN /\ s.made /\ s.writable
       /\ Flush(w, [s EXCEPT !.writable = FALSE, !.ended = TRUE, !.queue = Append(@, [method |-> "close"])], {})
       /\ UNCHANGED <<answers, fds, files, asked, Reads>>

DestroyWriter(w) ==
    LET s == writers[w]
    IN /\ s.made /\ s.writable
       /\ EarlyDestroy \/ (~s.busy /\ s.queue = <<>>)
       /\ writers' = [writers EXCEPT ![w].writable = FALSE, ![w].onOpen = s.fd = None]
       /\ requests' = requests \cup (IF s.fd = None THEN {} ELSE {Close(w, s.fd)})
       /\ UNCHANGED <<answers, fds, files, asked, Reads>>

\* The callback that flush puts behind each call.
WriterFailed(w) ==
    /\ writers' = [writers EXCEPT ![w].busy = FALSE, ![w].writable = FALSE]
    /\ UNCHANGED requests

WriterDone(w, req, fd) ==
    LET s == [writers[w] EXCEPT !.busy = FALSE]
    IN CASE req.call = "open" ->
              Flush(w, [s EXCEPT !.fd = fd], IF s.onOpen THEN {Close(w, fd)} ELSE {})
         [] req.call = "write" -> Flush(w, s, {})
         [] req.call = "close" ->
              /\ writers' = [writers EXCEPT ![w].busy = IF s.ended THEN FALSE ELSE @, ![w].closed = TRUE]
              /\ UNCHANGED requests

(***************************************************************************)
(* A thread carries out a request: the kernel's part.                      *)
(***************************************************************************)
Carried(req, result) ==
    /\ requests' = requests \ {req}
    /\ answers' = Append(answers, [req |-> req, result |-> result])

Opens(req) ==
    /\ req.call = "open"
    /\ \E fd \in {Least({n \in Fds : fds[n] = None})} :
          /\ Carried(req, fd)
          /\ fds' = [fds EXCEPT ![fd] = [of |-> req.of, at |-> 0]]
    /\ UNCHANGED <<pools, files>>

Closes(req) ==
    /\ req.call = "close" /\ fds[req.fd] # None
    /\ Carried(req, 0)
    /\ fds' = [fds EXCEPT ![req.fd] = None]
    /\ UNCHANGED <<pools, files>>

\* A read at the place of the descriptor may bring less than there is (it is a
\* pipe); one at a given place, of a file on a disk, does not.
Amounts(req, file, at) ==
    LET left == IF at < FileSize THEN FileSize - at ELSE 0
        most == Least({left, req.len})
    IN IF req.pos = None /\ most > 0 THEN 1 .. most ELSE {most}

ReadsFile(req) ==
    /\ req.call = "read" /\ fds[req.fd] # None /\ fds[req.fd].of \in Readers
    /\ LET d == fds[req.fd]
           at == IF req.pos = None THEN d.at ELSE req.pos
       IN \E n \in Amounts(req, d.of, at) :
             /\ Carried(req, n)
             /\ pools' = [pools EXCEPT ![req.pool].bytes =
                    [k \in DOMAIN @ |-> IF k \in req.off .. (req.off + n) - 1
                                        THEN [of |-> d.of, at |-> at + (k - req.off)] ELSE @[k]]]
             /\ fds' = IF req.pos = None THEN [fds EXCEPT ![req.fd].at = @ + n] ELSE fds
    /\ UNCHANGED files

WritesFile(req) ==
    /\ req.call = "write" /\ fds[req.fd] # None /\ fds[req.fd].of \in Writers
    /\ Carried(req, Len(req.bytes))
    /\ files' = [files EXCEPT ![fds[req.fd].of] = @ \o req.bytes]
    /\ UNCHANGED <<pools, fds>>

CallFails(req) ==
    /\ \/ req.call = "open"
       \/ req.call \in {"read", "write"}
    /\ Carried(req, None)
    /\ UNCHANGED <<pools, fds, files>>

ThreadCarriesOut == \E req \in requests :
    /\ Opens(req) \/ Closes(req) \/ ReadsFile(req) \/ WritesFile(req) \/ CallFails(req)
    /\ UNCHANGED <<readers, writers, asked>>

(***************************************************************************)
(* The event loop: After of node_file.cc calls the callback of the first   *)
(* result.                                                                 *)
(***************************************************************************)
ReaderAnswer(req, result) ==
    /\ req.of \in Readers
    /\ \/ /\ result = None /\ ReaderFailed(req.of)
       \/ /\ result # None /\ req.call = "open" /\ ReaderOpened(req.of, result)
       \/ /\ result # None /\ req.call = "read" /\ AfterRead(req.of, req, result)
       \/ /\ result # None /\ req.call = "close" /\ UNCHANGED <<readers, requests, pools>>
    /\ UNCHANGED writers

WriterAnswer(req, result) ==
    /\ req.of \in Writers
    /\ IF result = None THEN WriterFailed(req.of) ELSE WriterDone(req.of, req, result)
    /\ UNCHANGED Reads

After ==
    /\ answers # <<>>
    /\ LET a == Head(answers) IN ReaderAnswer(a.req, a.result) \/ WriterAnswer(a.req, a.result)
    /\ answers' = Tail(answers)
    /\ UNCHANGED <<fds, files, asked>>

Program ==
    \/ \E r \in Readers : \/ \E opts \in ReadOptions : CreateReader(r, opts)
                          \/ DestroyReader(r) \/ PauseReader(r) \/ ResumeReader(r)
    \/ \E w \in Writers : \/ CreateWriter(w) \/ EndWriter(w) \/ DestroyWriter(w)
                          \/ \E bytes \in Chunks : WriteWriter(w, bytes)

FileNext == Program \/ ThreadCarriesOut \/ After

FileSpec == FileInit /\ [][FileNext]_fileVars

-----------------------------------------------------------------------------
Requests == [call : {"open"}, of : Readers \cup Writers]
              \cup [call : {"close"}, of : Readers \cup Writers, fd : Fds]
              \cup [call : {"read"}, of : Readers, fd : Fds, pool : DOMAIN pools, off : 0 .. PoolSize - 1,
                    len : 0 .. PoolSize, pos : Nat \cup {None}]
              \cup [call : {"write"}, of : Writers, fd : Fds, bytes : Chunks]

\* Types: each request fits a call of node_file.cc, and no read leaves its pool.
FileTypeOK ==
    /\ requests \subseteq Requests
    /\ \A req \in requests : req.call = "read" => req.off + req.len <= PoolSize
    /\ \A r \in Readers : readers[r].fd \in Fds \cup {None} /\ readers[r].made \in BOOLEAN
    /\ \A w \in Writers : writers[w].fd \in Fds \cup {None} /\ writers[w].busy \in BOOLEAN
    /\ \A n \in Fds : fds[n] = None \/ fds[n].of \in Readers \cup Writers

Content(slice) == [k \in 1 .. slice.len |-> pools[slice.pool].bytes[(slice.off + k) - 1]]

\* The slices a reader has given out, read now, are the bytes of its own file,
\* from the first one asked for, in order and with no gap, whatever the other
\* readers did in the shared pool and however the reads were cut.
BytesOfOwnFile ==
    \A r \in Readers :
        LET all == FlattenSeq([k \in DOMAIN readers[r].given |-> Content(readers[r].given[k])])
        IN all = [k \in DOMAIN all |-> [of |-> r, at |-> (readers[r].start + k) - 1]]

\* The bytes in the file of a writer are those the program has written, in
\* order, and all of them once end() has led to 'close'.
WrittenInOrder ==
    \A w \in Writers :
        /\ IsPrefix(files[w], asked[w])
        /\ writers[w].ended /\ writers[w].closed => files[w] = asked[w]

\* A close is only ever under way for the stream that opened the descriptor.
ClosesOwnFile ==
    \A req \in requests : req.call = "close" => /\ fds[req.fd] # None
                                                /\ fds[req.fd].of = req.of
=============================================================================
