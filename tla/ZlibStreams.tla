---------------------------- MODULE ZlibStreams ----------------------------
(***************************************************************************)
(* A stream of lib/zlib.js over a ZCtx of src/node_zlib.cc.  The script    *)
(* queues chunks; one at a time is handed with a piece of the output       *)
(* buffer to a thread of the pool, which may fill the piece before it has  *)
(* read the chunk: then it is called again with a new buffer.  What is     *)
(* emitted are slices of the buffer the thread goes on writing to.         *)
(*                                                                         *)
(* A byte is a number: input byte i leaves the compressor as output byte   *)
(* i, held back as long as it likes unless it is told to flush; the byte   *)
(* after the last is the trailer.  reset is not modelled.                  *)
(***************************************************************************)
EXTENDS Naturals, Sequences, SequencesExt

CONSTANTS
    Sizes,        \* lengths of the chunks the script may write
    MaxWrites,    \* bound: calls of write, flush and end
    MaxPauses,    \* bound: calls of pause
    ChunkSize,    \* _chunkSize, the length of an output buffer
    DataErrors    \* whether the input may be damaged: a set of BOOLEANs

VARIABLES
    zs,           \* the Zlib object: _queue, _processing, _paused, _ended, ...; late:
                  \* was flush called while its last request was worked on? (history)
    zctx,         \* the ZCtx: flags, work request and reference count
    codec,        \* z_stream: bytes read and bytes made
    buffers,      \* the output buffers made so far, the current one last
    emitted,      \* the slices given to 'data' listeners, in order
    handler,      \* the listener or callback of the script that runs
    zcalls        \* counts for the bounds

zlibVars == <<zs, zctx, codec, buffers, emitted, handler, zcalls>>

Flushes == {"none", "sync", "finish"}
NoRequest == [n |-> 0, last |-> FALSE]
Blank == [i \in 1..ChunkSize |-> 0]

ZlibInit ==
    /\ zs = [queue |-> <<>>, processing |-> FALSE, request |-> NoRequest, paused |-> FALSE,
             ended |-> FALSE, ending |-> FALSE, flush |-> "none", offset |-> 0,
             needDrain |-> FALSE, hadError |-> FALSE, done |-> FALSE, late |-> FALSE]
    /\ zctx = [inProgress |-> FALSE, work |-> "none", flush |-> "none", availIn |-> 0,
               from |-> 0, availOut |-> 0, err |-> FALSE, refs |-> 0]
    /\ codec = [fed |-> 0, made |-> 0]
    /\ buffers = <<Blank>>
    /\ emitted = <<>>
    /\ handler = "none"
    /\ zcalls = [writes |-> 0, pauses |-> 0]

(***************************************************************************)
(* ZCtx::Write: one request at a time, which keeps the object alive.       *)
(***************************************************************************)
CtxWrite(c, flush, availIn, from, availOut) ==
    [c EXCEPT !.inProgress = TRUE, !.work = "queued", !.flush = flush,
              !.availIn = availIn, !.from = from, !.availOut = availOut, !.refs = @ + 1]

(***************************************************************************)
(* Zlib.prototype._process on the object s and its context c: the next     *)
(* request if none is on its way, 'drain' when there is none left.         *)
(***************************************************************************)
Ready(s) == ~s.hadError /\ ~s.processing /\ ~s.paused

Process(s, c) ==
    CASE Ready(s) /\ s.queue = <<>> ->
           [s |-> [s EXCEPT !.needDrain = FALSE], c |-> c]
      [] Ready(s) /\ s.queue # <<>> ->
           LET left  == Tail(s.queue)
               flush == IF s.ending /\ left = <<>> THEN "finish" ELSE s.flush
           IN  [s |-> [s EXCEPT !.queue = left, !.request = Head(s.queue),
                                !.flush = flush, !.processing = TRUE],
                c |-> CtxWrite(c, flush, Head(s.queue).n, s.offset, ChunkSize - s.offset)]
      [] OTHER -> [s |-> s, c |-> c]

Continue(s) ==
    LET p == Process(s, zctx) IN zs' = p.s /\ zctx' = p.c

Enqueue(s, request) ==
    IF s.hadError \/ s.ended
    THEN zs' = s /\ UNCHANGED zctx
    ELSE LET p == Process([s EXCEPT !.queue = Append(@, request)], zctx)
         IN  /\ zs' = [p.s EXCEPT !.needDrain = @ \/ s.queue # <<>>,
                                  !.ended = @ \/ request.last]
             /\ zctx' = p.c

Counted(field) == zcalls' = [zcalls EXCEPT ![field] = @ + 1]

(***************************************************************************)
(* What the script calls, from any callback: write, end, flush, pause,     *)
(* resume and destroy.  flush sets its flag before write finds that the    *)
(* stream has ended or failed.                                             *)
(***************************************************************************)
ZWrite ==
    /\ zcalls.writes < MaxWrites
    /\ \E n \in Sizes : Enqueue(zs, [n |-> n, last |-> FALSE])
    /\ Counted("writes")
    /\ UNCHANGED <<codec, buffers, emitted, handler>>

ZEnd ==
    /\ zcalls.writes < MaxWrites /\ ~zs.hadError
    /\ \E n \in Sizes \cup {0} : Enqueue([zs EXCEPT !.ending = TRUE], [n |-> n, last |-> TRUE])
    /\ Counted("writes")
    /\ UNCHANGED <<codec, buffers, emitted, handler>>

Finishing == zs.processing /\ zs.request.last

ZFlush ==
    /\ zcalls.writes < MaxWrites
    /\ Enqueue([zs EXCEPT !.flush = "sync", !.late = @ \/ Finishing], NoRequest)
    /\ Counted("writes")
    /\ UNCHANGED <<codec, buffers, emitted, handler>>

ZPause ==
    /\ zcalls.pauses < MaxPauses
    /\ zs' = [zs EXCEPT !.paused = TRUE]
    /\ Counted("pauses")
    /\ UNCHANGED <<zctx, codec, buffers, emitted, handler>>

ZResume ==
    /\ zs.paused
    /\ Continue([zs EXCEPT !.paused = FALSE])
    /\ UNCHANGED <<codec, buffers, emitted, handler, zcalls>>

ZDestroy ==
    /\ ~zs.ended
    /\ zs' = [zs EXCEPT !.ended = TRUE]
    /\ UNCHANGED <<zctx, codec, buffers, emitted, handler, zcalls>>

(***************************************************************************)
(* The thread: ZCtx::Process.  It stops when the piece is full, or when    *)
(* the chunk is read and, on a flush, all that was held back is out; the   *)
(* trailer, one more unit, comes when it is told to finish.                *)
(***************************************************************************)
Deflate ==
    \E k \in 0..zctx.availIn, e \in 0..zctx.availOut :
        LET fed   == codec.fed + k
            whole == IF zctx.flush = "finish" /\ k = zctx.availIn THEN fed + 1 ELSE fed
            made  == codec.made + e
        IN  /\ made <= whole \/ e = 0
            /\ e = zctx.availOut \/ (k = zctx.availIn /\ (zctx.flush = "none" \/ made >= whole))
            /\ codec' = [fed |-> fed, made |-> made]
            /\ buffers' = [buffers EXCEPT ![Len(buffers)] =
                 [i \in 1..ChunkSize |->
                    IF i \in zctx.from + 1..zctx.from + e THEN codec.made + i - zctx.from
                                                          ELSE @[i]]]
            /\ zctx' = [zctx EXCEPT !.work = "done", !.availIn = @ - k, !.availOut = @ - e]

DeflateFails ==
    /\ TRUE \in DataErrors
    /\ zctx' = [zctx EXCEPT !.work = "done", !.err = TRUE]
    /\ UNCHANGED <<codec, buffers>>

ThreadProcess ==
    /\ zctx.work = "queued"
    /\ Deflate \/ DeflateFails
    /\ UNCHANGED <<zs, emitted, handler, zcalls>>

(***************************************************************************)
(* The loop: ZCtx::After.  An error ends the stream; otherwise the         *)
(* callback of _process emits what was made.                               *)
(***************************************************************************)
AfterError ==
    /\ handler = "none" /\ zctx.work = "done" /\ zctx.err
    /\ zs' = [zs EXCEPT !.hadError = TRUE, !.queue = <<>>, !.processing = FALSE]
    /\ zctx' = [zctx EXCEPT !.work = "none", !.refs = @ - 1]
    /\ UNCHANGED <<codec, buffers, emitted, handler, zcalls>>

After ==
    /\ handler = "none" /\ zctx.work = "done" /\ ~zctx.err
    /\ zctx' = [zctx EXCEPT !.work = "none", !.inProgress = FALSE]
    /\ LET have == (ChunkSize - zs.offset) - zctx.availOut
       IN  /\ emitted' = IF have > 0
                         THEN Append(emitted, [buffer |-> Len(buffers), from |-> zs.offset,
                                               to |-> zs.offset + have])
                         ELSE emitted
           /\ zs' = [zs EXCEPT !.offset = @ + have]
    /\ handler' = "data"
    /\ UNCHANGED <<codec, buffers, zcalls>>

\* the rest of the callback, after the 'data' listeners
FullPiece == zctx.availOut = 0

Renewed ==
    IF FullPiece \/ zs.offset >= ChunkSize
    THEN buffers' = Append(buffers, Blank)
    ELSE UNCHANGED buffers

\* Mutant: a full piece is taken for the end of the chunk.
DataReturnsOnce ==
    /\ handler = "data"
    /\ Renewed
    /\ zs' = [zs EXCEPT !.offset = IF FullPiece \/ @ >= ChunkSize THEN 0 ELSE @,
                        !.processing = FALSE, !.done = @ \/ zs.request.last]
    /\ handler' = "chunk"
    /\ UNCHANGED <<zctx, codec, emitted, zcalls>>

DataReturns ==
    /\ handler = "data"
    /\ Renewed
    /\ LET offset == IF FullPiece \/ zs.offset >= ChunkSize THEN 0 ELSE zs.offset
       IN  IF FullPiece
           THEN /\ zs' = [zs EXCEPT !.offset = 0]
                /\ zctx' = [CtxWrite(zctx, zs.flush, zctx.availIn, 0, ChunkSize)
                              EXCEPT !.refs = @ - 1]
                /\ handler' = "none"
           ELSE /\ zs' = [zs EXCEPT !.offset = offset, !.processing = FALSE,
                                    !.done = @ \/ zs.request.last]
                /\ handler' = "chunk"
                /\ UNCHANGED zctx
    /\ UNCHANGED <<codec, emitted, zcalls>>

\* the callback of the chunk has run: the next one
ChunkReturns ==
    /\ handler = "chunk"
    /\ LET p == Process(zs, zctx)
       IN  /\ zs' = p.s
           /\ zctx' = [p.c EXCEPT !.refs = @ - 1]
    /\ handler' = "none"
    /\ UNCHANGED <<codec, buffers, emitted, zcalls>>

ZlibNext ==
    \/ ZWrite \/ ZEnd \/ ZFlush \/ ZPause \/ ZResume \/ ZDestroy
    \/ ThreadProcess \/ AfterError \/ After \/ DataReturns \/ ChunkReturns

ZlibFairness ==
    WF_zlibVars(ThreadProcess \/ AfterError \/ After \/ DataReturns \/ ChunkReturns)

ZlibSpec == ZlibInit /\ [][ZlibNext]_zlibVars /\ ZlibFairness
-----------------------------------------------------------------------------
\* The types of the state.
ZlibTypeOK ==
    /\ zs.queue \in Seq([n : Nat, last : BOOLEAN]) /\ zs.request \in [n : Nat, last : BOOLEAN]
    /\ zs.flush \in Flushes /\ zctx.flush \in Flushes /\ zs.offset \in 0..ChunkSize
    /\ \A f \in {"processing", "paused", "ended", "ending", "needDrain", "hadError", "done", "late"} :
         zs[f] \in BOOLEAN
    /\ zctx.inProgress \in BOOLEAN /\ zctx.err \in BOOLEAN
    /\ zctx.work \in {"none", "queued", "done"} /\ zctx.availIn \in Nat
    /\ zctx.from \in 0..ChunkSize /\ zctx.availOut \in 0..ChunkSize /\ zctx.refs \in 0..2
    /\ codec \in [fed : Nat, made : Nat]
    /\ buffers \in Seq([1..ChunkSize -> Nat])
    /\ handler \in {"none", "data", "chunk"}

(***************************************************************************)
(* What the listeners were given, read today, is what the compressor made, *)
(* in order: nothing is written over a slice that was given away           *)
(* (lib/zlib.js:399-404), and nothing made is left out.                    *)
(***************************************************************************)
Slice(e) == SubSeq(buffers[e.buffer], e.from + 1, e.to)

Given == FlattenSeq([i \in DOMAIN emitted |-> Slice(emitted[i])])

SlicesStay ==
    /\ Given = [i \in 1..Len(Given) |-> i]
    /\ (handler = "none" /\ ~zctx.inProgress) => Len(Given) = codec.made

(***************************************************************************)
(* At 'end' the last chunk has been read, and the output of all that was   *)
(* read and the trailer were emitted before; but the trailer may be        *)
(* missing if flush was called while the last request was worked on:       *)
(* flush puts its flag in the place of Z_FINISH (lib/zlib.js:348), which   *)
(* the next piece of that request is then asked for with (:433).           *)
(***************************************************************************)
EndIsWhole ==
    zs.done => /\ zctx.availIn = 0
               /\ Len(Given) = codec.fed + 1 \/ (zs.late /\ Len(Given) = codec.fed)

(***************************************************************************)
(* The object is referenced exactly while the pool or a callback needs it, *)
(* and no request is made while one is on its way (the assertion at        *)
(* node_zlib.cc:81): the thread never shares its z_stream.                 *)
(***************************************************************************)
OneRequest ==
    /\ zctx.refs = (IF zctx.work # "none" THEN 1 ELSE 0) + (IF handler # "none" THEN 1 ELSE 0)
    /\ zs.processing => zctx.inProgress \/ handler = "data"
    /\ zctx.work # "none" => zctx.inProgress

=============================================================================
