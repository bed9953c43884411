----------------------------- MODULE StreamSlab -----------------------------
(***************************************************************************)
(* The memory that sockets read into (StreamWrap::OnAlloc and              *)
(* OnReadCommon in src/node_v0.6.19/node/src/stream_wrap.cc, and their     *)
(* like in udp_wrap.cc): reads of all streams share one slab, a buffer     *)
(* that is filled from the start. libuv asks for a buffer when a read      *)
(* begins and hands it back when it ends; a stream then gives the program  *)
(* a slice of the slab itself, a UDP socket a copy. On Windows a read      *)
(* begins long before it ends and other sockets' reads fall in between; on *)
(* the other systems the two follow each other.                            *)
(***************************************************************************)
EXTENDS Integers

CONSTANTS Streams,      \* the streams that read
          UdpSockets,   \* the UDP sockets that read
          SlabSize,     \* SLAB_SIZE
          Chunk,        \* 64 * 1024: with less left in it a slab is replaced
          Suggested,    \* the sizes libuv may ask for
          MaxSlabs      \* the bound on the slabs made

Readers == Streams \cup UdpSockets

ASSUME SlabAssumption ==
    /\ SlabSize \in Nat /\ Chunk \in Nat
    /\ 0 < Chunk /\ Chunk =< SlabSize
    /\ Suggested \subseteq Nat \ {0}
    /\ MaxSlabs \in Nat
    /\ Streams \cap UdpSockets = {}

VARIABLES slab,      \* slab[f]: the number of the current slab of file f, 0: none
          used,      \* used[f]: slab_used
          last,      \* last[f]: handle_that_last_alloced
          held,      \* held[h]: the slab the wrap refers to, 0: none
          offset,    \* offset[h]: slab_offset_
          busy,      \* the readers with a read that has not ended
          buf,       \* buf[h]: the buffer libuv reads into
          given      \* the slices the program has been given (history)
slabVars == <<slab, used, last, held, offset, busy, buf, given>>

Files == {"stream", "udp"}
FileOf(h) == IF h \in Streams THEN "stream" ELSE "udp"

SlabInit ==
    /\ slab = [f \in Files |-> 0]
    /\ used = [f \in Files |-> 0]
    /\ last = [f \in Files |-> "none"]
    /\ held = [h \in Readers |-> 0]
    /\ offset = [h \in Readers |-> 0]
    /\ busy = {}
    /\ buf = [h \in Readers |-> [slab |-> 0, base |-> 0, len |-> 0]]
    /\ given = {}

\* A slab is used as long as a chunk is left in it.
Full(f) == slab[f] = 0 \/ SlabSize - used[f] < Chunk

Least(a, b) == IF a < b THEN a ELSE b

\* The buffer starts at base of slab number s, which the wrap refers to from
\* now on (NewSlab, or SetHiddenValue for the slab in use).
TakeBuffer(h, f, s, base, suggested) ==
    LET len == Least(SlabSize - base, suggested)
    IN /\ slab' = [slab EXCEPT ![f] = s]
       /\ used' = [used EXCEPT ![f] = base + len]
       /\ last' = [last EXCEPT ![f] = h]
       /\ held' = [held EXCEPT ![h] = s]
       /\ offset' = [offset EXCEPT ![h] = base]
       /\ buf' = [buf EXCEPT ![h] = [slab |-> s, base |-> base, len |-> len]]
       /\ busy' = busy \cup {h}
       /\ UNCHANGED given

NewSlab(h, f, suggested) ==
    /\ slab[f] < MaxSlabs
    /\ TakeBuffer(h, f, slab[f] + 1, 0, suggested)

OnAlloc(h, suggested) ==
    /\ h \in Streams \ busy
    /\ \/ Full("stream") /\ NewSlab(h, "stream", suggested)
       \/ ~Full("stream") /\ TakeBuffer(h, "stream", slab["stream"], used["stream"], suggested)

UdpOnAlloc(h, suggested) ==
    /\ h \in UdpSockets \ busy
    /\ \/ Full("udp") /\ NewSlab(h, "udp", suggested)
       \/ ~Full("udp") /\ TakeBuffer(h, "udp", slab["udp"], used["udp"], suggested)

\* Mutant: nobody looks who has allocated last.
UnreadAlways(h, n) == used' = [used EXCEPT !["stream"] = @ - (buf[h].len - n)]

\* What was not read goes back to the slab, if no one has allocated since.
Unread(h, n) ==
    used' = IF last["stream"] = h
            THEN [used EXCEPT !["stream"] = @ - (buf[h].len - n)]
            ELSE used

\* The read ends with n bytes: a slice of the slab goes to the program.
OnRead(h, n) ==
    /\ h \in Streams \cap busy
    /\ n \in 0 .. buf[h].len
    /\ Unread(h, n)
    /\ given' = IF n = 0 THEN given
                ELSE given \cup {[slab |-> held[h], base |-> offset[h], len |-> n]}
    /\ held' = [held EXCEPT ![h] = 0]
    /\ busy' = busy \ {h}
    /\ UNCHANGED <<slab, last, offset, buf>>

\* The end of the data, or an error.
OnReadFailed(h) ==
    /\ h \in Streams \cap busy
    /\ Unread(h, 0)
    /\ held' = [held EXCEPT ![h] = 0]
    /\ busy' = busy \ {h}
    /\ UNCHANGED <<slab, last, offset, buf, given>>

\* A datagram is copied to a buffer of its own; nothing goes back.
OnRecv(h) ==
    /\ h \in UdpSockets \cap busy
    /\ busy' = busy \ {h}
    /\ UNCHANGED <<slab, used, last, held, offset, buf, given>>

SlabNext ==
    \/ \E h \in Streams, s \in Suggested : OnAlloc(h, s)
    \/ \E h \in UdpSockets, s \in Suggested : UdpOnAlloc(h, s)
    \/ \E h \in Streams : \E n \in 0 .. SlabSize : OnRead(h, n)
    \/ \E h \in Streams : OnReadFailed(h)
    \/ \E h \in UdpSockets : OnRecv(h)

SlabSpec == SlabInit /\ [][SlabNext]_slabVars
-----------------------------------------------------------------------------
(* Properties *)

Regions == [slab: Nat, base: Nat, len: Nat]

\* Types of the state of the slabs.
SlabTypeOK ==
    /\ slab \in [Files -> Nat]
    /\ used \in [Files -> Nat]
    /\ last \in [Files -> Readers \cup {"none"}]
    /\ held \in [Readers -> Nat]
    /\ offset \in [Readers -> Nat]
    /\ busy \subseteq Readers
    /\ buf \in [Readers -> Regions]
    /\ given \subseteq Regions

Apart(a, b) ==
    a.slab # b.slab \/ a.base + a.len =< b.base \/ b.base + b.len =< a.base

\* What the program was given stays as it was read: no read that is under way
\* goes to bytes of a slice handed out before, or to those of another read of
\* the same file, though all share the slab and each gives back what it did
\* not use (handle_that_last_alloced).
SlicesUntouched ==
    /\ \A h \in busy \cap Streams : \A s \in given : Apart(buf[h], s)
    /\ \A g, h \in busy : FileOf(g) = FileOf(h) /\ g # h => Apart(buf[g], buf[h])

\* A read writes inside a slab that its wrap keeps alive, at the place the
\* wrap will name to the program, also when another socket has replaced the
\* slab in the meantime.
ReadsWhereNamed ==
    \A h \in busy : /\ buf[h].slab = held[h] /\ held[h] > 0
                    /\ buf[h].base = offset[h]
                    /\ buf[h].len > 0 /\ buf[h].base + buf[h].len =< SlabSize
=============================================================================
