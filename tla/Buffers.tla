------------------------------ MODULE Buffers ------------------------------
(***************************************************************************)
(* Buffers of lib/buffer.js over the memory of src/node_buffer.cc.  Small  *)
(* buffers are cut from a shared SlowBuffer, the pool; slices are windows  *)
(* on the memory of another; all calls are turned into calls on the        *)
(* SlowBuffer with offsets added.  blocks is that memory; content is what  *)
(* each buffer would hold if it had memory of its own, and the two must    *)
(* agree.                                                                  *)
(*                                                                         *)
(* A byte is the number of the call that wrote it.  A string is the        *)
(* sequence of the widths of its characters in the encoding asked for.     *)
(* Calls are made with offsets inside the buffer.                          *)
(***************************************************************************)
EXTENDS Integers, Sequences, FiniteSets, Functions

CONSTANTS
    PoolSize,     \* Buffer.poolSize
    Lengths,      \* lengths asked for
    Strings,      \* strings written
    HexAtEnd,     \* whether hex strings are also written where a buffer ends
    MaxBuffers,   \* bound: Buffer objects
    MaxCalls,     \* bound: calls that write
    Octets,       \* the bytes that are used
    MaxOctets,    \* bound: length of the buffer
    MaxBlanks     \* bound: line breaks put into the text

VARIABLES
    blocks,       \* the SlowBuffers
    pool,         \* the pool: its block and how much of it is used
    bufs,         \* the Buffer objects: parent, offset, length; root and at for content
    content,      \* the bytes of each allocation, on its own
    writes,       \* count for the bound, and the stamp of the next bytes
    plain,        \* the bytes of the buffer
    text,         \* its text, as another program has folded it
    blanks        \* count for the bound

bufVars == <<blocks, pool, bufs, content, writes>>

BufInit ==
    /\ blocks = <<>> /\ bufs = <<>> /\ content = <<>>
    /\ pool = [block |-> 0, used |-> 0]
    /\ writes = 0

Stamp == writes + 1
Zeros(n) == [i \in 1..n |-> 0]
Painted(cells, from, n) ==   \* n bytes after from are of this call
    [i \in DOMAIN cells |-> IF i \in from + 1..from + n THEN Stamp ELSE cells[i]]

(***************************************************************************)
(* How many bytes of a string are written into room for max: characters    *)
(* whole (WriteUtf8, WriteAscii, Write of v8).                             *)
(***************************************************************************)
Width(string) == FoldFunction(LAMBDA w, sum : w + sum, 0, string)
Fitting(string, max) ==
    LET fits == {k \in 0..Len(string) : Width(SubSeq(string, 1, k)) <= max}
    IN  Width(SubSeq(string, 1, CHOOSE k \in fits : \A l \in fits : l <= k))

(***************************************************************************)
(* Utf8Write, AsciiWrite, BinaryWrite, Ucs2Write and Base64Write of a      *)
(* SlowBuffer: cut to the room behind offset and to max; the result is     *)
(* what was written.                                                       *)
(***************************************************************************)
Least(m, n) == IF m < n THEN m ELSE n

SlowRoom(block, offset) == IF offset < Len(blocks[block]) THEN Len(blocks[block]) - offset ELSE 0

SlowWritten(block, string, offset, max) == Fitting(string, Least(SlowRoom(block, offset), max))

\* hexWrite, of a string of as many bytes: no room is taken for all the room
HexWritten(block, string, offset, max) ==
    Least(Width(string), IF max = 0 THEN SlowRoom(block, offset)
                         ELSE Least(SlowRoom(block, offset), max))

(***************************************************************************)
(* new Buffer: where the memory comes from.                                *)
(***************************************************************************)
NoRoom(n) == pool.block = 0 \/ Len(blocks[pool.block]) - pool.used < n

\* Mutant: the pool is taken for big enough.
PlaceInPool(n) ==
    IF n > PoolSize
    THEN [blocks |-> Append(blocks, Zeros(n)), pool |-> pool,
          block |-> Len(blocks) + 1, offset |-> 0]
    ELSE IF pool.block = 0
    THEN [blocks |-> Append(blocks, Zeros(PoolSize)),
          pool |-> [block |-> Len(blocks) + 1, used |-> n], block |-> Len(blocks) + 1, offset |-> 0]
    ELSE [blocks |-> blocks, pool |-> [pool EXCEPT !.used = Least(@ + n, PoolSize)],
          block |-> pool.block, offset |-> Least(pool.used, PoolSize - n)]

Place(n) ==
    IF n > PoolSize
    THEN [blocks |-> Append(blocks, Zeros(n)), pool |-> pool,
          block |-> Len(blocks) + 1, offset |-> 0]
    ELSE IF NoRoom(n)
    THEN [blocks |-> Append(blocks, Zeros(PoolSize)),
          pool |-> [block |-> Len(blocks) + 1, used |-> n], block |-> Len(blocks) + 1, offset |-> 0]
    ELSE [blocks |-> blocks, pool |-> [pool EXCEPT !.used = @ + n],
          block |-> pool.block, offset |-> pool.used]

NewBuffer(n, cells, length) ==   \* n bytes are taken, cells are put there
    LET p == Place(n)
    IN  /\ blocks' = [p.blocks EXCEPT ![p.block] =
                        [i \in DOMAIN @ |-> IF i \in p.offset + 1..p.offset + Len(cells)
                                            THEN cells[i - p.offset] ELSE @[i]]]
        /\ pool' = p.pool
        /\ bufs' = Append(bufs, [block |-> p.block, offset |-> p.offset, length |-> length,
                                 root |-> Len(content) + 1, at |-> 0])
        /\ content' = Append(content, cells)

BufNumber ==
    /\ Len(bufs) < MaxBuffers
    /\ \E n \in Lengths : NewBuffer(n, Zeros(n), n)
    /\ UNCHANGED writes

\* new Buffer(string): the length is what the write says
BufString ==
    /\ Len(bufs) < MaxBuffers /\ writes < MaxCalls
    /\ \E string \in Strings :
         LET n == Width(string)
         IN  NewBuffer(n, [i \in 1..n |-> Stamp], Fitting(string, n))
    /\ writes' = writes + 1

(***************************************************************************)
(* slice: a window on the same memory.                                     *)
(***************************************************************************)
Window(b, start, end) ==
    [b EXCEPT !.offset = @ + start, !.length = end - start, !.at = @ + start]

BufSlice ==
    /\ Len(bufs) < MaxBuffers
    /\ \E i \in DOMAIN bufs : \E start, end \in 0..bufs[i].length :
         start <= end /\ bufs' = Append(bufs, Window(bufs[i], start, end))
    /\ UNCHANGED <<blocks, pool, content, writes>>

(***************************************************************************)
(* write, fill and copy: what they do to the memory, and what they would   *)
(* do to a buffer of its own.                                              *)
(***************************************************************************)
Room(b, offset, length) ==   \* Buffer.prototype.write: the length it passes on
    IF length = 0 THEN b.length - offset ELSE Least(length, b.length - offset)

BufWrite ==
    /\ writes < MaxCalls
    /\ \E i \in DOMAIN bufs, string \in Strings : \E offset, length \in 0..bufs[i].length, hex \in BOOLEAN :
         LET b       == bufs[i]
             at      == b.offset + offset
             written == IF hex THEN HexWritten(b.block, string, at, Room(b, offset, length))
                               ELSE SlowWritten(b.block, string, at, Room(b, offset, length))
             space   == IF length = 0 THEN b.length - offset ELSE Least(length, b.length - offset)
             own     == IF hex THEN Least(Width(string), space) ELSE Fitting(string, space)
         IN  /\ (hex /\ offset = b.length) => HexAtEnd
             /\ blocks' = [blocks EXCEPT ![b.block] = Painted(@, at, written)]
             /\ content' = [content EXCEPT ![b.root] = Painted(@, b.at + offset, own)]
    /\ writes' = writes + 1
    /\ UNCHANGED <<pool, bufs>>

BufFill ==
    /\ writes < MaxCalls
    /\ \E i \in DOMAIN bufs : \E start, end \in 0..bufs[i].length :
         LET b == bufs[i]
         IN  /\ start < end
             /\ blocks' = [blocks EXCEPT ![b.block] = Painted(@, b.offset + start, end - start)]
             /\ content' = [content EXCEPT ![b.root] = Painted(@, b.at + start, end - start)]
    /\ writes' = writes + 1
    /\ UNCHANGED <<pool, bufs>>

\* memmove of n bytes: the source is read before anything is written
Moved(to, from, target, source, n) ==
    [i \in DOMAIN to |-> IF i \in target + 1..target + n
                         THEN from[i - target + source] ELSE to[i]]

Copied(b, c, target, start, end) ==   \* the number of bytes
    Least(end - start, c.length - target)

BufCopy ==
    /\ writes < MaxCalls
    /\ \E i, j \in DOMAIN bufs : \E start, end \in 0..bufs[i].length, target \in 0..bufs[j].length :
         LET b == bufs[i]
             c == bufs[j]
             n == Least(Copied(b, c, target, start, end),
                        Len(blocks[c.block]) - (c.offset + target))
             own == Least(end - start, c.length - target)
         IN  /\ start < end /\ target < c.length
             /\ blocks' = [blocks EXCEPT ![c.block] =
                  Moved(@, blocks[b.block], c.offset + target, b.offset + start, n)]
             /\ content' = [content EXCEPT ![c.root] =
                  Moved(@, content[b.root], c.at + target, b.at + start, own)]
    /\ writes' = writes + 1
    /\ UNCHANGED <<pool, bufs>>

BufNext == BufNumber \/ BufString \/ BufSlice \/ BufWrite \/ BufFill \/ BufCopy

BufSpec == BufInit /\ [][BufNext]_bufVars
-----------------------------------------------------------------------------
\* The types of the state; every buffer lies inside its SlowBuffer.
BufTypeOK ==
    /\ blocks \in Seq(Seq(0..MaxCalls)) /\ content \in Seq(Seq(0..MaxCalls))
    /\ pool.block \in 0..Len(blocks) /\ pool.used \in 0..PoolSize
    /\ writes \in 0..MaxCalls
    /\ \A i \in DOMAIN bufs : LET b == bufs[i] IN
         /\ b.block \in DOMAIN blocks /\ b.root \in DOMAIN content
         /\ b.offset \in Nat /\ b.length \in Nat /\ b.at \in Nat
         /\ b.offset + b.length <= Len(blocks[b.block])

(***************************************************************************)
(* Every buffer reads what it would read if its memory were its own: calls *)
(* on a buffer from the pool reach no other buffer but the slices of the   *)
(* same one, and those always (lib/buffer.js:201-247, :440-540).           *)
(***************************************************************************)
OwnBytes ==
    \A i \in DOMAIN bufs : LET b == bufs[i] IN
        SubSeq(blocks[b.block], b.offset + 1, b.offset + b.length) =
        SubSeq(content[b.root], b.at + 1, b.at + b.length)
-----------------------------------------------------------------------------
(***************************************************************************)
(* The text of a Buffer in base64: Base64Slice writes it, ByteLength says  *)
(* how much memory a text needs and Base64Write reads it back, past line   *)
(* breaks and padding (src/node_buffer.cc).  A character of a text is its  *)
(* value 0..63, or Pad, or Blank.                                          *)
(***************************************************************************)
baseVars == <<plain, text, blanks>>

Pad == -1     \* '=': unbase64_table has no value for it either
Blank == -2

(***************************************************************************)
(* Base64Slice: three bytes to four characters; what is missing of the     *)
(* last three is padded.                                                   *)
(***************************************************************************)
OutLength(n) == ((n + 2 - ((n + 2) % 3)) \div 3) * 4

Group(bytes, g) ==
    LET oob(k) == 3 * g + k > Len(bytes)
        at(k)  == IF oob(k) THEN 0 ELSE bytes[3 * g + k]
    IN  <<at(1) \div 4,
          (at(1) % 4) * 16 + (at(2) \div 16),
          IF oob(2) THEN Pad ELSE (at(2) % 16) * 4 + (at(3) \div 64),
          IF oob(3) THEN Pad ELSE at(3) % 64>>

Base64Slice(bytes) ==
    [j \in 1..OutLength(Len(bytes)) |-> Group(bytes, (j - 1) \div 4)[((j - 1) % 4) + 1]]

(***************************************************************************)
(* base64_decoded_size: by the length of the text and its last two         *)
(* characters.                                                             *)
(***************************************************************************)
Quarters(size) ==
    LET whole == (size \div 4) * 3
        rest  == size % 4
    IN  IF rest = 0 THEN whole
        ELSE IF whole = 0 /\ rest = 1 THEN 0
        ELSE whole + 1 + (IF rest = 3 THEN 1 ELSE 0)

DecodedSize(t) ==
    LET size == Quarters(Len(t))
        padded(i) == i > 0 /\ t[i] = Pad
    IN  IF size = 0 THEN 0
        ELSE size - (IF padded(Len(t)) THEN 1 ELSE 0) - (IF padded(Len(t) - 1) THEN 1 ELSE 0)

(***************************************************************************)
(* Base64Write: characters without a value are skipped, padding too; the   *)
(* others give bytes while there are enough of them and room.              *)
(***************************************************************************)
Valued(t) == SelectSeq(t, LAMBDA c : c >= 0)

ByteCount(n) == (n \div 4) * 3 + (CASE n % 4 = 2 -> 1 [] n % 4 = 3 -> 2 [] OTHER -> 0)

ByteAt(v, k) ==
    LET i == 4 * (k \div 3) + (k % 3) + 1
    IN  CASE k % 3 = 0 -> v[i] * 4 + (v[i + 1] \div 16)
          [] k % 3 = 1 -> (v[i] % 16) * 16 + (v[i + 1] \div 4)
          [] k % 3 = 2 -> (v[i] % 4) * 64 + v[i + 1]

Base64Write(t, room) ==
    LET v == Valued(t)
        n == ByteCount(Len(v))
    IN  [k \in 1..(IF n < room THEN n ELSE room) |-> ByteAt(v, k - 1)]

(***************************************************************************)
(* A buffer is filled byte by byte and its text folded.                    *)
(***************************************************************************)
BaseInit == plain = <<>> /\ text = <<>> /\ blanks = 0

AddOctet ==
    /\ Len(plain) < MaxOctets
    /\ \E o \in Octets : plain' = Append(plain, o)
    /\ text' = Base64Slice(plain') /\ blanks' = 0

Fold ==
    /\ blanks < MaxBlanks
    /\ \E i \in 1..Len(text) + 1 : text' = SubSeq(text, 1, i - 1) \o <<Blank>> \o SubSeq(text, i, Len(text))
    /\ blanks' = blanks + 1
    /\ UNCHANGED plain

BaseNext == AddOctet \/ Fold

BaseSpec == BaseInit /\ [][BaseNext]_baseVars
-----------------------------------------------------------------------------
\* The types of the state; Base64Slice fills the text it has allocated (node_buffer.cc:354).
BaseTypeOK ==
    /\ plain \in Seq(0..255) /\ text \in Seq(-2..63)
    /\ Len(plain) <= MaxOctets /\ blanks \in 0..MaxBlanks
    /\ Len(text) = OutLength(Len(plain)) + blanks

(***************************************************************************)
(* new Buffer(text, 'base64') holds the bytes the text was made of,        *)
(* wherever it was folded: ByteLength asks for enough memory, and          *)
(* Base64Write takes every byte out of the text.                           *)
(***************************************************************************)
RoundTrip ==
    /\ DecodedSize(text) >= Len(plain)
    /\ Base64Write(text, DecodedSize(text)) = plain
=============================================================================
