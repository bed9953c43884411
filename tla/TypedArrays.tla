---------------------------- MODULE TypedArrays ----------------------------
(***************************************************************************)
(* ArrayBuffers and the views on them of src/v8_typed_array.cc: the        *)
(* constructors, subarray, set and the DataView.  memory is what the code  *)
(* makes of the bytes, image what they would be if each set had copied its *)
(* source first.                                                           *)
(*                                                                         *)
(* A byte is a value that is only moved about; an element of a two-byte    *)
(* kind is its low and its high byte.                                      *)
(***************************************************************************)
EXTENDS Integers, Sequences

CONSTANTS
    Size,         \* bytes of the ArrayBuffer, filled with different values
    Kinds,        \* element types that are used, of "u8", "i8", "u16"
    MixedKinds,   \* whether set is called with an array of another type
    MaxViews,     \* bound: views
    MaxSets       \* bound: calls of set, of views and of DataViews

VARIABLES
    memory,       \* the bytes
    image,        \* the bytes as the comment at v8_typed_array.cc:289 has them
    views,        \* the views, each with the one it is a subarray of
    sets          \* count for the bound

taVars == <<memory, image, views, sets>>

TBytes(kind) == IF kind = "u16" THEN 2 ELSE 1

ArgsBegin == -(Size + 1)..Size + 1    \* arguments of subarray

TaInit ==
    /\ memory = [i \in 1..Size |-> i]
    /\ image = memory
    /\ views = <<>>
    /\ sets = 0

(***************************************************************************)
(* TypedArray::V8New on an ArrayBuffer.                                    *)
(***************************************************************************)
View(kind, offset, length) ==
    [kind |-> kind, offset |-> offset, length |-> length]

Fits(v) == /\ v.offset % TBytes(v.kind) = 0
           /\ v.offset + v.length * TBytes(v.kind) <= Size

NewView ==
    /\ Len(views) < MaxViews
    /\ \E kind \in Kinds, offset, length \in 0..Size :
         LET v == View(kind, offset, length)
         IN  /\ Fits(v)
             /\ views' = Append(views, [view |-> v, of |-> 0, begin |-> 0, end |-> length])
    /\ UNCHANGED <<memory, image, sets>>

(***************************************************************************)
(* TypedArray::subarray: negative arguments count from the end, and both   *)
(* are cut to the array; the constructor is called with the result.        *)
(***************************************************************************)
FromEnd(i, length) ==
    LET j == IF i < 0 THEN length + i ELSE i
    IN  IF j < 0 THEN 0 ELSE IF j > length THEN length ELSE j

Subview(v, begin, end) ==
    LET to   == FromEnd(end, v.length)
        from == IF FromEnd(begin, v.length) > to THEN to ELSE FromEnd(begin, v.length)
    IN  View(v.kind, v.offset + from * TBytes(v.kind), to - from)

Subarray ==
    /\ Len(views) < MaxViews
    /\ \E i \in DOMAIN views, begin, end \in ArgsBegin :
         views' = Append(views, [view |-> Subview(views[i].view, begin, end), of |-> i,
                                 begin |-> begin, end |-> end])
    /\ UNCHANGED <<memory, image, sets>>

(***************************************************************************)
(* Elements, and one element stored as another kind.                       *)
(***************************************************************************)
Place(v, i) == v.offset + i * TBytes(v.kind)   \* the bytes before element i

Element(bytes, v, i) ==
    [low |-> bytes[Place(v, i) + 1], high |-> IF v.kind = "u16" THEN bytes[Place(v, i) + 2] ELSE 0]

Stored(bytes, v, i, e) ==
    [k \in 1..Size |-> CASE k = Place(v, i) + 1 -> e.low
                         [] k = Place(v, i) + 2 /\ v.kind = "u16" -> e.high
                         [] OTHER -> bytes[k]]

(***************************************************************************)
(* TypedArray::set.  An array of the same type is moved at once, any other *)
(* object element by element, each read after the one before was stored.   *)
(***************************************************************************)
Moved(bytes, v, at, source) ==
    LET n == source.length * TBytes(v.kind)
        to == Place(v, at)
    IN  [k \in 1..Size |-> IF k \in to + 1..to + n THEN bytes[k - to + source.offset] ELSE bytes[k]]

OneByOne(bytes, v, at, source) ==
    LET after[i \in 0..Size] ==
          IF i = 0 THEN bytes
          ELSE LET before == after[i - 1]
               IN  Stored(before, v, at + i - 1, Element(before, source, i - 1))
    IN  after[source.length]

Set(bytes, v, at, source) ==
    IF v.kind = source.kind THEN Moved(bytes, v, at, source) ELSE OneByOne(bytes, v, at, source)

AsIfCopied(bytes, v, at, source) ==
    [k \in 1..Size |->
        LET i == (k - 1 - Place(v, at)) \div TBytes(v.kind)
            e == Element(bytes, source, i)
        IN  IF k \in Place(v, at) + 1..Place(v, at + source.length)
            THEN IF (k - 1 - Place(v, at)) % TBytes(v.kind) = 0 THEN e.low ELSE e.high
            ELSE bytes[k]]

SetArray ==
    /\ sets < MaxSets
    /\ \E i, j \in DOMAIN views : \E at \in 0..views[i].view.length :
         LET v == views[i].view
             source == views[j].view
         IN  /\ v.kind = source.kind \/ MixedKinds
             /\ source.length <= v.length - at
             /\ memory' = Set(memory, v, at, source)
             /\ image' = AsIfCopied(image, v, at, source)
    /\ sets' = sets + 1
    /\ UNCHANGED views

(***************************************************************************)
(* DataView::setGeneric of a two-byte value: swizzled unless the caller    *)
(* asks for little-endian.                                                 *)
(***************************************************************************)
Swizzle(buf) == [i \in DOMAIN buf |-> buf[Len(buf) + 1 - i]]

ValueBytes(value, little) == IF little THEN value ELSE Swizzle(value)

DataViewSet ==
    /\ sets < MaxSets
    /\ \E i \in DOMAIN views, little \in BOOLEAN : \E index \in 0..Size :
         LET v == views[i].view
             k == v.offset + index
             value == <<Size + 1, Size + 2>>   \* low and high byte
         IN  /\ index + 2 <= v.length * TBytes(v.kind)
             /\ memory' = [memory EXCEPT ![k + 1] = ValueBytes(value, little)[1],
                                         ![k + 2] = ValueBytes(value, little)[2]]
             /\ image' = [image EXCEPT ![k + 1] = IF little THEN Size + 1 ELSE Size + 2,
                                       ![k + 2] = IF little THEN Size + 2 ELSE Size + 1]
    /\ sets' = sets + 1
    /\ UNCHANGED views

TaNext == NewView \/ Subarray \/ SetArray \/ DataViewSet

TaSpec == TaInit /\ [][TaNext]_taVars
-----------------------------------------------------------------------------
\* The types of the state; every view lies in its ArrayBuffer and is aligned.
TaTypeOK ==
    /\ memory \in [1..Size -> 0..Size + 2] /\ image \in [1..Size -> 0..Size + 2]
    /\ sets \in 0..MaxSets
    /\ \A i \in DOMAIN views :
         /\ views[i].view \in [kind : Kinds, offset : 0..Size, length : 0..Size]
         /\ Fits(views[i].view) /\ views[i].of \in 0..i - 1

(***************************************************************************)
(* subarray gives the elements from begin to end, counted from the end     *)
(* when negative, of the array it is called on, for all arguments: the     *)
(* mixture of signed and unsigned that v8_typed_array.cc:329 worries about *)
(* never leaves the array.                                                 *)
(***************************************************************************)
SubarrayElements ==
    \A i \in DOMAIN views : views[i].of # 0 =>
        LET s     == views[i]
            whole == views[s.of].view
            in(k) == /\ k >= (IF s.begin < 0 THEN whole.length + s.begin ELSE s.begin)
                     /\ k < (IF s.end < 0 THEN whole.length + s.end ELSE s.end)
            kept  == {k \in 0..whole.length - 1 : in(k)}
        IN  {Place(s.view, k) : k \in 0..s.view.length - 1} = {Place(whole, k) : k \in kept}

(***************************************************************************)
(* set writes as if the source had been copied before (the comment at      *)
(* v8_typed_array.cc:289-294), also when both arrays share bytes, and a    *)
(* DataView stores the byte order it is told.                              *)
(***************************************************************************)
SetAsIfCopied == memory = image
=============================================================================
