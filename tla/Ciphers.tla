------------------------------ MODULE Ciphers ------------------------------
(***************************************************************************)
(* crypto.Cipher, Decipher, Hmac, Hash, Sign and Verify of the Node.js     *)
(* runtime (src/node_v0.6.19/node/src/node_crypto.cc): objects that take   *)
(* data in pieces.                                                         *)
(*                                                                         *)
(* What a cipher takes goes through an OpenSSL context in pieces of any    *)
(* length, and each piece that comes out is returned as a string. What     *)
(* does not make a whole unit of the encoding (three bytes of base64, a    *)
(* character of UTF-8, the two digits of a byte in hex) is kept for the    *)
(* next piece. The bytes that come out are numbered, 1, 2, ...; byte 0 is  *)
(* one that nobody wrote. What the bytes are is left out, but for where    *)
(* the characters of a deciphered text begin.                              *)
(*                                                                         *)
(* The other objects give one answer, and are usable while initialised_ is *)
(* set. lib/crypto.js calls init once, when it creates the object, except  *)
(* for Hash, whose constructor does it and takes no notice of a failure. A *)
(* digest is the data it was made from; a signature is the data and the    *)
(* key pair.                                                               *)
(***************************************************************************)
EXTENDS Integers, Sequences, FiniteSets, Functions

CONSTANTS Blocks,      \* block sizes of the ciphers, 1 for a stream cipher
          MaxFed,      \* bound on the bytes a cipher is given
          Chunk,       \* bound on the bytes, or hex digits, of one update
          Texts,       \* texts to decipher: the lengths of their characters
          Digesters,   \* the objects that give one answer
          Pieces,      \* what an update of them may bring
          MaxUpdates,  \* bound on the updates of an object
          KeyPairs,    \* key pairs that PEM texts of applications stand for
          Unreadable   \* a PEM text or a signature that cannot be read

VARIABLES obj,         \* the Cipher or Decipher
          returned,    \* the bytes of the strings it has returned (history)
          ragged,      \* how many of them end within a group of three (history)
          digest,      \* the C++ objects that give one answer
          accepted,    \* the pieces update has taken of each of them (history)
          answers      \* what each of them has answered (history)
cipherVars == <<obj, returned, ragged>>
digestVars == <<digest, accepted, answers>>

Encodings == {"hex", "base64", "binary"}

\* fed: bytes the context was given. made: bytes that came out of it. over:
\* incomplete_base64 or incomplete_utf8. hexFlag: incomplete_hex_flag.
\* taken: digits of the input so far. last: bytes that came out in final.
NewObj(kind, block, enc, text) ==
    [kind |-> kind, block |-> block, enc |-> enc, text |-> text, state |-> "new",
     fed |-> 0, made |-> 0, over |-> <<>>, hexFlag |-> FALSE, taken |-> 0, last |-> 0]

CipherInit ==
    /\ \E block \in Blocks :
         \/ \E enc \in Encodings : obj = NewObj("cipher", block, enc, <<>>)
         \/ \E enc \in {"utf8", "binary"}, text \in Texts :
              obj = NewObj("decipher", block, enc, text)
    /\ returned = <<>>
    /\ ragged = 0

Bytes(from, to) == [i \in 1 .. to - from + 1 |-> from + i - 1]
\* A call returns a string of these bytes.
ReturnString(bytes) ==
    /\ returned' = returned \o bytes
    /\ ragged' = IF (Len(bytes) % 3) = 0 THEN ragged ELSE ragged + 1

First(s, n) == SubSeq(s, 1, n)
After(s, n) == SubSeq(s, n + 1, Len(s))

\* init and initiv: an unknown cipher, or a key or an iv of a wrong length,
\* fails, and the object is not used.
Initialise ==
    /\ obj.state = "new"
    /\ obj' \in {[obj EXCEPT !.state = s] : s \in {"ready", "failed"}}
    /\ UNCHANGED <<returned, ragged>>

-----------------------------------------------------------------------------
(* Cipher *)

\* EVP_CipherUpdate gives out the blocks that are full; EVP_CipherFinal_ex
\* pads the last one.
Enciphered(fed) == (fed \div obj.block) * obj.block
Padded(fed) == IF obj.block = 1 THEN fed ELSE Enciphered(fed) + obj.block


\* Mutant: all of an output that cannot be cut evenly is held back.
TrimAll(out) == IF obj.enc = "base64" /\ (Len(out) % 3) # 0 THEN 0 ELSE Len(out)

Trim(out) == IF obj.enc = "base64" THEN Len(out) - (Len(out) % 3) ELSE Len(out)

\* Mutant: the overhang is left behind the new bytes.
JoinLate(out) == IF obj.enc = "base64" THEN out \o obj.over ELSE out

\* The output as a string, the overhang of base64 in front of it.
Join(out) == IF obj.enc = "base64" THEN obj.over \o out ELSE out

CipherUpdate(n) ==
    /\ obj.kind = "cipher" /\ obj.state = "ready"
    /\ obj.fed + n =< MaxFed
    /\ LET made == Enciphered(obj.fed + n)
           out == Bytes(obj.made + 1, made)
           all == IF out = <<>> THEN <<>> ELSE Join(out)
       IN /\ ReturnString(First(all, Trim(all)))
          /\ obj' = [obj EXCEPT !.fed = @ + n, !.made = made,
                                !.over = IF out = <<>> \/ obj.enc # "base64" THEN @
                                         ELSE After(all, Trim(all))]

\* final: without an output of its own it returns nothing at all.
CipherFinal ==
    /\ obj.kind = "cipher" /\ obj.state = "ready"
    /\ LET made == Padded(obj.fed)
           out == Bytes(obj.made + 1, made)
       IN /\ ReturnString(IF out = <<>> THEN <<>> ELSE Join(out))
          /\ obj' = [obj EXCEPT !.state = "final", !.made = made, !.last = Len(out),
                                !.over = IF out = <<>> \/ obj.enc # "base64" THEN @ ELSE <<>>]

-----------------------------------------------------------------------------
(* Decipher *)

TextLen == FoldFunction(LAMBDA n, sum : n + sum, 0, obj.text)
CipherLen == Padded(TextLen)

\* Byte b of the text: the length of its character if it is the first of it,
\* else 0, a subsequent byte. So are the bytes behind the text, which only come
\* out when the digits of the input have got out of step.
StartOf(i) == 1 + FoldFunction(LAMBDA n, sum : n + sum, 0, First(obj.text, i - 1))
Lead(b) == IF \E i \in DOMAIN obj.text : StartOf(i) = b
           THEN obj.text[CHOOSE i \in DOMAIN obj.text : StartOf(i) = b] ELSE 0

\* LengthWithoutIncompleteUtf8: it looks back from the end for the byte a
\* character begins with, over the subsequent bytes it has seen. at is the
\* number of bytes up to that one and with it; to a complete character of n
\* bytes the code adds n, one more than it has left.
WithoutIncomplete(out) ==
    LET n == Len(out)
        leads == {i \in 1 .. n : Lead(out[i]) > 0}
        at == CHOOSE i \in leads : \A j \in leads : j =< i
        size == Lead(out[at])
        seen == n - at
    IN IF leads = {} THEN 0
       ELSE IF size = 1 THEN IF seen = 0 THEN n ELSE at
       ELSE IF seen >= size - 1 THEN at + size
       ELSE at - 1

\* Encode of n bytes: byte 0 is behind the end of what was deciphered.
Encoded(out, n) == [i \in 1 .. n |-> IF i =< Len(out) THEN out[i] ELSE 0]

\* EVP_CipherUpdate keeps the last block back when it is full: it may be the
\* one with the padding.
Deciphered(fed) ==
    IF obj.block = 1 THEN fed
    ELSE IF (fed % obj.block) = 0 /\ fed > 0 THEN fed - obj.block
    ELSE (fed \div obj.block) * obj.block

Kept(all, n) == After(all, n)

\* Feed n bytes to the context; rest is what becomes of the input.
DecipherBytes(n, rest) ==
    LET made == Deciphered(obj.fed + n)
        out == Bytes(obj.made + 1, made)
        all == obj.over \o out
        whole == IF obj.enc = "utf8" THEN WithoutIncomplete(all) ELSE Len(all)
    IN IF out = <<>>
       THEN /\ ReturnString(<<>>)
            /\ obj' = [rest EXCEPT !.fed = @ + n]
       ELSE /\ ReturnString(Encoded(all, whole))
            /\ obj' = [rest EXCEPT !.fed = @ + n, !.made = made,
                                   !.over = IF whole < Len(all) THEN Kept(all, whole) ELSE <<>>]

\* update with binary input.
DecipherUpdate(n) ==
    /\ obj.kind = "decipher" /\ obj.state = "ready"
    /\ obj.taken = 0
    /\ obj.fed + n =< CipherLen
    /\ DecipherBytes(n, obj)

\* update with n hex digits: the odd one of the piece before comes first, and
\* its flag stays.
DecipherUpdateHex(n) ==
    /\ obj.kind = "decipher" /\ obj.state = "ready"
    /\ 2 * obj.fed =< obj.taken + 1
    /\ obj.taken + n =< 2 * CipherLen
    /\ LET all == n + (IF obj.hexFlag THEN 1 ELSE 0)
       IN DecipherBytes(all \div 2,
              [obj EXCEPT !.taken = @ + n, !.hexFlag = @ \/ (all % 2) = 1])

\* final: a last block that is missing or not full makes OpenSSL fail, which
\* the code takes for a block of no bytes.
DecipherFinal ==
    /\ obj.kind = "decipher" /\ obj.state = "ready"
    /\ LET made == IF obj.fed = CipherLen THEN TextLen ELSE obj.made
           out == Bytes(obj.made + 1, made)
           all == obj.over \o out
       IN /\ ReturnString(IF out = <<>> THEN <<>> ELSE all)
          /\ obj' = [obj EXCEPT !.state = "final", !.made = made, !.last = Len(out),
                                !.over = IF out = <<>> THEN @ ELSE <<>>]

CipherNext ==
    \/ Initialise
    \/ \E n \in 0 .. Chunk : CipherUpdate(n) \/ DecipherUpdate(n) \/ DecipherUpdateHex(n)
    \/ CipherFinal \/ DecipherFinal

CipherSpec == CipherInit /\ [][CipherNext]_cipherVars
-----------------------------------------------------------------------------
(* Objects that give one answer *)

NoDigest == [kind |-> "none", init |-> FALSE, data |-> <<>>]

DigestInit ==
    /\ digest = [o \in Digesters |-> NoDigest]
    /\ accepted = [o \in Digesters |-> <<>>]
    /\ answers = [o \in Digesters |-> <<>>]

Is(o, kind) == digest[o].kind = kind

\* A new object. When the digest is unknown, or a key is no string or buffer,
\* init throws and there is no object to use.
Create(o, kind) ==
    /\ Is(o, "none")
    /\ digest' = [digest EXCEPT ![o] = [kind |-> kind, init |-> TRUE, data |-> <<>>]]
    /\ UNCHANGED <<accepted, answers>>

\* update: data goes to the context, or the call throws.
Feed(o, d) ==
    /\ Len(accepted[o]) < MaxUpdates
    /\ digest[o].init
    /\ digest' = [digest EXCEPT ![o].data = Append(@, d)]
    /\ accepted' = [accepted EXCEPT ![o] = Append(@, d)]
    /\ UNCHANGED answers

\* The context is cleaned up and the object is of no use any more.
Finished(o) == [digest EXCEPT ![o].init = FALSE, ![o].data = <<>>]

Answer(o, a) ==
    /\ answers' = [answers EXCEPT ![o] = Append(@, a)]
    /\ digest' = Finished(o)
    /\ UNCHANGED accepted

-----------------------------------------------------------------------------
HmacInit(o) == Create(o, "hmac")
HmacUpdate(o, d) == Is(o, "hmac") /\ Feed(o, d)

\* Without a context the answer is an empty string, else it is made.
HmacDigest(o) ==
    /\ Is(o, "hmac") /\ digest[o].init
    /\ Answer(o, [text |-> digest[o].data])

-----------------------------------------------------------------------------
\* The object exists also when the digest is unknown: each call of it throws.
HashNew(o) ==
    \/ Create(o, "hash")
    \/ /\ Is(o, "none")
       /\ digest' = [digest EXCEPT ![o].kind = "hash"]
       /\ UNCHANGED <<accepted, answers>>

HashUpdate(o, d) == Is(o, "hash") /\ Feed(o, d)

HashDigest(o) ==
    /\ Is(o, "hash") /\ digest[o].init
    /\ Answer(o, [text |-> digest[o].data])

-----------------------------------------------------------------------------
SignInit(o) == Create(o, "sign")
SignUpdate(o, d) == Is(o, "sign") /\ Feed(o, d)

\* A key that cannot be read gives an empty string and leaves the object as it
\* is, so that it can be called again.
SignFinal(o, pem) ==
    /\ Is(o, "sign") /\ digest[o].init
    /\ pem # Unreadable
    /\ Answer(o, [text |-> digest[o].data, key |-> pem])

-----------------------------------------------------------------------------
VerifyInit(o) == Create(o, "verify")
VerifyUpdate(o, d) == Is(o, "verify") /\ Feed(o, d)

\* EVP_VerifyFinal: 1, 0, or -1 for a signature it cannot read.
VerifyResult(o, pem, sig) ==
    IF sig = Unreadable THEN -1
    ELSE IF sig = [text |-> digest[o].data, key |-> pem] THEN 1 ELSE 0

Verified(r) == r # 0 /\ r # -1

\* The answer false of an object without context, with a key that cannot be
\* read or an encoding that is not known changes nothing.
VerifyFinal(o, pem, sig) ==
    /\ Is(o, "verify") /\ digest[o].init
    /\ pem # Unreadable
    /\ Answer(o, [text |-> digest[o].data, key |-> pem, sig |-> sig,
                  verified |-> Verified(VerifyResult(o, pem, sig))])

-----------------------------------------------------------------------------
\* Signatures applications may have: those that were made, and other texts.
Signatures ==
    {Unreadable} \cup UNION {{answers[o][i] : i \in DOMAIN answers[o]} :
                             o \in {x \in Digesters : Is(x, "sign")}}

DigestNext ==
    \E o \in Digesters :
      \/ HmacInit(o) \/ HmacDigest(o)
      \/ HashNew(o) \/ HashDigest(o)
      \/ SignInit(o) \/ VerifyInit(o)
      \/ \E d \in Pieces :
           HmacUpdate(o, d) \/ HashUpdate(o, d) \/ SignUpdate(o, d) \/ VerifyUpdate(o, d)
      \/ \E pem \in KeyPairs \cup {Unreadable} :
           SignFinal(o, pem) \/ \E sig \in Signatures : VerifyFinal(o, pem, sig)

DigestSpec == DigestInit /\ [][DigestNext]_digestVars
-----------------------------------------------------------------------------
(* Properties *)

\* Types of the state of the object.
CipherTypeOK ==
    /\ obj.state \in {"new", "ready", "failed", "final"}
    /\ obj.fed \in Nat /\ obj.made \in Nat /\ obj.taken \in Nat /\ obj.hexFlag \in BOOLEAN
    /\ obj.over \in Seq(Nat) /\ (obj.kind = "cipher" => Len(obj.over) =< 2)
    /\ returned \in Seq(Nat) /\ ragged \in Nat

\* Does byte b of a text end a character of several bytes?
EndsWide(b) == /\ b \in 1 .. TextLen /\ Lead(b) = 0
               /\ b = TextLen \/ Lead(b + 1) > 0

\* Every byte that came out of the context has been returned, once and in its
\* place, or waits in front of the next, however the data was cut; and final
\* leaves none waiting, unless it has no output of its own. The one byte that
\* nobody wrote stands in a deciphered UTF-8 string, behind a character of
\* several bytes with which an update ended, and nowhere else.
NothingLost ==
    /\ SelectSeq(returned, LAMBDA b : b # 0) \o obj.over = Bytes(1, obj.made)
    /\ \A k \in DOMAIN returned : returned[k] = 0 =>
          obj.enc = "utf8" /\ k > 1 /\ EndsWide(returned[k - 1])
    /\ obj.state = "final" /\ obj.last > 0 => obj.over = <<>>

\* "Returns any remaining enciphered contents" (crypto.markdown:143): final
\* leaves nothing behind.
FinalReturnsRest == obj.state = "final" => obj.over = <<>>

\* The base64 strings can be joined: all but the last stand for whole groups
\* of three bytes, so that no padding comes between them.
Base64Joins ==
    obj.kind = "cipher" /\ obj.enc = "base64" =>
      ragged = 0 \/ (obj.state = "final" /\ ragged = 1)

\* Types of the objects.
DigestTypeOK ==
    \A o \in Digesters :
      /\ digest[o].kind \in {"none", "hmac", "hash", "sign", "verify"}
      /\ digest[o].init \in BOOLEAN
      /\ digest[o].data \in Seq(Pieces) /\ accepted[o] \in Seq(Pieces)

\* An object answers at most once, about all the data its updates have taken,
\* also when a key could not be read in between: no update is taken that an
\* answer does not cover, before it or after it.
AnswersCoverAll ==
    \A o \in Digesters :
      /\ Len(answers[o]) =< 1
      /\ \A i \in DOMAIN answers[o] : answers[o][i].text = accepted[o]
      /\ digest[o].init => digest[o].data = accepted[o]

\* verify answers true for a signature that an object of Sign has made with
\* the same key pair, of the data that the verifying object has taken, and for
\* no other.
VerifiesWhatWasSigned ==
    \A o \in Digesters : Is(o, "verify") =>
      \A i \in DOMAIN answers[o] : LET a == answers[o][i] IN
        a.verified <=> \E s \in Digesters :
          /\ Is(s, "sign")
          /\ \E j \in DOMAIN answers[s] : /\ answers[s][j] = a.sig
                                          /\ accepted[s] = accepted[o]
                                          /\ answers[s][j].key = a.key
=============================================================================
