---------------------------- MODULE KeyMaterial ----------------------------
(***************************************************************************)
(* Where keys come from in the Node.js runtime                             *)
(* (src/node_v0.6.19/node/src/node_crypto.cc).                             *)
(*                                                                         *)
(* crypto.DiffieHellman: parties that agree on a prime, generate keys,     *)
(* hand out the public ones and compute a secret.  Numbers are real here,  *)
(* and small.  A number is passed on as a string of digits to the base     *)
(* Base, most significant first, as BN_bn2bin writes its bytes.            *)
(*                                                                         *)
(* Keys derived from passwords, and random bytes, made in threads of the   *)
(* pool; random bytes also in the thread of JavaScript.  The generator of  *)
(* OpenSSL is one for all threads: they take turns through the locks node  *)
(* gives to OpenSSL.                                                       *)
(***************************************************************************)
EXTENDS Integers, Sequences, FiniteSets, Functions

CONSTANTS Parties,       \* the objects
          Primes,        \* primes that applications ask for
          PrivateKeys,   \* private keys that are drawn or set
          Base,          \* a digit is less than Base
          Junk,          \* digits that may be in memory nobody has written
          Jobs,          \* calls for keys and random bytes a behaviour makes
          PoolThreads,   \* threads of the pool
          NoThread

VARIABLES dh,       \* the DH context of each object
          given,    \* public keys each object has generated and returned since
                    \* its private key was last set (history)
          secret,   \* the last secret each object has returned since then (history)
          job,      \* each call: its kind, place, thread, result, and memory
          lock,     \* thread that holds the lock of the generator, or NoThread
          rng,      \* bytes the generator has given
          busy      \* threads at work
dhVars == <<dh, given, secret>>
jobVars == <<job, lock, rng, busy>>

NoSecret == [with |-> <<>>, digits |-> <<>>, string |-> <<>>]

NoNumber == -1
Generator == 2

DhInit ==
    /\ dh = [o \in Parties |-> [init |-> FALSE, p |-> 0, pub |-> NoNumber, priv |-> NoNumber]]
    /\ given = [o \in Parties |-> {}]
    /\ secret = [o \in Parties |-> NoSecret]

-----------------------------------------------------------------------------
(* Numbers and strings *)

\* x to the power n modulo p: BN_mod_exp.
ModExp(x, n, p) == FoldFunction(LAMBDA i, r : (r * x) % p, 1, [i \in 1 .. n |-> i])

Size(n) == CHOOSE k \in 0 .. n : n < Base ^ k /\ (k = 0 \/ n >= Base ^ (k - 1))
NumberString(n) == [i \in 1 .. Size(n) |-> (n \div Base ^ (Size(n) - i)) % Base]
StringNumber(s) == FoldFunction(LAMBDA d, n : d + n, 0, [i \in DOMAIN s |-> s[i] * Base ^ (Len(s) - i)])

\* VerifyContext: DH_check, with 2 for the generator.
IsPrime(n) == n > 1 /\ \A d \in 2 .. n - 1 : n % d # 0
SafePrime(p) == IsPrime(p) /\ IsPrime(p \div 2) /\ p % 24 = 11

-----------------------------------------------------------------------------
(* The calls *)

\* New with a length, and with the prime of another party.
New(o, p) ==
    /\ ~dh[o].init
    /\ SafePrime(p)
    /\ dh' = [dh EXCEPT ![o].init = TRUE, ![o].p = p]
    /\ UNCHANGED <<given, secret>>

GetPrime(o) == NumberString(dh[o].p)
NewLike(o, q) == dh[q].init /\ New(o, StringNumber(GetPrime(q)))

\* DH_generate_key keeps the private key there is.
Drawn(o) == IF dh[o].priv = NoNumber THEN PrivateKeys ELSE {dh[o].priv}

GenerateKeys(o) ==
    /\ dh[o].init
    /\ \E x \in Drawn(o) :
         LET pub == ModExp(Generator, x, dh[o].p) IN
         /\ dh' = [dh EXCEPT ![o].priv = x, ![o].pub = pub]
         /\ given' = [given EXCEPT ![o] = @ \cup {NumberString(pub)}]
    /\ UNCHANGED secret

GetPublicKey(o) == NumberString(dh[o].pub)
GetPrivateKey(o) == NumberString(dh[o].priv)

SetPublicKey(o, s) ==
    /\ dh[o].init
    /\ dh' = [dh EXCEPT ![o].pub = StringNumber(s)]
    /\ UNCHANGED <<given, secret>>

SetPrivateKey(o, s) ==
    /\ dh[o].init
    /\ dh' = [dh EXCEPT ![o].priv = StringNumber(s)]
    /\ given' = [given EXCEPT ![o] = {}]
    /\ secret' = [secret EXCEPT ![o] = NoSecret]

\* DH_check_pub_key in DH_compute_key.
TooSmall(key) == key =< 1
TooLarge(o, key) == key >= dh[o].p - 1

\* The string is as long as the prime; behind the digits of the secret is what
\* was in memory. An error is thrown without a private key, or for a key that
\* is too small or too large.
ComputeSecret(o, s) ==
    LET key == StringNumber(s)
        digits == NumberString(ModExp(key, dh[o].priv, dh[o].p))
        free == Size(dh[o].p) - Len(digits)
    IN /\ dh[o].init /\ dh[o].priv # NoNumber
       /\ ~TooSmall(key) /\ ~TooLarge(o, key)
       /\ \E rest \in [1 .. free -> Junk] :
            secret' = [secret EXCEPT ![o] =
                         [with |-> s, digits |-> digits, string |-> digits \o rest]]
       /\ UNCHANGED <<dh, given>>

\* The other's public key, as it was returned or as it is read now.
Offered(o) == given[o] \cup IF dh[o].pub = NoNumber THEN {} ELSE {GetPublicKey(o)}

DhNext ==
    \E o \in Parties :
      \/ \E p \in Primes : New(o, p)
      \/ GenerateKeys(o)
      \/ \E q \in Parties \ {o} :
           \/ NewLike(o, q)
           \/ \E s \in Offered(q) : SetPublicKey(o, s) \/ ComputeSecret(o, s)
           \/ dh[q].priv # NoNumber /\ SetPrivateKey(o, GetPrivateKey(q))

DhSpec == DhInit /\ [][DhNext]_dhVars
-----------------------------------------------------------------------------
(* Properties *)

\* Types of the contexts.
DhTypeOK ==
    \A o \in Parties :
      /\ dh[o].init \in BOOLEAN
      /\ {dh[o].p, dh[o].pub, dh[o].priv} \subseteq Nat \cup {NoNumber}
      /\ \A s \in given[o] : s \in Seq(0 .. Base - 1)

\* Two parties that have used public keys the other has generated, with one
\* prime, have computed the same number last, in whatever order keys were
\* generated, set and read, and however often; and the same string, when the
\* number has as many digits as the prime.
Agreed(o, q) ==
    secret[o].with \in given[q] /\ secret[q].with \in given[o] /\ dh[o].p = dh[q].p

SecretsFit ==
    \A o \in Parties : \A q \in Parties \ {o} :
      Agreed(o, q) =>
        /\ secret[o].digits = secret[q].digits
        /\ Len(secret[o].digits) = Size(dh[o].p) => secret[o].string = secret[q].string

-----------------------------------------------------------------------------
(* Derived keys and random bytes *)

Threads == PoolThreads \cup {"js"}
NoBytes == -1

\* A call: `state` is what its thread has read of the generator; pass, salt, key
\* and data are memory, "none", "live", "wiped", "freed" or given to a Buffer;
\* `error` is its err or error_, `got` what callback or caller was given.
NewJob == [kind |-> "none", place |-> "none", thread |-> NoThread, state |-> NoBytes,
           pass |-> "none", salt |-> "none", key |-> "none", data |-> "none",
           bytes |-> NoBytes, error |-> FALSE, got |-> NoBytes, told |-> 0, dirty |-> FALSE]

Set(j, fields) == job' = [job EXCEPT ![j] = [f \in DOMAIN NewJob |->
                            IF f \in DOMAIN fields THEN fields[f] ELSE job[j][f]]]
-----------------------------------------------------------------------------
(* The locks OpenSSL asks for (crypto_lock_cb), here that of the generator,*)
(* each free to begin with.                                                *)

crypto_lock_init == lock = NoThread

Lock(t) == lock = NoThread /\ lock' = t
Unlock(t) == lock = t /\ lock' = NoThread
crypto_id_cb(t) == t
-----------------------------------------------------------------------------
(* Calls from JavaScript.                                                  *)

\* What may be wrong with the arguments of pbkdf2, in the order it is looked for,
\* and what has been allocated by then: it is freed, and not wiped; only a salt
\* of a wrong type leaves the password where it is.
TypeErrors == {"Bad parameter", "Bad password", "Not a string or buffer", "Bad salt",
               "Bad iterations", "Bad key length", "Callback not a function"}
PBKDF2Refused(j) ==
    \E why \in TypeErrors :
      LET pass == IF why \in {"Bad parameter", "Bad password"} THEN "none"
                  ELSE IF why = "Not a string or buffer" THEN "live" ELSE "freed"
          salt == IF pass = "freed" /\ why # "Bad salt" THEN "freed" ELSE "none"
          key == IF why = "Callback not a function" THEN "freed" ELSE "none"
      IN  Set(j, [kind |-> "pbkdf2", place |-> "refused", pass |-> pass, salt |-> salt,
                  key |-> key, dirty |-> pass # "none"])

PBKDF2(j) ==
    /\ job[j].place = "none" /\ "js" \notin busy
    /\ \/ PBKDF2Refused(j)
       \/ Set(j, [kind |-> "pbkdf2", place |-> "queued", pass |-> "live", salt |-> "live",
                  key |-> "live"])
    /\ UNCHANGED <<lock, rng, busy>>

\* randomBytes and pseudoRandomBytes: with a callback the request is queued, and
\* without one this thread makes the bytes.
RandomBytes(j, generator) ==
    /\ job[j].place = "none" /\ "js" \notin busy
    /\ \/ Set(j, [kind |-> generator, place |-> "refused"]) /\ UNCHANGED busy
       \/ Set(j, [kind |-> generator, place |-> "queued", data |-> "live"]) /\ UNCHANGED busy
       \/ /\ Set(j, [kind |-> generator, place |-> "lock", data |-> "live", thread |-> "js"])
          /\ busy' = busy \cup {"js"}
    /\ UNCHANGED <<lock, rng>>
-----------------------------------------------------------------------------
(* The threads.                                                            *)

Take(j, t) ==
    /\ job[j].place = "queued" /\ t \notin busy
    /\ busy' = busy \cup {t}
    /\ Set(j, [place |-> IF job[j].kind = "pbkdf2" THEN "derive" ELSE "lock", thread |-> t])
    /\ UNCHANGED <<lock, rng>>

\* The pool gets its thread back; that of JavaScript stays in the call.
Leaves(t) == busy' = IF t = "js" THEN busy ELSE busy \ {t}

\* The key of password and salt, which are wiped then; `err` is 1 for success.
EIO_PBKDF2(j) ==
    /\ job[j].place = "derive"
    /\ \E err \in BOOLEAN : Set(j, [place |-> "after", error |-> err,
                                    bytes |-> IF err THEN j ELSE NoBytes,
                                    pass |-> "wiped", salt |-> "wiped"])
    /\ Leaves(job[j].thread)
    /\ UNCHANGED <<lock, rng>>

\* The generator: under its lock it goes on from where it was.  It may fail, or
\* give bytes that are not strong, which is an error of RAND_bytes only.
RandomBytesWork(j) == LET t == crypto_id_cb(job[j].thread) IN
    \/ /\ job[j].place = "lock" /\ Lock(t)
       /\ Set(j, [place |-> "read"])
       /\ UNCHANGED <<rng, busy>>
    \/ /\ job[j].place = "read"
       /\ Set(j, [place |-> "write", state |-> rng])
       /\ UNCHANGED <<lock, rng, busy>>
    \/ /\ job[j].place = "write"
       /\ rng' = job[j].state + 1
       /\ \E r \in {1, 0, -1} :
            Set(j, [place |-> "unlock", bytes |-> job[j].state,
                    error |-> r = -1 \/ (r = 0 /\ job[j].kind = "RAND_bytes")])
       /\ UNCHANGED <<lock, busy>>
    \/ /\ job[j].place = "unlock" /\ Unlock(t)
       /\ Set(j, [place |-> "after"])
       /\ Leaves(t)
       /\ UNCHANGED rng
-----------------------------------------------------------------------------
(* Back in JavaScript.                                                     *)

EIO_PBKDF2After(j) ==
    /\ job[j].place = "after" /\ job[j].kind = "pbkdf2" /\ "js" \notin busy
    /\ Set(j, [place |-> "told", told |-> job[j].told + 1,
               got |-> IF job[j].error THEN job[j].bytes ELSE NoBytes,
               pass |-> "freed", salt |-> "freed", key |-> "freed",
               dirty |-> job[j].pass = "live" \/ job[j].salt = "live"])
    /\ UNCHANGED <<lock, rng, busy>>

\* RandomBytesCheck: an error, whose memory nobody frees, or a Buffer that frees
\* it; for the callback, or as what the call returns or throws.
RandomBytesAfter(j) ==
    /\ job[j].place = "after" /\ job[j].kind # "pbkdf2"
    /\ IF job[j].thread = "js" THEN busy' = busy \ {"js"}
       ELSE "js" \notin busy /\ UNCHANGED busy
    /\ Set(j, [place |-> "told", told |-> job[j].told + 1,
               got |-> IF job[j].error THEN NoBytes ELSE job[j].bytes,
               data |-> IF job[j].error THEN "live" ELSE "buffer"])
    /\ UNCHANGED <<lock, rng>>

JobInit == /\ job = [j \in Jobs |-> NewJob] /\ crypto_lock_init
           /\ rng = 0 /\ busy = {}

JobNext == \E j \in Jobs :
    \/ PBKDF2(j) \/ \E generator \in {"RAND_bytes", "RAND_pseudo_bytes"} : RandomBytes(j, generator)
    \/ \E t \in PoolThreads : Take(j, t)
    \/ EIO_PBKDF2(j) \/ EIO_PBKDF2After(j)
    \/ (job[j].kind # "pbkdf2" /\ RandomBytesWork(j)) \/ RandomBytesAfter(j)
-----------------------------------------------------------------------------
Memory == {"none", "live", "wiped", "freed", "buffer"}

JobTypeOK == /\ \A j \in Jobs : /\ job[j].place \in {"none", "refused", "queued", "derive", "lock",
                                      "read", "write", "unlock", "after", "told"}
                                /\ job[j].thread \in Threads \cup {NoThread}
                                /\ {job[j].pass, job[j].salt, job[j].key, job[j].data} \subseteq Memory
             /\ lock \in Threads \cup {NoThread}
             /\ rng \in 0..Cardinality(Jobs) /\ busy \subseteq Threads

\* No two calls are given the same random bytes, in whatever threads they are made
\* at once, and every call that is made is answered once.
NoBytesTwice ==
    /\ \A j, k \in Jobs : /\ j # k /\ job[j].got # NoBytes /\ job[k].got # NoBytes
                          /\ job[j].kind # "pbkdf2" /\ job[k].kind # "pbkdf2"
                          => job[j].got # job[k].got
    /\ \A j \in Jobs : job[j].told = IF job[j].place = "told" THEN 1 ELSE 0

\* A key is that of the call's own password, which has been wiped when its memory
\* goes back, and the memory of random bytes belongs to just their Buffer.
SecretsKept ==
    \A j \in Jobs : job[j].place = "told" =>
      IF job[j].kind = "pbkdf2"
      THEN /\ job[j].got \in {j, NoBytes} /\ ~job[j].dirty
           /\ {job[j].pass, job[j].salt, job[j].key} = {"freed"}
      ELSE (job[j].got # NoBytes) = (job[j].data = "buffer")

=============================================================================
