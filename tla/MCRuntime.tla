------------------------------ MODULE MCRuntime ------------------------------
(***************************************************************************)
(* One instance for TLC of the parts of Node.js through which data goes,   *)
(* and of those that keep data: streams, files, crypto, memory and its     *)
(* views, the contexts of scripts, the tree of the timers, the process and *)
(* its command line.  Like the parts of MCEventLoop they share no state,   *)
(* and each behaviour is one of the part that `part` names.                *)
(***************************************************************************)
EXTENDS StreamSlab, Handles, HttpParser

CONSTANTS Objects, MaxListeners, NoObject,                           \* Watchers
          FileReaders, Writers, FileSize, FilePool, MinPoolSpace,    \* FileStreams
          BufferSize, FileWrites, MaxStreams, EarlyDestroy, None,
          MaxPauses,
          IsServer, Renegs, RenegLimit, HighWater,                   \* TlsPair
          Sizes, ZlibWrites, ChunkSize, DataErrors,                  \* ZlibStreams
          CipherBlocks, MaxFed, Fragment,                            \* Ciphers
          Digesters, Pieces, MaxUpdates, KeyPairs, Unreadable,
          Parties, Primes, PrivateKeys, Base, Junk,                  \* KeyMaterial
          Jobs, PoolThreads, NoThread,
          Credentials, Cas, Roots, NoCert,                           \* SecureContexts
          Created, MaxChain, MaxErrors, CertAlone, Empty,
          MaxNode,                                                   \* RedBlackTree
          PoolSize, Lengths, HexAtEnd, MaxBuffers, MaxCalls,         \* Buffers
          Octets, MaxOctets, MaxBlanks,
          ArraySize, ArrayKinds, MixedKinds, MaxViews, MaxSets,      \* TypedArrays
          Sandboxes, Contexts, Props, Values, MaxDepth, MaxWrites,   \* Scripts
          Absent,
          MaxFileCalls, Codes, OK, NoPath, Nothing,   \* FileCalls
          Dirs, Masks, Ids, Keys, Words, Signals, Nameless,          \* Process
          Builtins, Libs, MaxSteps,
          MaxArgs,
          Debuggers, Together, DebugMessages,                         \* Debugger
          ServerCa, Hosts, ContextCas, Adders, SameOptions,          \* Handshakes
          Forgetful, MaxConns, MaxContexts, Nobody

\* A file read from its beginning, and the second byte of one.
ReadOptions == {[start |-> None, last |-> FileSize], [start |-> 1, last |-> 1]}
Chunks == {<<1>>, <<2, 3>>}

TwoWrites == <<"w1", "w2">>
OnePeerWrite == <<"p1">>

\* Texts of characters of one, two and three bytes, to be cut anywhere.
Texts == {<<1, 2>>, <<3, 1>>}

\* Lists of protocols with none in common.
ProtocolLists == {<<"a", "b">>, <<"c">>}

\* A string of characters of one and two bytes, and one longer than a buffer.
Strings == {<<1, 2>>, <<1, 1, 1>>}

\* The one user that has a name.
Names == [who |-> "u1"]

VARIABLES part,
          watcher, loop, statWatchers, signalWatchers, listeners,
          readers, writers, pools, requests, fileAnswers, fds, files, asked,
          pair, stack, ticks, sock, app,
          zs, zctx, codec, buffers, emitted, handler, zcalls,
          obj, returned, ragged,
          digest, accepted, answers,
          dh, handed, secret,
          sc, stores, rootStore,
          tree, fixing, members,
          blocks, pool, bufs, content, writes,
          plain, text, blanks,
          memory, image, views, sets,
          sandbox, global, scripts, written, spoilt, nwrites,
          calls, lastError, loopHeld,
          os, reading, jobs, child, modules, reply, wanted, steps,
          argv, typed, i, opts, stage,
          platform, useAgent, mapping, signalled, thread, agentRuns, agents, breaks,
          pc, open, queue, received, agent, waked, jsLoop,
          job, lock, rng, working,
          server, contexts, tlsNPN, conns,
          ctx, errors

W == INSTANCE Watchers
F == INSTANCE FileStreams WITH Readers <- FileReaders, MaxWrites <- FileWrites,
                               PoolSize <- FilePool, answers <- fileAnswers
T == INSTANCE TlsPair WITH Writes <- TwoWrites, PeerWrites <- OnePeerWrite
Z == INSTANCE ZlibStreams WITH MaxWrites <- ZlibWrites
C == INSTANCE Ciphers WITH Blocks <- CipherBlocks, Chunk <- Fragment
K == INSTANCE KeyMaterial WITH given <- handed, busy <- working
S == INSTANCE SecureContexts WITH Contexts <- Credentials, Pairs <- KeyPairs
R == INSTANCE RedBlackTree
B == INSTANCE Buffers
A == INSTANCE TypedArrays WITH Size <- ArraySize, Kinds <- ArrayKinds
V == INSTANCE Scripts WITH stack <- scripts, last <- written
FC == INSTANCE FileCalls WITH MaxCalls <- MaxFileCalls, held <- loopHeld
O == INSTANCE Process WITH Texts <- Words, given <- typed
G == INSTANCE Debugger WITH MaxMessages <- DebugMessages, running <- agentRuns,
                            taken <- received, sent <- waked, loop <- jsLoop
N == INSTANCE Handshakes WITH Cas <- {ServerCa}, Lists <- ProtocolLists

wVars == <<watcher, loop, statWatchers, signalWatchers, listeners>>
fVars == <<readers, writers, pools, requests, fileAnswers, fds, files, asked>>
tVars == <<pair, stack, ticks, sock, app>>
zVars == <<zs, zctx, codec, buffers, emitted, handler, zcalls>>
cVars == <<obj, returned, ragged>>
dVars == <<digest, accepted, answers>>
kVars == <<dh, handed, secret>>
sVars == <<sc, stores, rootStore>>
rVars == <<tree, fixing, members>>
bVars == <<blocks, pool, bufs, content, writes>>
eVars == <<plain, text, blanks>>
aVars == <<memory, image, views, sets>>
vVars == <<sandbox, global, scripts, written, spoilt, nwrites>>
fcVars == <<calls, lastError, loopHeld>>
oVars == <<os, reading, jobs, child, modules, reply, wanted, steps>>
lVars == <<argv, typed, i, opts, stage>>
gVars == <<platform, useAgent, mapping, signalled, thread, agentRuns, agents, breaks,
           pc, open, queue, received, agent, waked, jsLoop>>
jVars == <<job, lock, rng, working>>
nVars == <<server, contexts, tlsNPN, conns>>
mVars == <<ctx, errors>>
vars == <<part, slabVars, handleVars, wVars, fVars, tVars, httpVars, zVars,
          cVars, dVars, kVars, sVars, rVars, bVars, eVars, aVars, vVars,
          fcVars, oVars, lVars, gVars, jVars, nVars, mVars>>

Init == /\ part \in {"slab", "handles", "watchers", "files", "tls", "http", "zlib", "cipher",
                     "digest", "dh", "context", "tree", "buffer", "base64", "array", "script",
                     "calls", "process", "line", "debugger", "jobs",
                     "handshake", "credentials"}
        /\ SlabInit /\ HandleInit /\ W!WatcherInit /\ F!FileInit /\ HttpInit /\ Z!ZlibInit
        /\ T!TlsInit /\ (part # "tls" => pair.ssl.server)
        /\ C!CipherInit
        /\ (part # "cipher" => obj.kind = "cipher" /\ obj.enc = "hex" /\ obj.block = 1)
        /\ C!DigestInit /\ K!DhInit /\ S!ScInit /\ R!RbInit /\ B!BufInit
        /\ B!BaseInit /\ A!TaInit /\ V!ScriptInit /\ FC!CallInit /\ K!JobInit
        /\ N!HandshakeInit /\ S!CredentialInit
        /\ O!ProcessInit
        /\ (IF part = "line" THEN O!LineInit ELSE typed = <<>> /\ O!LineStart)
        /\ G!DebugInit /\ (part # "debugger" => platform = "posix" /\ useAgent)

Next == /\ UNCHANGED part
        /\ IF part = "slab" THEN SlabNext ELSE UNCHANGED slabVars
        /\ IF part = "handles" THEN HandleNext ELSE UNCHANGED handleVars
        /\ IF part = "watchers" THEN W!WatcherNext ELSE UNCHANGED wVars
        /\ IF part = "files" THEN F!FileNext ELSE UNCHANGED fVars
        /\ IF part = "tls" THEN T!TlsNext ELSE UNCHANGED tVars
        /\ IF part = "http" THEN HttpNext ELSE UNCHANGED httpVars
        /\ IF part = "zlib" THEN Z!ZlibNext ELSE UNCHANGED zVars
        /\ IF part = "cipher" THEN C!CipherNext ELSE UNCHANGED cVars
        /\ IF part = "digest" THEN C!DigestNext ELSE UNCHANGED dVars
        /\ IF part = "dh" THEN K!DhNext ELSE UNCHANGED kVars
        /\ IF part = "context" THEN S!ScNext ELSE UNCHANGED sVars
        /\ IF part = "tree" THEN R!RbStep ELSE UNCHANGED rVars
        /\ IF part = "buffer" THEN B!BufNext ELSE UNCHANGED bVars
        /\ IF part = "base64" THEN B!BaseNext ELSE UNCHANGED eVars
        /\ IF part = "array" THEN A!TaNext ELSE UNCHANGED aVars
        /\ IF part = "script" THEN V!ScriptNext ELSE UNCHANGED vVars
        /\ IF part = "calls" THEN FC!CallNext ELSE UNCHANGED fcVars
        /\ IF part = "process" THEN O!ProcessNext ELSE UNCHANGED oVars
        /\ IF part = "line" THEN O!LineNext ELSE UNCHANGED lVars
        /\ IF part = "debugger" THEN G!DebugNext ELSE UNCHANGED gVars
        /\ IF part = "jobs" THEN K!JobNext ELSE UNCHANGED jVars
        /\ IF part = "handshake" THEN N!HandshakeNext ELSE UNCHANGED nVars
        /\ IF part = "credentials" THEN S!CredentialNext ELSE UNCHANGED mVars

Spec == Init /\ [][Next]_vars
-----------------------------------------------------------------------------
(* The properties of a part say nothing of the others: they are evaluated  *)
(* where that part runs.                                                   *)

\* Types of the state of the part that runs.
TypesOK == CASE part = "slab" -> SlabTypeOK
             [] part = "handles" -> HandlesTypeOK
             [] part = "watchers" -> W!WatcherTypeOK
             [] part = "files" -> F!FileTypeOK
             [] part = "tls" -> T!TlsTypeOK
             [] part = "http" -> HttpTypeOK
             [] part = "zlib" -> Z!ZlibTypeOK
             [] part = "cipher" -> C!CipherTypeOK
             [] part = "digest" -> C!DigestTypeOK
             [] part = "dh" -> K!DhTypeOK
             [] part = "context" -> S!ScTypeOK
             [] part = "tree" -> R!RbTypeOK
             [] part = "buffer" -> B!BufTypeOK
             [] part = "base64" -> B!BaseTypeOK
             [] part = "array" -> A!TaTypeOK
             [] part = "script" -> V!ScriptTypeOK
             [] part = "calls" -> FC!CallTypeOK
             [] part = "process" -> O!ProcessTypeOK
             [] part = "line" -> O!LineTypeOK
             [] part = "debugger" -> G!DebugTypeOK
             [] part = "jobs" -> K!JobTypeOK
             [] part = "handshake" -> N!HandshakeTypeOK
             [] part = "credentials" -> S!CredentialTypeOK

\* Between two events the loop runs on if and only if some handle wants it (one
\* reference too few ends the process under an open socket, one too many keeps
\* it for ever), and libev counts just the watchers that shall keep it running,
\* whose objects the collector leaves alone.
LoopKept == /\ part = "handles" => LoopRunsWhileWanted
            /\ part = "watchers" => W!WatchersHoldLoop

\* What a reader has given out is its own file from the first byte asked for,
\* in order and with no gap, though all readers cut their buffers from one
\* pool; what a writer was given is in its file in order; and each closes the
\* file it has opened itself.
FileBytes == part = "files" => F!BytesOfOwnFile /\ F!WrittenInOrder /\ F!ClosesOwnFile

\* A call of the file system reports what became of itself, in either form, but
\* for the code of an immediate readlink; files are made where and as the process
\* was set at some time since the call was issued, or bare while umask() reads;
\* the process is as the program has set it and was started; it has one debugger,
\* that no message for it passes by.
ProcessAsAsked ==
    /\ part = "calls" => FC!OwnOutcome
    /\ part = "process" => O!MadeAsSet /\ O!AsLastSet
    /\ part = "line" => O!LineUnderstood
    /\ part = "debugger" => G!OneAgent /\ G!HandlesClosed /\ G!NoMessageForgotten

\* What a program and its peer write goes through the TLS pair in order,
\* whatever handshake makes a write wait.
TlsInOrder == part = "tls" => T!InOrder /\ T!NotReentered

\* Nothing that could move stays behind in the pair, a writer that was told to
\* wait is told to go on, and a pair whose sides have ended is destroyed.
NothingStuck == part = "tls" => T!NothingStays /\ T!DrainFollows /\ T!EndsWhenDone

\* The header lines of a message reach JavaScript whole, once and in order,
\* wherever the buffers end and whatever the parser served before, and no
\* string still to be read points into a buffer that is gone.
HeadersWhole == part = "http" => LinesWhole /\ NoDanglingString

\* What the listeners of a zlib stream were given is what the compressor made,
\* all of it when the stream has ended, and the thread never shares its
\* z_stream.
ZlibWhole == part = "zlib" => Z!SlicesStay /\ Z!EndIsWhole /\ Z!OneRequest

\* The strings a cipher returns, put together, are the bytes that came out of
\* the context, in order and each once, wherever the pieces end and whatever
\* was held back for the next, but for one byte nobody wrote behind a wide
\* character that ends a deciphered piece; final leaves bytes behind only if it
\* has none of its own; and those in base64 can be joined.
PiecesJoin == part = "cipher" => C!NothingLost /\ C!Base64Joins

\* "Returns any remaining enciphered contents" (crypto.markdown:143): after final
\* no byte is held back.
FinalReturnsAll == part = "cipher" => C!FinalReturnsRest

\* An object of crypto answers about all the data it has taken, two parties
\* come to one secret in whatever order they set and draw their keys, no TLS
\* context uses a store of certificates that another one has freed, no two threads
\* are given the same random bytes, a context is made or refused for its own
\* options, and the ends of a connection are told the truth of each other.
KeysAndContextsHold ==
    /\ part = "digest" => C!AnswersCoverAll /\ C!VerifiesWhatWasSigned
    /\ part = "dh" => K!SecretsFit
    /\ part = "context" => S!StoresLive
    /\ part = "jobs" => K!NoBytesTwice /\ K!SecretsKept
    /\ part = "handshake" => N!JudgedRight /\ N!ProtocolAgreed
    /\ part = "credentials" => S!JudgedByItself

\* Between two calls the tree is in order and balanced, and every look-up in it
\* finds what was inserted and not removed.
SearchTree == part = "tree" => R!LookUpsRight /\ R!Balanced

\* Buffers that share the memory of the pool hold what each would hold alone,
\* slices included; the text of one in base64 gives it back; and set and subarray
\* on overlapping views of an array do what they would on copies.
OwnBytes == /\ part = "buffer" => B!OwnBytes
            /\ part = "base64" => B!RoundTrip
            /\ part = "array" => A!SetAsIfCopied /\ A!SubarrayElements

\* A script, and the program when it has returned, read what was last written
\* to a property, through however many copies of the sandbox.
ReadsLastWritten == part = "script" => V!ReadsLastWritten

=============================================================================
