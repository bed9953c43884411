# globalsjs in TLA+

globalsjs is a document API for GlobalsDB on Node.js: collections of objects with
secondary indexes, stored in globals, reached through the native `cache` module or, over
TCP, through the daemon globalsd. The repository carries its own Node.js, in
`node_v0.6.19/`, and the behaviour of everything above it rests on that runtime. This
directory models the parts of both that carry logic, checks them with TLC and proves the
basic facts with TLAPS. Paths are relative to the repository (`src/`); `node/` stands for
`node_v0.6.19/node/`.

## The system

globalsjs:

| Component | Source | State | Operations | Talks to |
|---|---|---|---|---|
| Collection API, synchronous | `index.js` 60-871 | globals `^foo`, `^foo(id)`, `^foo1gdb(prop,value,id)`, `^foo5gdb("index",prop)`; `Collection.indexes` in each process | createCollection, add, save, remove, find, findOne, count, ensureIndex, reIndex | the cache connection, shared with other processes |
| Collection API, asynchronous | `index.js` 102-160 and the callback branches | the same, and chains of callbacks | the same, with a callback | one cache connection with one open call at a time (`TODO.txt`) |
| Collection API, remote | the `isRemoteConnection` branches | none | the same, as requests | `Client.send` |
| globalsd connections | `globalsd/index.js`, `globalsd/lib/client.js` | `partial_object` at both ends; the client's callbacks, counter, size, current id and batch | send, two `data` handlers, `onRequest` | TCP streams; `Collection.prototype[op]` |
| Query processor | `query.js` | the stack of a query | Query, execute, Expression.evaluate | `filter_results` |
| SQL class queue | `index.js` 714-809, `cache_src/foo.ClassGen.cls.xml` | `^globalsjs.sql` | ensureSQL; the Deamon | each other, through the global |
| KVStore service | `cache_src/KVStore.Store.cls.xml` | `^kvstore`, its locks and log | Get, Set, Remove | SOAP |
| Query statistics, connection life cycle, gdbsession, administration, Ensemble adapters, scripts | see "Not modelled" | | | |

The runtime:

| Component | Source | State | Operations |
|---|---|---|---|
| Event loop, ticks, thread pool | `node/src/node.cc`, `node.js`, libuv's eio | queues of requests and results, the tick queue, the loop's reference count | submit, work, poll, nextTick, exceptions |
| Handles | `node/src/*_wrap.cc`, libuv `core.c`, `stream.c`, `udp.c` | handle, wrap and reference count of each; writes in flight; the slab reads share | start, stop, write, connect, shutdown, ref, unref, close |
| Watchers | `node_io_watcher.cc`, `node_signal_watcher.cc`, `node_stat_watcher.cc` | libev's watchers, the references that keep objects | start, stop, events, garbage collection |
| Name resolution | `cares_wrap.cc`, `lib/dns.js`, libuv `cares.c` | queries, the global errno, sockets and timer of c-ares | query, getaddrinfo, answers |
| Files | `lib/fs.js`, `node_file.cc` | descriptors, requests, the loop's last error, the pool of buffers | every call of the binding; ReadStream, WriteStream |
| TLS | `lib/tls.js`, `lib/crypto.js`, `node_crypto.cc` | the two streams of a pair and their locks, memory BIOs; contexts, stores of certificates, the error queue; sessions, names, protocols | cycle, write, pause, end, destroy; createCredentials; handshake, resumption |
| Ciphers, digests, keys, random | `node_crypto.cc` | an OpenSSL context and the bytes held back; key pairs; jobs in threads | init, update, final; generate, compute; pbkdf2, randomBytes |
| HTTP parser binding | `node_http_parser.cc`, `lib/http.js` | the array of header strings, the list of free parsers | execute, callbacks, free |
| zlib | `node_zlib.cc`, `lib/zlib.js` | the queue of chunks, one request, the output buffer | write, flush, end, pause |
| Buffers, typed arrays | `node_buffer.cc`, `lib/buffer.js`, `v8_typed_array.cc` | one memory, many views | allocate, slice, copy, fill, write, set, subarray |
| Scripts | `node_script.cc` | sandboxes and contexts | runInContext and its forms |
| Trees | `local/include/node/uv-private/tree.h` | a red-black tree | insert, remove, look up |
| Process | `node.cc` | options, directory, mask, identities, environment, modules, debugger, idle collector | each call, signals |

What is hard:

- An operation of a collection is a sequence of calls on the database. Each call is atomic,
  the operation is not, there is no lock or transaction, and several processes use one
  database. Any call of another process may fall between two; a process may end there; a
  call may fail. Correct means: a primary key is one record's, the object under it is whole,
  the index lacks no record, a find returns what is there from its beginning to its end.
- A TCP packet ends anywhere. Both ends put the cut object in front of the next packet, and
  take any exception for a cut object. Correct means: each request is served once and each
  callback gets its own results.
- The asynchronous API runs the same steps as callbacks, with synchronous calls in between.
- The Deamon of the SQL queue and ensureSQL share a global with no lock, and the Deamon is
  restarted wherever it ended.
- Inside Node.js one thread of JavaScript works with threads of a pool, with callbacks that
  call back into the library that is calling them, with memory that several objects share,
  and with counts of references that decide when the process ends. `PROJECT.json` lists each
  of these places as a hazard at its line, with the property that covers it.

## Modules

| Module | What it is |
|---|---|
| `RecordStore` | Abstract: records by key. A key is drawn by an add, then used once or lost. |
| `Collection`, `CollectionHistory` | The synchronous API, one action per call on the cache connection; the same with history variables for the promises of find, reIndex and ensureIndex. |
| `CollectionProofs` | Type correctness; primary keys and the implementation of `RecordStore`; the index of every record, and the promises of find, reIndex and ensureIndex. |
| `RemoteCalls`, `Wire`, `WireProofs` | Abstract: requests served once in order, callbacks called with their results. Clients, globalsd and the two streams of each connection. The invariants of both, and the implementation, for any number of clients, requests and packets. |
| `AsyncCollection`, `AsyncProofs` | The asynchronous API of one process over one connection, with synchronous saves and removes beside it; what its finds deliver and its entries. |
| `SqlQueue` | ensureSQL and the Deamon, node by node. |
| `KVStore`, `KVStoreProofs` | Get, Set and Remove of the service, node by node, in several processes. |
| `Queries` | The stack of a query, and its run over the rows. |
| `WorkQueue`, `ThreadPool` | Abstract: work is done once and answered once. eio's queues and threads, the notifiers, ticks and exceptions. |
| `Handles`, `StreamProofs` | Handles, their requests and the loop's references; the theorems on them, on the slab and on the HTTP parser. |
| `StreamSlab`, `Watchers` | The slab of reads; watchers of libev and the collector. |
| `Resolver` | Queries of `dns`, answered inside the call or later. |
| `FileStreams`, `FileCalls` | Streams over files; every call of the binding in its two forms. |
| `TlsPair`, `SecureContexts`, `Handshakes` | The pair between socket and program; the stores of certificates and the making of a context; what the ends learn of each other. |
| `Ciphers`, `KeyMaterial` | Objects fed in pieces; secrets that two parties agree on; keys and random bytes made in threads. |
| `HttpParser`, `ZlibStreams` | Callbacks of the parser; the compressor in a thread. |
| `Buffers`, `TypedArrays` | Shared memory and its views. |
| `Scripts`, `RedBlackTree` | Copies of a sandbox around a script; the tree, pass by pass. |
| `Process`, `Debugger`, `IdleCollector` | The process object, its options, the agent of the debugger, the collector of the idle process. |
| `MCCollection`, `MCIndex`, `MCWire`, `MCEventLoop`, `MCRuntime`, `MCService` | Instances for TLC. |
| `RuntimeProofs` | The theorems on scripts, on watchers with the loop's count, on HTTP lines and on the compressor, as parts of `MCRuntime`. |
| `ServiceProofs` | The theorems on the queue and on queries, and on the parts of `MCService` put together. |
| `EventLoopProofs` | The theorems on two parts of `MCEventLoop`: the pool with the ticks, and the resolver. |

`MCEventLoop`, `MCRuntime` and `MCService` compose parts that share no state. Each behaviour is a behaviour of the part
the constant variable `part` names, while the variables of the others keep their initial
values: the reachable states are the union of those of the parts, a property is one of the
states of its part, and fairness is asked for only where that part runs. `MCIndex` and `MCWire`
put two instances of one module side by side in the same way. Components that do
share state are one module (`ThreadPool` with the ticks, `Collection` with its indexes), and
`Wire` and `FileStreams` have the network and the thread pool inside.

### Collection

`counter`, `data`, `idx` and `sys` are the globals; `indexes[p]` is `Collection.indexes` of
process `p`; `call[p]` is the call in progress with its local variables. `held` is the set of
keys applications may have learned from an add or a find.

| Code | Actions |
|---|---|
| createCollection, load_indexes | `Open`, `LoadIndex` (one `$ORDER` each) |
| add | `AddIncrement`, then `AddUpdate` or `AddUpdateFails`, then one `SetIndex` per index |
| save | `Save` (the update), then `SetIndex` |
| remove(object), remove() | `Remove` (the kill), then `KillIndex`; `RemoveAll` |
| ensureIndex | `EnsureIndex` (the list), then one `SetSys` per property |
| find | `Find`, `IndexScan` or `Scan` (one `$ORDER` each), `Fetch` (one retrieve each), `FetchEnd` |
| reIndex | `ReIndex`, a find without query, then `SetIndex` for each object and index |
| the process ends | `Crash` |

A save without `__ID` is an add, and findOne is a find whose caller takes the first result.
The `cache` module is external and modelled by what the code relies on: `increment`, `get`,
`set`, `kill`, `order` and `retrieve` are atomic. What `update` of an object does with
properties the node had before is not said anywhere in the repository, so `Updated` allows
both answers, and everything proved holds for both. A retrieve of a node that is gone is an
object without properties. Three constants say what is assumed: `Exclusive` (applications
keep two writers off one record; nothing in globalsjs does, and `SharedRecord` shows what
happens otherwise), `Forged` (`__ID` values written by hand) and `Faults` (processes that
end, updates that fail, index entries lost because the status of `set` and `kill` is dropped,
`index.js:235`).

### AsyncCollection, SqlQueue, KVStore, Queries

`AsyncCollection` keeps an operation per slot: the call that is out, its answer, what the
callback has gathered. `Execute` is the other thread of the cache module, the actions after
it are the callbacks. `Parallel = 1` is what `TODO.txt` says of the connection ("just cannot
have multiple open async calls"); synchronous calls go between. The asynchronous remove of
one object kills the index of the whole collection (`index.js:676`); `lost` records what it
took, so that `IndexedUnlessRemoved` can demand everything else. A query names a value, or it is
`Other`, a property or value no record has, or `Operator`, an operator object that every value
fulfils: `spin_find` compares that object with the record's value by `==` (`index.js:116`), and an
index takes it for a subscript, so such a find delivers nothing. An exception in a callback reaches the
handler that `Db` installs (`index.js:945-949`), which goes on: the operation is over, the
program is not.

`SqlQueue` writes a request one node per step, in the code's order, and reads it back one
step per `$Get`, `Merge` and `$Order`. `StartDeamon`, `EndDeamon` and `StopDeamon` fall
anywhere; `JobDeamon` is the Deamon handing over to a new process. `EnableDeamon` writes
`("control","enabled")`: a Deamon that finds 0 there quits before it looks at the stop signal,
which waits for the next.

`KVStore` has a step per global reference and lock command. `SetLockFail` returns with the
lock held when the error came after it, and `left` counts such locks; `Halt` is the end of a
process, which releases its locks. Outside the stretch where `$ZT` is set (all of Get, and the log of
Set) an error ends the call with an exception (`Fault`), as does the empty key. Keys do not interact, so one key is enough for TLC.

`Queries` builds the stack as the constructor does, a plain property pushing the whole query,
and folds it over one row per step. A condition is evaluated through JavaScript source: in
quotes or not as the value is a number or not. Numbers stand for strings that read as one,
words for other strings.

### Wire

The text of an object is two tokens, so that a packet can end inside it; the line feed is a
token of its own, as both ends write it in a call of its own. `Pieces` is what a `data`
handler splits a packet into, `Handled` what it does with a piece. Each packet is made a string by itself
(`globalsd/index.js:161`, `client.js:72`), so a character of several bytes that a packet cuts is
garbled in both halves: the model leaves that out, and all that is checked and proved of `Wire` is
about text whose characters no packet cuts, such as ASCII. `ServerData` and
`ClientData` handle one packet, of any length, or with `MidCuts` FALSE one that ends where a
write did. globalsd has one `partial_object` for all connections, so it is one variable.
A request is `[op, rows]`: `find`, `save`, `add` (whose missing result makes `onRequest` throw
after the work is done) and `bad`. The passing runs send the requests that are answered,
`find` and `save`. Callbacks of applications return in the model. `Disconnect` loses what the
client has not read and, from some point on, what the server has not.

### The runtime

Each module names in its header the files it translates and in its comments what an action
is; `PROJECT.json` maps every definition to lines. Common to all: a step is a stretch of code
in which no other thread, callback of the program or event of the loop can be noticed; what
calls back into the program while a C++ function runs is cut there, and the program may call
the module again at that point (`Handles`, `TlsPair`, `Resolver`, `HttpParser`). OpenSSL,
zlib, c-ares, the HTTP grammar, V8 and the kernel are external: each is a nondeterministic
choice among what its caller has to expect, or the small piece of it the caller relies on.
Bytes are names: what is kept is who wrote a byte and where it is.

## What is checked

Passing runs:

| Run | Distinct states | Properties | What it shows |
|---|---|---|---|
| `Keys` | 104,572 | `TypeOK`, `FreshIds`, `OwnKeys`, `StoresRecords` | Two processes, three keys, every fault: a key in flight is nobody else's and the collection implements `RecordStore`. |
| `Index` | 2,002,435 | `IndexComplete`, `OwnerIndexed`, `FindSeesStable` | Two processes that write different records and know the same two indexes: no stored record lacks an entry when nobody is writing it, and a find returns every matching record that does not change while it runs. In a second instance, one process makes the indexes: a write after ensureIndex is indexed, as `README.md:78` says (`FurtherWritesIndexed`). |
| `Repair` | 1,346,110 | `ReIndexRepairs` | Whatever was lost before, a reIndex leaves an entry for every record that stays as it is. |
| `WireBatch` | 15,734 | `TypeOK`, `PartialContinues`, `ResultsBelong`, `ImplementsCalls`, `AllAnswered`, `TwoImplement`, `TwoAnswered` | One client, packets cut anywhere: the connection implements `RemoteCalls` and every request is answered. In a second instance, two clients that may go away, in batch and in stream mode, whose packets end between writes: so do they. |
| `Service` | 619,523 | `TypesOK`, `AnswersTrue`, `StoredStays`, `WholeRequestsKept`, `RequestTried` | `AsyncCollection`, `SqlQueue`, `KVStore` and `Queries`. |
| `EventLoop` | about 73,000 | `TypesOK`, `TicksRunInOrder`, `OwnAnswerOnce`, `EverythingEnds`, `AnswersWork` | `ThreadPool`, which implements `WorkQueue`, `Handles`, `Resolver` and `IdleCollector`: every piece of work, close and query ends, once and in order, also when callbacks throw. |
| `Runtime` | 1,860,325 | `TypesOK` and the 14 below | The other 23 parts of the runtime. |

| Property of `Runtime` | Parts | Says |
|---|---|---|
| `LoopKept` | handles, watchers | the loop runs on just while something wants it; a started watcher is not collected |
| `WritesAccounted` | handles | every write is answered once, in order, before shutdown and the end of its wrap |
| `SlicesUntouched` | slab | no read goes to bytes a program was given |
| `FileBytes` | files | readers give their own file without gap, writers write in order, each closes its own descriptor |
| `ProcessAsAsked` | calls, process, line, debugger | an asynchronous call reports its own outcome, and so does an immediate one, but for the code of readlink; a file is made in a directory and with a mask the program had set at some time from the call to the making, or bare while umask() reads the mask; the process is as it was last set; one debugger, no message forgotten |
| `TlsInOrder`, `NothingStuck` | tls | what is written arrives in order; nothing that could move stays, writers are woken, an ended pair is destroyed |
| `HeadersWhole` | http | header lines are whole, in order, and no string points into a buffer that is gone |
| `ZlibWhole` | zlib | the slices given out stay what the compressor made, all of it and the trailer at the end, unless a flush after end met the last request |
| `PiecesJoin` | cipher | strings joined are the bytes that came out, but for one byte nobody wrote behind a wide character at the end of a deciphered piece, and what is held back when final has no bytes of its own |
| `KeysAndContextsHold` | digest, dh, context, jobs, handshake, credentials | answers cover all data; secrets agree; no freed store; no random bytes twice; a context is made or refused for its own options; the ends are told the truth of each other |
| `SearchTree` | tree | order and balance after every insert and remove |
| `OwnBytes` | buffer, base64, array | shared memory holds what separate memory would; text gives the bytes back; overlapping set and subarray behave as on copies |
| `ReadsLastWritten` | script | a script, and the program when none runs on the sandbox, read what was last written to each property, whatever is nested, deleted or thrown; but for a property deleted or written beside an older copy, until it is written again |

Runs that end in a counterexample, each of a sentence in the repository:

| Run | Violated | What happens |
|---|---|---|
| `SharedRecord` | `IndexComplete` | remove kills the record; another process saves it again and sets its entry; remove kills the entry (`index.js:688`, `README.md:78`). |
| `RemoveAll` | `OwnKeys` | remove() takes the key counter along; an add in flight and the next one have the same key (`index.js:305`, `:547`). |
| `WireShared` | `PartialContinues` | Half a request of one client goes in front of another's packet (`globalsd/index.js:147`). |
| `Operators` | `OperatorsDeliver` | A find with a callback and an operator reads a record that fulfils it, goes on to the next and tells nobody (`index.js:116`, `README.md:49`). |
| `FinalReturns` | `FinalReturnsAll` | A stream cipher holds back a byte for the next group of base64; final has none of its own and returns '' (`node_crypto.cc:2285`, `crypto.markdown:143`). |

Bounds. `MaxId` bounds the keys: two are enough for a record in flight, one stored and every
interleaving of two operations on one record; `Keys` has a third so that a key can be handed
out while two are busy. One value is enough for a save that changes a record, by giving it the
property or taking it away, and leaves an entry behind. `Wire` has at most
three requests, with no, one and two results: an answer can spill into the next, and a
callback for no result can come between two others. In `Service` two operations of the
asynchronous API, two requests for classes, two processes at one key and two rows are what it
takes for one to fall inside the other; `MaxLog` bounds the log, `MaxLeft` the locks a
process leaves. In `EventLoop` and `Runtime` every part has at least two of what may
interfere (handles, streams, readers, threads, contexts, views, connections), memory is as
small as allows a pool to be replaced and a slice to touch its edge (`SlabSize`, `PoolSize`,
`FilePool`, `Fragment`, `HighWater`), and every counter named `Max...` is named with its bound
in the module that declares it. `CHECK_DEADLOCK FALSE` stands where the modelled program may
have nothing left to do: all requests answered, all handles closed, the bound of calls used.

Constants that keep out what the code is known to get wrong. With the other value the
property of the part fails:

| Constant | Kept at | The other value |
|---|---|---|
| `EarlyDestroy` | FALSE | a stream destroyed while a read or write is in the pool closes its descriptor, which another open may be given before the pool comes to the request (`node/lib/fs.js`; `stream.markdown:66-68`, `:169-172`) |
| `Persistent` | {TRUE} | a watch with `persistent: false` gives back the reference of its handle and nothing remembers it: the loop's count is one short after the close (`fs_event_wrap.cc:114-116`, `fs.markdown:436-437`) |
| `MixedKinds` | FALSE | set between overlapping views of different kinds reads elements it has already written over |
| `HexAtEnd` | FALSE | a hex string written where a buffer ends goes on into the rest of its block: a room of 0 means all there is (`node/lib/buffer.js`) |
| `Nameless` | {} | a child killed by a signal without a name is reported as having exited with 0 (`child_process.js:378-389`) |
| `Together` | FALSE | two remote threads on Windows both start the agent |
| `SameOptions` | TRUE | a resumed session has the name and verdict of the handshake it was made in |
| `Forgetful` | FALSE | tls.connect keeps NPNProtocols on the module: the next connection offers the last one's (`lib/tls.js:1087`) |
| `Adders` | {"this"} | `_contexts` is on the prototype: a name added to one server is served by all (`lib/tls.js:1026`) |
| `CertAlone` | FALSE | a certificate given without a key is refused when an older error is in the queue (`node_crypto.cc:351`) |

Fairness. Nothing schedules an application: the runs of the collection check safety only, and
no model assumes that a call is made. `Wire` assumes weak fairness of `ServerData` and
`ClientData`: bytes that arrived make the loop call the handler, and TCP delivers while the
connection stands. `EventLoop` assumes that the threads of the pool go on, that a resolver's
timer comes, and of the main thread that its loop goes on while something refers to it: each round
calls the prepare and check watchers (`Tick`) and the two async watchers if they were signalled
(`WantPoll`, `DonePoll`), so these get their turn however often other events come (strong
fairness). The idle watcher does not: libev runs it only in a round in which nothing else of its
priority is pending (`ev.c:2154-2176`), and while answers are left the threads do not ask for a
poll again. So `IdlePoll` has weak fairness only, and `AnswersWork` promises an answer to all work unless
events of other handles come for ever (`Starved`).
`Service` assumes weak fairness of the steps of the Deamon's process, which the scheduler of
Caché runs; that it is started again is not assumed, and `RequestTried` allows for its end.

## Where code and documents, or code and expectation, part

Besides the five runs and the table of constants, modelling showed the following. The
models do what the code does; the properties are stated so that they hold beside it.

globalsjs: save of a changed value leaves the entry of the old one (`index.js:234`); count
answers with the last key handed out (`:407`); an add over the wire throws after its work
(`globalsd/index.js:186`), and with its line feed in a packet of its own it is run twice; the
answer to a bad request has no header (`:317`); the asynchronous remove kills the whole index
(`index.js:676`), the asynchronous find through an index closes the connection (`:156`); the
Deamon merges fields of earlier requests into a class (`foo.ClassGen` 213-214) and starts from
the lowest request each time (`:205`). `SetLockFail` leaves its lock held; a Get whose key is
removed between its two reads ends in an error. A query of two plain properties tests the
first only; a row that lacks a property of an `$and` matches if its others do; a second joiner
adds a row a second time; a joiner that is not given an array, or an operator that is not
known (`$neq` in `test/query_test.js`), throws. With a callback, a query by operators delivers
nothing, and one of several properties every record that has one of them (`index.js:112-121`). A
character of several bytes that a packet cuts is lost (`globalsd/index.js:161`, `client.js:72`).

Runtime: shutdown may be answered twice (`stream_wrap.cc:405`) and is never answered when the
handle is closed, nor is connect; a spawn that fails keeps the loop (libuv `process.c:188`);
a file stream does not close its descriptor after an error, and a short write is not retried;
removeAllListeners leaves a signal watcher started; `final` of a cipher without bytes of its own leaves what is held
back; a deciphered piece that ends in a character of several bytes is given one byte more, which
nobody wrote (`LengthWithoutIncompleteUtf8`, `node_crypto.cc:1903-1917`); flush after end, while the last
request is under way, replaces its Z_FINISH, and 'end' comes without the trailer
(`lib/zlib.js:348`, `:433`); the flag of an odd hex digit is not cleared; computeSecret returns uninitialised
bytes behind a short secret; the first CA that cannot be read leaves a context without a
store; addCRL and PKCS#12 after addRootCerts change the store of all contexts; freeParser
leaves `_url`; errors of asynchronous file calls have the name of the call as message and no
`syscall` (`node_file.cc:129`); utime's callback gets no arguments; a synchronous sendfile sets
a stale errno; umask() shows the mask 0 to threads for a moment (`node.cc:1271`), and a
file they make then is bare; the immediate readlink that fails takes the code of an older error (libuv
`fs.c`, `uv_fs_readlink`); a script nested in another of the same sandbox starts from an older copy,
and the one that returns last wins; a property a script deletes comes back; what a script has made in
a lasting context before it threw stays there (`node_script.cc:262-434`); setuid of an
unknown name reads a stale errno (`:1337`); a library of another version stays open; the idle
collector reads its ring at a negative index before it is full (`:163`); the SIGUSR1 handler
allocates; pbkdf2 frees a password unwiped when a later argument is bad; the error of
randomBytes may be an older one; a client without a host asks for the server name
"undefined", and contexts of addContext offer no protocol; a key that does not fit its
certificate is dropped silently, and the message thrown is the oldest error in the queue.

## What is proved

For every value of the constants:

- `CollectionProofs!TypeCorrect`: `Spec => []TypeOK`, from `ConstantsAssumption`. `TypeOK` is
  not inductive: the loop variables of a call only make sense together. `TypeInv` adds
  `FrameOK`, which ties `at`, `cursor`, `ids`, `rows` and `j` to each other and to the length
  of the process's index list; this is what makes `indexes[p][j]` and `rows[cursor]` defined.
- `CollectionProofs!KeysAreFresh`, `KeysAreOwn`: under `KeyAssumption`, no remove() of a collection
  and no hand-written keys. The first is not optional (run `RemoveAll`). `KeyInv` says that
  records lie under keys applications hold, that `increment` has handed out every key held or
  in flight, and that the latter are not held and differ from each other.
- `CollectionProofs!CollectionStoresRecords`: under the same assumption `Spec` implements
  `Records!RSpec`. Each action maps to a step of `RecordStore` or to a stutter; a crash in an
  add maps to `Fail`.
- `CollectionProofs!IndexIsComplete`: `IndexComplete` under `IndexAssumption`, which is that of the
  run `Index`: writers of one record take turns (`Exclusive`), all indexes are known before,
  keys are those of add, and no remove() of the collection, end of a process or failed set of
  an entry. Each is needed: a record half indexed when its process ends stays so. `IndexInv`
  adds for a record being written that an entry is there or its turn (`cursor`, `j`) is to come
  (`EntriesDue`), that the record of a remove is gone while its entries are killed, that a process
  which is done reading the indexes knows all of them (`CallOK`), and that no two writes in
  progress are of one record (`OneWriter`). An update that merges leaves properties the object
  lacks; their entries are there because nobody was writing the record when it began.
- `CollectionProofs!FindIsStable`: `FindSeesStable` under the same assumption. `FindInv` adds to
  `IndexInv` that the records nobody has written since the find began (`calm`) are stored, in
  no remove, and have their entries (`CalmIndexed`); that a process goes through an index it
  has, and has only those of the system global (`TermOK`, `ListOK`); and what the find has of
  the records it wants up to its cursor, keys during the scan and contents during the fetch
  (`Gathers`).
- `CollectionProofs!ReIndexIsRepair`: `ReIndexRepairs`, whatever crashes, drops, creates indexes or
  makes up keys, as long as no set of an entry fails. It does not need `IndexInv`, and could
  not use it: what reIndex is for is that entries are missing. `RepairInv` adds to the gathering
  that the turns done have left the entries of calm records (`Repairs`); a remove that began
  before the record was stored again is why calm records must be in no remove.
- `CollectionProofs!EnsureIndexIsKept`: `FurtherWritesIndexed` under `OwnerAssumption`, that of the
  second instance of `Index`, for any number of keys, properties and values; `OwnerInv` is `IndexInv` with
  the entries of what was stored before the index excused. The proof showed that a first
  form, which excused nothing once a record was written, was too strong: an update that merges
  leaves an old value of the property where it is, and no turn writes its entry. A write that
  changes the property ends the excuse.
- `StreamProofs!SlicesStayUntouched`, `ReadsAreWhereNamed`, `SlabTypes`: no read goes to bytes
  a program has. `SlabInv` adds to the two properties that slices and reads lie within what
  the slab has given out, and that only the last allocation can be given back (`OnTop`),
  which is what `StreamWrap::OnReadCommon` tests.
- `StreamProofs!WritesAreAccounted`, `HandleTypes`: `WritesAccounted` and the types of `Handles`, for
  any number of handles and requests, if fs.watch is given a flag (`HandlesAssumption`). The order
  of the answers is broken on purpose when a handle is destroyed: a stream answers what
  still waits before what is done. So `HandleInv` says for that time that none is lost
  (`WritesOf`: as many, and each write among them), and that only a handle that was closed is
  destroyed (`CallbackOf`). That a shutdown is answered after the writes follows from the
  account: while a write waits or is done, no shutdown was answered (`NoneTold`).
- `StreamProofs!LoopRunsAsWanted`, `RuntimeProofs!LoopIsKept`: `LoopKept`. `CountInv` says that
  the count of the loop is a sum of what each handle owes it (`Owed`: one for a stream until its
  end, unless it is unreferenced; for a UDP socket one less its watchers, which libev counts itself;
  and so on by kind), so that a step that changes one handle has to balance what that
  handle owes with what it adds to the count (`Balanced`, one lemma per operation). The sum is a
  fold: that it adds each handle once, and follows a change of one term, is shown by induction over the finite
  subsets (`SumExists`, `SumAdds`, `SumChanges`). The handles are finitely many, and every
  watch of a file is persistent, as in the run (`CountConstants`; the bound `Persistent` above says
  what else happens). Of watchers (`WatcherInv`), what the tables of fs.watchFile and of the
  signals refer to is an object the program still has, so that the collector does not take it
  (`TablesRight`): else its count could not be given back.
- `StreamProofs!LinesComeWhole`, `RuntimeProofs!HeadersComeWhole`: `HeadersWhole`, for an array of any
  size from two on and any messages (`HttpConstants`). `HttpInv` says what the counts of fields and
  values are at each stage of a message (`Counts`), that the lines JavaScript has and those the
  parser still counts are together the lines that came over the wire (`Among`), that nothing is left
  over before a message and after it (`Outside`), that a counted string which is not empty does not
  point into a buffer that is gone (`Readable`), and that a parser that was freed keeps no line for
  the next connection. That an array is flushed when it is full, in the middle of the lines, is why the
  two lists have to be spoken of together.
- `RuntimeProofs!ZlibIsWhole`: `ZlibWhole`, for buffers of any size, chunks of any lengths and any
  order of calls of write, flush, end, pause, resume and destroy, flush after end included, with
  damaged input or without (`ZlibConstants`). `ZlibInv` says that what was emitted, read today, are the numbers up to what the
  compressor has made less what it has just made and not yet handed over (`ZOutput`); that a slice
  given away ends where the piece of the thread begins (`SliceIn`); who works and so holds the
  object (`ZControl`); and, for the end, that the request that ends the stream is the last in
  the queue and is told to finish, unless a flush came late (`ZRequests`), and that a request to finish that leaves room
  in its piece has brought out everything (`ZFinish`), which is what `availOutAfter === 0` tests. What
  the slices join to is followed through `FlattenSeq` of the library (`FlattenStep`).
- `RuntimeProofs!ScriptsReadWhatIsWritten`: `ReadsLastWritten`, for any sandboxes, contexts, properties
  and values and any nesting, if no object is both a sandbox and a context (`ScriptObjects`).
  `spoilt` has the properties that copies may get wrong, and `ScriptInv` says of every other one
  (`Sound`): all scripts on a sandbox have in their global objects what was last written to it; the
  sandbox has it too when none or more than one runs on it; and where it was never written, neither
  the sandbox nor a lasting context has a value a copy would leave standing.
- `KVStoreProofs!StoreIsSound`: types, `LocksAccounted`, `WriteStands` and `GetTrue`. They are
  inductive together with `ReadsSeen`, what a Get has seen at each of its places. `WriteStands`
  needs the account of the locks: two processes between Lock and unlock of one key would
  both have a lock on it.
- `ServiceProofs!WholeRequestsStay`: `WholeRequestsKept` and the types of the queue, for any
  number of calls of ensureSQL. `SqlInv` adds that numbers are handed out once (`CallersOK`),
  that a request has no node nobody asked for (`NodesAsked`), that a whole request is moved
  before it is killed (`WholeInOrOut`), and what the Deamon's local array holds of the request
  at each of its places (`DeamonHolds`): it is never emptied between two requests, so it can
  only be said to include the request's fields, which is what the class needs.
- `AsyncProofs!FindsDeliver`: `FindDelivers`, `DeliversOnce` and, of finds by operators,
  `NothingByOperators`, for any number of operations open at once. `AsyncInv` says of a find at each of its calls (the `$ORDER` out, the retrieve
  out, their answers waiting for the callback) which of the records that have not changed it
  has delivered: all up to its key, and none behind it. An answer the callback has not seen
  yet is older than the state; that it still holds for a record that has not changed is what
  has to be carried along.
- `AsyncProofs!EntriesStay`: `IndexedUnlessRemoved` with `Parallel = 1`, as `TODO.txt` says of the
  connection. `OwedInv` adds who owes a stored record its entry (the callback of the write
  under way, or the synchronous save), and that one operation is open. With two, an
  asynchronous find through the index may close the connection over the callback that owes it.
- `ServiceProofs!WhatIsStoredStays`, `AnswersAreTrue`, `ServiceTypes`: the four invariants of the run
  `Service`. `ServiceInv` is `SqlInv`, `OwedInv`, `KVInv` and `QueryInv` together; a step is a step
  of one part, or leaves it alone. `QueryInv` says that the stack is the one built for the query,
  and that the results so far are the rows gone through that answer it, in order (`Through`).
  That needs what a documented query finds in any row (`RowRight`): it throws only for a condition
  that does not fit the row, and else adds the row once or not, as it answers the query, unless the
  row lacks a property of an `$and`. The fold over the stack is followed by induction on its
  elements (`Gathered`: the results of the conditions whose property the row has), for any number
  of conditions and rows (`QuerySizes`), with the conditions and rows of the run.

- `EventLoopProofs!TicksAreInOrder`: `TicksRunInOrder` of the run `EventLoop`, for any number of
  requests, functions given to nextTick and threads. `LoopInv` says that a request is in one place
  (a queue of `uv-eio.c`, a thread, or answered: `InOnePlace`), that the references of the loop are
  those of the socket, the poller, the spinner and the requests not answered (`RefsCounted`),
  that what waits for its tick has the spinner going or is within `_tickCallback` (`TicksDue`), and
  that what nextTick was given is what ran followed by what waits (`RanThenWaiting`), which a
  function that throws must not break. The count is what makes the end of the loop mean that
  nothing is left.
- `EventLoopProofs!PoolIsQueue`: from the same invariant every step of the pool maps to a step of
  `WorkQueue` or to a stutter, the safety part of `AnswersWork`.
- `EventLoopProofs!AnswersAreOwn`: `OwnAnswerOnce`, for any number of queries, errors and tries, if
  `NoQuery` is no query and a query is tried at least once (`DnsConstants`). `DnsInv` says where
  the answer of a query is: not there yet, waiting once for nextTick with the outcome of its own
  query, or given to the callback (`AnswerPlaces`), and that the channel has the queries that
  were sent and not ended, and its socket and timer just while there are some (`ChannelHas`).

- `WireProofs!WireTypeOK`, `WirePartialContinues`, `WireResultsBelong`, `WireImplementsCalls`: the
  invariants of the run `WireBatch`, and that clients and globalsd implement
  `RemoteCalls`: each request is served once and in order, each callback runs once with what
  its own request got. They hold for any set of clients in either mode, any requests and any
  bounds, and wherever packets are cut. `WireInv` (theorem `WireInvariant`) says it by counting: of what client `c` wrote,
  globalsd has read `q` whole lines and `r` tokens of the next, has served the requests of those lines
  (`Done(q, r)`) and keeps the tokens of the object it is in (`Begun`), and the rest is in `up[c]`;
  of what globalsd wrote, the client has read whole answers up to `i` and `j` rows of the next,
  its counter, batch and calls are those of that place (`ClientIs`), and the rest is in `down[c]`.
  Two assumptions. `Answerable`: no request is an `add`, which returns nothing, so that
  `onRequest` throws on `result.forEach` before it answers, or a bad one, which gets an error
  and no header. `WholePackets`: an object is cut in two
  only if there is a single client and it stays. The server keeps one partial object for all
  connections; run `WireShared` shows what two clients get from it. Both passing runs satisfy
  the two. TLC checked a form of `WireInv` it can evaluate on the constants of both runs before
  the proof. `Split`, the folds over the pieces of a packet and `FlattenSeq` of the answers are followed
  by induction on lengths; since the induction theorems of the library take an operator, each
  induction is over the set of the numbers for which the claim holds (lemma `Induction`).

Only model-checked: `FileBytes`, `OwnBytes`, `SearchTree`, `TlsInOrder`, `PiecesJoin`,
`KeysAndContextsHold`, `ProcessAsAsked` and `NothingStuck` of `MCRuntime`, and `TypesOK` of `MCRuntime`
and `MCEventLoop` (of parts of them it is proved). Out of the prover's
reach is liveness (`AllAnswered`, `RequestTried`, `EverythingEnds`, the liveness of `AnswersWork`), and
operators declared RECURSIVE. Not proved, though the inductions of `WireProofs`, `ServiceProofs` and `RuntimeProofs` show a way: what
the other recursive functions and folds compute for every input (base64 in `Buffers`).

Next would be the parts of `MCRuntime` that keep data, as `FileStreams` and `Buffers`; `Wire`
over `Collection`, the requests being operations; callbacks that throw in `Wire`.

## Not modelled

- The remote branch of the collection API sends a request and does nothing else; what becomes
  of it is `Wire`, what it does is `Collection`. A find with `subscripts` (`index.js:457`).
- Query statistics: two writes of one record under a number drawn for it, read by nobody.
- Connection life cycle: calls into the `cache` module, whose source is not here; opening and
  a closed connection are in `Collection` and `AsyncCollection`.
- gdbsession, the web console, the Ensemble adapters, `noble.mac`, start-up scripts: they read
  one command and print, or forward one request to a routine that is not here.
- The class generator proper, GenerateClass, runs against Caché's dictionary; in `SqlQueue` it
  succeeds or fails.
- Of the runtime: uptime, hrtime and the memory figures, which ask the system; tables
  (`node_constants.cc`, `node_root_certs.h`), declarations (`v8.h`, `uv.h`), V8, OpenSSL, c-ares,
  zlib and the HTTP grammar, which are external; the JavaScript libraries above what is mapped
  (`http`, `net`, `url`, `path`, `repl`).
