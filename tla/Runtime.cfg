SPECIFICATION Spec
CONSTANTS
  Streams = {s1, s2}
  UdpSockets = {u1}
  SlabSize = 4
  Chunk = 2
  Suggested = {2}
  MaxSlabs = 2
  Handles = {h1, h2}
  Reqs = {r1, r2}
  Kinds = {"tcp", "tty", "udp", "timer", "process", "fsevent"}
  Persistent = {TRUE}
  NoHandle = NoHandle
  Objects = {o1, o2, o3}
  MaxListeners = 2
  NoObject = NoObject
  FileReaders = {f1, f2}
  Writers = {f3}
  FileSize = 2
  FilePool = 3
  MinPoolSpace = 1
  BufferSize = 2
  FileWrites = 2
  MaxStreams = 2
  EarlyDestroy = FALSE
  None = None
  MaxPauses = 1
  IsServer = {TRUE, FALSE}
  Renegs = 1
  RenegLimit = 2
  HighWater = 2
  MaxFields = 2
  MaxHeaders = 2
  MaxMessages = 2
  MaxCuts = 1
  Sizes = {1, 3}
  ZlibWrites = 3
  ChunkSize = 2
  DataErrors = {TRUE, FALSE}
  CipherBlocks = {1, 2}
  MaxFed = 9
  Fragment = 4
  Digesters = {g1, g2}
  Pieces = {d1, d2}
  MaxUpdates = 2
  KeyPairs = {k1, k2}
  Unreadable = Unreadable
  Parties = {a, b}
  Primes = {11, 59}
  PrivateKeys = {2, 4}
  Base = 4
  Junk = {0, 3}
  Credentials = {c1, c2}
  Cas = {ca1, ca2}
  Roots = {root}
  NoCert = NoCert
  MaxNode = 7
  PoolSize = 4
  Lengths = {2, 3}
  HexAtEnd = FALSE
  MaxBuffers = 3
  MaxCalls = 2
  Octets = {0, 77, 255}
  MaxOctets = 5
  MaxBlanks = 1
  ArraySize = 4
  ArrayKinds = {"u8", "u16"}
  MixedKinds = FALSE
  MaxViews = 2
  MaxSets = 2
  Sandboxes = {s}
  Contexts = {c}
  Props = {p, q}
  Values = {1, 2}
  MaxDepth = 2
  MaxWrites = 3
  Absent = Absent
  MaxFileCalls = 2
  Codes = {"ENOENT", "EACCES"}
  OK = OK
  NoPath = NoPath
  Nothing = Nothing
  Dirs = {"/", "/tmp"}
  Masks = {2}
  Ids = {"root", "u1"}
  Keys = {"HOME"}
  Words = {"t"}
  Signals = {"SIGTERM", "SIGRTMIN"}
  Nameless = {}
  Builtins = {"fs"}
  Libs = {"lib"}
  MaxSteps = 3
  MaxArgs = 3
  Debuggers = {b1, b2}
  Together = FALSE
  DebugMessages = 2
  Jobs = {1, 2}
  PoolThreads = {p1, p2}
  NoThread = NoThread
  ServerCa = ca1
  Hosts = {"h"}
  ContextCas = {ca2}
  Adders = {"this"}
  SameOptions = TRUE
  Forgetful = FALSE
  MaxConns = 2
  MaxContexts = 1
  Nobody = Nobody
  Created = {c1}
  MaxChain = 1
  MaxErrors = 1
  CertAlone = FALSE
  Empty = Empty
CHECK_DEADLOCK FALSE
INVARIANTS TypesOK LoopKept WritesAccounted SlicesUntouched FileBytes ProcessAsAsked TlsInOrder NothingStuck HeadersWhole ZlibWhole PiecesJoin KeysAndContextsHold SearchTree OwnBytes ReadsLastWritten
