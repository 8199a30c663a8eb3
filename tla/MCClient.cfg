SPECIFICATION MCSpec
CONSTANTS
  Workload = {"query", "outcome", "payments", "coins", "wallet", "fountain", "events", "links", "deposits", "bootstrap", "keys",
              "wire", "tables", "setup", "gateways", "lnurl", "runtime"}
  Node = {0, 1, 2, 3}
  Byzantine = {3}
  MaxEvil = 1
  Answer = {"ok", "err"}
  Invalid = {"err"}
  Pending = "pending"
  Failed = "failed"
  MaxDrops = 1
  Temporary = FALSE
  MaxSessions = 1
  MaxRestarts = 1
  Payment = {1, 2}
  MintOf <- MCMintOf
  Nobody = 0
  MaxCrashes = 1
  MaxLapses = 1
  MaxRemovals = 1
  Denomination = {9, 10, 11, 12}
  EcashFee = 100
  Target = 3
  Skipped = 2
  Short = Short
  Batch = 3
  MaxCounter = 4
  MaxContracts = 1
  MaxWipes = 1
  Message = {"p", "q"}
  Fragments <- MCFragments
  Nothing = "nothing"
  Operation = {"a", "b"}
  Trailer = "trailer"
  Checker = "checker"
  Chunk = 2
  MaxEvents = 3
  MaxReboots = 1
  ConnectionId = {1, 2, 3, 4}
  Capacity = 2
  MaxMessages = 3
  MaxBreaks = 2
  Account = {"x", "y"}
  Outsider = "o"
  Slice = 2
  MaxOutputs = 3
  MaxFailures = 1
  Member = {0, 1, 2}
  Code = {"right", "wrong"}
  Right = "right"
  MaxAttempts = 2
  MaxFaults = 1
  Prime = 7
  Dealer = {0, 1, 2, 3}
  KeyThreshold = 3
  ByteBits = 8
  LenBytes = 1
  GroupBits = 5
  Layout <- MCLayout
  Feed <- MCFeed
  MaxWire <- MCMaxWire
  Table = {"a", "b"}
  KeyTypes <- MCKeyTypes
  Key <- MCKey
  Stored = {0}
  Awaited <- MCAwaited
  MaxTx = 2
  MaxOps = 1
  MaxPowerCuts = 1
  Founder = {0, 1, 2}
  MintName = {"m"}
  NoName = ""
  MintSize = {3, 4}
  MinSize = 3
  MaxResets = 0
  MaxDowns = 1
  Gateway = {"g", "h"}
  Info <- MCInfo
  Unprobed = Unprobed
  Refresh = {"r"}
  MaxChanges = 1
  MintNode = {0, 1, 2, 3}
  FaultyNode = {3}
  Crooked = {"h"}
  LnurlRequest <- MCLnurlRequest
  ThisMint = "m"
  OtherMint = "o"
  Msat = {100000, 200000}
  MinSendable = 100000
  MaxSendable = 200000
  MaxNodesPerLnurl = 2
  FeeLimit <- MCFeeLimit
  MaxAuthored = 2
  MaxPolls = 2
  MaxDaemonRestarts = 1
  KnownMint = {"m"}
  Admin = {1, 2}
  MaxStep = 1
  MaxCalls = 4
  MaxRelaunches = 1
INVARIANTS
  QuerySound
  VerdictTrue
  MintsSound
  NotesAccounted
  SettledOnce
  ComputedExactly
  DepositsSound
  EventsExact
PROPERTIES
  LightningSound
  BootstrapSound
  EveryoneServed
CHECK_DEADLOCK FALSE
