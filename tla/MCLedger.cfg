SPECIFICATION MCSpec
CONSTANTS
  Node = {0, 1, 2, 3}
  Byzantine = {3}
  MaxEvil = 1
  Txid = {1, 2, 3, 4, 5, 6, 7, 8, 9, 10, 11, 12, 13, 14, 15, 16, 17, 18}
  None = 0
  ByzantineNonce = {0}
  Rate = {200, 300}
  DefaultVersion = 0
  MaxVersion = 2
  Deposit = {"d1", "d2", "d3"}
  ByzantineDeposits <- MCByzantineDeposits
  Confirmations = 2
  MaxBlocks = 5
  Tx = {"deposit", "open", "double", "claim", "cancel", "badproof", "receive", "again", "take1", "take2", "badsig", "overflow", "unfunded", "sweep", "sweepmore", "send", "sendmid", "sendmore"}
  Inputs <- MCInputs
  Outputs <- MCOutputs
  Witness <- MCWitness
  DepositValue <- MCDepositValue
  MaxAmount = 536870911
  MaxOps = 3
INVARIANTS
  SigningSafe
  TrackingFollowsChain
  VotesBacked
  Solvent
  TablesSound
  WalletIsChain
PROPERTIES
  MintProgresses
  StackPaysFloor
CHECK_DEADLOCK FALSE
