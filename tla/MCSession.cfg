SPECIFICATION SessSpec
CONSTANTS
  Node = {1, 2, 3, 4}
  Byzantine = {4}
  MaxEvil = 1
  Stream <- MCStream
  ByteTarget = 3
  RoundCap = 2
  Valid <- MCValid
  MaxCrashes = 1
INVARIANTS
  OneHeader
  NoConsensusFailure
PROPERTIES
  ImplementsLedger
  EveryoneCloses
CHECK_DEADLOCK FALSE
