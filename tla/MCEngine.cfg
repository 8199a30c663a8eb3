SPECIFICATION MCSpec
CONSTANTS
  Node = {1, 2, 3, 4}
  Byzantine = {4}
  MaxEvil = 1
  Branch = {0, 1}
  MaxRound = 4
  MaxItems = 1
  MaxCrashes = 1
  ForgeRound = 4
  Consumers = {1, 2}
  Crashing = {1}
  Hash <- MCHash
  SeededBit <- MCSeededBit
  Acceptable <- MCAcceptable
INVARIANTS
  SingleVoice
  CascadeComplete
  ResumeSound
PROPERTIES
  ImplementsBroadcast
  ImplementsExtender
CHECK_DEADLOCK FALSE
