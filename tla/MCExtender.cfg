SPECIFICATION MCSpec
CONSTANTS
  Node = {1, 2, 3, 4}
  Byzantine = {4}
  MaxEvil = 1
  Branch = {0, 1}
  MaxRound = 4
  MaxForged = 1
  ForgeRounds = {0,1}
  Observer = 1
  Idle = 0
  Hash <- MCHash
  SeededBit <- MCSeededBit
INVARIANTS
  SameHeads
  OrderAgreement
  OrderCausal
CHECK_DEADLOCK FALSE
