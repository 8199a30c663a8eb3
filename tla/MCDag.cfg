SPECIFICATION MCSpec
CONSTANTS
  Node = {1, 2, 3, 4}
  Byzantine = {4}
  MaxEvil = 1
  Branch = {0, 1}
  MaxRound = 3
  Forged <- MCForged
  Last = {1, 3}
  Hash <- MCHash
  SeededBit <- MCSeededBit
INVARIANTS
  DagTypeOK
  DecisionsPropagate
  DecisionsAgree
  UnseenNeverIncluded
CHECK_DEADLOCK FALSE
