SPECIFICATION OneDownSpec
CONSTANTS
  Node = {1, 2, 3, 4}
  Byzantine = {}
  MaxEvil = 1
  Branch = {0}
  MaxRound = 4
  MaxStops = 1
  Slow = 3
  SlowRounds = 2
  Stopping = {4}
  StopRound = 3
  Idle = 0
  Hash <- MCHash
  SeededBit <- MCSeededBit
INVARIANTS
  FanOutOrdered
CHECK_DEADLOCK FALSE
