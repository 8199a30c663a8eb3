SPECIFICATION SubSpec
CONSTANTS
  Caller = {a, b}
  Buffer = 1
  MaxWaiting = 1
  MaxHasty = 1
INVARIANTS
  NoMissedWakeup
