SPECIFICATION ProcessSpec
CONSTANTS
  Requests = {r1, r2}
  Drain = 1
  Grace = 2
  MaxEvents = 3
  MaxCrashes = 1
  Callers = {c1, c2}
  Addresses = {x, y}
  MaxCloses = 2
  NoOne = NoOne
CHECK_DEADLOCK FALSE
INVARIANTS ProcessInv LossesAreLate RedisOutlivesGrpc OneLossPerCrash OpenOnesAreThePools
PROPERTIES SignalEndsIt NoEventBlocks CallsReturn
