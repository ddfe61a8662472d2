SPECIFICATION Spec
CONSTANTS
  a = a
  b = b
  c = c
  None = None
  Players = {a, b, c}
  Results <- SomeResults
  Threads = 2
  MaxCalls = 2
  InitialCoins = 1000
  Accounts <- SomeAccounts
  MaxRooms = 2
  MaxWork = 3
  Arrivals = {a}
  MaxLives = 2
  MaxStops = 1
INVARIANT SettledIsPaid
CHECK_DEADLOCK FALSE
