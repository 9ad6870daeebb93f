SPECIFICATION Spec
CONSTANTS
  auth = auth
  Limiter = {auth}
  Auth = auth
  Address = {"here"}
  Account = {"ana"}
  Burst <- Bursts
  Rate <- Rates
  Token = 2
  MaxIdle = 4
  EvictEvery = 2
  MaxFails = 2
  Lockout = 2
  MaxQuiet = 2
  MaxTime = 7
  MaxReading = 2
  NoBucket = NoBucket
  NoEntry = NoEntry
  NoAnswer = NoAnswer
INVARIANTS
  LimitsTypeOK
  RateHeld
  FailuresBounded
PROPERTIES
  KeepsBudgets
  LockHolds
