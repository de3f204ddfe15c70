CONSTANTS
  Cards <- SomeCards
  MaxFailures = 3
  Window = 3
SPECIFICATION GuardFairSpec
INVARIANT FailureRate
PROPERTY LockEnds
