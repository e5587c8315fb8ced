SPECIFICATION Spec
CONSTANTS
  Configurations <- LimitedOrNot
  TicksPerSecond = 2
  MaxJump = 1
  MaxJumps = 1
  CounterRange = 2
INVARIANTS
  TypeOK
  CountersAddUp
  OkMeansSending
PROPERTIES
  PeriodsAreKept
  FailuresAreFree
  LimitsLetThrough
