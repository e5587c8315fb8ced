SPECIFICATION Spec
CONSTANTS
  p1 = p1
  p2 = p2
  n1 = n1
  n2 = n2
  r1 = r1
  r2 = r2
  Publishers = {p1, p2}
  Readers = {r1, r2}
  Names = {n1, n2}
  NameOf <- OwnNames
  SlotCount = 2
  Configurations <- Steady
  MaxSequence = 6
INVARIANTS
  DeliveredIsSelected
  NeverPoisoned
PROPERTIES
  CatchesUp
\* The publisher may pause for ever once its last message is taken.
CHECK_DEADLOCK FALSE
