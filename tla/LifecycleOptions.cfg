SPECIFICATION Spec
CONSTANTS
  p1 = p1
  p2 = p2
  n1 = n1
  n2 = n2
  r1 = r1
  r2 = r2
  Publishers = {p1}
  Readers = {r1}
  Names = {n1}
  NameOf <- OwnNames
  SlotCount = 2
  Configurations <- GrowingOrRestarted
  MaxSequence = 6
INVARIANTS
  TypeOK
  DeliveredIsOneFrame
  WriteNeverFails
  RingIsLinked
  DestroyedLeavesNoName
  SameObjectSameFrame
  AnnouncedRingIsReadable
\* Every process may be gone, with nothing to restart it.
CHECK_DEADLOCK FALSE
