SPECIFICATION Spec

CONSTANTS
  None = None
  Owners = {o1, o2}
  Mod = 9
  Low = 2
  High = 6
  Late = 1
  Delays = {1, 2}
  Periods = {0, 2}
  MaxStall = 2
  MaxDelay = 2
  MaxSlots = 3

INVARIANTS
  TypeOK
  SlotsKept
  HandlesAreOwn
  HeapSorted
  SearchAgrees

PROPERTIES
  CalledInOrder
  ImplementsAlarms
  DueIsCalled

CHECK_DEADLOCK FALSE
