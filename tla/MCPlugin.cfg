SPECIFICATION Spec
CONSTANTS
  s1 = s1  s2 = s2  p1 = p1  p2 = p2
  still = still  slow = slow  fast = fast
  Slot <- Slots
  NoSlot = NoSlot
  Person <- People
  NoPerson = NoPerson
  Velocity <- Speed
  Straight <- Still
  Entries = 3
  MaxId = 3
SYMMETRY Symmetry
INVARIANTS TypeOK JudgesAreListed DownIsExplained
PROPERTIES FixGivesBackOwnSpeed
CHECK_DEADLOCK FALSE
