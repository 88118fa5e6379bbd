SPECIFICATION Spec
CONSTANTS
  s1 = s1
  s2 = s2
  s3 = s3
  p1 = p1
  p2 = p2
  p3 = p3
  NoSlot = NoSlot
  NoPerson = NoPerson
  Slot <- ThreeSlots
  Person <- ThreePeople
  ScoreToWin = 2
  MaxScore = 1
  MaxJoins = 3
  MaxMaps = 0
CHECK_DEADLOCK FALSE
SYMMETRY Symmetry
PROPERTIES SpectatorsStayOut
