SPECIFICATION Safety
CONSTANTS
  s1 = s1
  s2 = s2
  s3 = s3
  judge = judge
  other = other
  p1 = p1
  p2 = p2
  NoSlot = NoSlot
  NoPerson = NoPerson
  Slot <- TwoSlots
  Person <- OneJudge
  Admin <- OneAdmin
  ScoreToWin = 2
  MaxHistory = 3
  MaxOut = 0
  MaxJoins = 2
  MaxMaps = 0
CHECK_DEADLOCK FALSE
SYMMETRY Symmetry
VIEW View
INVARIANTS NoUnclaimedWin HistoryReadable
PROPERTIES GainIsRecorded ImplementsMatch
