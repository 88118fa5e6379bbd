SPECIFICATION Spec
CONSTANTS
  matchStart = matchStart
  hudStop = hudStop
  duelUnpause = duelUnpause
  NoIndex = NoIndex
  Index <- ThreeTasks
  Delay = {0, 1}
  MaxTime = 2
INVARIANTS TypeOK SweepMissesNone
PROPERTIES ImplementsAlarms EveryTaskRuns
