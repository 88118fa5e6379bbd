SPECIFICATION TextsSpec
CONSTANTS
  File <- Files
  MaxText = 4
  MenuText <- MenuTexts
  ChunkSize = 2
  Behind <- Stack
INVARIANTS TypeOK ListIsRead NobodyGainsFlags MessageIsKept ColoursAreReplaced MenuTextArrives
PROPERTIES ReadingAdvances ReadingEnds
CHECK_DEADLOCK FALSE
