\* The firmware's proportions on a small cycle: a chunk and an overlap together
\* are no longer than a cycle, and a chunk fits beside an unfinished cycle.
CONSTANTS
  RecordCount = 2
  RecordCadence = 4
  RecordSize = 5
  MaxBuffer = 12
  MaxChunk = 4
  StreamLength = 20
  MaxHeaders = 4
SPECIFICATION MCFairSpec
INVARIANTS
  NoByteDropped
  PromptDelivery
  DamageCounted
  CountedOnce
  JudgedOnce
PROPERTIES
  SearchProgress
  ImplementsScan
