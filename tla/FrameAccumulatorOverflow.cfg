\* Chunks far larger than the firmware reads at once, and a buffer hardly
\* larger than a cycle: every path of append_ and of the overflow recovery.
CONSTANTS
  RecordCount = 2
  RecordCadence = 4
  RecordSize = 5
  MaxBuffer = 10
  MaxChunk = 12
  StreamLength = 19
  MaxHeaders = 3
SPECIFICATION MCSpec
INVARIANTS
  OverflowConfined
