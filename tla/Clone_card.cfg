\* A user who clicks at any time; what that breaks is excused by hurried.
SPECIFICATION FairSpec
CONSTANTS
  MaxTakes = 3
  MaxStreams = 2
  MaxWaits = 2
\* The card leaves the page.
CHECK_DEADLOCK FALSE
INVARIANTS
  PreviewIsTake
  StopHasRecorder
  MicReleased
PROPERTIES
  TranscriptOfTake
  TakeKept
  StopEnds
  CallsEnd
