\* Three takes, a user who may type two lines ahead, and a call that may fail anywhere.
SPECIFICATION FairSpec
CONSTANTS
  None = None
  MaxTakes = 3
  MaxAhead = 2
\* The command ends.
CHECK_DEADLOCK FALSE
INVARIANTS
  LinesReachReaders
  RegisteredAsAnswered
  ExitTellsTruth
PROPERTIES
  CommandGoesOn
