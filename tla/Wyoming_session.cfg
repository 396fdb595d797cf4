\* A client that sends any event at any time.
SPECIFICATION FairSpec
CONSTANTS
  Texts <- SomeTexts
  MinSentence = 3
  MaxInbox = 2
  MaxSent = 5
INVARIANTS
  NothingSkipped
  NoSilentEnd
PROPERTIES
  Implements
  EveryRequestEnds
