\* wyoming_server.py:230: complete sentences leave the buffer as they come.
SPECIFICATION FairSpec
CONSTANTS
  Texts <- SomeTexts
  MinSentence = 3
  MaxInbox = 2
  MaxSent = 5
INVARIANT
  NothingWaits
