\* tests/test_wyoming.py:265: AudioStart fires once across a session.
SPECIFICATION FairSpec
CONSTANTS
  Texts <- SomeTexts
  MinSentence = 3
  MaxInbox = 2
  MaxSent = 5
PROPERTY
  AudioStartsOnce
