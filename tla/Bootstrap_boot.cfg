\* Any number of boots, each of which may die at any step.
SPECIFICATION Spec
CONSTANTS
  RootLabel = RootLabel
  mum = mum
  Names <- SomeNames
  MaxRecordings = 4
INVARIANTS
  NothingLost
  NoneStranded
  ListedHaveAudio
PROPERTIES
  InstalledUntouched
