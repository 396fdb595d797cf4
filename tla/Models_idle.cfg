\* A model unloaded after four seconds, a poll every three, and calls of any length.
SPECIFICATION FairSpec
CONSTANTS
  UnloadAfter = 4
  PollInterval = 3
  MaxAge = 9
INVARIANTS
  MemoryReturned
  FreedInTime
PROPERTIES
  UsedIsKept
  IdleFreed
