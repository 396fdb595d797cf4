\* A user who enters, leaves and reloads while answers are still on their way.
SPECIFICATION Spec
CONSTANTS
  mine = mine
  theirs = theirs
  None = None
  Tokens <- TwoTokens
  Slots = {s1, s2, s3}
INVARIANTS
  SignedInHasToken
  ShownIsMine
SYMMETRY Renamings
