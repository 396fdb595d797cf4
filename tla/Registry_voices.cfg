\* The root key and a user with a limit of one voice, two names, two uploads at
\* a time, and every way to share.
SPECIFICATION Spec
CONSTANTS
  n1 = n1
  n2 = n2
  None = None
  Labels <- TwoLabels
  RootLabel = "root"
  Names = {n1, n2}
  Conns = {c1, c2}
  AuthMode = "token"
  MintBodies <- Users
  PatchBodies <- LimitPatches
  MaxKeyId = 2
  MaxVoiceId = 2
  MaxCrashes = 0
INVARIANTS
  ListedResolves
  WInv
PROPERTIES
  LimitHonoured
SYMMETRY AnyConn
