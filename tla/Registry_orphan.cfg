\* docs/server.md:123: a purge deletes the key's files.
SPECIFICATION Spec
CONSTANTS
  n1 = n1
  n2 = n2
  None = None
  Labels <- TwoLabels
  RootLabel = "root"
  Names = {n1}
  Conns = {c1, c2}
  AuthMode = "token"
  MintBodies <- Users
  PatchBodies <- NoPatches
  MaxKeyId = 2
  MaxVoiceId = 2
  MaxCrashes = 0
INVARIANTS
  PurgedFilesGone
