\* A label minted, purged and minted again while requests authenticated
\* before are still under way; admins that patch, disable, expire and purge each
\* other; and one crash at any point.
SPECIFICATION Spec
CONSTANTS
  n1 = n1
  n2 = n2
  None = None
  Labels <- TwoLabels
  RootLabel = "root"
  Names = {n1}
  Conns = {c1, c2}
  AuthMode = "token"
  MintBodies <- UsersAndAdmins
  PatchBodies <- KeyPatches
  MaxKeyId = 3
  MaxVoiceId = 2
  MaxCrashes = 1
INVARIANTS
  ReferentialIntegrity
  NobodyElsesRecording
  VoicesHaveFiles
  RootRecordingsListed
  IInv
  RootRecoverable
PROPERTIES
  OnlyAdminsChangeKeys
  OnlyOwnersChangeVoices
SYMMETRY AnyConn
