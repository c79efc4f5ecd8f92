\* Calls, vault, roles, presence, account access, invitations and history.
SPECIFICATION ServicesSpec
CONSTANTS
  Parts = {"calls", "vault", "roles", "presence", "access", "invitations", "history"}
  ann = ann
  bob = bob
  a1 = a1
  b1 = b1
  b2 = b2
  c1 = c1
  c2 = c2
  Phone = {a1, b1, b2}
  Party = {ann, bob}
  PartyOf <- Owner
  CallId = {c1, c2}
  CallerOf <- Caller
  NoId = NoId
  MaxSockets <- Sockets
  MaxTrouble = 1
  Client = {d1, d2}
  Change = {x1, x2}
  MaxKey = 2
  MaxSetbacks = 2
  u1 = u1
  u2 = u2
  u3 = u3
  User = {u1, u2, u3}
  Founders <- Two
  MaxRow = 3
  MaxRequests = 2
  MaxDeleted = 1
  Connection = {s1, s2}
  MaxChange = 1
  MaxWatch = 2
  acc = acc
  Account = {acc}
  FirstKey <- OneKey
  MaxAccountKey = 2
  Credential = {p1, p2}
  NoCredential = NoCredential
  MaxChallenge = 2
  MaxProof = 3
  Guest = {g1, g2, g3}
  NoGuest = NoGuest
  Code = {i1, i2}
  PER_USER_INVITATION_LIMIT = 1
  DAILY_INVITATION_LIMIT = 2
  MaxIssuing = 2
  MaxWindow = 2
  Device = {h1, h2}
  OwnDevice = {h1, h2}
  Writer = h1
  LateDevice = h2
  MaxStamp = 2
  MaxTransfers = 1
  NoText = NoText
INVARIANTS
  CallTypeOK
  WaitingHasTimer
  RingingIsCalledOff
  VaultTypeOK
  CopiesAgree
  SealedForTheAccount
  SavedChangesStay
  RolesTypeOK
  AtMostOneOwner
  SettledViewIsRight
  ChallengeUsedOnce
  InvitationsFormATree
  WithinAllowance
  SameOperationsSameMessage
PROPERTIES
  NobodyWaitsForever
  ChangesSettle
  OwnerLostOnlyToStaleReads
  WrapperLostOnlyToStaleProof
  DeletionIsFinal
CHECK_DEADLOCK FALSE
