\* Two accounts, three devices, two dispatches and a conversation of each kind.
SPECIFICATION Spec
CONSTANTS
  direct = direct
  group = group
  notes = notes
  User = {u1, u2}
  Device = {a, b, c}
  Conv = {direct, group, notes}
  ConvKind <- AllKinds
  Id = {m1, m2}
  Cipher = {x1}
  MaxDevices = 2
  NoUser = NoUser
  NoDispatch = NoDispatch
SYMMETRY RelaySymmetry
INVARIANTS
  TypeOK
  PayloadIffOwed
  OwedOnlyToMembers
  BlockedPairHasNothingQueued
  OperationsHaveAnOriginal
  HistoryStaysWithOwner
PROPERTY NeverRequeued
CHECK_DEADLOCK FALSE
