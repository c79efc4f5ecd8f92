\* Two windows of one browser read the same device's inbox.
SPECIFICATION InboxSpec
CONSTANTS
  me = me
  you = you
  mine = mine
  yours = yours
  direct = direct
  group = group
  w1 = w1
  w2 = w2
  w3 = w3
  User = {me, you}
  Device = {mine, yours}
  Conv = {direct}
  ConvKind <- DirectKind
  Id = {m1, m2}
  Cipher = {x1}
  MaxDevices = 2
  NoUser = NoUser
  NoDispatch = NoDispatch
  Window = {w1, w2}
  WindowDevice <- TwoWindows
  BatchSize = 1
  StartOwner <- Owners
  StartMembers <- BothInBoth
  MaxFaults = 0
PROPERTIES
  CommittedNeverReapplied
CHECK_DEADLOCK FALSE
