\* Two windows of one browser and one on the other device, three deliveries.
SPECIFICATION InboxSpec
CONSTANTS
  me = me
  you = you
  mine = mine
  yours = yours
  direct = direct
  group = group
  w1 = w1
  w2 = w2
  w3 = w3
  User = {me, you}
  Device = {mine, yours}
  Conv = {direct}
  ConvKind <- DirectKind
  Id = {m1, m2, m3}
  Cipher = {x1}
  MaxDevices = 2
  NoUser = NoUser
  NoDispatch = NoDispatch
  Window = {w1, w2, w3}
  WindowDevice <- ThreeWindows
  BatchSize = 2
  StartOwner <- Owners
  StartMembers <- BothInBoth
  MaxFaults = 1
PROPERTIES
  ImplementsMailbox
  AcknowledgedOnlyIfKept
CHECK_DEADLOCK FALSE
