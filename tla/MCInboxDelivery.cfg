\* A window on each device, a direct chat and a group, one envelope a page.
SPECIFICATION FairInboxSpec
CONSTANTS
  me = me
  you = you
  mine = mine
  yours = yours
  direct = direct
  group = group
  w1 = w1
  w2 = w2
  w3 = w3
  User = {me, you}
  Device = {mine, yours}
  Conv = {direct, group}
  ConvKind <- Kinds
  Id = {m1, m2}
  Cipher = {x1}
  MaxDevices = 2
  NoUser = NoUser
  NoDispatch = NoDispatch
  Window = {w1, w2}
  WindowDevice <- WindowEach
  BatchSize = 1
  StartOwner <- Owners
  StartMembers <- BothInBoth
  MaxFaults = 1
INVARIANTS
  InboxTypeOK
  OnlyLatestStoredAgain
PROPERTIES
  EventuallyFlushed
CHECK_DEADLOCK FALSE
