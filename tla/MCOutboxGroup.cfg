\* One window, a group whose members change, two faults, a tap on retry.
SPECIFICATION OutboxSpec
CONSTANTS
  me = me
  you = you
  they = they
  mine = mine
  yours = yours
  theirs = theirs
  late = late
  chat = chat
  User = {me, you, they}
  Device = {mine, yours, theirs}
  Conv = {chat}
  ConvKind <- GroupChat
  Id = {1}
  Cipher = {1, 2, 3, 4}
  MaxDevices = 2
  NoUser = NoUser
  NoDispatch = NoDispatch
  Me = me
  MyDevice = mine
  Chat = chat
  StartOwner <- ThreeDevices
  Tab = {w1}
  NoTab = NoTab
  NoEntry = NoEntry
  NoRequest = NoRequest
  NoChat = NoChat
  MaxFaults = 2
  MaxTaps = 1
INVARIANTS
  NothingLost
  KeptBeforeAccepted
CHECK_DEADLOCK FALSE
