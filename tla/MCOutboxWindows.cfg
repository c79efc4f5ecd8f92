\* Two windows, one message, a second device of the sender, a device registered late.
SPECIFICATION OutboxSpec
CONSTANTS
  me = me
  you = you
  they = they
  mine = mine
  yours = yours
  theirs = theirs
  late = late
  chat = chat
  User = {me, you}
  Device = {mine, theirs, yours, late}
  Conv = {chat}
  ConvKind <- DirectChat
  Id = {1}
  Cipher = {1, 2}
  MaxDevices = 2
  NoUser = NoUser
  NoDispatch = NoDispatch
  Me = me
  MyDevice = mine
  Chat = chat
  StartOwner <- TabletDevice
  Tab = {w1, w2}
  NoTab = NoTab
  NoEntry = NoEntry
  NoRequest = NoRequest
  NoChat = NoChat
  MaxFaults = 1
  MaxTaps = 0
SYMMETRY WindowSymmetry
INVARIANTS
  OutboxTypeOK
  RetriesAreDuplicates
  KeptBeforeAccepted
CHECK_DEADLOCK FALSE
