\* One message whose accepting reply is lost before the reader blocks.
SPECIFICATION OutboxSpec
CONSTANTS
  me = me
  you = you
  they = they
  mine = mine
  yours = yours
  theirs = theirs
  late = late
  chat = chat
  User = {me, you}
  Device = {mine, yours}
  Conv = {chat}
  ConvKind <- DirectChat
  Id = {1}
  Cipher = {1, 2}
  MaxDevices = 2
  NoUser = NoUser
  NoDispatch = NoDispatch
  Me = me
  MyDevice = mine
  Chat = chat
  StartOwner <- TwoDevices
  Tab = {w1}
  NoTab = NoTab
  NoEntry = NoEntry
  NoRequest = NoRequest
  NoChat = NoChat
  MaxFaults = 1
  MaxTaps = 0
INVARIANTS
  FailedMeansNotSent
CHECK_DEADLOCK FALSE
