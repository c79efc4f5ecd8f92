\* One window, two messages or a message and an operation, one fault.
SPECIFICATION FairOutboxSpec
CONSTANTS
  me = me
  you = you
  they = they
  mine = mine
  yours = yours
  theirs = theirs
  late = late
  chat = chat
  User = {me, you}
  Device = {mine, yours}
  Conv = {chat}
  ConvKind <- DirectChat
  Id = {1, 2}
  Cipher = {1, 2}
  MaxDevices = 2
  NoUser = NoUser
  NoDispatch = NoDispatch
  Me = me
  MyDevice = mine
  Chat = chat
  StartOwner <- TwoDevices
  Tab = {w1}
  NoTab = NoTab
  NoEntry = NoEntry
  NoRequest = NoRequest
  NoChat = NoChat
  MaxFaults = 1
  MaxTaps = 0
INVARIANTS
  NothingLost
  SentMeansAccepted
  OperationsFindTheirMessage
PROPERTIES
  EventuallySettled
CHECK_DEADLOCK FALSE
