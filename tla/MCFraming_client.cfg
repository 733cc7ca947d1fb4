SPECIFICATION FairSpec
CONSTANTS
  small = small
  large = large
  reply1 = reply1
  reply2 = reply2
  u1 = u1
  u2 = u2
  u3 = u3
  Msg = {small, reply1, reply2}
  Replies = {reply1, reply2}
  Encoded = {small, reply1}
  Uuid = {u1, u2, u3}
  UuidOf <- MCUuidOf
  RawLen <- MCRawLen
  SnapLen <- MCSnapLen
  Bandwidth = 2
  WordSize = 2
  AtServer = FALSE
  Poisoned = FALSE
  NoMsg = NoMsg
  NoContext = NoContext
  Corrupt = Corrupt
CHECK_DEADLOCK FALSE
PROPERTY AcceptedIsDelivered
PROPERTY CallsReturn
