SPECIFICATION Spec
CONSTANTS
  small = small
  large = large
  reply1 = reply1
  reply2 = reply2
  u1 = u1
  u2 = u2
  u3 = u3
  Msg = {large, reply1, reply2}
  Replies = {reply2}
  Encoded = {}
  Uuid = {u1, u2, u3}
  UuidOf <- MCUuidOf
  RawLen <- MCRawLen
  SnapLen <- MCSnapLen
  Bandwidth = 2
  WordSize = 4
  AtServer = TRUE
  Poisoned = TRUE
  NoMsg = NoMsg
  NoContext = NoContext
  Corrupt = Corrupt
INVARIANT AtMostOnce
CHECK_DEADLOCK FALSE
