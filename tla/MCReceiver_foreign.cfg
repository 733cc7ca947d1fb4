SPECIFICATION Spec
CONSTANTS
  large = large
  again = again
  empty = empty
  full = full
  u1 = u1
  u2 = u2
  u3 = u3
  short = short
  chunk1 = chunk1
  chunk2 = chunk2
  chunk3 = chunk3
  raw1 = raw1
  raw3 = raw3
  Empty = Empty
  Bytes = {Empty, u1, u2, u3, short, chunk1, chunk2, chunk3, raw1, raw3}
  ByteLen <- MCByteLen
  Msg = {large, again, empty, full}
  UuidOf <- MCUuidOf
  Raw <- MCRaw
  Chunks <- MCChunks
  Decode <- MCDecode
  Word = 16
  Foreign <- MCForeign
  MaxForeign = 3
  Bandwidth = 200
  Limits = {200, 225}
  AtServer = TRUE
  NoContext = NoContext
CHECK_DEADLOCK FALSE
INVARIANT TypeOK
INVARIANT DeliveredExactly
INVARIANT ProgressCounts
INVARIANT LimitDecides
PROPERTY NothingVanishes
