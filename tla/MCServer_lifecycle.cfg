SPECIFICATION FairSpec
CONSTANTS
  Conn = {c1, c2}
  Stalling = {c2}
  MaxEvents <- MCMaxEvents
  MaxReplies = 1
INVARIANT TypeOK
INVARIANT SessionsMatchUrls
PROPERTY ImplementsSession
PROPERTY ConnectReturns
PROPERTY HandshakeIsSeen
PROPERTY SessionsEnd
CHECK_DEADLOCK FALSE
