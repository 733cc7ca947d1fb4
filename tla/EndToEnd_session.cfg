SPECIFICATION FairSystemSpec
CONSTANTS
  Uuid = {u1, u2}
  Call = {c1, c2}
  Task = {t1, t2}
  NoUuid = NoUuid
  NoTask = NoTask
  NoData = NoData
  Drained = Drained
  MaxAnswers = 2
  Parallel = FALSE
  AwaitAtOnce = TRUE
  Disciplined = TRUE
  Migrating = FALSE
PROPERTY ImplementsResponseMap
PROPERTY RepliedReturns
PROPERTY SessionEndReturns
PROPERTY SessionFollowsClient
CHECK_DEADLOCK FALSE
