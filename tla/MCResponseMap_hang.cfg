SPECIFICATION FairSpec
CONSTANTS
  Uuid = {u1, u2}
  Call = {c1, c2}
  Task = {t1, t2}
  NoUuid = NoUuid
  NoTask = NoTask
  NoData = NoData
  Drained = Drained
  MaxAnswers = 1
  Parallel = TRUE
  AwaitAtOnce = FALSE
  Disciplined = TRUE
  Migrating = FALSE
PROPERTY ClosedWaitersReturn
CHECK_DEADLOCK FALSE
