SPECIFICATION FairSpec
CONSTANTS
  Uuid = {u1, u2}
  Call = {c1, c2}
  Task = {t1, t2}
  NoUuid = NoUuid
  NoTask = NoTask
  NoData = NoData
  Drained = Drained
  MaxAnswers = 1
  Parallel = FALSE
  AwaitAtOnce = TRUE
  Disciplined = TRUE
  Migrating = FALSE
INVARIANT AwaitSucceeds
INVARIANT NoLostWakeup
PROPERTY ImplementsStrong
PROPERTY ClosedWaitersReturn
PROPERTY AnsweredWaitersReturn
CHECK_DEADLOCK FALSE
