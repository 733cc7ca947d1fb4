SPECIFICATION Spec
CONSTANTS
  Uuid = {u1, u2}
  Call = {c1, c2, c3}
  Task = {t1, t2}
  NoUuid = NoUuid
  NoTask = NoTask
  NoData = NoData
  Drained = Drained
  MaxAnswers = 2
  Parallel = TRUE
  AwaitAtOnce = FALSE
  Disciplined = FALSE
  Migrating = TRUE
SYMMETRY Symmetry
INVARIANT OwnedEntry
INVARIANT ConversationsApart
CHECK_DEADLOCK FALSE
