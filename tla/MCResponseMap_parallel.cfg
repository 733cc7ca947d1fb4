SPECIFICATION Spec
CONSTANTS
  Uuid = {u1, u2, u3}
  Call = {c1, c2, c3}
  Task = {t1, t2}
  NoUuid = NoUuid
  NoTask = NoTask
  NoData = NoData
  Drained = Drained
  MaxAnswers = 1
  Parallel = TRUE
  AwaitAtOnce = FALSE
  Disciplined = TRUE
  Migrating = FALSE
SYMMETRY Symmetry
INVARIANT TypeOK
INVARIANT OwnedEntry
INVARIANT AnswersMatch
INVARIANT NoLostWakeup
PROPERTY AnswerKept
PROPERTY ImplementsWeak
CHECK_DEADLOCK FALSE
