CONSTANTS
\* One session, with the default confidences; the counts are scaled down so
\* that four turns pass every one of them.
  High = 7000
  Med = 4000
  SupervisedHigh = 4000
  LeakQuarantine = 7000
  SessionFlaggedReview = 3
  ConsecutiveFlagged = 2
  RefusalsReview = 2
  SecurityReview = 2
  VelocityWindow = 0
  VelocityReview = 2
  PrincipalSessionsRepeat = 2
  LongSession = 4
  SecurityQuarantine = 3
  Verdicts <- MCVerdicts
  Principals = {0, 2}
  FailClosed = TRUE
  MaxTurns = 4
  MaxNow = 1
\* The services.
  None = None
  Asks = {a1}
  DataAgent = TRUE
  Scorers = {q1, q2}
  MaxRuns = 2
  Users = {p1, p2}
  Requests = {q1, q2}
  MaxGrants = 2
  Callers = {p1, p2}
  Instances = {q1, q2}
  MaxKeys = 2
  MaxRows = 2
  MaxMoves = 4
  Txns = {p1, p2}
  Keys = {k1, k2}
  Jobs = {q1, q2}
  MaxCopies = 2
SPECIFICATION ServicesSpec
INVARIANTS DetoursAreKnown ScoresAreOfAnswers
INVARIANTS PersistentMeansRefreshable SignOutForgets RotationIsFollowed
INVARIANTS OutagesAreTold AdviceFollowsTheBank OneRowPerKey NothingIsLost
INVARIANTS HitsLockSession TrajectoryIsReported RebuiltCountsAlike
PROPERTIES LockIsFinal
SYMMETRY Symmetry
\* jobs that have all ended and questions that have all been answered
CHECK_DEADLOCK FALSE
