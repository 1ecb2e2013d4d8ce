\* Three requests with a message and one without; two hits lock the session,
\* and any one kind of fault may happen, any number of times.
CONSTANTS
    r1 = r1
    r2 = r2
    r3 = r3
    m = m
    Requests = {r1, r2, r3, m}
    firestore = firestore
    t1 = t1
    t2 = t2
    t3 = t3
    t4 = t4
    Stores = {firestore, t1, t2, t3, t4}
    Store = firestore
    Home <- Apart
    Nowhere = nowhere
    Messageless = {m}
    Verdicts <- MCVerdicts
    ArmorBlocks = {"security"}
    Kinds <- TurnKinds
    MaxFaults = 1
    High = 7000
    Med = 4000
    SupervisedHigh = 4000
    LeakQuarantine = 7000
    SessionFlaggedReview = 3
    ConsecutiveFlagged = 3
    RefusalsReview = 2
    SecurityReview = 2
    VelocityWindow = 10
    VelocityReview = 2
    PrincipalSessionsRepeat = 2
    LongSession = 40
    SecurityQuarantine = 2
SPECIFICATION Spec
SYMMETRY Alike
INVARIANTS IndexesRunOn BurstReachesLock
    LockedSessionAnswersWithLock TurnedAwayCountsOnce
CHECK_DEADLOCK FALSE
