\* Three requests of two processes; any two kinds of fault of the tables.
CONSTANTS
    r1 = r1
    r2 = r2
    r3 = r3
    m = m
    Requests = {r1, r2, r3}
    firestore = firestore
    t1 = t1
    t2 = t2
    t3 = t3
    t4 = t4
    Stores = {firestore, t1, t2}
    Store = firestore
    Home <- Shared
    Nowhere = nowhere
    Messageless = {}
    Verdicts <- Quiet
    ArmorBlocks = {}
    Kinds <- TableKinds
    MaxFaults = 2
    High = 7000
    Med = 4000
    SupervisedHigh = 4000
    LeakQuarantine = 7000
    SessionFlaggedReview = 3
    ConsecutiveFlagged = 3
    RefusalsReview = 2
    SecurityReview = 2
    VelocityWindow = 10
    VelocityReview = 2
    PrincipalSessionsRepeat = 2
    LongSession = 40
    SecurityQuarantine = 2
SPECIFICATION Spec
SYMMETRY SameProcess
INVARIANTS TurnedAwayCountsOnce
CHECK_DEADLOCK FALSE
