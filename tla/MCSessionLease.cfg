\* Every Firestore call may fail, processes crash, and a turn (3) may outlast
\* its lease (2).
CONSTANTS
    r1 = r1
    r2 = r2
    r3 = r3
    i1 = i1
    i2 = i2
    Requests = {r1, r2, r3}
    Instances = {i1, i2}
    InstanceOf <- MCInstanceOf
    MemoryOnly = {}
    Firestore = firestore
    Nobody = nobody
    TtlS = 2
    WaitS = 1
    MaxTurn = 3
SPECIFICATION FairSpec
INVARIANTS OverlapOnlyByOverrun
PROPERTIES UnexpiredLeaseKept RejectedTurnsSurvive ImplementsMutex
    SessionComesFree
