\* The defaults in half minutes: a lease of 120 s, and a turn that may run for
\* 150 s of the 175 s its timeouts add up to.
CONSTANTS
    r1 = r1
    r2 = r2
    r3 = r3
    i1 = i1
    i2 = i2
    Requests = {r1, r2, r3}
    Instances = {i1, i2}
    InstanceOf <- MCInstanceOf
    MemoryOnly = {}
    Firestore = firestore
    Nobody = nobody
    TtlS = 4
    WaitS = 0
    MaxTurn = 5
SPECIFICATION Spec
PROPERTIES LiveHolderNeverStolenFrom
