\* One request at a time, and Firestore never raises.
CONSTANTS
    c1 = c1
    c2 = c2
    u1 = u1
    u2 = u2
    Instances = {i1, i2}
    Durable = {i1, i2}
    Slots = {q1}
    Clients = {c1, c2}
    Redirects = {u1, u2}
    RegisteredUris <- MCRegisteredUris
    Verifiers = {v1}
    Resources = {r1, r2}
    AllowedResources = {r1}
    People = {p1, p2}
    Allowed = {p1}
    Signins = {g1}
    Refreshes = {n1, n2}
    CodeTtl = 0
    RefreshTtl = 0
    MaxFaults = 0
    None = None
SPECIFICATION Spec
INVARIANTS SingleUse
CHECK_DEADLOCK FALSE
