CONSTANTS
    Loans = {l1}
    Instances = {i1, i2}
    Calls = {q1, q2}
    Applications <- MCApplications
    Decisions = {"APPROVE", "REJECT"}
    People = {p1}
    MaxDecisions = 2
    MaxFaults = 1
    None = None
    NCases = 3
    Refusals = {3}
    MaxEvals = 2
    Agents = {"a1", "a2"}
    Keys = {"k1", "k2"}
    Files = {"f1", "f2"}
    Tools = {"t1"}
    Consequential = {"a2"}
    Cadence = 1
    MaxDays = 2
    MaxEdits = 2
    NPassages = 3
    KEach = 3
    KCandidates = 3
    TopN = 2
SPECIFICATION OfficeSpec
INVARIANTS StatusHasItsDecision VersionsOrderDecisions
    AutoDecisionsFollowPolicy
INVARIANTS GreenIsEstablished LossIsNoticed RegistryIsTrue
    FusionFavoursAgreement SearchDegradesOpenly
SYMMETRY Symmetry
CHECK_DEADLOCK FALSE
