\* Reviews may be sent twice, late or never; the process may stop twice.
CONSTANTS
    Runs = {w1}
    Rules = {"amount", "currency", "date"}
    Passed <- MCPassed
    Evaluated <- MCEvaluated
    MaxSteps = 2
    Reviewers = {a1, a2}
    MaxReviews = 3
    MaxCrashes = 2
    None = None
SPECIFICATION FairSpec
INVARIANTS OrdersAreReviewed AppliedExactlyOnce
PROPERTIES RunsFinish
CHECK_DEADLOCK FALSE
