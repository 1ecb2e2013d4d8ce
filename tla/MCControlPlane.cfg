\* Two events, one run of the job, two messages or calls that go wrong.
CONSTANTS
    None = None
    Envs = {"dev", "prod"}
    Events = {e1, e2}
    Emissions <- MCEmissions
    Window = 0
    MaxRetries = 1
    MaxDeliveries = 2
    MaxFaults = 2
    MaxClock = 1
    MaxJobs = 1
SPECIFICATION Spec
INVARIANTS EachEventOnItsOwnPlane NoSilentDrop
PROPERTIES ReportTellsTheTruth
SYMMETRY Symmetry
CHECK_DEADLOCK FALSE
