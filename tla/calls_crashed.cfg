\* A tool crashes before it contacts the cluster, and then another goes silent.
CONSTANTS
    SlowProbe = 2
    None = None
    NoThread = NoThread
    Callers = {c1}
    Checkers = {}
    CommandTimeout <- Reads
    ReadTimeout = 2
    ProbeTimeout = 1
    EscalatedTimeout = 2
    ProbeTTL = 1
    RecentSuccess = 2
    MaxPause = 0
    CommandExits <- CrashExits
    ProbeResults <- FewProbes
    Prompt = TRUE
SPECIFICATION Spec
PROPERTY BusyMeansServed
