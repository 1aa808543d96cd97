\* A readiness check replaces the cached probe between a caller's stages.
CONSTANTS
    SlowProbe = 2
    None = None
    NoThread = NoThread
    Callers = {c1}
    Checkers = {r1}
    CommandTimeout <- Reads
    ReadTimeout = 2
    ProbeTimeout = 1
    EscalatedTimeout = 2
    ProbeTTL = 1
    RecentSuccess = 2
    MaxPause = 0
    CommandExits <- FewExits
    ProbeResults <- FewProbes
    Prompt = TRUE
SPECIFICATION Spec
PROPERTY UnstartedProbeBlamesNobody
