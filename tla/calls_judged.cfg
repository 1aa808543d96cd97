\* A caller and a readiness check around one lock, under the fairness of Calls:
\* every kind of probe and every exit, threads that may dawdle.
CONSTANTS
    SlowProbe = 2
    None = None
    NoThread = NoThread
    Callers = {c1}
    Checkers = {r1}
    CommandTimeout <- Reads
    ReadTimeout = 2
    ProbeTimeout = 1
    EscalatedTimeout = 2
    ProbeTTL = 1
    RecentSuccess = 2
    MaxPause = 2
    CommandExits <- AllExits
    ProbeResults <- AllProbes
    Prompt = FALSE
SPECIFICATION FairSpec
INVARIANTS
    TypeOK
    OneProbeAtATime
    EscalationsAreBounded
PROPERTIES
    RefusalNeedsAReply
    ImplementsContract
    EveryCallSettles
