\* The probe's kubectl crashes for want of threads, and nothing else goes wrong.
CONSTANTS
    Releases = {1}
    PageSize = 2
    MaxRemovals = 0
    Budget = 3
    Grace = 1
    Workers = 2
    CallBound = 2
    Reads = 2
    CallFailures = {"HostExhausted"}
    ReadFailures = {"HostExhausted"}
    ProbeViews <- CrashViews
    MaxAbandoned = 0
SPECIFICATION Spec
PROPERTY HostTroubleIsNotTheClusters
