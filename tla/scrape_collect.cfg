\* Three releases in pages of two, waves of up to three, every failure of a listing.
CONSTANTS
    Releases = {1, 2, 3}
    PageSize = 2
    MaxRemovals = 1
    Budget = 3
    Grace = 1
    Workers = 3
    CallBound = 2
    Reads = 2
    CallFailures = {"HostMisconfigured", "HostOverloaded", "HostExhausted", "ClusterBusy", "Unavailable"}
    ReadFailures = {"ClusterBusy"}
    ProbeViews <- Views
    MaxAbandoned = 1
SPECIFICATION FairSpec
INVARIANTS
    TypeOK
    LoadIsEarned
    FirstWaveIsNotStarved
    AnsweredOnTime
PROPERTIES
    RemovalsHideOneEach
    OnlyASlowProbeAccuses
    ImplementsCoverage
    EveryScrapeAnswers
