\* Listings that take as long as a call may, in front of the budgeted waves.
CONSTANTS
    Releases = {1, 2}
    PageSize = 3
    MaxRemovals = 0
    Budget = 3
    Grace = 1
    Workers = 2
    CallBound = 2
    Reads = 2
    CallFailures = {"ClusterBusy"}
    ReadFailures = {"ClusterBusy"}
    ProbeViews <- Views
    MaxAbandoned = 0
SPECIFICATION Spec
INVARIANT KeepsItsBudget
