\* Two DELETE requests for one release.
CONSTANTS
    Writers = {w1}
    Deleters = {d1, d2}
    Readers = {}
    Replicas = {1}
    PodNames = {}
    MaxRevisions = 1
    BesideDelete = {w1}
    MayKill = FALSE
    MayDrift = FALSE
SPECIFICATION Spec
INVARIANT DeleteIsIdempotent
