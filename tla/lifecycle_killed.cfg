\* A helm killed between applying and recording that it did.
CONSTANTS
    Writers = {w1}
    Deleters = {}
    Readers = {}
    Replicas = {1, 2}
    PodNames = {}
    MaxRevisions = 2
    BesideDelete = {}
    MayKill = TRUE
    MayDrift = FALSE
SPECIFICATION Spec
INVARIANT DesiredIsInEffect
