\* GETs beside a writer and a deleter, whose helm may be killed at any step; r2 keeps
\* out of the deleter's way.
CONSTANTS
    Writers = {w1}
    Deleters = {d1}
    Readers = {r1, r2}
    Replicas = {1, 2}
    PodNames = {p1}
    MaxRevisions = 2
    BesideDelete = {w1, r1}
    MayKill = TRUE
    MayDrift = FALSE
SPECIFICATION Spec
INVARIANT TypeOK
PROPERTIES
    NotInstantiatedMeansAbsent
    AnswersFollowOneHistory
