\* Two writers and two deleters whose helm may be killed at any step, the release's
\* pods, and someone who scales the Deployment.
CONSTANTS
    Writers = {w1, w2}
    Deleters = {d1, d2}
    Readers = {}
    Replicas = {1, 2}
    PodNames = {p1, p2}
    MaxRevisions = 3
    BesideDelete = {}
    MayKill = TRUE
    MayDrift = TRUE
SYMMETRY Symmetry
SPECIFICATION Spec
INVARIANT SettledIntentIsInEffect
PROPERTIES
    ImplementsTwoAxes
    DriftSurvivesDeploys
    FailedOperationChangesNoState
