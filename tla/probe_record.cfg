\* Every kubectl, whether or not its response line is understood, with the
\* thread suspended and the wall clock stepped.
CONSTANTS
    SlowProbe = 2
    None = None
    Timeout = 4
    MaxPause = 2
    MaxStep = 2
    Day = 18
    SpawnTimes <- MCSpawnTimes
    Steps <- MCSteps
SPECIFICATION Spec
INVARIANTS
    TypeOK
    HostBlameIsDeserved
    AssertionNeedsAGap
    SlowMeansTheServerWasSlow
    StartupSurvivesMidnight
\* A probe ends; nothing follows it.
CHECK_DEADLOCK FALSE
