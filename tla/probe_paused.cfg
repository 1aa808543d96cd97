\* No step of the wall clock: the thread is only suspended between its stamps.
CONSTANTS
    SlowProbe = 2
    None = None
    Timeout = 4
    MaxPause = 1
    MaxStep = 0
    Day = 11
    SpawnTimes = {0}
    Steps = {0}
SPECIFICATION Spec
INVARIANT LocalDelayHasRoundTrip
\* A probe ends; nothing follows it.
CHECK_DEADLOCK FALSE
