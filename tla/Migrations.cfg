CONSTANTS
    Instance = {i1, i2}
    MaxCrashes = 2
SPECIFICATION Spec
INVARIANTS TypeOK RecordedIsDone ServesMigrated OneInside
PROPERTIES CutOffForGood RestartHeals RacersServe
CHECK_DEADLOCK FALSE
