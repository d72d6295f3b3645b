\* Crashes, failed writes and counter resets; bursts, incidents and alerts.
CONSTANTS
    Scenes = {"bytes", "alerts", "incidents"}
    HourLength <- HourLengths
    DayLength = 3
    Window = 2
    Cover = 1
    BurstWindow = 2
    BurstBytes = 3
    MaxInterval = 2
    UnusualTime = 1
    HighTime = 1
    RecoveryTime = 1
    AlertLimit = 1
    Deltas <- MCDeltas
    MaxTime <- MCMaxTime
    MaxStops <- MCMaxStops
    MaxFaults <- MCMaxFaults
    MaxResets <- MCMaxResets
SPECIFICATION Spec
INVARIANTS NoByteTwice NoByteLost AlertsBounded QuietBaseline
CHECK_DEADLOCK FALSE
