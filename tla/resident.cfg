SPECIFICATION Spec
CONSTANTS
    Scenes = {"relief", "storm", "cleanup"}
    Roots = {1, 2}
    CooldownTime = 3
    RetryTime = 2
    Sustain = 2
    Baseline = 1
    MinAge = 2
    Window = 2
    ResumeAge = 2
    EventGap = 2
    MaxTime <- MCMaxTime
    MaxChanges = 1
    MaxStops <- MCMaxStops
INVARIANT SignalJustified
INVARIANT CooldownHonoured
INVARIANT RecordsTold
