SPECIFICATION Spec
CONSTANTS
    p1 = p1
    p2 = p2
    p3 = p3
    plain = plain
    goBuild = goBuild
    make = make
    batch = batch
    None = None
    Requests = {p1, p2, p3}
    Commands = {goBuild, make, batch, plain}
    Asked <- MCAsked
    Express = {goBuild, make, plain}
    Output = {goBuild, plain}
    Joinable = {make}
    Uncacheable = {plain}
    Steps <- MCSteps
    Sources = {1, 2}
    MaxEdits = 1
    Restorable = FALSE
    MaxMeddling = 1
    Faults = {p2}
    Mortal = {p2}
    MaxCPUs = 16
    MaxChars = 4
    MaxArgs = 3
INVARIANT OneLeader
INVARIANT ReuseExact
INVARIANT HitOutput
INVARIANT ClassesSound
INVARIANT WeightsSound
