\* Two wipes of one cache, one forced, and an auto-safe pass, with crashes, failing steps and owners.
CONSTANTS
    Providers = {"browser-dead-profiles", "pnpm-store", "go-build-cache"}
    Commands = {"first", "forced", "timid", "auto"}
    Teams = {{"first", "forced"}, {"first", "auto"}, {"timid"}}
    Request <- MCRequest
    Cooldown = 1
    MaxTime = 2
    MaxCrashes = 1
    MaxFaults = 1
    MaxActivity = 1
SPECIFICATION Spec
INVARIANTS OwnersSpared ReclaimsApart ReceiptsTrue
PROPERTIES NewWritesKept
CHECK_DEADLOCK FALSE
