CONSTANTS
    Resources = {"proc", "web"}
    Kind <- MCKind
    ClaimIds = {k1, k2}
    Passes = {p1, p2}
    Commands = {cli, a1, a2}
    Terminals = {cli}
    Requests = {a1, a2}
    Previews = {v1, v2}
    Window = 1
    Cooldown = 1
    TTL = 1
    MaxTime = 3
    Budgets <- MCBudgets
    Edits = TRUE
    Faults = TRUE
    PreviewTTL = 1
    MaxPreviewFiles = 2
SPECIFICATION ControlSpec
INVARIANTS ApprovedOnSeen AppliedOnce
PROPERTIES ClaimWins ReclaimsSpaced RolloutHonoured
SYMMETRY MCSymmetry
CHECK_DEADLOCK FALSE
