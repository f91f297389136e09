SPECIFICATION Spec
CONSTANTS
    Profile = {"balanced", "high"}
    Balanced = "balanced"
    Initial <- MCInitial
    Maximum <- MCMaximum
    DefaultBitrate = 2
    MinBitrate = 1
    DesktopMax = 8
    None = None
    Hold = 2
    DegradationHold = 1
    ReportMaxAge = 1
    Cooldown = 1
    StableFrames = 1
    Scopes <- MCScopes
INVARIANT ShownIsStreamed
CHECK_DEADLOCK FALSE
