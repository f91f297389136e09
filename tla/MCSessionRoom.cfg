SPECIFICATION Spec
CONSTANTS
    Socket = {c1, c2, c3}
    Session = {v1}
    Bootstrap = bootstrap
    HeartbeatTicks = 2
    EarlyTicks = 1
    LateFrames = TRUE
    WindowTicks = 2
    MaxEvents = 2
INVARIANTS TypeOK SingleOccupancy AgentHasDeadline RequestsBounded
PROPERTIES SilentAgentFreed
