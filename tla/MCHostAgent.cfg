SPECIFICATION Spec
CONSTANTS
    Session = {s1}
    Bootstrap = bootstrap
    PeerId = {p1, p2}
    NoPeer = NoPeer
    Inputs = {k1}
    SinkResult = {TRUE, FALSE}
    LeaseTicks = 2
    HealthTicks = 1
    WatchdogTicks = 1
INVARIANTS ControllerSupervised LockFailsClosed
PROPERTIES InputOnlyUnderLease OnlyHeartbeatsRenew ImplementsGuard LapsedControlEnds
