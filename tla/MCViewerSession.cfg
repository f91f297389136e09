SPECIFICATION Spec
CONSTANTS
    Fetch = {f1}
    Socket = {s1, s2}
    Peer = {p1, p2}
    None = None
    MaxAttempts = 1
INVARIANTS OfflineIsClean OneSocketPerCycle NoRetryAfterDisconnect
PROPERTIES StaleEventsHarmless NeverStuck
