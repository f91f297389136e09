SPECIFICATION Spec
CONSTANTS
    Fetch = {f1, f2}
    Socket = {s1, s2}
    Peer = {p1}
    None = None
    MaxAttempts = 1
PROPERTY NeverStuck
