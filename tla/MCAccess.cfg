SPECIFICATION AccessSpec
CONSTANTS
    Account <- Accounts
    SessionId = {"s1", "s2"}
    Secret = {"k"}
    ShortSecret = "short"
    None = None
    Lifetime = 2
    DeviceLifetime = 2
    AssertionLifetime = 1
    Skew = 1
    Offset <- Offsets
    MaxTime = 2
    MaxTokens = 1
INVARIANTS AccessInv ViewersWereEntitled
