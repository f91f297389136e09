CONSTANTS
    KeyCode = {"Enter", "NumpadEnter", "MetaLeft"}
    OtherCode = {"PrintScreen"}
    VirtualKey <- MCVirtualKey
    ReturnKey = "VK_RETURN"
    Button = {"left"}
    ActionLimit = 2
    MoveLimit = 1
    WindowTicks = 2
    WatchdogTicks = 3
    MaxSequence = 4
SPECIFICATION Spec
INVARIANTS NothingStuck ActionRateBounded
PROPERTIES ImplementsGuard PressConsumesSequence
