SPECIFICATION Spec
CONSTANTS
    Text = {"a"}
    Image = {"browser", "pillow"}
    Normalize <- Reencoded
    None = None
    HostItem = {"a"}
    RetryLimit = 2
    Upload = {1, 2}
    ImageOf <- BrowserImage
    MaxSeq = 3
    MaxPastes = 1
    MaxConn = 2
    MaxLate = 1
CHECK_DEADLOCK FALSE
INVARIANTS ClipboardInv NoTextEcho
PROPERTIES WriteUnderGrant EventuallyMirrored
