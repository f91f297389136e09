SPECIFICATION Spec
CONSTANTS
    Upload = {1, 2}
    Download = {3, 4}
    MaxTransfers = 2
    Name = {"report.txt"}
    NameOf <- OneName
    Allowed = {"report.txt"}
    None = None
    Chunks = 2
    MaxChannel = 2
CHECK_DEADLOCK FALSE
INVARIANT TransferInv
PROPERTIES UploadsDelivered DownloadsDelivered TransfersEnd
