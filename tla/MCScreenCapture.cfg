SPECIFICATION CameraSpec
CONSTANTS
    Camera = {c1, c2, c3, c4}
    NoCamera = NoCamera
    MaxTracks = 3
    MaxFaults = 2
INVARIANT CameraInv
PROPERTIES CaptureRecovers
CHECK_DEADLOCK FALSE
