SPECIFICATION CaptureSpec
CONSTANTS
    Letter = {"KeyA"}
    Finger = {1, 2}
    Pixel <- Pixels
    ContainerW = 4
    ContainerH = 4
    VideoW = 4
    VideoH = 2
    Null = Null
    MaxEvents = 5
INVARIANT CaptureInv
PROPERTIES NeverWronglyShifted PointerInOrder
