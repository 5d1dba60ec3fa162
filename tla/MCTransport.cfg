SPECIFICATION Spec
CONSTANTS
    Frames <- MCFrames
    Magic = 9
    MaxPayload = 2
    Window = 5
    MaxFrames = 3
    MaxFaults = 2
    Noise = {0, 3, 9}
    NoFrame = NoFrame
CHECK_DEADLOCK FALSE
INVARIANTS TypeOK DecodersAgree
PROPERTIES ImplementsChannel FrameArrives ReaderReleased
