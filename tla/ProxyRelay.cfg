\* Three bytes each way, of which two writes may be unread.
SPECIFICATION Spec
CONSTANTS
    MaxBytes = 3
    Window = 2
INVARIANTS
    NothingLeftOpen
    HalfCloseDelivers
PROPERTIES
    RelaysInOrder
    HangUpEndsRelay
    SentBytesArrive
CHECK_DEADLOCK FALSE
