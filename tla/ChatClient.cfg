SPECIFICATION Spec
CONSTANTS
    Capacity = 4
    Header = 2
    Lengths = {1, 2, 3}
    TooLong = 9
    None = None
    MaxPackets = 3
INVARIANTS
    RingHoldsStream
    ShownAsSent
    NothingHeldBack
    LoginMeansAccepted
    AllShownAtEnd
PROPERTY Stops
CHECK_DEADLOCK FALSE
