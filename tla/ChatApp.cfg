SPECIFICATION Safety
CONSTANTS
    Conn = {c1, c2}
    Name = {a, b, d}
    Room = {r1, r2}
    Msg <- AllMessages
    None = None
    MaxQueue = 1
    CapUnits = 1
    CostUnits = 1
SYMMETRY Symmetry
INVARIANTS SessionsOwnTheirNames NoGhostUsers RoomsAgree RoomDelivery
PROPERTIES PoppedInOrder DepartedInert
CHECK_DEADLOCK FALSE
