SPECIFICATION Safety
CONSTANTS
    Conn = {c1, c2, c3}
    Fd = {f1, f2}
    Msg = {m1}
    None = None
    MAX_EVENTS = 2
    MaxQueue = 1
SYMMETRY Symmetry
INVARIANTS MapMatchesOpen OwnDescriptor TimerWatches HupUnlessReused
