SPECIFICATION Spec
CONSTANTS
    Conn = {c1, c2}
    Fd = {f1, f2}
    Msg = {m1}
    None = None
    MAX_EVENTS = 1
    MaxQueue = 1
PROPERTIES ImplementsEventStream Reaped
