SPECIFICATION BusSpec
CONSTANTS
    Client = {c1}
    Collector = {k1}
    Cap <- MCNarrow
    Conns = 2
    MaxUser = 3
    None = None
PROPERTIES EventsHandled
CHECK_DEADLOCK FALSE
