SPECIFICATION BusSpec
CONSTANTS
    Client = {c1}
    Collector = {k1}
    Cap <- MCCap
    Conns = 2
    MaxUser = 2
    None = None
INVARIANTS NoSendOnClosed EventsOnce
PROPERTIES EventsHandled TransactionsEnd ClientsLeave
