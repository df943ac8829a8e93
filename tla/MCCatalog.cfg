SPECIFICATION Spec
CONSTANTS
    b1 = b1  b2 = b2
    Books = {b1, b2}
    Best = b1
    Work = Work
    Loop = Loop
    NoEntry = NoEntry
    Missing = Missing
    NotFound = NotFound
    Failed = Failed
    MaxEvents = 2
INVARIANTS TypeOK BookServedIsBook PendingIsFetched
CHECK_DEADLOCK FALSE
