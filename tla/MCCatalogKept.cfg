SPECIFICATION Spec
CONSTANTS
    b1 = b1  b2 = b2
    Books = {b1, b2}
    Best = b1
    Work = Work
    Loop = Loop
    NoEntry = NoEntry
    Missing = Missing
    NotFound = NotFound
    Failed = Failed
    MaxEvents = 1
PROPERTY EditionsKept
CHECK_DEADLOCK FALSE
