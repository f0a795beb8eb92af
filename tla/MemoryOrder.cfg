SPECIFICATION MemorySpec
CONSTANTS
    Session = {s1}
    LastDraft = 2
    Value = {v1, v2}
    Note = {}
    Lexical = {}
    Author = Author
    NoEntry = NoEntry
    MaxId = 2
    MaxRevision = 3
INVARIANT SupersededByNewer
CHECK_DEADLOCK FALSE
