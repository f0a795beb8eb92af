SPECIFICATION IngestSpec
CONSTANTS
    Request = {r1}
    Content = {c1}
    DocId = {d1}
    ResearchNote = {n1}
    Weak = {}
    NoDoc = NoDoc
    Fault = {}
INVARIANT NoLeftovers
CHECK_DEADLOCK FALSE
