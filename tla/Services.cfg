SPECIFICATION ServicesSpec
CONSTANTS
    Session = {s1, s2}
    LastDraft = 2
    Value = {v1, v2}
    Note = {}
    Lexical = {}
    Author = Author
    NoEntry = NoEntry
    MaxId = 2
    MaxRevision = 3
    Request = {r1, r2}
    Content = {c1}
    DocId = {d1, d2}
    ResearchNote = {n1}
    Weak = {}
    NoDoc = NoDoc
    Fault = {"crash", "removal", "reply"}
    User = {u1, u2}
    Project = {p1, p2}
    NoDump = NoDump
    Caller = {q1, q2}
    Email = {e1, e2}
    Phone = {t1}
    NoContact = NoContact
    MaxAccount = 2
    MaxCode = 2
    SourceType = {"character", "research"}
    Chunk = {k1, k2}
    Text = {x1, x2}
    x1 = x1
    x2 = x2
    LengthOf <- MCLengthOf
    NoText = NoText
    Limit = 3
    MaxCharacters = 12
    HeaderLength = 2
    OwnLength = {0, 5}
    Url = {a1, a2, b1, b2}
    a1 = a1
    a2 = a2
    b1 = b1
    b2 = b2
    HostOf <- MCHostOf
    Unreachable = {b2}
    Snippet = {g1, g2}
    Queries = 2
    MaxResults = 2
    MaxRetries = 1
    MaxRedirects = 1
    MaxFetches = 2
    MaxBatchSize = 2
    OptionName = {o1, o2}
    NoOption = NoOption
    IssueStatus = {"open", "resolved"}
    IssueKind = {"fact"}
    MaxPlan = 2
    MaxDraft = 2
SYMMETRY Symmetry
INVARIANTS ServicesTypeOK CacheFresh Indexed ObjectsKept Searchable ArchiveClosed RestoreClosed SpentOnce ContactProven BootstrapDone PromptFits NothingHidden CorroborationIndependent VectorsOfTexts WrittenAsChosen
PROPERTY RebuildHeals
CHECK_DEADLOCK FALSE
