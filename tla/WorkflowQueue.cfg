SPECIFICATION FairSpec

CONSTANTS
    Run = {r1, r2}
    Worker = {w1, w2}
    NoRun = NoRun
    NoWorker = NoWorker
    Steps = 2
    Approval <- TinyApproval
    Gate <- TinyGate
    SelfClearing <- TinySelfClearing
    Optional <- TinyOptional
    Input <- TinyInput
    MaxAttempts = 1
    MaxInterventions = 0

INVARIANTS
    LastWorkerSurvives

PROPERTIES
    Served

CHECK_DEADLOCK FALSE
