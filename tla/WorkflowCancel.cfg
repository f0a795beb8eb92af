SPECIFICATION FairSpec

CONSTANTS
    Run = {r1}
    Worker = {w1}
    NoRun = NoRun
    NoWorker = NoWorker
    Steps = 4
    Approval <- ShortApproval
    Gate <- ShortGate
    SelfClearing <- ShortSelfClearing
    Optional <- ShortOptional
    Input <- ShortInput
    MaxAttempts = 2
    MaxInterventions = 0

PROPERTIES
    CancelHonoured

CHECK_DEADLOCK FALSE
