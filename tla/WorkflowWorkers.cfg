SPECIFICATION FairSpec

CONSTANTS
    Run = {r1}
    Worker = {w1, w2}
    NoRun = NoRun
    NoWorker = NoWorker
    Steps = 4
    Approval <- ShortApproval
    Gate <- ShortGate
    SelfClearing <- ShortSelfClearing
    Optional <- ShortOptional
    Input <- ShortInput
    MaxAttempts = 2
    MaxInterventions = 1

INVARIANTS
    TypeOK
    ClaimIsFence

PROPERTIES
    TerminalIsFinal
    ImplementsLifecycle
    Settles

CHECK_DEADLOCK FALSE
