SPECIFICATION Spec

CONSTANTS
    Run = {r1}
    Worker = {w1}
    NoRun = NoRun
    NoWorker = NoWorker
    Steps = 11
    Approval <- ChapterApproval
    Gate <- ChapterGate
    SelfClearing <- ChapterSelfClearing
    Optional <- ChapterOptional
    Input <- ChapterInput
    MaxAttempts = 2
    MaxInterventions = 2

INVARIANTS
    StepsInOrder
    RunMatchesSteps
    ApprovalsRespected

CHECK_DEADLOCK FALSE
