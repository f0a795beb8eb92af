SPECIFICATION MCSpec
CONSTANTS
    Account = {u1}
    Invocation = {a1, a2}
    Message = {m1, m2, p1}
    Poison = {p1}
    PaidBy <- MCPaidBy
    Price <- MCPrice
    InitBalance = 2
    Month = {1, 2}
    Batch = 2
    Attempts = 2
    Required = TRUE
    MaxFunds = 3
    MaxCrash = 1
INVARIANTS BillingTypeOK AcknowledgedIsRecorded ChargedForSuccess
PROPERTIES ImplementsLedger StartsFunded Drained
