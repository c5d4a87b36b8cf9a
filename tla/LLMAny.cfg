SPECIFICATION FairSpec
CONSTANTS
    CallLimit = 4
    TokenLimit = 7
    CallWindow = 1
    TokenWindow = 2
    MaxRetries = 2
    Costs = {1, 2}
INVARIANTS CallsBounded NeverReturnsViolation
PROPERTIES BudgetRecovers
