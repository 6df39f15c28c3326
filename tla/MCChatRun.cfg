SPECIFICATION FairSpec
CONSTANTS
    Runs = {c1, a1}
    Alerts = {a1}
    MaxToolCalls = 3
    MaxPlanItems = 2
    MaxIterations = 5
    MaxModelTokens = 5
    MaxTokens = 2
    Indexes <- MCIndexes
    Planners <- MCPlanners
    Endpoints <- MCEndpoints
    None = None
CHECK_DEADLOCK FALSE
INVARIANTS
    TypeOK
    BudgetSuffices
PROPERTIES
    SlotReturned
