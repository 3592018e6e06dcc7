CONSTANTS
    Providers = {"haiku", "sonnet"}
    MaxAttempts = 2
    SdkRetries = 2
    MaxCalls = 4
    MaxSonnetCalls = 2
    MaxCost = 5
    Costs = {0, 1, 3}
    Unlimited = Unlimited
    Faults = {"database"}
    MaxReviews = 6
SPECIFICATION Spec
INVARIANTS BudgetIsHard RequestsAreBounded LogMatchesBudget BestOpinionReturned
CHECK_DEADLOCK FALSE
