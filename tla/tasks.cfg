\* The window running one task, from every start, with one or two user actions
\* of each kind, a failure, a connection loss or a plan approval.
SPECIFICATION Spec
CONSTANTS
    Catalog <- CatalogNew
    FirstModel <- OldModel
    DefaultMode = "bypassPermissions"
    Modes = {"plan", "auto"}
    Picks <- UserPicks
    Plans <- AllPlans
\* The budgets run out.
CHECK_DEADLOCK FALSE
INVARIANTS ChipShown 
PROPERTY PlannedPrompt
