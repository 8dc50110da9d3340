\* A task whose agent is stopped, or gives up reconnecting, and is attached again.
SPECIFICATION Spec
CONSTANTS
    Catalog <- CatalogNew
    FirstModel <- OldModel
    DefaultMode = "bypassPermissions"
    Modes = {"plan", "auto"}
    Picks <- UserPicks
    Plans <- ReattachPlans
CHECK_DEADLOCK FALSE
INVARIANT AttachedWins
