SPECIFICATION FairSpec
CONSTANTS
  Plans <- ComposingPlans
  Messages = {1, 2, 3}
  Composers = {"t1", "t2"}
  Typed <- SomeTexts
  Builtins <- SomeBuiltins
  Skills <- SomeSkills
  Advertised <- FromAgent
  NeedsInput = {"new"}
  Rank <- Ranks
  MenuLimit = 2
  Requests <- SomeRequests
  Labels = {"A", "B"}
CHECK_DEADLOCK FALSE
INVARIANTS OrdersCaughtUp MessageVisible QueuedNotLost DialogsMatchGates
PROPERTIES PlaceholderSettles DraftsKept
