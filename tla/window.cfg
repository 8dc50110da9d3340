SPECIFICATION FairSpec
CONSTANTS
  Plans <- WindowPlans
  Tasks <- TwoTasks
  Found = {"t1"}
  Batch = 1
  Windows = {"w1", "w2"}
  Labelled = {"t1"}
  Legacy <- OldPin
  Names = {"x"}
  Cards = {"t1", "t2"}
  CwdOf <- Spelled
  Lower <- LowerCase
  StoredPins = {}
  StoredArchive = {"t2"}
  Roots = {"r1", "r2"}
  Dirs <- TwoDirs
  Cwds = {"r1", "r2"}
  Paths = {"a", "b"}
  Hunks = {"h1", "h2"}
CHECK_DEADLOCK FALSE
INVARIANTS DetailOfOpen LegacyKept MirrorSettles CollapseSticks PanelOfCwd
PROPERTIES ListConverges TreeConverges
