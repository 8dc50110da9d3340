SPECIFICATION Spec
CONSTANTS
    Sessions = {"s1", "s2"}
    Children = {"c1"}
    Handles = {"h1"}
    Scripts <- HostScripts
    PageSize = 2
    MaxLag = 1
    MaxLive = 5
    MaxHistory = 6
CHECK_DEADLOCK FALSE
INVARIANTS OneCardPerIdentity QuietNotStreaming ChunksDelivered HistoryInOrder NeedsInputIffAsked
PROPERTY LineKept
