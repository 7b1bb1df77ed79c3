\* One replica, plans of up to two objects in batches of one or two.
CONSTANTS
    Workers = {w1}
    Keys = {c1, c2}
    Shapes <- MCDueShapes
    Behaviors <- MCBatchSizes
    StopValues = {FALSE}
    Graceful = {}
    MaxUid = 2
    MaxInFlight = 1
    Steps = 1
    BatchSize = 1
    NoWorker = NoWorker
    NoKey = NoKey
    NoShape = NoShape
    OwnNamespace = "zen-system"
    ConfiguredNamespaces = {}
SPECIFICATION FairSpec
INVARIANT NoCandidateLost
PROPERTY CycleTerminates
