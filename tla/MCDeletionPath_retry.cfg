\* One replica, retries, finalizers and several requests in flight.
CONSTANTS
    Workers = {w1}
    Keys = {c1}
    Shapes <- MCExclusionShapes
    Behaviors <- MCDestructive
    StopValues = {FALSE}
    Graceful = {c1}
    MaxUid = 2
    MaxInFlight = 2
    Steps = 2
    BatchSize = 1
    NoWorker = NoWorker
    NoKey = NoKey
    NoShape = NoShape
    OwnNamespace = "zen-system"
    ConfiguredNamespaces = {}
SPECIFICATION Spec
INVARIANTS IInv OnlyRaceHitsReplacement SettledMeansGone
PROPERTY KeepsContract
