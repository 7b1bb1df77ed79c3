\* One replica, one object name: what is eligible is deleted.
CONSTANTS
    Workers = {w1}
    Keys = {c1}
    Shapes <- MCDueShapes
    Behaviors <- MCBehaviors
    StopValues = {FALSE}
    Graceful = {}
    MaxUid = 2
    MaxInFlight = 1
    Steps = 2
    BatchSize = 1
    NoWorker = NoWorker
    NoKey = NoKey
    NoShape = NoShape
    OwnNamespace = "zen-system"
    ConfiguredNamespaces = {}
SPECIFICATION CalmSpec
PROPERTY EligibleIsCleaned
