\* Two replicas, one object name that is deleted and created again.
CONSTANTS
    Workers = {w1, w2}
    Keys = {c1}
    Shapes <- MCDueShapes
    Behaviors <- MCDestructive
    StopValues = {FALSE}
    Graceful = {}
    MaxUid = 2
    MaxInFlight = 1
    Steps = 1
    BatchSize = 1
    NoWorker = NoWorker
    NoKey = NoKey
    NoShape = NoShape
    OwnNamespace = "zen-system"
    ConfiguredNamespaces = {}
SYMMETRY Symmetry
SPECIFICATION Spec
INVARIANTS TypeOK OnlyRaceHitsReplacement SettledMeansGone
PROPERTY SentByLeader
