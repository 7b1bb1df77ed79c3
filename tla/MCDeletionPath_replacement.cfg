\* A DELETE by name races with the creation of a replacement.
CONSTANTS
    Workers = {w1}
    Keys = {c1}
    Shapes <- MCExclusionShapes
    Behaviors <- MCDestructive
    StopValues = {FALSE}
    Graceful = {c1}
    MaxUid = 2
    MaxInFlight = 2
    Steps = 2
    BatchSize = 1
    NoWorker = NoWorker
    NoKey = NoKey
    NoShape = NoShape
    OwnNamespace = "zen-system"
    ConfiguredNamespaces = {}
SPECIFICATION Spec
INVARIANT ReplacementNeverDestroyed
