\* One replica, a Pod and a ConfigMap of every shape, every kind of policy, emergency stop toggled.
CONSTANTS
    Workers = {w1}
    Keys = {c1}
    Shapes <- MCShapes
    Behaviors <- MCBehaviors
    StopValues = {TRUE, FALSE}
    Graceful = {}
    MaxUid = 1
    MaxInFlight = 1
    Steps = 1
    BatchSize = 1
    NoWorker = NoWorker
    NoKey = NoKey
    NoShape = NoShape
    OwnNamespace = "zen-system"
    ConfiguredNamespaces = {}
SPECIFICATION Spec
INVARIANTS RequestsAuthorised DryRunIsInert
