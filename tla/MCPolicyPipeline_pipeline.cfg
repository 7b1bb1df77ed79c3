SPECIFICATION Spec
CONSTANTS
    Lower <- MCLower
    Ending <- MCEnding
    MaxDuration = 8
    EscapedPaths <- MCEscapedPaths
    Scenes <- MCScenes
    Plural <- MCPlural
    GroupOf <- MCGroupOf
    Kinds <- MCKinds
    MaxNow = 3
INVARIANTS
    IInv
    PlanIsIntended
    ReviewedIsAccepted
    DefaultsNeverGrant
    GoneMeansGone
    ResolvesWhenDiscovered
    BatchMakesProgress
    CycleRepeats
    PacedByPolicy
PROPERTIES
    ScopeIsBounded
