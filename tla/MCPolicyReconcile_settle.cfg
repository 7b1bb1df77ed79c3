\* One name with two lifetimes, a target that is malformed, policies that are invalid or paused.
CONSTANTS
    Names = {p1}
    Targets = {t1}
    Malformed = {t1}
    Specs <- MCSpecs
    Outages = {}
    CleanupInterval = 30
    targetBackoffBase = 30
    targetBackoffCap = 30
    MaxUid = 2
    MaxFailures = 1
    NoSpec = NoSpec
    NoName = NoName
SPECIFICATION FairSpec
PROPERTIES DeletedIsForgotten InvalidIsReported
