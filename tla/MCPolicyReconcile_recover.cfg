\* One name with two lifetimes, one target that comes and goes, the real backoff.
CONSTANTS
    Names = {p1}
    Targets = {t1}
    Malformed = {}
    Specs <- MCActive
    Outages = {"TARGET_TEMPORARILY_UNAVAILABLE"}
    CleanupInterval = 30
    targetBackoffBase = 30
    targetBackoffCap = 600
    MaxUid = 2
    MaxFailures = 6
    NoSpec = NoSpec
    NoName = NoName
SPECIFICATION FairSpec
PROPERTIES RecoveryIsAutomatic
