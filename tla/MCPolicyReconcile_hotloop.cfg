\* The controller's own status write wakes it up.
CONSTANTS
    Names = {p1}
    Targets = {t1}
    Malformed = {}
    Specs <- MCActive
    Outages = {"TARGET_TEMPORARILY_UNAVAILABLE"}
    CleanupInterval = 30
    targetBackoffBase = 30
    targetBackoffCap = 30
    MaxUid = 1
    MaxFailures = 1
    NoSpec = NoSpec
    NoName = NoName
SPECIFICATION Spec
PROPERTY NoHotLoop
