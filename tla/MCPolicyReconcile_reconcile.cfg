\* One name with two lifetimes, a policy that is paused, resumed, valid or not.
CONSTANTS
    Names = {p1}
    Targets = {t1}
    Malformed = {}
    Specs <- MCSpecs
    Outages = {"TARGET_TEMPORARILY_UNAVAILABLE"}
    CleanupInterval = 30
    targetBackoffBase = 30
    targetBackoffCap = 30
    MaxUid = 2
    MaxFailures = 1
    NoSpec = NoSpec
    NoName = NoName
SPECIFICATION Spec
INVARIANTS IInv NoPolicyForgotten MapsAgree StoreIsSynced TransientNeverError
PROPERTY LostOnlyByReplacement
