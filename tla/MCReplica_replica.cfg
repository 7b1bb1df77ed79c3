\* Two replicas that elect a leader or one alone, with and without election, two faults.
CONSTANTS
    Replicas = {r1, r2}
    Deployments <- MCDeployments
    FailureThreshold = 2
    MaxFaults = 2
    NoReplica = NoReplica
SPECIFICATION FairSpec
INVARIANTS IInv OneController TruthfulLeader SurfacesAgree
PROPERTIES LeadershipPassesOn ReadinessTracksAPI
