CONSTANTS
    Environments <- SomeEnvironments
    Versions <- SomeVersions
    DefaultBytes = 4
SPECIFICATION FairSpec
INVARIANTS TypeOK ServingConfigIsValid
PROPERTIES ReadinessFollowsRedis
