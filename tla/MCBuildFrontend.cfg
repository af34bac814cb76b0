SPECIFICATION Spec
CONSTANTS
    Requests <- MCRequests
    Sources <- MCSources
    HostPlatform = "amd64"
    WorkerPlatform = "arm64"
    MaxPlatforms = 2
    MaxForwards = 2
    NoError = "nil"
INVARIANTS LoadedIsMeant HandedOverOnce CapsHonoured ResultIsWhole ErrorIsCause
PROPERTIES Answers
CHECK_DEADLOCK FALSE
