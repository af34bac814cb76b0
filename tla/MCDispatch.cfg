SPECIFICATION Spec
CONSTANTS
    absent = absent
    Plans <- AllPlans
    Instructions <- AllInstructions
    Names = {"u", "v", "w"}
    FileOps = {TRUE, FALSE}
    OptLabels = {"opt"}
    Absent = absent
INVARIANTS ConfigReplays EnvReachesRun TriggersFirst LayersMatch FilterCovers
           StepsWithinTotal SourceIsFinal ScopedInChains
CHECK_DEADLOCK FALSE
