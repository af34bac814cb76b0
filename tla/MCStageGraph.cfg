SPECIFICATION Spec
CONSTANTS
    Name <- MCName
    Lower <- MCLower
    None <- MCNone
    Scratch = "scratch"
    Dockerfiles <- MCDockerfiles
    Overrides <- MCOverrides
    Targets <- MCTargets
INVARIANTS BaseIsNearest SourcesAreStages TargetIsStage
           CyclesGoForward
 
CHECK_DEADLOCK FALSE
