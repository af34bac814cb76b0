SPECIFICATION Spec
CONSTANTS
    Name <- MCName
    Lower <- MCLower
    None <- MCNone
    Scratch = "scratch"
    Dockerfiles <- MCDockerfiles
    Overrides <- MCOverrides
    Targets <- MCTargets
INVARIANTS AcceptedIsAcyclic
CHECK_DEADLOCK FALSE
