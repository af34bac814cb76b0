SPECIFICATION Spec
CONSTANTS
    Name <- MCName
    Lower <- MCLower
    None <- MCNone
    Scratch = "scratch"
    Dockerfiles <- MCDockerfiles
    Overrides <- MCOverrides
    Targets <- MCTargets
INVARIANTS FromIgnoresCase
CHECK_DEADLOCK FALSE
