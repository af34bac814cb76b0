SPECIFICATION Spec
CONSTANTS
    N = 3
    Inputs <- MCInputs
    NoError = "nil"
INVARIANTS DispatchIsReady
PROPERTIES NoLateWrites Terminates ImplementsMetadata
CHECK_DEADLOCK FALSE
