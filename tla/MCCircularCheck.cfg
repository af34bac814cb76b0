SPECIFICATION Spec
CONSTANT N = 3
INVARIANTS VerdictExact ReportedIsFirst
PROPERTIES Terminates ImplementsVerdict
CHECK_DEADLOCK FALSE
