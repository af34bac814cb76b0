SPECIFICATION Spec
CONSTANT Files <- MCFiles
INVARIANT WordIsMeant
INVARIANT WordsAgree
INVARIANT FlagsMeant
INVARIANT MountsMeant
INVARIANT LinkedAsMounted
INVARIANT HeredocsUsed
INVARIANT ExpandedInScope
INVARIANT GlobalsInScope
CHECK_DEADLOCK FALSE
