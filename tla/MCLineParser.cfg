SPECIFICATION Spec
CONSTANTS
    Files <- MCFiles
    Delimiter <- MCDelimiter
INVARIANTS LinesAccounted ContinuationIsMeant HeredocIsVerbatim
CHECK_DEADLOCK FALSE
