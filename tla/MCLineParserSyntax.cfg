SPECIFICATION Spec
CONSTANTS
    Files <- HeadFiles
    Delimiter <- MCDelimiter
INVARIANTS SyntaxIsDirective
CHECK_DEADLOCK FALSE
