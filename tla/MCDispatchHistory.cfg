SPECIFICATION Spec
CONSTANTS
    absent = absent
    Plans <- SiblingPlans
    Instructions <- AllInstructions
    Names = {"u", "v", "w"}
    FileOps = {TRUE}
    OptLabels = {"opt"}
    Absent = absent
INVARIANTS HistoryScoped
CHECK_DEADLOCK FALSE
