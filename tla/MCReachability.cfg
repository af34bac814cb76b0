SPECIFICATION Spec
CONSTANTS
  N = 4
  MaxDepth = 5
INVARIANTS AnswerExact CycleOverflows
CHECK_DEADLOCK FALSE
