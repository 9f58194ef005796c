SPECIFICATION Spec
CONSTANT MaxVersion = 3
INVARIANT SavedStateSurvives
CHECK_DEADLOCK FALSE
