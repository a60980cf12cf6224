CONSTANT MaxLen = 2
SPECIFICATION Spec
CHECK_DEADLOCK FALSE
INVARIANT NeverPanics
