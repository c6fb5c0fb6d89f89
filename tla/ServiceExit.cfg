CONSTANT MaxInflight = 1
SPECIFICATION Spec
INVARIANT CleanExitAfterSignal
CHECK_DEADLOCK FALSE
