CONSTANT MaxInflight = 1
SPECIFICATION Spec
INVARIANT InFlightSeesOpenDao
CHECK_DEADLOCK FALSE
