CONSTANT Reqs = {r1}
SPECIFICATION Spec
INVARIANT EncodeFailureAnswered500
CHECK_DEADLOCK FALSE
