CONSTANT Reqs = {r1, r2}
SPECIFICATION Spec
INVARIANT ConfigAllOrNothing
\* main() returns when LoadPenaltyConfig fails: the process stops there.
CHECK_DEADLOCK FALSE
