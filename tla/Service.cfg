CONSTANT MaxInflight = 2
SPECIFICATION Spec
INVARIANT TypeOK
PROPERTY SignalEndsProcess
\* The process ends: main returns or a goroutine calls os.Exit.
CHECK_DEADLOCK FALSE
