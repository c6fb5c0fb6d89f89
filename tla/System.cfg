\* main() with the configuration endpoint: one DAO-using request in flight
\* at most, two configuration connections.
CONSTANTS
  MaxInflight = 1
  Reqs = {r1, r2}
SPECIFICATION Spec
INVARIANT TypeOK
INVARIANT ServedLoadedConfig
\* The process stops once main returned or os.Exit ran.
CHECK_DEADLOCK FALSE
