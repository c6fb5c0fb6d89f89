\* Three goroutines calling config.Get() concurrently, any number of times.
\* Two addresses: one is all the correct code ever allocates; the second
\* lets a broken nil-check or lock allocate a second Config.
CONSTANTS
  Procs = {g1, g2, g3}
  Ptrs = {c1, c2}
  Nil = Nil
SPECIFICATION Spec
INVARIANT TypeOK SingleInstance
PROPERTY GetReturns CfgNeverReplaced
