\* Get()'s doc comment promises a populated Config: checked alone, expected
\* to be violated after a failed gofigure.
CONSTANTS
  Procs = {g1, g2}
  Ptrs = {c1}
  Nil = Nil
SPECIFICATION Spec
INVARIANT ReturnedPopulated
