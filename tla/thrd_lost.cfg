CONSTANTS
  j1 = j1  j2 = j2  i1 = i1  i2 = i2  i3 = i3  c1 = c1  c2 = c2  None = None
  Jobs = {j1}  Dynamic = {}  Looping = {}  Impls = {i1, i2}  Callers = {c1, c2}
  MaxActivate = 2  MaxBatch = 1  Closing = TRUE  Pausing = FALSE
SPECIFICATION FairManagerSpec
PROPERTY WaitTerminates
