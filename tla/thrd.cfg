\* A job that may be activated while it runs and one whose svc loops until it
\* is canceled, two OS threads, and a client that pauses, resumes, waits and
\* closes.
CONSTANTS
  j1 = j1  j2 = j2  i1 = i1  i2 = i2  i3 = i3  c1 = c1  c2 = c2  None = None
  Jobs = {j1, j2}  Dynamic = {j1}  Looping = {j2}  Impls = {i1, i2}  Callers = {c1}
  MaxActivate = 2  MaxBatch = 2  Closing = TRUE  Pausing = TRUE
SPECIFICATION FairManagerSpec
INVARIANTS FreeIsIdle ThreadNumCount
PROPERTIES AliveCount JoinReturns DrainReturns
