\* At least two workers, so that one may sleep while another is on its way.
CONSTANTS
  c1 = c1  Free = Free
  Tasks = {1, 2}  Throwing = {1}  Workers = {1, 2, 3}  Clients = {c1}
  Min = 2  Max = 3  Hint = 2  Pausing = TRUE  Closing = TRUE
SPECIFICATION FairSpec
INVARIANTS WorkerCount NoLostWakeup
PROPERTIES EmptyMeansIdle TaskServed CanceledWorkersLeave
