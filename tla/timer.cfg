\* Two workers and a client; delays of nothing and of a sleep.
CONSTANTS
  c1 = c1  w1 = w1  w2 = w2  None = None
  Timers = {1, 2}  Clients = {c1}  Workers = {w1, w2}
  Wait1 = 2  Wait2 = 1  IdleWait = 3  MaxTime = 2  Delays = {0, 2}  Canceling = TRUE
SPECIFICATION FairSpec
INVARIANTS RefCount CanceledIsFinal NoOversleep
PROPERTIES TimersRun EmptyIsTold WorkersLeave
