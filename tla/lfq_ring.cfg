\* Non-blocking, QUEUE_PARTIAL: batches of up to two on a ring of three, a
\* reader, a writer and a thread that rewinds.
CONSTANTS
  g1 = g1  g2 = g2  p1 = p1  p2 = p2  r1 = r1  a = a  b = b
  Getters = {g1}  Putters = {p1}  Rewinders = {r1}  Mortal = {}
  Values = {a, b}  NoValue = NoValue  Inputs <- Pair
  Cap = 4  Timeout = 1  MaxN = 2
  NonBlock = TRUE  Partial = TRUE  TimeoutFlag = FALSE
SPECIFICATION FairSpec
INVARIANTS TypeOK MutualExclusion NoTornElement
PROPERTIES IsBoundedQueue KeyGivenBack
