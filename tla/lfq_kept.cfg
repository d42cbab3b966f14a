\* Non-blocking, without QUEUE_PARTIAL: a batch of two on a ring of three.
CONSTANTS
  g1 = g1  g2 = g2  p1 = p1  p2 = p2  r1 = r1  a = a  b = b
  Getters = {g1}  Putters = {p1, p2}  Rewinders = {}  Mortal = {}
  Values = {a, b}  NoValue = NoValue  Inputs <- Pair
  Cap = 4  Timeout = 1  MaxN = 2
  NonBlock = TRUE  Partial = FALSE  TimeoutFlag = FALSE
SPECIFICATION FairSpec
PROPERTY KeyGivenBack
