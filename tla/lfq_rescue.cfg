CONSTANTS
  g1 = g1  g2 = g2  p1 = p1  p2 = p2  r1 = r1  a = a  b = b
  Getters = {g1}  Putters = {p1, p2}  Rewinders = {}  Mortal = {p1}
  Values = {a, b}  NoValue = NoValue  Inputs <- Pair
  Cap = 4  Timeout = 2  MaxN = 2
  NonBlock = FALSE  Partial = FALSE  TimeoutFlag = TRUE
SPECIFICATION FairSpec
CHECK_DEADLOCK FALSE
PROPERTY WaiterRescued
