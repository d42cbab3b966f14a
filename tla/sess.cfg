CONSTANTS
  b1 = b1  b2 = b2  b3 = b3  c1 = c1  w = w  None = None
  Buffers = {b1, b2, b3}  Size <- Length  Callers = {c1}  Worker = w
  Window = 1  MaxInput = 1
SPECIFICATION FairSpec
INVARIANTS InOrder
PROPERTIES Served
CHECK_DEADLOCK FALSE
