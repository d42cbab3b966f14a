CONSTANTS
  t1 = t1  t2 = t2  a = a  b = b  c = c  x1 = x1  NULL = NULL
  Threads = {t1, t2}  Coroutines = {a, b, c}  Spawners = {t1}  Extras = {x1}
SPECIFICATION CoroutineSpec
SYMMETRY Symmetry
INVARIANTS Asserted StackSaved OneThreadEach MainWaits
PROPERTIES Implements
