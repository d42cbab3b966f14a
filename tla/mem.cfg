CONSTANTS
  t1 = t1  t2 = t2  NULL = NULL
  Threads = {t1, t2}  Cached = {t1}
  Lowest = 3  Top = 8  PerBucket = 2  LargeSize = 3  MaxCached = 4
SPECIFICATION Spec
INVARIANTS OnePlace ListSound SpanFound
