CONSTANTS
  t1 = t1  t2 = t2  s1 = s1  s2 = s2  NoSession = NoSession
  Sessions = {s1, s2}  Clients = {t1, t2}
  MaxSlot = 2  MaxRegister = 3  MaxCommand = 1  MaxFail = 1  MaxWorker = 1
SPECIFICATION FairNetworkSpec
INVARIANTS SlotsKept CountKept StatesExpected
PROPERTIES WaitReturns
CHECK_DEADLOCK FALSE
