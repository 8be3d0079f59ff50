SPECIFICATION Spec
CONSTANTS
  Threads = {t1, t2}
  Locks = {m}
  m_mutex = m
  Kind <- MCKind
  None = None
  Taken = Taken
  MaxTime = 2
  MaxLogs = 2
  MaxFaults = 2
CHECK_DEADLOCK FALSE
PROPERTIES FollowsRotation RecoversFromOpen LogReturns
