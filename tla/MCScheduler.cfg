SPECIFICATION Spec
CONSTANTS
  Threads = {t1, t2}
  m = m
  t1 = t1
  t2 = t2
  rw = rw
  cas = cas
  Locks = {m, rw, cas}
  Kind <- MCKind
  None = None
  Taken = Taken
  Names = {"UNKNOW", "a"}
  Given <- MCGiven
  Renaming = {t1}
  Tasks = {k1}
  Pointers = {p1}
  m_mutex = m
  MaxCalls <- MCMaxCalls
CHECK_DEADLOCK FALSE
INVARIANTS LockMatchesGuards ReadyOnReturn NotUsedLate HandleReleasedOnce HandedOverOnce WorkIsAnnounced
PROPERTIES IsSharedLock OwnerReturns ScheduleReturns
