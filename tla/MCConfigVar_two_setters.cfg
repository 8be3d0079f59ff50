SPECIFICATION Spec
CONSTANTS
  Threads = {t1, t2}
  Setters = {t1, t2}
  Vars = {x1}
  Values = {a, b}
  Cbs = {c1, c2}
  Throwing = {}
  None = None
  MaxCalls = 3
CHECK_DEADLOCK FALSE
INVARIANT ListenersInSync
