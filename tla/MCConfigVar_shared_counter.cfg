SPECIFICATION Spec
CONSTANTS
  Threads = {t1, t2}
  Setters = {}
  Vars = {x1, x2}
  Values = {a}
  Cbs = {c1, c2}
  Throwing = {}
  None = None
  MaxCalls = 3
CHECK_DEADLOCK FALSE
INVARIANT KeyFindsListener
