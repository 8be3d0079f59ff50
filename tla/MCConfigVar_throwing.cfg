SPECIFICATION FairSpec
CONSTANTS
  Threads = {t1, t2}
  Setters = {t1, t2}
  Vars = {x1, x2}
  Values = {a, b}
  Cbs = {c1, c2}
  Throwing = {c1}
  None = None
  MaxCalls = 2
CHECK_DEADLOCK FALSE
PROPERTIES LoopUndisturbed CallsReturn
