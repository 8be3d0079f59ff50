SPECIFICATION FairSpec
CONSTANTS
  Threads = {t1, t2}
  Setters = {t1}
  Vars = {x1}
  Values = {a, b}
  Cbs = {c1, c2}
  Throwing = {}
  None = None
  MaxCalls = 3
CHECK_DEADLOCK FALSE
INVARIANTS TypeOK ListenersInSync KeyFindsListener
PROPERTIES LoopUndisturbed ToldBefore CallsReturn
