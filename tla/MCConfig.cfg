SPECIFICATION ConfigSpec
CONSTANTS
  t1 = t1
  t2 = t2
  x1 = x1
  x2 = x2
  x3 = x3
  x4 = x4
  x5 = x5
  x6 = x6
  Threads = {t1, t2}
  Setters = {t1}
  Vars = {x1, x2, x3, x4, x5, x6}
  Values = {}
  Cbs = {c1}
  Throwing = {c1}
  None = None
  MaxCalls = 6
  ValidWords = {"users", "system", "port", "table", "a", "b"}
  Type <- MCType
  Default <- MCDefault
  Asks <- MCAsks
  Docs <- MCDocs
  MaxAsks <- MCMaxAsks
  MaxDepth = 2
CHECK_DEADLOCK FALSE
INVARIANT PrintedIsRead
PROPERTIES RegisteredStays VisitUndisturbed LoadReachesAll ConfigReturns
