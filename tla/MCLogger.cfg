SPECIFICATION Spec
CONSTANTS
  t1 = t1
  t2 = t2
  Threads = {t1, t2}
  Configurator = t1
  Names = {"root", "a", "own"}
  Own = {"own"}
  Locks = {"root", "a", "own", "manager"}
  Kind <- MCKind
  None = None
  Taken = Taken
  Docs <- MCDocs
  EventLevels = {2, 4}
  Fresh <- MCFresh
  Patterns = {"h"}
  Bad = {"bad"}
  MaxCalls <- MCMaxCalls
CHECK_DEADLOCK FALSE
INVARIANTS ConfigApplied OneRoute AppendersFormatted LogsReloads
PROPERTY LogCallsReturn
