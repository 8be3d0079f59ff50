SPECIFICATION Spec
CONSTANTS
  Threads = {t1, t2}
  Fibers = {f1, f2}
  None = None
  Entry = Entry
  UseUcLink = TRUE
  Liberties = {}
CHECK_DEADLOCK FALSE
INVARIANTS ThisIsRunning NoWildJump WayBack LiveStackKept NoAssertFails StateTellsContext
PROPERTY IsCoroutine
