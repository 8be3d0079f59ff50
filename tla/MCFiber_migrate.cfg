SPECIFICATION Spec
CONSTANTS
  Threads = {t1, t2}
  Fibers = {f1, f2}
  None = None
  Entry = Entry
  UseUcLink = FALSE
  Liberties = {"migrate"}
CHECK_DEADLOCK FALSE
INVARIANTS ThisIsRunning NoWildJump OwnMainStack
PROPERTY IsCoroutine
