SPECIFICATION Spec
CONSTANTS
  Threads = {t1, t2}
  Fibers = {f1, f2}
  None = None
  Entry = Entry
  UseUcLink = TRUE
  Liberties = {"migrate"}
CHECK_DEADLOCK FALSE
SYMMETRY Symmetry
INVARIANT OwnMainStack
