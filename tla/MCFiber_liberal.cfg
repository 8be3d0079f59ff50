SPECIFICATION Spec
CONSTANTS
  Threads = {t1, t2}
  Fibers = {f1, f2}
  None = None
  Entry = Entry
  UseUcLink = FALSE
  Liberties = {"migrate", "rerun", "yieldMain", "dropInside"}
CHECK_DEADLOCK FALSE
SYMMETRY Symmetry
INVARIANTS CountIsAlive OwnMainStack
