CONSTANTS
  Pids = {p1, p2}
  Threads = {t1, t2}
  Blocks = {b1, b2}
  Entries = {e1, e2, e3}
  None = None
  MaxReuses = 1
SYMMETRY Symmetry
SPECIFICATION Spec
INVARIANTS NothingDangles NothingIsLost
CHECK_DEADLOCK FALSE
