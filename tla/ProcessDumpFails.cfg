SPECIFICATION ProcessSpec
CONSTANTS
  Threads = {t0, t1, t2}
  Main = t0
  Tids = {i1, i2}
  Nobody = Nobody
INVARIANT DumpsSucceed
CHECK_DEADLOCK FALSE
