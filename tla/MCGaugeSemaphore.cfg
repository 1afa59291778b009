SPECIFICATION Spec
CONSTANTS
  Threads = {t1, t2, t3}
  Counts = {1, 2}
  Limits = {0, 2, 3}
  UsizeMax = 4
INVARIANTS
  GaugeIsHeld
PROPERTIES
  DecidesAtOnce
