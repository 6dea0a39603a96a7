CONSTANTS
  Threads = {t1, t2, t3}
  None = None
  Main = Main
  MaxStarts = 3
  MaxEvents = 2
CHECK_DEADLOCK FALSE
SPECIFICATION Spec
INVARIANTS TypeOK OnePlayer
PROPERTY NoFreeUnderPlayer
