CONSTANTS
  Pids = {p1, p2}
  Confs <- HostConfs
  MaxStarts = 3
  MaxThreads = 1
  MaxSamples = 3
SPECIFICATION Spec
SYMMETRY PidSymmetry
INVARIANTS
  TypeOK
  ReportsOnlyListed
  LoadSpansElapsed
  PackedFits
