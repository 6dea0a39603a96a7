CONSTANTS
  Libs = {libm, libc}
  Probes = {p, q}
  MaxNamed = 1
  MaxFuncs = 2
  MaxList = 2
  MaxLeft = 1
  MaxProbes = 3
  MaxDrift = 1
  MaxApps = 1
  Host = {"repeats", "breaks"}
SPECIFICATION Spec
CHECK_DEADLOCK FALSE
SYMMETRY ProbeSymmetry
INVARIANTS TypeOK FuncNumExact MapsAreSuffix
