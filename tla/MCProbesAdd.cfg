CONSTANTS
  Libs = {libm, libc}
  Probes = {p, q}
  MaxNamed = 1
  MaxFuncs = 2
  MaxList = 2
  MaxLeft = 1
  MaxProbes = 2
  MaxDrift = 1
  MaxApps = 1
  Host = {}
SPECIFICATION Spec
CHECK_DEADLOCK FALSE
PROPERTY AddedAreSent
