CONSTANTS
  NumCpu = 2
  Narrow = {network}
  Wide = {energy}
  Wrap = 2
  MaxValue = 3
  MaxSamples = 3
SPECIFICATION Spec
INVARIANTS
  TypeOK
  DeltaAgainstLastGood
  DiffWithinGrowth
