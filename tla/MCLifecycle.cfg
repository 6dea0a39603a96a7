SPECIFICATION FairSpec
CONSTANTS
  Managers = {m1, m2}
  Hosted = {m1}
  Signals = {SIGTERM}
  None = None
CHECK_DEADLOCK FALSE
INVARIANT TypeOK
INVARIANT SingleUnlessRaced
INVARIANT DeviceIntact
INVARIANT NothingLeft
 
