CONSTANTS
  MAX_TARGET_COUNT = 2
  Apps = {app, other}
  UNKNOWN_PID = UNKNOWN_PID
  Parents = {daemon, lpad, shell}
  DaemonPid = daemon
  LpadPids = {lpad}
  TargetMsgs = {"end", "pid", "other"}
  Faults = {"accept", "eventfd", "handler", "pthread", "ioctl", "parse", "prepare", "exec"}
SYMMETRY AppSymmetry
SPECIFICATION Spec
INVARIANTS TypeOK CounterIsEventSet FreeSlotUnused TargetCntExact StopLostOnlyWithRefusedPid
PROPERTIES StopLeavesNoReader LeakOnlyWithoutTargets
CHECK_DEADLOCK FALSE
