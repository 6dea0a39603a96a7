CONSTANTS
  MAX_TARGET_COUNT = 2
  Apps = {app}
  UNKNOWN_PID = UNKNOWN_PID
  Parents = {daemon, lpad}
  DaemonPid = daemon
  LpadPids = {lpad}
  TargetMsgs = {"end", "pid"}
  Faults = {"accept", "pthread", "ioctl", "exec"}
SPECIFICATION FairSpec
PROPERTY StopAllReturns
