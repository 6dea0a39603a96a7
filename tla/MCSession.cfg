CONSTANTS
  Apps = {tizen, running_app, web}
  LaunchedApps = {tizen}
  RunningApps = {running_app}
  MaxAppList = 3
  MaxToRun = 4
SPECIFICATION Spec
INVARIANTS
  TypeOK
  DeviceFollowsRunning
  InputOnlyWhenConfigured
  LaunchTimerHasApps
  ConfDivergenceReported
  CleanWhenIdle
