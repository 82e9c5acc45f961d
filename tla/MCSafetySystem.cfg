CONSTANTS
  Timeout = 2
  Period = 1
  Commands <- MCCommands
  Modules = {}
  Messages <- MCMessages
  StartupTimeout = 1
  LidarMaxAge = 1
  ImuMaxAge = 1
  CameraMaxAge = 1
  PersonMaxAge = 1
  HysteresisCaution = 1
  HysteresisDanger = 1
  ClearCap = 1
  HumanCaution = 20
  HumanDanger = 5
  BatteryCaution = 20
  BatteryDock = 10
  CpuCaution = 75
  CpuFault = 90
  LidarStaleDanger = TRUE
SPECIFICATION SystemSpec
INVARIANTS GateNotAhead WithdrawnInTime
PROPERTIES HangStops EStopStopsMotion DeadLidarBlocksCommands
