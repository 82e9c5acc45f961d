CONSTANTS
  Modules = {m1}
  Messages <- MCMessages
  StartupTimeout = 3
  LidarMaxAge = 1
  ImuMaxAge = 1
  CameraMaxAge = 1
  PersonMaxAge = 1
  HysteresisCaution = 2
  HysteresisDanger = 2
  ClearCap = 2
  HumanCaution = 20
  HumanDanger = 5
  BatteryCaution = 20
  BatteryDock = 10
  CpuCaution = 75
  CpuFault = 90
  LidarStaleDanger = TRUE
SPECIFICATION Spec
PROPERTY EStopStops
