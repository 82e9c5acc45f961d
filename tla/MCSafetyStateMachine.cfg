CONSTANTS
  Modules = {m1}
  Snapshots <- MCSnapshots
  HysteresisCaution = 3
  HysteresisDanger = 5
  ClearCap = 6
  HumanCaution = 20
  HumanDanger = 5
  BatteryCaution = 20
  BatteryDock = 10
  CpuCaution = 75
  CpuFault = 90
  LidarStaleDanger = TRUE
SPECIFICATION Spec
PROPERTIES CautionHysteresis HazardCapsSpeed DangerHolds RelaxesWhenClear
