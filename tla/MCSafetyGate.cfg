CONSTANTS
  Timeout = 4
  Period = 2
  Commands <- MCCommands
SPECIFICATION Spec
INVARIANTS DeadMan DefensiveStop
PROPERTIES ImplementsSwitch SilenceStops
