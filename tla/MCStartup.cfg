SPECIFICATION Spec
CONSTANTS
  tray = tray
  setup = setup
  portable = portable
  installed = installed
  Callers = {tray, setup}
  Exe = {portable, installed}
  ExeOf <- MCExeOf
  Alien = Alien
  None = None
  MaxCommands = 2
  MaxFaults = 2
INVARIANTS NeverUnregistered OutcomeHolds
PROPERTY OwnedOnly
CHECK_DEADLOCK FALSE
