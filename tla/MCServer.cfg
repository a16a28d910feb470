SPECIFICATION Spec
CONSTANTS
  Missing = Missing
  MaxTokens = 20
  FirstSecond <- MCFirstSecond
  LastSecond = 15
  MaxRecords = 2
  MaxEvents = 2
  MaxQuotas = 2
  MaxText = 20
  MaxDays = 2
  Day = 3
  Clocks <- MCClocks
  Clients = {c1, c2}
  Manager = Manager
  Posters = {c1}
  Posts <- MCPosts
  Readings <- MCReadings
  Capacity <- MCCapacity
  Hangs <- MCHangs
  MaxCalls = 2
  MaxFaults = 1
INVARIANTS SlotsSound ControlsOutliveWork RefusalsExplained ObserverLosesNothing
PROPERTIES NoNeedlessExpiry ShutdownCompletes
CHECK_DEADLOCK FALSE
