SPECIFICATION Spec
CONSTANTS
  a = a
  b = b
  Clients = {c1}
  Account = {a, b}
  None = None
  Ids = {id, other}
  id = id
  other = other
  SignedIn <- MCSignedIn
  MaxRequests = 3
  MaxFaults = 1
  MaxSwitches = 1
  AliasLimit = 1
CONSTRAINT Corner
INVARIANTS PreferencesKept StaysDisconnected ReadingsAttributed KeysSound NoStrayProcess
PROPERTIES AdapterStops MonitoredIsShown
CHECK_DEADLOCK FALSE
