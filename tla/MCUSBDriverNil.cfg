SPECIFICATION DriverSpec
CONSTANTS
    cyclops = cyclops
    fan = fan
    Displays <- MCDisplays
    Cyclops <- MCCyclops
    Openers <- MCOpeners
    MaxFaults = 3
    MaxPlugs = 2
INVARIANT SendsToOpenedConnection
CHECK_DEADLOCK FALSE
