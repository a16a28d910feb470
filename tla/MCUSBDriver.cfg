SPECIFICATION FairDriverSpec
CONSTANTS
    cyclops = cyclops
    fan = fan
    Displays <- MCDisplays
    Cyclops <- MCCyclops
    Openers <- MCOpeners
    MaxFaults = 3
    MaxPlugs = 2
INVARIANT HandlesOwned
PROPERTY Retried
CHECK_DEADLOCK FALSE
