SPECIFICATION FairSpec
CONSTANTS
    s1 = s1
    s2 = s2
    a1 = a1
    a2 = a2
    Screens <- Displays
    Assignments <- Views
    Configured <- FirstView
    Previews = TRUE
    LastFarewell = 1
    MaxAssigns <- AssignsOf
INVARIANTS ScreenTellsTruth FarewellReported
PROPERTIES AssignmentSettles EndsInOrder
CHECK_DEADLOCK FALSE
