SPECIFICATION FairSpec
CONSTANTS
    Modules = {m1, m2}
    Readers = {r1}
    MaxVersion = 2
    None = None
INVARIANT LatestSnapshot
PROPERTIES ImplementsFeed ClosesForGood StreamCatchesUp
CHECK_DEADLOCK FALSE
