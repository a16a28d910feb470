SPECIFICATION Spec
CONSTANTS
    None = None
    Unlinked = Unlinked
    a1 = a1
    a2 = a2
    r1 = r1
    r2 = r2
    s1 = s1
    s2 = s2
    Accounts = {a1}
    Sessions = {s1, s2}
    Requests = {}
    AccountOf <- MCAccountOf
    SessionOf <- MCSessionOf
    ModeOf <- MCModeOf
    Threshold <- MCThreshold
    Feeds = {"account", "session", "context", "disconnect"}
    Day = 2
    Zone = 1
    HistoryDays = 1
    MaxAccounts = 2
    MaxSessions = 1
    MaxDedup = 0
    MaxTime = 3
INVARIANTS Loadable
PROPERTIES LiveSessionsKept
