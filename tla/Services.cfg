SPECIFICATION ServicesSpec
CONSTANTS
    c1 = c1
    c2 = c2
    Callers = {c1, c2}
    Capacity = 10
    Requested = 4
    FillRate = 3
    Skew = 1
    NoReading = NoReading
    MaxClock = 5
    MaxErrors = 1
    u1 = u1
    m1 = m1
    m2 = m2
    Subscribers = {u1}
    Inboxes = {m1, m2}
    Renewals = {1, 2}
    Callbacks = {1, 2}
    Life = 2
    MaxRenewRetries = 1
    RetryRaises = {"exc", "MaxRetriesExceeded"}
    MaxCallbacks = 2
    MaxRevocations = 1
    MaxMishaps = 1
INVARIANTS
    RateBound
    RecordIsTrue
PROPERTIES
    WatchComesBack
CHECK_DEADLOCK FALSE
