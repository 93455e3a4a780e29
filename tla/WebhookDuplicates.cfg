SPECIFICATION Spec
CONSTANTS
    a = a
    b = b
    poison = poison
    e1 = e1
    Messages = {a, b, poison}
    Events = {e1}
    EventOf <- MCEventOf
    Malformed = Malformed
    NoMessage = NoMessage
    Handlers = {1, 2}
    TTL = 2
    MaxTime = 0
    MaxFaults = 0
INVARIANT
    NoDuplicateTask
CHECK_DEADLOCK FALSE
