SPECIFICATION Spec
CONSTANTS
    r1 = r1
    r2 = r2
    w1 = w1
    w2 = w2
    Reminders = {r1}
    Workers = {w1, w2}
    NoRun = NoRun
    Lead <- CloseLead
    CatchUp = 1
    Deadlines = {2, 6}
    MaxTime = 7
    MaxAborts = 1
    MaxGap = 9
INVARIANTS
    StageOrder
    RepeatsAreAccountedFor
PROPERTIES
    ReminderEnds
CHECK_DEADLOCK FALSE
