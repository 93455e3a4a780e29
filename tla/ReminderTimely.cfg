SPECIFICATION Spec
CONSTANTS
    r1 = r1
    r2 = r2
    w1 = w1
    w2 = w2
    Reminders = {r1, r2}
    Workers = {w1}
    NoRun = NoRun
    Lead <- SourceLead
    CatchUp = 4
    Deadlines = {3, 20, 52}
    MaxTime = 54
    MaxAborts = 0
    MaxGap = 2
INVARIANTS
    EveryStageSentOnce
CHECK_DEADLOCK FALSE
