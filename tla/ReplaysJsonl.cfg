CONSTANTS
    n1 = n1
    a = a
    b = b
    t1 = t1
    t2 = t2
    Names = {n1}
    Actions = {a, b}
    Performed = {a}
    Savable = {b}
    Tasks = {t1, t2}
    HandPlans <- MCHandPlans
    MaxFailures = 0
    MaxCalls = 3
    MaxReplays = 1
    MaxByPath = 3
    MaxRestarts = 1

SPECIFICATION Spec

INVARIANTS LinesAreReplayed

CHECK_DEADLOCK FALSE
