CONSTANTS
    n1 = n1
    a = a
    b = b
    t1 = t1
    t2 = t2
    Names = {n1}
    Actions = {a, b}
    Performed = {a}
    Savable = {b}
    Tasks = {t1, t2}
    HandPlans <- MCHandPlans
    MaxFailures = 1
    MaxCalls = 5
    MaxReplays = 1
    MaxByPath = 1
    MaxRestarts = 1

SPECIFICATION Spec

INVARIANTS TypeOK StepsAccounted StopsWhereTold EvidenceOfSteps MismatchNeedsForce ReplaysWhatWasStored

CHECK_DEADLOCK FALSE
