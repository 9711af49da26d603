SPECIFICATION Spec
CONSTANTS
    Client = {"a", "b"}
    Name = {"s1", "s2"}
    Dir = {"d1", "d2"}
    File = {"f1", "f2", "other"}
    Requests <- MCRequests
    MaxStarts = 1
PROPERTY FinishNeedsStop
