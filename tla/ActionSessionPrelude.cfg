SPECIFICATION Spec
CONSTANTS
    CoreTasks = {TRUE}
    Policy <- MCPolicy
    Plan <- MCPlan
    Prelude = "again"
    Requests <- MCRequests
    MaxProbes = 2
    MaxRequests <- MCMaxRequests
    MaxResumes = 1
    MaxDepth = 2
INVARIANT CoreRunsNothing
