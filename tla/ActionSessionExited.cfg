SPECIFICATION Spec
CONSTANTS
    CoreTasks = {FALSE}
    Policy <- MCPolicy
    Plan <- MCPlan
    Prelude = "probes"
    Requests <- MCRequests
    MaxProbes = 3
    MaxRequests <- MCMaxRequests
    MaxResumes = 3
    MaxDepth = 2
INVARIANT ExitedMeansGone
