SPECIFICATION Spec
CONSTANTS
    CoreTasks = {FALSE, TRUE}
    Policy <- MCPolicy
    Plan <- MCPlan
    Prelude = "probes"
    Requests <- MCRequests
    MaxProbes = 3
    MaxRequests <- MCMaxRequests
    MaxResumes = 3
    MaxDepth = 2
INVARIANTS TypeOK HitsAccounted RecordsWhatSucceeded ProbesMatchGdb StoppedMeansStill
PROPERTIES  HitsAreTrue
