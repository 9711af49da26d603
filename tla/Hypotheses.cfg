SPECIFICATION Spec
CONSTANTS
    MaxFailures = 2
    MaxLong = 100
    Occurs <- MCOccurs
    MaxIds = 2
    Asks <- FewAsks
    MaxRestarts = 1
    Prints <- FewPrints
INVARIANTS TypeOK VerdictAsDocumented ChecksDocumented FileAgrees StatusFollowsChecks IndexCurrent

CHECK_DEADLOCK FALSE
