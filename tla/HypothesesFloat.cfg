SPECIFICATION Spec
CONSTANTS
    MaxFailures = 0
    MaxLong = 100
    Occurs <- MCOccurs
    MaxIds = 2
    Asks <- FloatAsks
    MaxRestarts = 0
    Prints <- FloatPrints
INVARIANTS VerdictAsDocumented

CHECK_DEADLOCK FALSE
