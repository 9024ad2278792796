SPECIFICATION Spec
CONSTANTS
    RM = {a1, a2, a3}
    NoRM = NoRM
    PoolSize = 2
    Disturbance = {"delete", "provisionFails"}
    MaxDisturbances = 2
SYMMETRY Symmetry
INVARIANTS NoLeak
PROPERTIES CleanupOwnMachine CleanHandover Leased
CHECK_DEADLOCK FALSE
