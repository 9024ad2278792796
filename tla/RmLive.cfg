SPECIFICATION FairSpec
CONSTANTS
    RM = {a1, a2}
    NoRM = NoRM
    PoolSize = 2
    Disturbance = {"delete", "staleRead", "staleList", "provisionFails", "cleanupFails", "hang", "apiError", "crash"}
    MaxDisturbances = 2
INVARIANTS AddressIsReserved
PROPERTIES EventuallyProvisioned PopulatedDeletionEnds
CHECK_DEADLOCK FALSE
