SPECIFICATION NamedFairSpec
CONSTANTS
    Machine = {m1, m2, m3}
    NoMachine = NoMachine
    Replica = {1, 2}
    Revision = {r1, r2}
    FirstRevision = r1
    DeleteFirst = FALSE
    WorkerEnabled = TRUE
    Disturbance = {"edit", "loseInfra", "deleteMachine", "unhealthy", "crash", "apiError", "staleRead", "unavailable"}
    MaxDisturbances = 2
PROPERTIES Converges
