SPECIFICATION FairSpec
CONSTANTS
    Machine = {m1, m2}
    NoMachine = NoMachine
    Replica = {1, 2}
    Revision = {r1}
    FirstRevision = r1
    DeleteFirst = FALSE
    WorkerEnabled = TRUE
    Disturbance = {"deleteKcp", "deleteMachine", "crash", "apiError", "addWorkers", "staleRead", "loseInfra", "edit"}
    MaxDisturbances = 2
INVARIANTS KcpOutlivesMachines
PROPERTIES DeletionCompletesOrHookLeft
CHECK_DEADLOCK FALSE
