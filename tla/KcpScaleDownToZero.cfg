SPECIFICATION RunningSpec
CONSTANTS
    Machine = {m1, m2, m3}
    NoMachine = NoMachine
    Replica = {1, 2}
    Revision = {r1}
    FirstRevision = r1
    DeleteFirst = FALSE
    WorkerEnabled = TRUE
    Disturbance = {"edit", "unhealthy"}
    MaxDisturbances = 2
SYMMETRY Symmetry
PROPERTIES ScaleDownKeepsOne
