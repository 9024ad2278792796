SPECIFICATION RunningSpec
CONSTANTS
    Machine = {m1, m2, m3, m4}
    NoMachine = NoMachine
    Replica = {3}
    Revision = {r1, r2}
    FirstRevision = r1
    DeleteFirst = TRUE
    WorkerEnabled = FALSE
    Disturbance = {"edit", "unhealthy", "staleRead", "crash", "apiError"}
    MaxDisturbances = 3
SYMMETRY Symmetry
PROPERTIES SurgeBound RemediationIsSafe
