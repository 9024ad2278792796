SPECIFICATION RunningSpec
CONSTANTS
    Machine = {m1, m2, m3}
    NoMachine = NoMachine
    Replica = {1, 2}
    Revision = {r1, r2}
    FirstRevision = r1
    DeleteFirst = FALSE
    WorkerEnabled = TRUE
    Disturbance = {"edit", "staleRead", "crash", "apiError", "unavailable"}
    MaxDisturbances = 4
SYMMETRY Symmetry
INVARIANTS OneMemberLeavesAtATime NoLostMember
PROPERTIES SurgeBound ScaleDownKeepsOne
