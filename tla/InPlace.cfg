SPECIFICATION RunSpec
CONSTANTS
    NumControllers = 2
    NumWorkers = 1
    MaxVersion = 2
    MaxEdits = 2
    Disturbance = {"crash", "apiError", "unavailable", "planFails", "deletePlan", "workerPlan", "workerUpdate"}
    MaxDisturbances = 1
INVARIANTS MarkedBeforeHook OneUpdateAtATime
PROPERTIES RecordedVersionRuns RunningPlanKept Converges
CHECK_DEADLOCK FALSE
