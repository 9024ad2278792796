SPECIFICATION RunSpec
CONSTANTS
    NumControllers = 3
    NumWorkers = 2
    Replicas = 1
    Address <- Hosts
    Placement <- RunPlacement
    JoinPort = FALSE
    OldK0s = TRUE
    Tunneling = TRUE
    Ingress = TRUE
    WindowsWorkers = {5}
    Disturbance = {"delete", "staleRead", "assembleFails", "patchFails", "crash", "expire"}
    MaxDisturbances = 1
INVARIANTS OneFounder OneCluster JoinDataUsable TokensBounded OwnProviderID
PROPERTIES Bootstrapped
CHECK_DEADLOCK FALSE
