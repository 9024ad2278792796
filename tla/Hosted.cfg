SPECIFICATION MCSpec
CONSTANTS
    Modes <- RunModes
    NativeFrom = 2
    MaxRevision = 2
    Disturbance = {"editManifests", "editVersion", "delete", "certFails", "applyFails", "crash", "deleteFails"}
    MaxDisturbances = 1
    TokenID = {t1, t2, t3, t4}
    NoToken = NoToken
    Fault = {"staleRead", "apiError", "crash", "restart"}
    MaxFaults = 2
INVARIANTS MountsExist InfraReadyMeansEndpoint TokensOnRecord
PROPERTIES AddressKept OwnerStaysGone ClusterSettles RequestSettles
CHECK_DEADLOCK FALSE
