SPECIFICATION FairSpec
CONSTANTS
    Grace = 2
    Threshold = 2
    Uid = {1, 2}
    FirstUid = 1
    Disturbance = {"crash", "apiError", "restore", "disconnect", "staleRead"}
    MaxDisturbances = 2
PROPERTIES Debounced OutageReported RecoveryReported
