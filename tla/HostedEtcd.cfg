SPECIFICATION FairSpec
CONSTANTS Replica = {1, 3}
 Size = {1, 2}
 Expandable = TRUE
 Disturbance = {"scaleUp", "podFails", "listFails", "initCrash", "crash", "resize"}
 MaxDisturbances = 3
INVARIANTS OneStore
PROPERTIES OneMoreAtATime StoreRecovers
