CONSTANTS
    Keys = {k1, k2}
    Sources = {s1}
    AllView = AllView
    MaxDevices = 1
    Expiration = 1
    MaxObjects = 3
    MaxTime = 2
SPECIFICATION Spec

PROPERTIES PurgesOlder
CHECK_DEADLOCK FALSE
