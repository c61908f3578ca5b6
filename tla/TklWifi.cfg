CONSTANTS
    wlan0 = wlan0
    wlan1 = wlan1
    StaIf <- wlan0
    ApIf <- wlan1
    WorkModes <- MC_WorkModes
    Failures = TRUE
    MaxIwErrors = 1
    MaxCalls = 4
    MaxDrops = 1
SPECIFICATION Spec
\* the program loops for ever; the bounds on calls and drops end the model
CHECK_DEADLOCK FALSE
INVARIANTS TypeOK
PROPERTIES EventConverges
