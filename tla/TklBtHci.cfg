CONSTANTS
    Apps <- MC_Apps
    Ops <- MC_Ops
    CtrlVersion = 8
    InitCCs = 2
    AdvBurst = 10
    MaxBursts = 1
    MaxCalls = 3
    MaxSpont = 1
    MaxSocks = 1
SPECIFICATION Spec
INVARIANTS TypeOK ReqFilterScoped
PROPERTIES EnabledEventsDelivered
