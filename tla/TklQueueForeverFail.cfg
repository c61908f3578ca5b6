CONSTANTS
    Producers <- MC_Producers
    Consumers <- MC_Consumers
    Capacity = 1
    Waits <- MC_Forever
    WaitMs = 1000
    ClockMs = {0}
    SpuriousWakeups = FALSE
    MaxPosts = 2
SPECIFICATION Spec
INVARIANT ForeverCallsSucceed
