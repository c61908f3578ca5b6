CONSTANTS
    Producers <- MC_Producers
    Consumers <- MC_Consumers
    Capacity = 2
    Waits <- MC_Waits
    WaitMs = 500
    ClockMs = {0, 500}
    SpuriousWakeups = TRUE
    MaxPosts = 3
SPECIFICATION Spec
INVARIANTS TypeOK RingHoldsPostedInOrder NoStrandedConsumer
PROPERTIES PostedFetched FifoRefined
