SPECIFICATION FairSpec
CONSTANTS
    Producers = {p1, p2, p3}
    Consumers = {c1, c2, c3}
    InitialCapacity = 3
    NewCapacities = {0, 1, 2}
    MaxCalls = 6
INVARIANTS
    NoStrandedConsumer
    NoStrandedProducer
    ExactlyOnceInOrder
PROPERTIES
    WaitingConsumersPop
    WaitingProducersPush
