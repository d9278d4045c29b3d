CONSTANTS
    Events = {e1, e2}
    NoEvent = NoEvent
    NumThreads = 3
    MaxThreads = 4
    LateSignal = {1, 2}
    Spurious = {2}
SPECIFICATION FairSpec
CHECK_DEADLOCK FALSE
INVARIANTS StoreFindsIdle NoLostWakeup NoPhantomEvent BoundedTakes IdleMeansDelivered
PROPERTIES Delivery
