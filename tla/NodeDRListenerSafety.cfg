SPECIFICATION SafeSpec
CONSTANTS
    t1 = t1
    t2 = t2
    s1 = s1
    s2 = s2
    s3 = s3
    Threads = {t1, t2}
    Samples = {s1, s2, s3}
    MaxUnsubscribes = 2
SYMMETRY Symmetry
INVARIANTS
    AsyncSafe
    TakeProtected
    Conservation
    WorkersBounded
    HandleKeepsListener
    NoLeak
PROPERTIES
    NoDeliveryAfterUnsubscribe
    LivesOnce
