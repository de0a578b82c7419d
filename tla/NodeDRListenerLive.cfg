SPECIFICATION Spec
CONSTANTS
    t1 = t1
    t2 = t2
    s1 = s1
    s2 = s2
    Threads = {t1, t2}
    Samples = {s1, s2}
    MaxUnsubscribes = 1
PROPERTIES
    NoLostWakeup
    StopCompletes
    ImplementsSubscription
