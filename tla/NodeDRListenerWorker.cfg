SPECIFICATION SafeSpec
CONSTANTS
    t1 = t1
    s1 = s1
    s2 = s2
    Threads = {t1}
    Samples = {s1, s2}
    MaxUnsubscribes = 1
INVARIANT WorkerFindsListener
