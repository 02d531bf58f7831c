\* Two threads, one of which may see the list before the other has added to it.
CONSTANTS
    Threads = {t1, t2}
    Keys = {k1, k2, k3}
    Nodes = {n1, n2, n3}
    MaxSize = 2
SPECIFICATION Spec
INVARIANT CapacityRespected
CHECK_DEADLOCK FALSE
