SPECIFICATION PoolFairSpec
CONSTANTS
    Threads = {t1, t2, t3}
    NumSlots = 2
    Nobody = Nobody
INVARIANTS Exclusive NoTornWorker NoMissedScan
PROPERTY CallsReturn
