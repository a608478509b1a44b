SPECIFICATION FairSpec
CONSTANTS
    a = a
    b = b
    c = c
    Thread = {t1, t2, t3}
    Id = {a, b, c}
    SizeOf <- Sizes
    MaxBytes = 3
INVARIANTS SingleFlight WaiterHasLeader CacheBounded
PROPERTIES WaitEnds
