CONSTANTS
    NoNode = null
    Struct = {s1, s2, s3}
    Task = task
    HASHMAP_SIZE = 2
    MaxTid = 3
SPECIFICATION ThreadsSpec
INVARIANT LastThreadFrees
CHECK_DEADLOCK FALSE
