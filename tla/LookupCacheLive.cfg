SPECIFICATION FairSpec
CONSTANTS
    Thread = {t1, t2}
    Key = {k1}
    Capacity = 1
    Ops = {"getattr", "utimens", "create", "unlink", "write", "fsync"}
    Expiry = TRUE
    Foreign = TRUE
    Faults = TRUE
    MaxOps = 3
    MaxWrites = 3
PROPERTY RequestsReturn
