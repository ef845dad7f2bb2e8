SPECIFICATION Spec
CONSTANTS
    Client = {c1, c2}
    Appenders = {c2}
    BlockSize = 2
    NBlocks = 2
    InitSize = 1
    Full = FALSE
    Threads = TRUE
    Avoid = {"shared truncate", "unflushed truncate", "truncate fails", "write during flush", "size not stored", "block again", "append over writes"}
    MaxOps = 3
    MaxFaults = 1
VIEW View
CHECK_DEADLOCK FALSE
INVARIANTS TypeOK UpdatesInRange WritesNotDropped 
PROPERTIES ImplementsSharedFile
