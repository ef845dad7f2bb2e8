SPECIFICATION FairSpec
CONSTANTS
    c1 = c1
    c2 = c2
    t1 = t1
    t2 = t2
    Client <- Clients
    Thread <- Threads
    ClientOf <- OneThreadEach
    MaxOps = 2
    MaxVersion = 2
    Faults = TRUE
    SnapInterval = 1
PROPERTY CallsReturn
