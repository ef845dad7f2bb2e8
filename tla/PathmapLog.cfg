SPECIFICATION Spec
CONSTANTS
    c1 = c1
    c2 = c2
    t1 = t1
    t2 = t2
    Client <- Clients
    Thread <- Threads
    ClientOf <- OneThreadEach
    MaxOps = 3
    MaxVersion = 3
    Faults = TRUE
    SnapInterval = 2
SYMMETRY ClientSymmetry
INVARIANTS TypeOK SnapshotIsReplay LoggedOnce NoHoles
PROPERTIES OnlyForward EAlreadyMeansNewest
