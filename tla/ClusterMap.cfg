SPECIFICATION Spec
CONSTANTS
    Client = {c1, c2}
    NDrives = 2
    Log = {l1}
    Ops = {"put", "read", "delete"}
    Avoid = {"unlogged", "split", "use during check", "second failure", "delete again"}
    MaxKeys = 1
    MaxFaults = 2
    MaxChecks = 1
    MaxVersion = 4
CHECK_DEADLOCK FALSE
SYMMETRY Symmetry
INVARIANTS TypeOK OneMapPerVersion GreenIsUpToDate
PROPERTY VersionsGrow
