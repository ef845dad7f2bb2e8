SPECIFICATION Spec
CONSTANTS
    Client = {c1, c2, c3}
    NDrives = 3
    Ops = {"put", "delete"}
    Numbered = FALSE
    Serial = FALSE
    Crashes = TRUE
    MaxOps = 1
CHECK_DEADLOCK FALSE
SYMMETRY Symmetry
INVARIANTS TypeOK OneWinner AckedOnAllDrives DrivesAgree
