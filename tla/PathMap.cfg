SPECIFICATION Spec
CONSTANTS
    Name = {a, b, c}
    Begins = {}
    Depth = 2
    Ops = {"mkdir", "create", "movedir", "movefile", "remove", "chmod"}
    Avoid = {"move onto mapping", "remove reuse", "nested move", "replace by move", "move after chmod"}
    MaxOps = 5
CHECK_DEADLOCK FALSE
SYMMETRY Symmetry
INVARIANTS TypeOK LookupFindsTree NoOrphans EntriesMatchTree AssertionsHold
