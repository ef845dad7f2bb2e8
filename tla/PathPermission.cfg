SPECIFICATION Spec
CONSTANTS
    Client = {c1, c2}
    Depth = 3
    User <- MCUser
    Perm <- MCPerm
    Avoid = {"root", "old snapshot", "entry during chmod", "crash in chmod", "crash before verify"}
    MaxOps = 3
    MaxChanges = 2
    MaxCrashes = 1
CHECK_DEADLOCK FALSE
SYMMETRY Symmetry
INVARIANTS TypeOK VerifiedIsCurrent LookupEnforces
