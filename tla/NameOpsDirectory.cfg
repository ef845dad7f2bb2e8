SPECIFICATION Spec
CONSTANTS
    Client = {c1, c2}
    Name = {a, b, c}
    Files = {a, b}
    Ops = {"create", "unlink", "rename", "link", "setattr", "fsck"}
    Root = FALSE
    Avoid = {"reused version", "stale source", "link during rename", "unlink during rename", "link goes away", "crash in link", "use before fsck", "online fsck"}
    MaxOps = 3
    MaxCrashes = 1
CHECK_DEADLOCK FALSE
SYMMETRY Symmetry
INVARIANT ConsistentWhenRepaired
