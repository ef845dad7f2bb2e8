SPECIFICATION Spec
CONSTANTS
    Client = {c1, c2}
    TokenSize = 2
    MaxTokens = 3
SYMMETRY Symmetry
INVARIANTS TypeOK UniqueInodes GrantsDisjoint
