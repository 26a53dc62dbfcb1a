SPECIFICATION Spec
CONSTANTS
    Names = {1, 2, 3, 4}
    SIZE = 2
    read = 2
    write = 4
    hash <- MCHash
    NULL = NULL
    Inits = {1}
    Sizes = {4}
    MAX_NODE = 6
    MAX_DEPTH = 3
INVARIANTS ScopesTypeOK SameSymbol AddressAllocatedUnlessHidden PopsItsOwn OffsetsDisjoint
