SPECIFICATION Spec
CONSTANTS
    Programs <- Sums
    NVARS = 2
    WIDTH = 4
    FUEL = 12
    MAX_IO = 5
    NULL = NULL
INVARIANT TempsInOneBlock
