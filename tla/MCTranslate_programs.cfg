SPECIFICATION Spec
CONSTANTS
    Programs <- Both
    NVARS = 2
    WIDTH = 4
    FUEL = 12
    MAX_IO = 5
    NULL = NULL
INVARIANTS TranslateTypeOK SameOutcome
PROPERTY Returns
