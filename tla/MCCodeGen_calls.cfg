SPECIFICATION Spec
CONSTANTS
    Vars = {v1, v2}
    Temps = {t1}
    Consts = {}
    NULL = NULL
    MAX_LINE = 4
    NR_T = 2
    NR_S = 2
    Kinds = {"ADDR", "DEREF_R", "ARG", "CALL", "ADD"}
SYMMETRY Symmetry
INVARIANTS TypeOK ReadsIntact NothingLost ArgsMatch
