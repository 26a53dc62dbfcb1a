SPECIFICATION Spec
CONSTANTS
    Vars = {v1, v2, v3}
    Temps = {}
    Consts = {c1}
    NULL = NULL
    MAX_LINE = 3
    NR_T = 2
    NR_S = 2
    Kinds = {"ASSIGN", "MUL"}
SYMMETRY Symmetry
INVARIANTS ReadsIntact
