SPECIFICATION Spec
CONSTANTS
    Vars = {v1}
    Temps = {t1, t2, t3}
    Consts = {}
    NULL = NULL
    MAX_LINE = 6
    NR_T = 2
    NR_S = 1
    Kinds = {"ADDR", "DEREF_R", "ARG", "CALL"}
SYMMETRY Symmetry
INVARIANTS UnstoredAreDead
