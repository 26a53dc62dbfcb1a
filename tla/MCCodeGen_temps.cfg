SPECIFICATION Spec
CONSTANTS
    Vars = {}
    Temps = {t1, t2, t3}
    Consts = {c1}
    NULL = NULL
    MAX_LINE = 5
    NR_T = 2
    NR_S = 1
    Kinds = {"LABEL", "ADDR", "DEREF_L", "ADD", "SUB"}
SYMMETRY Symmetry
INVARIANTS TempReadsIntact NextUseExact VictimFound NothingLost
