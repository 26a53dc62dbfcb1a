SPECIFICATION Spec
CONSTANTS
    Vars = {v1, v2, v3}
    Temps = {}
    Consts = {}
    NULL = NULL
    MAX_LINE = 3
    NR_T = 1
    NR_S = 2
    Kinds = {"LABEL", "BR", "JMP", "RET", "ASSIGN", "MUL"}
SYMMETRY Symmetry
INVARIANTS RegistersCoherent VarsSavedAtBlockEntry
