SPECIFICATION Spec
CONSTANTS
    MAX_LINE = 5
    Sizes = {8}
    MAX_OPE = 2
    MAX_USED = 1
    Kinds = {"BODY", "ARG", "CALL", "IO", "RET"}
INVARIANTS TypeOK ParamsWhereStored FrameReleased SlotsDisjoint
