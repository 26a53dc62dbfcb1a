SPECIFICATION Spec
CONSTANTS
    Labels = {l1, l2, l3}
    Relops = {"BLE"}
    NULL = NULL
    MAX_LINE = 6
SYMMETRY Symmetry
INVARIANTS TypeOK KeptInOrder CountsExact NoDanglingLabel SameFlow
