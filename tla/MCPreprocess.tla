--------------------------- MODULE MCPreprocess ---------------------------
(* Preprocess for TLC: labels are interchangeable.                         *)
EXTENDS Preprocess, TLC

(* get_relop_anti's result holds exactly when its argument does not, for   *)
(* all six comparisons; the runs use one.                                  *)
ASSUME AntiIsComplement ==
    \A r \in {"BEQ", "BNE", "BLT", "BGE", "BLE", "BGT"}, ord \in {"lt", "eq", "gt"} :
        Holds(get_relop_anti(r), ord) <=> ~Holds(r, ord)

Symmetry == Permutations(Labels)
=============================================================================
