------------------------------- MODULE IR -------------------------------
(***************************************************************************)
(* The three-address code between translation and code generation (ir.h,   *)
(* operand.c, ir.c, basic-block.c), reduced to what decides where a value  *)
(* lives.                                                                  *)
(*                                                                         *)
(* An operand that can sit in a register is a variable (OPE_VAR, OPE_BOOL), *)
(* a temporary (OPE_TEMP, OPE_ADDR) or an integer constant.  cmp_operand   *)
(* equates constants of equal value, so a constant is its value here.      *)
(* Labels, functions and OPE_REF records never enter a register: the field *)
(* of an instruction that holds one of those is NULL.                      *)
(*                                                                         *)
(* Positions count from 1 as in any sequence; next_use holds line numbers, *)
(* which count from 0 as instr_buffer does (see Line).                     *)
(***************************************************************************)
EXTENDS Integers, Sequences

CONSTANTS Vars, Temps, Consts,  \* the operands of the compiled function
          NULL,                 \* the null pointer
          MAX_LINE              \* the capacity of instr_buffer

ASSUME IRAssumption ==
    /\ Vars \cap Temps = {} /\ Vars \cap Consts = {} /\ Temps \cap Consts = {}
    /\ NULL \notin Vars \cup Temps \cup Consts
    /\ MAX_LINE \in Nat \ {0}

Operand == Vars \cup Temps \cup Consts

NO_USE == -1

NextUse == 0..MAX_LINE \cup {NO_USE}

Line(i) == i - 1

NoCode == {"LABEL", "FUNC", "DEC", "PARAM"}  \* emit nothing that moves a value

IRType == NoCode \cup {"ASSIGN", "ADD", "SUB", "MUL", "ADDR", "DEREF_R", "DEREF_L",
                       "JMP", "BR", "RET", "ARG", "CALL", "READ", "WRITE"}

Instr == [type : IRType, rd : Operand \cup {NULL},
          rs : Operand \cup {NULL}, rt : Operand \cup {NULL}]

Sources(ir) == {ir.rs, ir.rt} \ {NULL}

is_tmp(o) == o \in Temps

can_jump(ir) == ir.type \in {"BR", "JMP"}

is_leader(instr, i) ==
    \/ i = 1
    \/ instr[i].type \in {"LABEL", "FUNC"}
    \/ can_jump(instr[i - 1])

(* block_partition cuts the buffer before every leader: start .. end - 1 is *)
(* one of its blocks.                                                      *)
IsBlock(instr, start, end) ==
    /\ is_leader(instr, start)
    /\ end = Len(instr) + 1 \/ is_leader(instr, end)
    /\ \A k \in start + 1 .. end - 1 : ~is_leader(instr, k)

IsLast(instr, i) == i = Len(instr) \/ is_leader(instr, i + 1)

SameBlock(instr, i, k) == i <= k /\ \A l \in i + 1 .. k : ~is_leader(instr, l)

(***************************************************************************)
(* What translate.c emits: each kind of instruction carries the operands   *)
(* its handler dereferences; arithmetic on two constants is folded.        *)
(***************************************************************************)
Of(types, rd, rs, rt) == [type : types, rd : rd, rs : rs, rt : rt]

Emitted ==
    LET None == {NULL}
        Dest == Vars \cup Temps
    IN  UNION {Of(NoCode \cup {"JMP"}, None, None, None),
               Of({"ASSIGN"}, Dest, Operand, None),
               Of({"ADD", "SUB", "MUL"}, Dest, Operand, Vars \cup Temps),
               Of({"ADD", "SUB", "MUL"}, Dest, Vars \cup Temps, Consts),
               Of({"ADDR"}, Temps, None, None),
               Of({"DEREF_R"}, Dest, Temps, None),
               Of({"DEREF_L"}, None, Temps, Operand),
               Of({"BR"}, None, Operand, Operand),
               Of({"RET", "ARG", "WRITE"}, None, Operand, None),
               Of({"CALL", "READ"}, Dest, None, None)}

(* An ARG has been emitted and its CALL has not.                           *)
ArgPending(instr) ==
    \E a \in 1 .. Len(instr) :
        instr[a].type = "ARG" /\ \A k \in a .. Len(instr) : instr[k].type # "CALL"

(* A temporary is created by the one instruction that defines it and is    *)
(* used in that basic block only (the comment of push_all); between an ARG *)
(* and its CALL pass_arg only passes further arguments, which it may have  *)
(* to dereference first.                                                   *)
MayFollow(instr, ir) ==
    LET n == Len(instr)
        ext == Append(instr, ir)
    IN  /\ ir.rd \in Temps =>
               \A k \in 1 .. n : ir.rd # instr[k].rd /\ ir.rd \notin Sources(instr[k])
        /\ ir.rd \notin Temps \cap Sources(ir)
        /\ \A t \in Temps \cap Sources(ir) :
               \E k \in 1 .. n : instr[k].rd = t /\ SameBlock(ext, k, n + 1)
        /\ ArgPending(instr) => IF instr[n].type = "DEREF_R"
                                THEN ir.type = "ARG" /\ ir.rs = instr[n].rd
                                ELSE ir.type \in {"ARG", "DEREF_R", "CALL"}
=============================================================================
