------------------------------- MODULE Frame -------------------------------
(***************************************************************************)
(* The stack frame: in_func_check (ir.c) lays out the operands of every    *)
(* function, then gen_asm_func, gen_asm_param, gen_asm_call and            *)
(* gen_asm_return (asm.c) move $sp and address the slots through           *)
(* sp_offset.                                                              *)
(*                                                                         *)
(* Addresses of the running program are relative to $sp at the entry of    *)
(* the function being generated, so sp starts at 0 there.  An operand is   *)
(* its index; a function is the position of its FUNC.                      *)
(***************************************************************************)
EXTENDS Integers, Sequences, Functions

CONSTANTS MAX_LINE,  \* the capacity of instr_buffer
          Sizes,     \* the sizes of records and arrays
          MAX_OPE,   \* bound: operands created
          MAX_USED,  \* bound: operands of one instruction (3 in the code)
          Kinds      \* the types of instruction in function bodies

ASSUME FrameAssumption ==
    /\ MAX_LINE \in Nat /\ MAX_OPE \in Nat /\ MAX_USED \in Nat
    /\ Sizes \subseteq Nat
    /\ Kinds \subseteq {"BODY", "ARG", "CALL", "IO", "RET"}

VARIABLES
    phase,
    instr_buffer,  \* [type, opes]: the operands with a slot, in the order rd, rs, rt
    size,          \* size of each operand; an operand's index is Len(size) before it
    first,         \* the operands before this one belong to earlier functions
    address,       \* address of each operand
    exists,        \* in_func_check: the operands that have an address
    param_size,    \* in_func_check
    curr,          \* in_func_check and curr_func: the current function
    func_size, has_subroutine,  \* of each function
    pos, k,        \* the instruction being laid out or generated, and its operand
    sp,            \* the machine's $sp
    sp_offset,     \* register.c
    nr_arg,        \* asm.c
    ra_at,         \* where FUNC stored $ra
    exits          \* of each RET of the function: $sp after it, and where it found $ra

input == <<instr_buffer, size, first>>
frame == <<exists, param_size, func_size, has_subroutine>>
code == <<sp, sp_offset, nr_arg, ra_at, exits>>
vars == <<phase, input, address, frame, curr, pos, k, code>>

Types == {"FUNC", "PARAM", "BODY", "ARG", "CALL", "IO", "RET"}  \* IO: READ, WRITE

nr_instr == Len(instr_buffer)

nr_ope == Len(size)

Curr == instr_buffer[pos]

Init ==
    /\ phase = "translate"
    /\ instr_buffer = <<>> /\ size = <<>> /\ address = <<>>
    /\ first = 1
    /\ exists = {} /\ param_size = 0
    /\ curr = 0
    /\ func_size = [f \in 1 .. MAX_LINE |-> 0]
    /\ has_subroutine = [f \in 1 .. MAX_LINE |-> FALSE]
    /\ pos = 1 /\ k = 1
    /\ sp = 0 /\ sp_offset = 0 /\ nr_arg = 0 /\ ra_at = 0 /\ exits = {}

(***************************************************************************)
(* What translation emits: a function head, its parameters, then the body. *)
(* Operands are local to their function, and many are never used.          *)
(***************************************************************************)
new_operand(s) ==
    /\ phase = "translate"
    /\ nr_ope < MAX_OPE
    /\ instr_buffer # <<>>
    /\ size' = Append(size, s)
    /\ address' = Append(address, 0)
    /\ UNCHANGED <<phase, instr_buffer, first, frame, curr, pos, k, code>>

(* Mutant of new_instr: the capacity of the buffer is not checked.         *)
new_instr_Unbounded(t, opes) ==
    /\ phase = "translate"
    /\ instr_buffer' = Append(instr_buffer, [type |-> t, opes |-> opes])
    /\ UNCHANGED <<phase, size, address, frame, curr, pos, k, code>>

new_instr(t, opes) ==
    /\ phase = "translate"
    /\ nr_instr < MAX_LINE
    /\ instr_buffer' = Append(instr_buffer, [type |-> t, opes |-> opes])
    /\ UNCHANGED <<phase, size, address, frame, curr, pos, k, code>>

EmitFunc == new_instr("FUNC", <<>>) /\ first' = nr_ope + 1

EmitParam ==
    /\ instr_buffer # <<>> /\ instr_buffer[nr_instr].type \in {"FUNC", "PARAM"}
    /\ nr_ope >= first /\ size[nr_ope] = 4
    /\ instr_buffer[nr_instr].opes # <<nr_ope>>
    /\ new_instr("PARAM", <<nr_ope>>)
    /\ first' = first

EmitBody ==
    /\ instr_buffer # <<>>
    /\ \E n \in 0 .. MAX_USED : \E opes \in [1 .. n -> first .. nr_ope], t \in Kinds :
           /\ t # "BODY" => n = 1
           /\ new_instr(t, opes)
    /\ first' = first

Overflow ==  \* assert(nr_instr < MAX_LINE)
    /\ phase = "translate"
    /\ nr_instr = MAX_LINE
    /\ phase' = "aborted"
    /\ UNCHANGED <<input, address, frame, curr, pos, k, code>>

EndTranslate ==
    /\ phase = "translate"
    /\ instr_buffer # <<>>
    /\ phase' = "layout"
    /\ UNCHANGED <<input, address, frame, curr, pos, k, code>>

(***************************************************************************)
(* in_func_check, one operand of an instruction at a time.                 *)
(***************************************************************************)
Step(p) ==
    /\ k' = 1
    /\ IF pos < nr_instr THEN pos' = pos + 1 /\ phase' = phase ELSE pos' = 1 /\ phase' = p

LayoutFunc ==
    /\ phase = "layout" /\ Curr.type = "FUNC"
    /\ exists' = {} /\ param_size' = 0
    /\ curr' = pos
    /\ func_size' = [func_size EXCEPT ![pos] = 0]
    /\ Step("gen")
    /\ UNCHANGED <<input, address, has_subroutine, code>>

(* The stack grows down: a slot's address is the end of it.                *)
Slot(o) == func_size[curr] + size[o]

LayoutOperand ==
    /\ phase = "layout" /\ Curr.type \notin {"FUNC", "PARAM"}
    /\ k <= Len(Curr.opes)
    /\ LET o == Curr.opes[k]
       IN  IF o \in exists THEN UNCHANGED <<func_size, address, exists>>
           ELSE /\ func_size' = [func_size EXCEPT ![curr] = @ + size[o]]
                /\ address' = [address EXCEPT ![o] = Slot(o)]
                /\ exists' = exists \cup {o}
    /\ k' = k + 1
    /\ UNCHANGED <<phase, input, param_size, has_subroutine, curr, pos, code>>

LayoutBody ==
    /\ phase = "layout" /\ Curr.type \notin {"FUNC", "PARAM"}
    /\ k > Len(Curr.opes)
    /\ has_subroutine' = [has_subroutine EXCEPT ![curr] = @ \/ Curr.type \in {"CALL", "IO"}]
    /\ Step("gen")
    /\ UNCHANGED <<input, address, exists, param_size, func_size, curr, code>>

LayoutParam ==
    /\ phase = "layout" /\ Curr.type = "PARAM"
    /\ address' = [address EXCEPT ![Curr.opes[1]] = -param_size]
    /\ param_size' = param_size + 4
    /\ exists' = exists \cup {Curr.opes[1]}
    /\ Step("gen")
    /\ UNCHANGED <<input, func_size, has_subroutine, curr, code>>

(***************************************************************************)
(* asm.c                                                                   *)
(***************************************************************************)
Gen(types) == phase = "gen" /\ Curr.type \in types

ra(f) == IF has_subroutine[f] THEN 4 ELSE 0  \* the space for $ra

(* Mutant of GenFunc: $ra is stored at the bottom of the frame.            *)
GenFunc_RaAtBottom ==
    /\ Gen({"FUNC"})
    /\ curr' = pos
    /\ sp_offset' = func_size[pos]
    /\ sp' = 0 - func_size[pos] - ra(pos)
    /\ ra_at' = IF has_subroutine[pos] THEN sp' ELSE 0
    /\ exits' = {}
    /\ Step("done")
    /\ UNCHANGED <<input, address, frame, nr_arg>>

GenFunc ==
    /\ Gen({"FUNC"})
    /\ curr' = pos
    /\ sp_offset' = func_size[pos]
    /\ sp' = 0 - func_size[pos] - ra(pos)
    /\ ra_at' = IF has_subroutine[pos] THEN sp' + sp_offset' ELSE 0
    /\ exits' = {}
    /\ Step("done")
    /\ UNCHANGED <<input, address, frame, nr_arg>>

(* Mutant of GenParam: the saved $ra is forgotten.                         *)
GenParam_NoRa ==
    /\ Gen({"PARAM"})
    /\ Step("done")
    /\ UNCHANGED <<input, address, frame, curr, code>>

GenParam ==
    /\ Gen({"PARAM"})
    /\ address' = [address EXCEPT ![Curr.opes[1]] = @ - ra(curr)]
    /\ Step("done")
    /\ UNCHANGED <<input, frame, curr, code>>

GenBody ==
    /\ Gen({"BODY", "IO"})
    /\ Step("done")
    /\ UNCHANGED <<input, address, frame, curr, code>>

Release == sp + func_size[curr] + ra(curr)

(* gen_asm_return.  What is generated next is reached by a jump from       *)
(* before the return, so for it $sp has not moved.                         *)
GenReturn ==
    /\ Gen({"RET"})
    /\ exits' = exits \cup {[sp |-> Release, ra |-> IF has_subroutine[curr] THEN sp + sp_offset ELSE 0]}
    /\ Step("done")
    /\ UNCHANGED <<input, address, frame, curr, sp, sp_offset, nr_arg, ra_at>>

GenArg ==
    /\ Gen({"ARG"})
    /\ nr_arg' = nr_arg + 1
    /\ Step("done")
    /\ UNCHANGED <<input, address, frame, curr, sp, sp_offset, ra_at, exits>>

(* The i-th argument of a call, from the $sp the callee starts with.       *)
ArgOffset(i) == (i - 1) * 4

(* Mutant of GenCall: sp_offset ignores the space of the arguments.        *)
GenCall_NoOffset ==
    /\ Gen({"CALL"})
    /\ sp' = sp - 4 * nr_arg
    /\ phase' = "called"
    /\ UNCHANGED <<input, address, frame, curr, pos, k, sp_offset, nr_arg, ra_at, exits>>

(* gen_asm_call up to jal, with the arguments in place, and after it.      *)
GenCall ==
    /\ Gen({"CALL"})
    /\ sp' = sp - 4 * nr_arg
    /\ sp_offset' = sp_offset + 4 * nr_arg
    /\ phase' = "called"
    /\ UNCHANGED <<input, address, frame, curr, pos, k, nr_arg, ra_at, exits>>

Resume ==
    /\ k' = 1
    /\ IF pos < nr_instr THEN pos' = pos + 1 /\ phase' = "gen" ELSE pos' = 1 /\ phase' = "done"

GenReturned ==
    /\ phase = "called"
    /\ sp' = sp + 4 * nr_arg
    /\ sp_offset' = sp_offset - 4 * nr_arg
    /\ nr_arg' = 0
    /\ Resume
    /\ UNCHANGED <<input, address, frame, curr, ra_at, exits>>

Done == phase \in {"done", "aborted"} /\ UNCHANGED vars

Next ==
    \/ \E s \in Sizes \cup {4} : new_operand(s)
    \/ EmitFunc \/ EmitParam \/ EmitBody \/ Overflow \/ EndTranslate
    \/ LayoutFunc \/ LayoutOperand \/ LayoutBody \/ LayoutParam
    \/ GenFunc \/ GenParam \/ GenBody \/ GenReturn \/ GenArg \/ GenCall \/ GenReturned
    \/ Done

Spec == Init /\ [][Next]_vars

(***************************************************************************)
(* Properties                                                              *)
(***************************************************************************)
TypeOK ==
    /\ phase \in {"translate", "layout", "gen", "called", "done", "aborted"}
    /\ instr_buffer \in Seq([type : Types, opes : Seq(1 .. nr_ope)])
    /\ nr_instr <= MAX_LINE
    /\ size \in Seq(Nat) /\ first \in 1 .. nr_ope + 1
    /\ address \in [1 .. nr_ope -> Int]
    /\ exists \subseteq 1 .. nr_ope /\ param_size \in Nat
    /\ curr \in 0 .. nr_instr
    /\ func_size \in [1 .. MAX_LINE -> Nat] /\ has_subroutine \in [1 .. MAX_LINE -> BOOLEAN]
    /\ pos \in Nat \ {0} /\ k \in Nat \ {0}
    /\ sp \in Int /\ sp_offset \in Nat /\ nr_arg \in Nat /\ ra_at \in Int
    /\ exits \subseteq [sp : Int, ra : Int]

(* A point of a function's body: FUNC and every PARAM have been generated. *)
InBody == phase = "called" \/ (phase = "gen" /\ Curr.type \notin {"FUNC", "PARAM"})

(* Where "%d($sp)" with sp_offset - address finds the operand.             *)
Loc(o) == sp + sp_offset - address[o]

Body == {l \in curr .. nr_instr : \A f \in curr + 1 .. l : instr_buffer[f].type # "FUNC"}

Params == {l \in Body : instr_buffer[l].type = "PARAM"}

Locals ==
    UNION {Range(instr_buffer[l].opes) : l \in Body} \ {instr_buffer[l].opes[1] : l \in Params}

(* in_func_check, gen_asm_func: the slots of a function's operands overlap *)
(* neither each other, nor the saved $ra, nor the arguments of a call that *)
(* is being made, and they lie in the frame.                               *)
SlotsDisjoint ==
    InBody => \A o \in Locals :
        /\ Loc(o) >= sp
        /\ phase = "called" => \A i \in 1 .. nr_arg : sp + ArgOffset(i) + 4 <= Loc(o)
        /\ Loc(o) + size[o] <= -ra(curr)
        /\ \A p \in Locals \ {o} : Loc(o) + size[o] <= Loc(p) \/ Loc(p) + size[p] <= Loc(o)

(* gen_asm_call stores the i-th argument relative to the $sp the callee    *)
(* starts with; gen_asm_param and in_func_check look for the i-th          *)
(* parameter there, whether or not the callee saved $ra in between.        *)
ParamsWhereStored ==
    InBody => \A l \in Params : Loc(instr_buffer[l].opes[1]) = ArgOffset(l - curr)

(* gen_asm_return: every return of a function, whatever calls came before  *)
(* it, finds $ra where gen_asm_func stored it, above all slots, and takes  *)
(* $sp back to the caller's.                                               *)
FrameReleased ==
    \A e \in exits :
        /\ e.sp = 0
        /\ has_subroutine[curr] => e.ra = ra_at /\ ra_at = -4
=============================================================================
