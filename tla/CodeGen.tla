----------------------------- MODULE CodeGen -----------------------------
(***************************************************************************)
(* From the instruction buffer to MIPS code: liveness and next-use         *)
(* analysis per basic block (ir.c), then one handler per instruction       *)
(* (asm.c) in the block loop of print_instr, over the allocator of module  *)
(* RegAlloc.  The instructions are whatever MayFollow lets translation     *)
(* append, so a run covers every function of its alphabet and length.      *)
(*                                                                         *)
(* Only one path enters the model's next block, the fall-through.  For     *)
(* variables this loses nothing: VarsSavedAtBlockEntry holds whichever     *)
(* block was left, so every path arrives with the same saved variables.    *)
(***************************************************************************)
EXTENDS RegAlloc, FiniteSets

CONSTANT Kinds  \* the types of instruction translation emits

ASSUME KindsAssumption == Kinds \subseteq IRType

VARIABLES
    phase,         \* where the compiler is
    instr_buffer,  \* ir.c:19
    info,          \* rd_info, rs_info, rt_info of each instruction
    cg,            \* allocator and machine, a record of RegAlloc!State
    cur,           \* the instruction being analysed or generated
    start, end,    \* the block being analysed: start .. end - 1
    nr_arg,        \* asm.c:25
    arg, todo      \* gen_asm_call: last ARG found, arguments still to store

vars == <<phase, instr_buffer, info, cg, cur, start, end, nr_arg, arg, todo>>

Phase == {"translate", "init", "iterate", "gen", "args", "done", "aborted"}

OptimizeInfo == [liveness : BOOLEAN, next_use : NextUse]

Zero == [liveness |-> FALSE, next_use |-> 0]

Info == [rd : OptimizeInfo, rs : OptimizeInfo, rt : OptimizeInfo]

NoInfo == [rd |-> Zero, rs |-> Zero, rt |-> Zero]

nr_instr == Len(instr_buffer)

Curr == instr_buffer[cur]

Last == IsLast(instr_buffer, cur)

Init ==
    /\ phase = "translate"
    /\ instr_buffer = <<>>
    /\ info = <<>>
    /\ cg = [ope_in_reg |-> [r \in Reg |-> NULL],
             dirty      |-> [r \in Reg |-> FALSE],
             next_use   |-> [o \in Operand |-> 0],
             liveness   |-> [o \in Operand |-> o \in Vars],
             holds      |-> [r \in Reg |-> NULL],
             saved      |-> [o \in Operand |-> o \in Vars],
             misread    |-> {},
             fault      |-> FALSE]
    /\ cur = 1 /\ start = 1 /\ end = 1
    /\ nr_arg = 0 /\ arg = 1 /\ todo = 0

(* Mutant of new_instr: the capacity of the buffer is not checked.         *)
new_instr_Unbounded(ir) ==
    /\ phase = "translate"
    /\ MayFollow(instr_buffer, ir)
    /\ instr_buffer' = Append(instr_buffer, ir)
    /\ info' = Append(info, NoInfo)
    /\ UNCHANGED <<phase, cg, cur, start, end, nr_arg, arg, todo>>

new_instr(ir) ==
    /\ phase = "translate"
    /\ nr_instr < MAX_LINE
    /\ MayFollow(instr_buffer, ir)
    /\ instr_buffer' = Append(instr_buffer, ir)
    /\ info' = Append(info, NoInfo)
    /\ UNCHANGED <<phase, cg, cur, start, end, nr_arg, arg, todo>>

Overflow ==  \* assert(nr_instr < MAX_LINE)
    /\ phase = "translate"
    /\ nr_instr = MAX_LINE
    /\ phase' = "aborted"
    /\ UNCHANGED <<instr_buffer, info, cg, cur, start, end, nr_arg, arg, todo>>

EndTranslate ==
    /\ phase = "translate"
    /\ instr_buffer # <<>>
    /\ ~ArgPending(instr_buffer)
    /\ phase' = "init"
    /\ UNCHANGED <<instr_buffer, info, cg, cur, start, end, nr_arg, arg, todo>>

(***************************************************************************)
(* optimize_in_block, optimize_liveness                                    *)
(***************************************************************************)
Mentioned(lo, hi) ==
    UNION {({instr_buffer[k].rd} \ {NULL}) \cup Sources(instr_buffer[k]) : k \in lo .. hi}

LivenessInit ==
    /\ phase = "init"
    /\ \E e \in {e \in start + 1 .. nr_instr + 1 : IsBlock(instr_buffer, start, e)} :
           /\ end' = e
           /\ cur' = e - 1
           /\ LET M == Mentioned(start, e - 1)
              IN  cg' = [cg EXCEPT
                    !.liveness = [o \in Operand |-> IF o \in M THEN o \in Vars ELSE cg.liveness[o]],
                    !.next_use = [o \in Operand |-> IF o \in M THEN MAX_LINE ELSE cg.next_use[o]]]
    /\ phase' = "iterate"
    /\ UNCHANGED <<instr_buffer, info, start, nr_arg, arg, todo>>

Status(s, o) ==
    IF o = NULL THEN Zero
    ELSE [liveness |-> s.liveness[o], next_use |-> s.next_use[o]]

Define_Tmp(s, o) ==
    IF is_tmp(o) THEN [s EXCEPT !.liveness[o] = FALSE, !.next_use[o] = NO_USE] ELSE s

(* Mutant of Use_Tmp: the last use is kept instead of the next.            *)
Use_Tmp_Last(s, o, i) ==
    IF is_tmp(o) /\ s.next_use[o] = MAX_LINE
    THEN [s EXCEPT !.liveness[o] = TRUE, !.next_use[o] = Line(i)] ELSE s

Use_Tmp(s, o, i) ==
    IF is_tmp(o) THEN [s EXCEPT !.liveness[o] = TRUE, !.next_use[o] = Line(i)] ELSE s

NextIteration ==
    IF cur > start
    THEN /\ cur' = cur - 1
         /\ UNCHANGED <<phase, start>>
    ELSE IF end <= nr_instr
    THEN /\ phase' = "init"  \* the next block
         /\ start' = end
         /\ cur' = end
    ELSE /\ phase' = "gen"
         /\ start' = 1
         /\ cur' = 1

LivenessIterate ==
    /\ phase = "iterate"
    /\ info' = [info EXCEPT ![cur] = [rd |-> Status(cg, Curr.rd), rs |-> Status(cg, Curr.rs),
                                      rt |-> Status(cg, Curr.rt)]]
    /\ cg' = Use_Tmp(Use_Tmp(Define_Tmp(cg, Curr.rd), Curr.rs, cur), Curr.rt, cur)
    /\ NextIteration
    /\ UNCHANGED <<instr_buffer, end, nr_arg, arg, todo>>

(***************************************************************************)
(* The handlers of asm.c.  A register is fixed when ensure or allocate     *)
(* returns it and read when the instruction is emitted, after the later    *)
(* calls have had their effect.                                            *)
(***************************************************************************)
Compute0(s, d) ==  \* gen_asm_addr, gen_asm_read
    LET s1 == allocate(s, d) IN Define(s1, RegOf(s1, d), d)

Compute1(s, a, d) ==  \* gen_asm_assign, gen_asm_addi, gen_asm_load
    LET s1 == ensure(s, a)
        x  == RegOf(s1, a)
        s2 == allocate(s1, d)
    IN  Define(Read(s2, x, a), RegOf(s2, d), d)

Compute2(s, a, b, d) ==  \* gen_asm_mul, gen_asm_div, the last case of add and sub
    LET s1 == ensure(s, a)
        x  == RegOf(s1, a)
        s2 == ensure(s1, b)
        y  == RegOf(s2, b)
        s3 == allocate(s2, d)
    IN  Define(Read(Read(s3, x, a), y, b), RegOf(s3, d), d)

Use1(s, a) ==  \* gen_asm_write, gen_asm_return, one argument of gen_asm_call
    LET s1 == ensure(s, a) IN Read(s1, RegOf(s1, a), a)

Use2(s, a, b) ==  \* gen_asm_store, gen_asm_br
    LET s1 == ensure(s, a)
        x  == RegOf(s1, a)
        s2 == ensure(s1, b)
    IN  Read(Read(s2, x, a), RegOf(s2, b), b)

gen_asm_add(s, ir) ==
    IF ir.rt \in Consts THEN Compute1(s, ir.rs, ir.rd)
    ELSE IF ir.rs \in Consts THEN Compute1(s, ir.rt, ir.rd)
    ELSE Compute2(s, ir.rs, ir.rt, ir.rd)

gen_asm_sub(s, ir) ==
    IF ir.rt \in Consts THEN Compute1(s, ir.rs, ir.rd) ELSE Compute2(s, ir.rs, ir.rt, ir.rd)

(***************************************************************************)
(* The block loop of print_instr.                                          *)
(***************************************************************************)
Update(s, o, inf) ==
    IF o = NULL THEN s
    ELSE [s EXCEPT !.liveness[o] = inf.liveness, !.next_use[o] = inf.next_use]

(* Mutant of Before: the sources are updated with the destination.         *)
Before_AllOperands(s) ==
    IF ~Last
    THEN Update(Update(Update(s, Curr.rd, info[cur].rd), Curr.rs, info[cur].rs),
                Curr.rt, info[cur].rt)
    ELSE IF can_jump(Curr) THEN push_all(s) ELSE s

Before(s) ==
    IF ~Last THEN Update(s, Curr.rd, info[cur].rd)
    ELSE IF can_jump(Curr) THEN push_all(s) ELSE s

(* A block that returns leaves its variables behind; the block that follows *)
(* is entered by a jump, from a block that saved them.                     *)
Leave(s) ==
    IF Curr.type = "RET" THEN [s EXCEPT !.saved = [o \in Operand |-> o \in Vars \/ s.saved[o]]]
    ELSE s

(* Mutant of After: only jumps push the variables.                         *)
After_NoPush(s) ==
    IF ~Last THEN Update(Update(s, Curr.rs, info[cur].rs), Curr.rt, info[cur].rt)
    ELSE Clobber(clear_reg_state(Leave(s)))

After(s) ==
    IF ~Last THEN Update(Update(s, Curr.rs, info[cur].rs), Curr.rt, info[cur].rt)
    ELSE Clobber(clear_reg_state(Leave(
             IF can_jump(Curr) \/ Curr.type = "RET" THEN s ELSE push_all(s))))

Advance ==
    IF cur < nr_instr THEN cur' = cur + 1 /\ phase' = "gen"
    ELSE cur' = cur /\ phase' = "done"

Gen(types) == phase = "gen" /\ Curr.type \in types

Emit(s) ==  \* the handler turned Before(cg) into s
    /\ cg' = After(s)
    /\ Advance
    /\ UNCHANGED <<instr_buffer, info, start, end>>

NoCall == UNCHANGED <<nr_arg, arg, todo>>

GenNoCode == Gen(NoCode \cup {"JMP"}) /\ Emit(Before(cg)) /\ NoCall

GenAssign == Gen({"ASSIGN", "DEREF_R"}) /\ Emit(Compute1(Before(cg), Curr.rs, Curr.rd)) /\ NoCall

GenAdd == Gen({"ADD"}) /\ Emit(gen_asm_add(Before(cg), Curr)) /\ NoCall

GenSub == Gen({"SUB"}) /\ Emit(gen_asm_sub(Before(cg), Curr)) /\ NoCall

GenMul == Gen({"MUL"}) /\ Emit(Compute2(Before(cg), Curr.rs, Curr.rt, Curr.rd)) /\ NoCall

GenAddr == Gen({"ADDR", "READ"}) /\ Emit(Compute0(Before(cg), Curr.rd)) /\ NoCall

GenStore == Gen({"DEREF_L"}) /\ Emit(Use2(Before(cg), Curr.rt, Curr.rs)) /\ NoCall

GenBranch == Gen({"BR"}) /\ Emit(Use2(Before(cg), Curr.rs, Curr.rt)) /\ NoCall

GenWrite == Gen({"WRITE", "RET"}) /\ Emit(Use1(Before(cg), Curr.rs)) /\ NoCall

GenArg ==
    /\ Gen({"ARG"})
    /\ Emit(Before(cg))
    /\ nr_arg' = nr_arg + 1
    /\ UNCHANGED <<arg, todo>>

(* Mutant of GenCall: nothing is pushed before the call.                   *)
GenCall_NoPush ==
    /\ Gen({"CALL"})
    /\ cg' = Before(cg)
    /\ phase' = "args"
    /\ arg' = cur
    /\ todo' = nr_arg
    /\ UNCHANGED <<instr_buffer, info, cur, start, end, nr_arg>>

(* gen_asm_call as its loop runs: everything still wanted is pushed, the   *)
(* arguments are stored from the last ARG back, and the call is made.      *)
GenCall ==
    /\ Gen({"CALL"})
    /\ cg' = push_all(Before(cg))
    /\ phase' = "args"
    /\ arg' = cur
    /\ todo' = nr_arg
    /\ UNCHANGED <<instr_buffer, info, cur, start, end, nr_arg>>

StoreArg ==
    /\ phase = "args"
    /\ todo > 0
    /\ \E a \in 1 .. arg - 1 :
           /\ instr_buffer[a].type = "ARG"
           /\ \A k \in a + 1 .. arg - 1 : instr_buffer[k].type # "ARG"
           /\ cg' = Use1(cg, instr_buffer[a].rs)
           /\ arg' = a
    /\ todo' = todo - 1
    /\ UNCHANGED <<phase, instr_buffer, info, cur, start, end, nr_arg>>

Result(s, d) ==
    LET s1 == allocate(clear_reg_state(Clobber(s)), d)
        r  == RegOf(s1, d)
    IN  IF Wanted(s, d) THEN Define(s1, r, d)
        ELSE [Forget(s1, d) EXCEPT !.dirty[r] = TRUE]  \* no move from $v0

(* Mutant of Call: nr_arg is not reset.                                    *)
Call_KeepArgs ==
    /\ phase = "args"
    /\ todo = 0
    /\ Emit(Result(cg, Curr.rd))
    /\ UNCHANGED <<nr_arg, arg, todo>>

Call ==
    /\ phase = "args"
    /\ todo = 0
    /\ Emit(Result(cg, Curr.rd))
    /\ nr_arg' = 0
    /\ UNCHANGED <<arg, todo>>

Done == phase \in {"done", "aborted"} /\ UNCHANGED vars

Next ==
    \/ \E ir \in Emitted : ir.type \in Kinds /\ new_instr(ir)
    \/ Overflow \/ EndTranslate \/ LivenessInit \/ LivenessIterate
    \/ GenNoCode \/ GenAssign \/ GenAdd \/ GenSub \/ GenMul \/ GenAddr
    \/ GenStore \/ GenBranch \/ GenWrite \/ GenArg \/ GenCall \/ StoreArg \/ Call
    \/ Done

Spec == Init /\ [][Next]_vars

(***************************************************************************)
(* Properties                                                              *)
(***************************************************************************)
TypeOK ==
    /\ phase \in Phase
    /\ instr_buffer \in Seq(Emitted)
    /\ nr_instr <= MAX_LINE
    /\ info \in Seq(Info) /\ Len(info) = nr_instr
    /\ cg \in State
    /\ cur \in Nat /\ start \in Nat /\ end \in Nat
    /\ nr_arg \in Nat /\ arg \in Nat /\ todo \in Nat

Generating == phase \in {"gen", "args"}

(* The block being generated still reads o as a source of an instruction   *)
(* that has not been generated.                                            *)
ReadLater(o) ==
    \E k \in cur .. nr_instr :
        /\ SameBlock(instr_buffer, cur, k)
        /\ o \in Sources(instr_buffer[k])
        /\ \E d \in 1 .. cur - 1 : instr_buffer[d].rd = o

(* o was given to an ARG whose value gen_asm_call has yet to store.        *)
ReadByCall(o) ==
    \E a \in 1 .. (IF phase = "args" THEN arg ELSE cur) - 1 :
        /\ instr_buffer[a].type = "ARG" /\ instr_buffer[a].rs = o
        /\ \A k \in a .. cur - 1 : instr_buffer[k].type # "CALL"

InRegister(o) == \E r \in Reg : cg.ope_in_reg[r] = o /\ cg.holds[r] = o

(* register.c: what ope_in_reg says is true.  A register bound to a        *)
(* variable or a constant contains its current value, operands keep to the *)
(* group allocate picks for them, and none is bound to two registers, of   *)
(* which ensure could return the stale one.                                *)
RegistersCoherent ==
    \A r \in Reg : LET o == cg.ope_in_reg[r] IN o # NULL =>
        /\ r \in Group(o)
        /\ o \in Vars \cup Consts => cg.holds[r] = o
        /\ \A q \in Reg : cg.ope_in_reg[q] = o => q = r

(* get_reg, push_all: the current value of a variable, and of a temporary  *)
(* the block has yet to read, is always in its stack slot or in a register *)
(* that is bound to it.  No eviction and no call discards the only copy.   *)
NothingLost ==
    Generating => \A o \in Vars \cup Temps :
        o \in Vars \/ ReadLater(o) => cg.saved[o] \/ InRegister(o)

(* print_instr: when a basic block begins, every variable is in its stack  *)
(* slot, where the block, reached from anywhere, will look for it.         *)
VarsSavedAtBlockEntry ==
    (phase = "gen" /\ is_leader(instr_buffer, cur)) \/ phase = "done" =>
        \A v \in Vars : cg.saved[v]

(* print_instr, get_reg: because the next use of a source is only updated  *)
(* after its instruction, loading the second source never takes the        *)
(* register of a temporary that is the first one (ir.c:247-252).           *)
TempReadsIntact == cg.misread \cap Temps = {}

(* ensure: every register an instruction reads contains the current value  *)
(* of the operand it stands for.                                           *)
ReadsIntact == cg.misread = {}

(* push_all says "Use next_use to avoid store dead temporary variables":   *)
(* a temporary whose value is in no register and not in its slot is dead,  *)
(* no instruction and no call reads it again.                              *)
UnstoredAreDead ==
    Generating => \A t \in Temps :
        ReadLater(t) \/ ReadByCall(t) => cg.saved[t] \/ InRegister(t)

(* gen_asm_call: "It is expected that there always have enough ARG IRs     *)
(* that match [nr_arg]".  The arguments still to store are exactly the ARG *)
(* instructions since the previous call that the scan has not passed.      *)
ArgsMatch ==
    phase = "args" =>
        todo = Cardinality({a \in 1 .. arg - 1 :
                   /\ instr_buffer[a].type = "ARG"
                   /\ \A k \in a .. cur - 1 : instr_buffer[k].type # "CALL"})

(* get_reg: when all registers of the group are taken there is a victim    *)
(* (the TEST of register.c:103).                                           *)
VictimFound == ~cg.fault

(* optimize_liveness: what the pass leaves for print_instr is, for each    *)
(* temporary an instruction uses, the next line of the block that reads it *)
(* and MAX_LINE if there is none.                                          *)
NextUseExact ==
    Generating => \A i \in 1 .. nr_instr, k \in {"rd", "rs", "rt"} :
        LET o == instr_buffer[i][k]
            later == {l \in i + 1 .. nr_instr :
                        SameBlock(instr_buffer, i, l) /\ o \in Sources(instr_buffer[l])}
        IN  o \in Temps => info[i][k].next_use =
                IF later = {} THEN MAX_LINE ELSE Line(Least(later))
=============================================================================
