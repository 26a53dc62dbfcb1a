----------------------------- MODULE RegAlloc -----------------------------
(***************************************************************************)
(* The register allocator (register.c) together with the machine that its  *)
(* instructions drive.                                                     *)
(*                                                                         *)
(* The state of code generation is a record.  Fields kept by the compiler: *)
(*   ope_in_reg, dirty      register.c:62-65                               *)
(*   next_use, liveness     the fields of every Operand                    *)
(* Fields of the running program, a basic block being straight-line code:  *)
(*   holds[r]   the operand whose current value register r contains, NULL  *)
(*              when it contains anything else                             *)
(*   saved[o]   the stack slot of o contains the current value of o        *)
(* and two records of what went wrong:                                     *)
(*   misread    operands for which an instruction read another value       *)
(*   fault      get_reg found no victim and indexed ope_in_reg[MAX_LINE]   *)
(* The current value of an operand is the one its latest definition gave   *)
(* it, so which values they are does not matter.                           *)
(***************************************************************************)
EXTENDS IR

CONSTANTS NR_T, NR_S  \* the sizes of T0..T7 and of S0..S7

ASSUME RegAssumption == NR_T \in Nat \ {0} /\ NR_S \in Nat \ {0}

TReg == 1 .. NR_T

SReg == NR_T + 1 .. NR_T + NR_S

Reg == TReg \cup SReg

NoReg == 0

State == [ope_in_reg : [Reg -> Operand \cup {NULL}],
          dirty      : [Reg -> BOOLEAN],
          next_use   : [Operand -> NextUse],
          liveness   : [Operand -> BOOLEAN],
          holds      : [Reg -> Operand \cup {NULL}],
          saved      : [Operand -> BOOLEAN],
          misread    : SUBSET Operand,
          fault      : BOOLEAN]

(* The lowest register of a set, as the scans from the lowest index find it. *)
Least(S) == IF S = {} THEN NoReg ELSE CHOOSE x \in S : \A y \in S : x <= y

RegOf(s, o) == Least({r \in Reg : s.ope_in_reg[r] = o})

(* The value is still wanted: the test of get_reg, push_all, gen_asm_call. *)
Wanted(s, o) == s.next_use[o] # MAX_LINE \/ s.liveness[o]

(***************************************************************************)
(* The instructions that move values.                                      *)
(***************************************************************************)
sw(s, r, o) == [s EXCEPT !.saved[o] = (s.holds[r] = o)]

lw(s, r, o) == [s EXCEPT !.holds[r] = IF s.saved[o] THEN o ELSE NULL]

li(s, r, c) == [s EXCEPT !.holds[r] = c]

(* An instruction reads register r for the value of o.                     *)
Read(s, r, o) ==
    [s EXCEPT !.misread = IF r \in Reg /\ s.holds[r] = o THEN @ ELSE @ \cup {o}]

(* o has no value any more: what registers and slot contain is an old one. *)
Forget(s, o) ==
    [s EXCEPT !.holds = [q \in Reg |-> IF s.holds[q] = o THEN NULL ELSE s.holds[q]],
              !.saved[o] = FALSE]

(* set_dirty(r) and an instruction that writes the new value of o to r.    *)
Define(s, r, o) == [Forget(s, o) EXCEPT !.holds[r] = o, !.dirty[r] = TRUE]

(***************************************************************************)
(* register.c                                                              *)
(***************************************************************************)
Free(s, R) == {r \in R : s.ope_in_reg[r] = NULL}

UseAt(s, r) == s.next_use[s.ope_in_reg[r]]

(* Mutant of Farthest: an operand that is not used again is no victim.     *)
Farthest_UsedOnly(s, R) ==
    {r \in R : /\ UseAt(s, r) \notin {NO_USE, MAX_LINE}
               /\ \A q \in R : UseAt(s, q) # MAX_LINE => UseAt(s, q) <= UseAt(s, r)}

(* The registers whose operand is used last, where the scan keeps the first. *)
Farthest(s, R) ==
    {r \in R : UseAt(s, r) > NO_USE /\ \A q \in R : UseAt(s, q) <= UseAt(s, r)}

(* The register get_reg returns for the group R.                           *)
Choice(s, R) == IF Free(s, R) # {} THEN Least(Free(s, R)) ELSE Least(Farthest(s, R))

(* Mutant of Evict: the victim is not backed up.                           *)
Evict_NoBackup(s, r) == [s EXCEPT !.ope_in_reg[r] = NULL]

(* Take r away from its operand, which is stored when it is still wanted.  *)
Evict(s, r) ==
    LET vic == s.ope_in_reg[r]
        stored == IF Wanted(s, vic) THEN sw(s, r, vic) ELSE s
    IN  IF vic = NULL THEN s ELSE [stored EXCEPT !.ope_in_reg[r] = NULL]

remove_value(s, o) ==
    [s EXCEPT !.ope_in_reg = [r \in Reg |-> IF s.ope_in_reg[r] = o THEN NULL ELSE s.ope_in_reg[r]]]

Group(o) == IF o \in Vars THEN SReg ELSE TReg

Bind(s, r, o) ==
    IF r = NoReg THEN [s EXCEPT !.fault = TRUE] ELSE [Evict(s, r) EXCEPT !.ope_in_reg[r] = o]

(* Mutant of allocate: the old register of o keeps its binding.            *)
allocate_KeepOld(s, o) == Bind(s, Choice(s, Group(o)), o)

allocate(s, o) ==
    LET s1 == remove_value(s, o) IN Bind(s1, Choice(s1, Group(o)), o)

Fill(s, r, o) == IF o \in Consts THEN li(s, r, o) ELSE lw(s, r, o)

ensure(s, o) ==
    IF RegOf(s, o) # NoReg THEN s
    ELSE LET s1 == allocate(s, o) IN Fill(s1, RegOf(s1, o), o)

Pushed(s, r) ==
    LET o == s.ope_in_reg[r] IN o # NULL /\ s.dirty[r] /\ Wanted(s, o)

push_all(s) ==
    [s EXCEPT !.saved = [o \in Operand |->
        LET P == {r \in Reg : s.ope_in_reg[r] = o /\ Pushed(s, r)}
        IN  IF P = {} THEN s.saved[o] ELSE \A r \in P : s.holds[r] = o]]

(* Mutant of clear_reg_state: the bindings survive the block.              *)
clear_reg_state_DirtyOnly(s) == [s EXCEPT !.dirty = [r \in Reg |-> FALSE]]

clear_reg_state(s) ==
    [s EXCEPT !.ope_in_reg = [r \in Reg |-> NULL], !.dirty = [r \in Reg |-> FALSE]]

(* Other code runs: the registers contain values of its own afterwards.    *)
Clobber(s) == [s EXCEPT !.holds = [r \in Reg |-> NULL]]
=============================================================================
