---------------------------- MODULE Preprocess ----------------------------
(***************************************************************************)
(* preprocess_ir (ir.c), the peephole pass between translation and code    *)
(* generation: it counts the references to each label, turns a branch over *)
(* a jump into the opposite branch, deletes jumps to the next instruction, *)
(* merges consecutive labels and closes the gaps.                          *)
(*                                                                         *)
(* Only control flow matters to it.  An instruction is a branch (relop), a *)
(* jump, a label, a return, or "OP", any other one.  src is where it stood *)
(* when translation ended; the pass never reads it.                        *)
(***************************************************************************)
EXTENDS Integers, Sequences, FiniteSets

CONSTANTS Labels,   \* the OPE_LABEL operands
          Relops,   \* the branch types translation emits
          NULL,
          MAX_LINE  \* the capacity of instr_buffer

VARIABLES
    phase,         \* which loop of the pass is running
    instr_buffer,
    cnt,           \* label_ref_cnt of each label
    freed,         \* the labels deref_label has freed
    i,             \* the loop variable
    preLabel,      \* position of the label others are merged into, 0 if none
    size,          \* compress_ir: the instructions kept so far
    orig           \* the buffer when translation ended

vars == <<phase, instr_buffer, cnt, freed, i, preLabel, size, orig>>

get_relop_anti(r) ==
    CASE r = "BEQ" -> "BNE" [] r = "BNE" -> "BEQ" [] r = "BLT" -> "BGE"
      [] r = "BGE" -> "BLT" [] r = "BLE" -> "BGT" [] r = "BGT" -> "BLE"

is_branch(ir) == ir.type \in {"BEQ", "BLT", "BLE", "BGT", "BGE", "BNE"}

is_label(ir) == ir.type = "LABEL"

Refers(ir) == is_branch(ir) \/ ir.type = "JMP"

nr_instr == Len(instr_buffer)

Kill(ir) == [ir EXCEPT !.type = "NOP", !.label = NULL]

(***************************************************************************)
(* Translation emits each label once, and every label it jumps to.         *)
(***************************************************************************)
Placed(buf) == {buf[k].label : k \in {j \in DOMAIN buf : is_label(buf[j])}}

Referred(buf) == {buf[k].label : k \in {j \in DOMAIN buf : Refers(buf[j])}}

Init ==
    /\ phase = "translate"
    /\ instr_buffer = <<>> /\ orig = <<>>
    /\ cnt = [l \in Labels |-> 0]
    /\ freed = {}
    /\ i = 1 /\ preLabel = 0 /\ size = 0

(* Mutant of new_instr: the capacity of the buffer is not checked.         *)
new_instr_Unbounded(t, l) ==
    /\ phase = "translate"
    /\ t = "LABEL" => l \notin Placed(instr_buffer)
    /\ instr_buffer' = Append(instr_buffer, [type |-> t, label |-> l, src |-> nr_instr + 1])
    /\ UNCHANGED <<phase, cnt, freed, i, preLabel, size, orig>>

new_instr(t, l) ==
    /\ phase = "translate"
    /\ nr_instr < MAX_LINE
    /\ t = "LABEL" => l \notin Placed(instr_buffer)
    /\ instr_buffer' = Append(instr_buffer, [type |-> t, label |-> l, src |-> nr_instr + 1])
    /\ UNCHANGED <<phase, cnt, freed, i, preLabel, size, orig>>

Overflow ==  \* assert(nr_instr < MAX_LINE)
    /\ phase = "translate"
    /\ nr_instr = MAX_LINE
    /\ phase' = "aborted"
    /\ UNCHANGED <<instr_buffer, cnt, freed, i, preLabel, size, orig>>

EndTranslate ==
    /\ phase = "translate"
    /\ Referred(instr_buffer) \subseteq Placed(instr_buffer)
    /\ orig' = instr_buffer
    /\ phase' = "count"
    /\ UNCHANGED <<instr_buffer, cnt, freed, i, preLabel, size>>

(***************************************************************************)
(* The loops.  Goto(p, n) ends one after its n-th iteration and enters p.  *)
(***************************************************************************)
Goto(p, n) ==
    IF i < n THEN i' = i + 1 /\ phase' = phase ELSE i' = 1 /\ phase' = p

CountRefs ==
    /\ phase = "count"
    /\ IF i <= nr_instr /\ Refers(instr_buffer[i])
       THEN cnt' = [cnt EXCEPT ![instr_buffer[i].label] = @ + 1] ELSE cnt' = cnt
    /\ Goto("pattern", nr_instr)
    /\ UNCHANGED <<instr_buffer, freed, preLabel, size, orig>>

BranchOverJump(buf, k) ==
    /\ is_branch(buf[k])
    /\ buf[k + 1].type = "JMP"
    /\ is_label(buf[k + 2]) /\ buf[k].label = buf[k + 2].label

JumpToNext(buf, k) ==
    /\ buf[k].type = "JMP"
    /\ is_label(buf[k + 1]) /\ buf[k + 1].label = buf[k].label

(* Mutant of deref_label: a label is deleted with its first reference.     *)
deref_label_Always(buf, k) ==
    /\ instr_buffer' = [buf EXCEPT ![k] = Kill(buf[k])]
    /\ freed' = freed \cup {buf[k].label}
    /\ cnt' = [cnt EXCEPT ![buf[k].label] = @ - 1]

(* deref_label on the label at k, after which the buffer is buf but for it. *)
deref_label(buf, k) ==
    LET l == buf[k].label
    IN  /\ cnt' = [cnt EXCEPT ![l] = @ - 1]
        /\ IF cnt[l] = 1
           THEN /\ instr_buffer' = [buf EXCEPT ![k] = Kill(buf[k])]
                /\ freed' = freed \cup {l}
           ELSE instr_buffer' = buf /\ freed' = freed

(* Mutant of Invert: the branch keeps its condition.                       *)
Invert_SameRelop(buf, k) ==
    [buf EXCEPT ![k].label = buf[k + 1].label, ![k + 1] = Kill(buf[k + 1])]

Invert(buf, k) ==
    [buf EXCEPT ![k].type = get_relop_anti(buf[k].type),
                ![k].label = buf[k + 1].label,
                ![k + 1] = Kill(buf[k + 1])]

Simplify ==
    /\ phase = "pattern"
    /\ IF i + 2 <= nr_instr /\ BranchOverJump(instr_buffer, i)
       THEN deref_label(Invert(instr_buffer, i), i + 2)
       ELSE IF i + 2 <= nr_instr /\ JumpToNext(instr_buffer, i)
       THEN deref_label([instr_buffer EXCEPT ![i] = Kill(instr_buffer[i])], i + 1)
       ELSE UNCHANGED <<instr_buffer, cnt, freed>>
    /\ Goto("merge", nr_instr - 2)
    /\ UNCHANGED <<preLabel, size, orig>>

replace_operand_global(newbie, old) ==
    [k \in DOMAIN instr_buffer |->
        IF instr_buffer[k].label = old
        THEN [instr_buffer[k] EXCEPT !.label = newbie] ELSE instr_buffer[k]]

(* Mutant of AddCount: the references of the merged label are forgotten.   *)
AddCount_Skip(l, m) == cnt

AddCount(l, m) == [cnt EXCEPT ![l] = @ + cnt[m]]

MergeLabels ==
    /\ phase = "merge"
    /\ LET here == i <= nr_instr /\ is_label(instr_buffer[i])
           pre == instr_buffer[preLabel].label
           old == instr_buffer[i].label
       IN  IF here /\ preLabel # 0
           THEN /\ cnt' = AddCount(pre, old)
                /\ instr_buffer' = [replace_operand_global(pre, old) EXCEPT ![i] = Kill(@)]
                /\ UNCHANGED preLabel
           ELSE /\ preLabel' = IF here THEN i ELSE 0
                /\ UNCHANGED <<cnt, instr_buffer>>
    /\ Goto("compress", nr_instr)
    /\ UNCHANGED <<freed, size, orig>>

(* Mutant of Kept: the loop ends one instruction early.                    *)
Kept_NotLast(k) == k < nr_instr /\ instr_buffer[k].type # "NOP"

Kept(k) == k <= nr_instr /\ instr_buffer[k].type # "NOP"

(* instr[size++] = instr[index]                                            *)
Moved(k) == [instr_buffer EXCEPT ![size + 1] = instr_buffer[k]]

(* One iteration in place; the last one is followed by the assignment of   *)
(* the result to nr_instr.                                                 *)
compress_ir ==
    /\ phase = "compress"
    /\ LET kept == size + (IF Kept(i) THEN 1 ELSE 0)
           buf == IF Kept(i) THEN Moved(i) ELSE instr_buffer
       IN  /\ size' = kept
           /\ instr_buffer' = IF i < nr_instr THEN buf ELSE SubSeq(buf, 1, kept)
    /\ Goto("done", nr_instr)
    /\ UNCHANGED <<cnt, freed, preLabel, orig>>

Done == phase \in {"done", "aborted"} /\ UNCHANGED vars

Next ==
    \/ \E t \in {"OP", "RET"} : new_instr(t, NULL)
    \/ \E t \in Relops \cup {"JMP", "LABEL"}, l \in Labels : new_instr(t, l)
    \/ Overflow \/ EndTranslate \/ CountRefs \/ Simplify \/ MergeLabels \/ compress_ir \/ Done

Spec == Init /\ [][Next]_vars

(***************************************************************************)
(* Control flow, as the machine will follow it.                            *)
(***************************************************************************)
Holds(r, ord) ==
    ord \in CASE r = "BEQ" -> {"eq"} [] r = "BNE" -> {"lt", "gt"}
              [] r = "BLT" -> {"lt"} [] r = "BGE" -> {"eq", "gt"}
              [] r = "BLE" -> {"lt", "eq"} [] r = "BGT" -> {"gt"}

At(buf, l) == CHOOSE k \in DOMAIN buf : is_label(buf[k]) /\ buf[k].label = l

EXIT == 0

LOOP == -1

(* The src of the instruction with an effect that runs first from k on.  A *)
(* loop of jumps alone has none.                                           *)
Land(buf, k) ==
    LET n == Len(buf)
        go[j \in 1 .. n + 1, f \in 0 .. n] ==  \* f: jumps left to follow
            IF j > n THEN EXIT
            ELSE IF buf[j].type \in {"LABEL", "NOP"} THEN go[j + 1, f]
            ELSE IF buf[j].type # "JMP" THEN buf[j].src
            ELSE IF f = 0 THEN LOOP ELSE go[At(buf, buf[j].label), f - 1]
    IN  go[k, n]

(* What runs after k when the operands of a branch compare as ord.         *)
After(buf, k, ord) ==
    IF buf[k].type = "RET" THEN EXIT
    ELSE IF is_branch(buf[k]) /\ Holds(buf[k].type, ord) THEN Land(buf, At(buf, buf[k].label))
    ELSE Land(buf, k + 1)

(***************************************************************************)
(* Properties                                                              *)
(***************************************************************************)
Instr == [type : {"OP", "RET", "JMP", "LABEL", "NOP", "BEQ", "BLT", "BLE", "BGT", "BGE", "BNE"},
          label : Labels \cup {NULL}, src : 1 .. MAX_LINE]

TypeOK ==
    /\ phase \in {"translate", "count", "pattern", "merge", "compress", "done", "aborted"}
    /\ instr_buffer \in Seq(Instr) /\ nr_instr <= MAX_LINE
    /\ orig \in Seq(Instr)
    /\ cnt \in [Labels -> Nat] /\ freed \subseteq Labels
    /\ i \in 1 .. MAX_LINE + 1 /\ preLabel \in 0 .. MAX_LINE
    /\ size \in 0 .. MAX_LINE

Working == phase \in {"pattern", "merge", "compress", "done"}

(* The code as it stands: while compress_ir runs, what it has kept and     *)
(* what it has not read yet, without the gap between them.                 *)
Code ==
    IF phase = "compress"
    THEN SubSeq(instr_buffer, 1, size) \o SubSeq(instr_buffer, i, nr_instr) ELSE instr_buffer

(* operand.h: label_ref_cnt of a label that is still there is the number   *)
(* of jumps and branches to it, through inversion, deletion and merging.   *)
CountsExact ==
    Working => \A l \in Placed(Code) :
        cnt[l] = Cardinality({k \in DOMAIN Code : Refers(Code[k]) /\ Code[k].label = l})

(* deref_label frees a label and its instruction only when no jump or      *)
(* branch refers to it, and merging redirects every reference: whatever is *)
(* jumped to exists, at one place.                                         *)
NoDanglingLabel ==
    Working => /\ Referred(Code) \subseteq Placed(Code)
               /\ Placed(Code) \cap freed = {}
               /\ \A j, k \in DOMAIN Code :
                      is_label(Code[j]) /\ is_label(Code[k]) /\ Code[j].label = Code[k].label => j = k

(* preprocess_ir changes no behaviour: the code begins with the same       *)
(* instruction and, after each one that is left and each outcome of its    *)
(* comparison, goes on with the same one as the code that was translated.  *)
(* This holds after every iteration of every loop, not just in the end.    *)
SameFlow ==
    Working =>
        /\ Land(Code, 1) = Land(orig, 1)
        /\ \A k \in DOMAIN Code, ord \in {"lt", "eq", "gt"} :
               Code[k].type \notin {"NOP", "LABEL", "JMP"} =>
                   After(Code, k, ord) = After(orig, Code[k].src, ord)

(* compress_ir writes into the array it reads: it overwrites nothing that  *)
(* it still has to read and copies nothing twice.  What is left is in the  *)
(* order of translation, with every branch and every instruction that has  *)
(* an effect, reachable or not, and without a NOP in the end (gen_asm has  *)
(* no handler for one).                                                    *)
KeptInOrder ==
    Working =>
        /\ \A j, k \in DOMAIN Code : j < k => Code[j].src < Code[k].src
        /\ \A n \in DOMAIN orig : orig[n].type \notin {"JMP", "LABEL"} =>
               \E k \in DOMAIN Code :
                   Code[k].src = n /\ (is_branch(orig[n]) \/ Code[k].type = orig[n].type)
        /\ phase = "done" => \A k \in DOMAIN Code : Code[k].type # "NOP"
=============================================================================
