----------------------------- MODULE Translate -----------------------------
(***************************************************************************)
(* From the syntax tree to three-address code (translate.c): integer       *)
(* expressions, assignments, comparisons as values and as conditions, and  *)
(* all statements.  A program is translated in one step and its code then  *)
(* runs, one instruction per step; the meaning of the tree, computed on    *)
(* the side, is what it has to show.                                       *)
(*                                                                         *)
(* A tree is a record with its production in op.  An operand is a record   *)
(* [k, v] of its kind and its number or value.  The translator's state is  *)
(* [code, nr_ope, nr_label].  Integers are as wide as WIDTH.               *)
(***************************************************************************)
EXTENDS Integers, Sequences, TLC

CONSTANTS Programs,  \* the function bodies translated
          NVARS,     \* variables, numbered from 1
          NULL,
          WIDTH,     \* bound: integers are in -WIDTH .. WIDTH - 1
          FUEL,      \* bound: loop iterations the reference follows
          MAX_IO     \* bound: values read, and values written, in a run

Vars == 1 .. NVARS

Value == -WIDTH .. WIDTH - 1

Wrap(n) == ((n + WIDTH) % (2 * WIDTH)) - WIDTH

VARIABLES
    phase,    \* "tree", "run", "returned", "trapped", and "cut" at a bound
    prog,     \* the body, a sequence of statements
    initial,  \* the variables when it starts
    meaning,  \* what the tree says it does
    code,     \* instr_buffer
    pc,
    env,      \* the operands that have a value
    nin,      \* values read; the i-th one is Input(i)
    out,      \* values written
    ret

vars == <<phase, prog, initial, meaning, code, pc, env, nin, out, ret>>

Input(i) == Wrap(i)  \* what the user enters

Exact(op, a, b) ==
    CASE op = "ADD" -> a + b [] op = "SUB" -> a - b [] op = "MUL" -> a * b

(* Mutant: the result is wider than an int.                                *)
Calc_Wide(op, a, b) == Exact(op, a, b)

Calc(op, a, b) == Wrap(Exact(op, a, b))

(* add, addi and sub trap when the result does not fit; mul wraps.         *)
Traps(op, a, b) == op # "MUL" /\ Exact(op, a, b) \notin Value

Holds(relop, a, b) ==
    CASE relop = "BEQ" -> a = b [] relop = "BNE" -> a # b [] relop = "BLT" -> a < b
      [] relop = "BLE" -> a <= b [] relop = "BGT" -> a > b [] relop = "BGE" -> a >= b

(***************************************************************************)
(* Operands and instructions                                               *)
(***************************************************************************)
Ope(kind, v) == [k |-> kind, v |-> v]

Is(o, kind) == IF o = NULL THEN FALSE ELSE o.k = kind

Result(dst, t) == [dst |-> dst, t |-> t]

(* new_operand(OPE_TEMP) is Ope("TEMP", t.nr_ope) and leaves Used(t).      *)
Temp(t) == Ope("TEMP", t.nr_ope)

Used(t) == [t EXCEPT !.nr_ope = @ + 1]

Label(t, i) == Ope("LABEL", t.nr_label + i)

Labels(t, n) == [t EXCEPT !.nr_label = @ + n]

new_instr(t, type, rs, rt, rd) ==
    [t EXCEPT !.code = Append(@, [type |-> type, rs |-> rs, rt |-> rt, rd |-> rd])]

label(t, l) == new_instr(t, "LABEL", l, NULL, NULL)

jmp(t, l) == new_instr(t, "JMP", l, NULL, NULL)

replace_operand_global(t, newbie, old) ==
    [t EXCEPT !.code = [i \in DOMAIN t.code |->
        LET New(o) == IF o = old THEN newbie ELSE o
        IN  [t.code[i] EXCEPT !.rs = New(@), !.rt = New(@), !.rd = New(@)]]]

(***************************************************************************)
(* Expressions.  Exp is translate_dispatcher: dst is inherited, and the    *)
(* result has the operand that the expression's value is really in.        *)
(***************************************************************************)
RECURSIVE Exp(_, _, _)
RECURSIVE Stmt(_, _)

translate_exp_is_const(e, t) == Result(Ope("INT", e.v), t)

translate_exp_is_id(e, t) == Result(Ope("VAR", e.v), t)  \* of an int

(* Both operands, each with a temporary of its own to start from.          *)
Operands(e, t) ==
    LET l == Exp(e.l, Temp(t), Used(t))
        r == Exp(e.r, Temp(l.t), Used(l.t))
    IN  [l |-> l.dst, r |-> r.dst, t |-> r.t]

translate_binary_operation(e, dst, t) ==
    LET s == Operands(e, t)
    IN  IF dst = NULL THEN Result(dst, t)
        ELSE IF Is(s.l, "INT") /\ Is(s.r, "INT")
        THEN Result(Ope("INT", Calc(e.type, s.l.v, s.r.v)), s.t)
        ELSE Result(dst, new_instr(s.t, e.type, s.l, s.r, dst))

translate_unary_operation(e, dst, t) ==  \* the child is not translated
    Result(dst, new_instr(Used(t), "SUB", Ope("INT", 0), Temp(t), dst))

translate_exp_is_assign(e, dst, t) ==  \* to a variable
    LET s == Operands(e, t)
        d == IF dst = NULL THEN NULL ELSE s.l
    IN  IF Is(s.r, "TEMP") THEN Result(d, replace_operand_global(s.t, s.l, s.r))
        ELSE Result(d, new_instr(s.t, "ASSIGN", s.r, NULL, s.l))

translate_call(e, dst, t) ==  \* of read and write
    LET d == IF dst = NULL THEN Temp(t) ELSE dst
        u == IF dst = NULL THEN Used(t) ELSE t
        a == Exp(e.arg, Temp(u), Used(u))
    IN  IF e.op = "READ" THEN Result(d, new_instr(u, "READ", NULL, NULL, d))
        ELSE Result(d, new_instr(a.t, "WRITE", a.dst, NULL, NULL))

translate_cond_exp(e, true, false, t) ==
    LET s == Exp(e, Temp(t), Used(t))
    IN  jmp(new_instr(s.t, "BNE", s.dst, Ope("INT", 0), true), false)

translate_cond_relop(e, true, false, t) ==
    LET u == Used(Used(t))
        l == Exp(e.l, Temp(t), u)
        r == Exp(e.r, Temp(Used(t)), l.t)
    IN  jmp(new_instr(r.t, e.type, l.dst, r.dst, true), false)

translate_cond(e, true, false, t) ==
    IF e.op = "RELOP" THEN translate_cond_relop(e, true, false, t)
    ELSE translate_cond_exp(e, true, false, t)

(* Mutant: the value is left in the temporary, which an assignment would   *)
(* then turn into its variable.                                            *)
translate_cond_prepare_Temp(e, dst, t) ==
    LET true == Label(t, 0)
        false == Label(t, 1)
        Set(v, u) == IF dst = NULL THEN u ELSE new_instr(u, "ASSIGN", Ope("INT", v), NULL, dst)
        t1 == label(translate_cond(e, true, false, Set(0, Labels(t, 2))), true)
    IN  Result(dst, label(Set(1, t1), false))

translate_cond_prepare(e, dst, t) ==
    LET true == Label(t, 0)
        false == Label(t, 1)
        d == IF Is(dst, "TEMP") THEN Ope("BOOL", t.nr_ope) ELSE dst
        Set(v, u) == IF d = NULL THEN u ELSE new_instr(u, "ASSIGN", Ope("INT", v), NULL, d)
        t1 == Labels(IF Is(dst, "TEMP") THEN Used(t) ELSE t, 2)
        t2 == label(translate_cond(e, true, false, Set(0, t1)), true)
    IN  Result(d, label(Set(1, t2), false))

Exp(e, dst, t) ==
    CASE e.op = "INT" -> translate_exp_is_const(e, t)
      [] e.op = "ID" -> translate_exp_is_id(e, t)
      [] e.op = "BINARY" -> translate_binary_operation(e, dst, t)
      [] e.op = "UNARY" -> translate_unary_operation(e, dst, t)
      [] e.op = "ASSIGN" -> translate_exp_is_assign(e, dst, t)
      [] e.op = "RELOP" -> translate_cond_prepare(e, dst, t)
      [] e.op \in {"READ", "WRITE"} -> translate_call(e, dst, t)

(***************************************************************************)
(* Statements                                                              *)
(***************************************************************************)
translate_for(s, t) ==
    LET t1 == Exp(s.init, NULL, t).t
        begin == Label(t1, 0)
        true == Label(t1, 1)
        false == Label(t1, 2)
        next == Label(t1, 3)
        t2 == translate_cond(s.cond, true, false, label(Labels(t1, 4), begin))
        t3 == label(Stmt(s.body, label(t2, true)), next)
        t4 == Exp(s.step, NULL, t3).t
    IN  label(jmp(t4, begin), false)

(* Mutant: the label to return to is emitted with the jump.                *)
translate_while_LateLabel(s, t) ==
    LET true == Label(t, 0)
        false == Label(t, 1)
        begin == Label(t, 2)
        t1 == translate_cond(s.cond, true, false, Labels(t, 3))
        t2 == label(Stmt(s.body, label(t1, true)), begin)
    IN  label(jmp(t2, begin), false)

translate_while(s, t) ==
    LET true == Label(t, 0)
        false == Label(t, 1)
        begin == Label(t, 2)
        t1 == translate_cond(s.cond, true, false, label(Labels(t, 3), begin))
        t2 == Stmt(s.body, label(t1, true))
    IN  label(jmp(t2, begin), false)

translate_if_else(s, t) ==
    LET true == Label(t, 0)
        false == Label(t, 1)
        next == Label(t, 2)
        t1 == translate_cond(s.cond, true, false, Labels(t, 3))
        t2 == Stmt(s.then, label(t1, true))
        t3 == Stmt(s.else, label(jmp(t2, next), false))
    IN  label(t3, next)

translate_if(s, t) ==
    LET true == Label(t, 0)
        false == Label(t, 1)
        t1 == translate_cond(s.cond, true, false, Labels(t, 2))
    IN  label(Stmt(s.then, label(t1, true)), false)

translate_return(s, t) ==
    LET r == Exp(s.e, Temp(t), Used(t)) IN new_instr(r.t, "RET", r.dst, NULL, NULL)

translate_compst(s, t) ==
    LET go[i \in 0 .. Len(s.body)] == IF i = 0 THEN t ELSE Stmt(s.body[i], go[i - 1])
    IN  go[Len(s.body)]

Stmt(s, t) ==
    CASE s.op = "EXP" -> Exp(s.e, NULL, t).t
      [] s.op = "COMPST" -> translate_compst(s, t)
      [] s.op = "RETURN" -> translate_return(s, t)
      [] s.op = "IF" -> translate_if(s, t)
      [] s.op = "IF_ELSE" -> translate_if_else(s, t)
      [] s.op = "WHILE" -> translate_while(s, t)
      [] s.op = "FOR" -> translate_for(s, t)

Translated(p) ==
    Stmt([op |-> "COMPST", body |-> p], [code |-> <<>>, nr_ope |-> NVARS + 1, nr_label |-> 0]).code

(***************************************************************************)
(* What a tree means.  s is [env, nin, out, ret, fuel, overflow]; ret is   *)
(* NULL until the function returns, fuel is -1 once a loop has run for too *)
(* long, and overflow says that a sum or a difference did not fit: from    *)
(* then on the tree has no meaning.                                        *)
(***************************************************************************)
RECURSIVE Eval(_, _)
RECURSIVE Run(_, _)

Checked(s, op, a, b) == [s EXCEPT !.overflow = @ \/ Traps(op, a, b)]

Eval(e, s) ==  \* the value and the state after it
    CASE e.op = "INT" -> [v |-> e.v, s |-> s]
      [] e.op = "ID" -> [v |-> s.env[e.v], s |-> s]
      [] e.op = "UNARY" ->
            LET a == Eval(e.l, s) IN [v |-> Calc("SUB", 0, a.v), s |-> Checked(a.s, "SUB", 0, a.v)]
      [] e.op \in {"BINARY", "RELOP"} ->
            LET a == Eval(e.l, s)
                b == Eval(e.r, a.s)
            IN  IF e.op = "BINARY"
                THEN [v |-> Calc(e.type, a.v, b.v), s |-> Checked(b.s, e.type, a.v, b.v)]
                ELSE [v |-> IF Holds(e.type, a.v, b.v) THEN 1 ELSE 0, s |-> b.s]
      [] e.op = "ASSIGN" ->
            LET b == Eval(e.r, s) IN [v |-> b.v, s |-> [b.s EXCEPT !.env[e.l.v] = b.v]]
      [] e.op = "READ" -> [v |-> Input(s.nin + 1), s |-> [s EXCEPT !.nin = @ + 1]]
      [] e.op = "WRITE" ->
            LET a == Eval(e.arg, s) IN [v |-> 0, s |-> [a.s EXCEPT !.out = Append(@, a.v)]]

Over(s) == s.ret # NULL \/ s.fuel < 0 \/ s.overflow

Run(p, s) ==  \* the statements of p, a sequence
    IF p = <<>> \/ Over(s) THEN s
    ELSE LET h == Head(p)
             test == Eval(h.cond, s)
         IN  Run(Tail(p),
             CASE h.op = "EXP" -> Eval(h.e, s).s
               [] h.op = "COMPST" -> Run(h.body, s)
               [] h.op = "RETURN" -> LET a == Eval(h.e, s) IN [a.s EXCEPT !.ret = a.v]
               [] h.op = "IF" -> IF test.v # 0 THEN Run(<<h.then>>, test.s) ELSE test.s
               [] h.op = "IF_ELSE" -> Run(<<IF test.v # 0 THEN h.then ELSE h.else>>, test.s)
               [] h.op = "WHILE" ->
                    IF test.v = 0 THEN test.s
                    ELSE Run(<<h.body, h>>, [test.s EXCEPT !.fuel = @ - 1])
               [] h.op = "FOR" ->
                    Run(<<[op |-> "WHILE", cond |-> h.cond,
                           body |-> [op |-> "COMPST",
                                     body |-> <<h.body, [op |-> "EXP", e |-> h.step]>>]]>>,
                        Eval(h.init, s).s))

Meaning(p, start) ==
    Run(p, [env |-> start, nin |-> 0, out |-> <<>>, ret |-> NULL, fuel |-> FUEL,
            overflow |-> FALSE])

(***************************************************************************)
(* The program, its translation, and its execution.                        *)
(***************************************************************************)
Init ==
    /\ phase = "tree"
    /\ prog \in Programs
    /\ initial \in [Vars -> {0, 1}]
    /\ meaning = NULL
    /\ code = <<>> /\ pc = 1 /\ env = <<>>
    /\ nin = 0 /\ out = <<>> /\ ret = NULL

translate ==
    /\ phase = "tree"
    /\ code' = Translated(prog)
    /\ meaning' = Meaning(prog, initial)
    /\ env' = [o \in {Ope("VAR", x) : x \in Vars} |-> initial[o.v]]
    /\ phase' = "run"
    /\ UNCHANGED <<prog, initial, pc, nin, out, ret>>

Curr == code[pc]

Gen(types) == phase = "run" /\ Curr.type \in types

Val(o) == IF Is(o, "INT") THEN o.v ELSE env[o]

Put(o, v) == env' = (o :> v) @@ env

Go(p) == pc' = p /\ UNCHANGED <<phase, prog, initial, meaning, code>>

Target(l) == CHOOSE i \in DOMAIN code : code[i].type = "LABEL" /\ code[i].rs = l

StepLabel == Gen({"LABEL"}) /\ Go(pc + 1) /\ UNCHANGED <<env, nin, out, ret>>

StepAssign ==
    /\ Gen({"ASSIGN"})
    /\ Put(Curr.rd, Val(Curr.rs))
    /\ Go(pc + 1)
    /\ UNCHANGED <<nin, out, ret>>

StepCalc ==
    /\ Gen({"ADD", "SUB", "MUL"})
    /\ ~Traps(Curr.type, Val(Curr.rs), Val(Curr.rt))
    /\ Put(Curr.rd, Calc(Curr.type, Val(Curr.rs), Val(Curr.rt)))
    /\ Go(pc + 1)
    /\ UNCHANGED <<nin, out, ret>>

StepTrap ==
    /\ Gen({"ADD", "SUB"})
    /\ Traps(Curr.type, Val(Curr.rs), Val(Curr.rt))
    /\ phase' = "trapped"
    /\ UNCHANGED <<prog, initial, meaning, code, pc, env, nin, out, ret>>

StepJump == Gen({"JMP"}) /\ Go(Target(Curr.rs)) /\ UNCHANGED <<env, nin, out, ret>>

StepBranch ==
    /\ Gen({"BEQ", "BNE", "BLT", "BLE", "BGT", "BGE"})
    /\ Go(IF Holds(Curr.type, Val(Curr.rs), Val(Curr.rt)) THEN Target(Curr.rd) ELSE pc + 1)
    /\ UNCHANGED <<env, nin, out, ret>>

StepRead ==
    /\ Gen({"READ"})
    /\ nin < MAX_IO
    /\ Put(Curr.rd, Input(nin + 1))
    /\ nin' = nin + 1
    /\ Go(pc + 1)
    /\ UNCHANGED <<out, ret>>

StepWrite ==
    /\ Gen({"WRITE"})
    /\ Len(out) < MAX_IO
    /\ out' = Append(out, Val(Curr.rs))
    /\ Go(pc + 1)
    /\ UNCHANGED <<env, nin, ret>>

StepReturn ==
    /\ Gen({"RET"})
    /\ ret' = Val(Curr.rs)
    /\ phase' = "returned"
    /\ UNCHANGED <<prog, initial, meaning, code, pc, env, nin, out>>

Cut ==  \* the run has used up a bound
    /\ Gen({"READ", "WRITE"})
    /\ MAX_IO = IF Curr.type = "READ" THEN nin ELSE Len(out)
    /\ phase' = "cut"
    /\ UNCHANGED <<prog, initial, meaning, code, pc, env, nin, out, ret>>

Done == phase \in {"returned", "trapped", "cut"} /\ UNCHANGED vars

Step ==
    \/ StepLabel \/ StepAssign \/ StepCalc \/ StepTrap \/ StepJump \/ StepBranch
    \/ StepRead \/ StepWrite \/ StepReturn \/ Cut

Next == translate \/ Step \/ Done

(* The processor goes on with the next instruction.                        *)
Spec == Init /\ [][Next]_vars /\ WF_vars(Step)

(***************************************************************************)
(* Properties                                                              *)
(***************************************************************************)
Block(i) == {j \in 1 .. i : code[j].type = "LABEL" \/ (j > 1 /\ code[j - 1].type
                \in {"JMP", "BEQ", "BNE", "BLT", "BLE", "BGT", "BGE"})}

Sources(ir) ==
    {o \in {ir.rs, ir.rt} : Is(o, "VAR") \/ Is(o, "TEMP") \/ Is(o, "BOOL")}

TranslateTypeOK ==
    /\ phase \in {"tree", "run", "returned", "trapped", "cut"}
    /\ pc \in 1 .. Len(code) + 1
    /\ \A o \in DOMAIN env : o.k \in {"VAR", "TEMP", "BOOL"} /\ env[o] \in Value
    /\ nin \in Nat /\ out \in Seq(Value) /\ ret \in Value \cup {NULL}

(* translate.c as a whole: the code reads, writes and returns what the     *)
(* tree says, and traps only when a sum or a difference of the tree does   *)
(* not fit.  This covers constant folding, the reuse of a temporary as the *)
(* assigned variable, comparisons used as values, and the labels of every  *)
(* statement.                                                              *)
SameOutcome ==
    /\ phase = "trapped" => meaning.overflow
    /\ phase = "returned" /\ ~meaning.overflow =>
           [nin |-> nin, out |-> out, ret |-> ret]
               = [nin |-> meaning.nin, out |-> meaning.out, ret |-> meaning.ret]

(* translate_while, translate_for: a function whose tree comes to an end   *)
(* returns; no translated loop runs longer than the loop it stands for.    *)
Returns ==
    (/\ phase = "run" /\ meaning.ret # NULL /\ ~meaning.overflow
     /\ meaning.nin <= MAX_IO /\ Len(meaning.out) <= MAX_IO)
        ~> (phase = "returned")

(* translate_unary_operation "translates the unary operation: only         *)
(* negation" (translate.c:367): the operand it negates has been computed,  *)
(* as that of any instruction.                                             *)
SourcesComputed == phase = "run" => Sources(Curr) \subseteq DOMAIN env

(* push_all: "Address and temp are live only in one basic block"           *)
(* (register.c:198), so it does not have to save them.                     *)
TempsInOneBlock ==
    phase = "run" => \A i, j \in DOMAIN code :
        Is(code[i].rd, "TEMP") /\ code[i].rd \in Sources(code[j]) => Block(i) = Block(j)
=============================================================================
