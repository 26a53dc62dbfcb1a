------------------------------ MODULE Scopes ------------------------------
(***************************************************************************)
(* Declarations and scopes in the two passes over the syntax tree.         *)
(* Semantic analysis (semantic.c) builds a symbol table per function,      *)
(* block and struct, resolves every name and hangs the tables into the     *)
(* tree; translation (translate.c) pushes those tables again, resolves the *)
(* names a second time, and gives each variable its operand.               *)
(*                                                                         *)
(* The tree is the sequence of its nodes in the order of the walk, chosen  *)
(* as the first pass goes.  A node remembers what the first pass found.    *)
(***************************************************************************)
EXTENDS SymTab

CONSTANTS read, write,  \* the names of the predefined functions
          Inits,     \* names that occur in the initializer of a declaration
          Sizes,     \* type_size of the types declared with, never 0 (semantic.c:100)
          MAX_NODE,  \* bound: nodes of the tree
          MAX_DEPTH  \* bound: nesting

ASSUME ScopesAssumption ==
    /\ {read, write} \subseteq {n \in Names : hash[n] < SIZE} /\ read # write
    /\ Inits \subseteq Names
    /\ Sizes \subseteq Nat \ {0}
    /\ MAX_NODE \in Nat /\ MAX_DEPTH \in Nat

VARIABLES
    phase,           \* "sema", "translate", "rejected", "done" or "crashed"
    ast,             \* the nodes
    tables,          \* every table allocated
    scopes,          \* the stack, of indices in tables
    syms,            \* every symbol: its table, offset, size and whether it has its address
    offset,          \* semantic.c:29
    is_in_struct,    \* semantic.c:28
    semantic_error,
    open,            \* the open nodes: kind, saved_offset, and whether statements began
    pos              \* the node being translated

vars == <<phase, ast, tables, scopes, syms, offset, is_in_struct, semantic_error, open, pos>>

Top == scopes[Len(scopes)]

Within == IF open = <<>> THEN "program" ELSE open[Len(open)].kind

Node(op, n, table, sym, use) == [op |-> op, name |-> n, table |-> table, sym |-> sym, use |-> use]

Add(node) == ast' = Append(ast, node)

Room == phase = "sema" /\ Len(ast) < MAX_NODE

(* insert clears the symbol it has allocated.                              *)
NewSymbol(class, table) ==
    [class |-> class, table |-> table, offset |-> 0, size |-> 0, address |-> FALSE]

(* prog_is_extdef up to its loop: the outermost table, with two functions. *)
Init ==
    /\ phase = "sema"
    /\ ast = <<>>
    /\ tables = <<insert(insert(EmptyTable, read, 1), write, 2)>> /\ scopes = <<1>>
    /\ syms = <<NewSymbol("func", 1), NewSymbol("func", 1)>>
    /\ offset = 0 /\ is_in_struct = FALSE /\ semantic_error = FALSE
    /\ open = <<>>
    /\ pos = 1

(* Mutant of Push: the count is advanced before the table is stored.       *)
Push_CountFirst == tables' = Append(tables, EmptyTable) /\ scopes' = Append(scopes, Len(tables) + 2)

(* new_symtab                                                              *)
Push == tables' = Append(tables, EmptyTable) /\ scopes' = Append(scopes, Len(tables) + 1)

Pop == scopes' = SubSeq(scopes, 1, Len(scopes) - 1)

Begin(kind) == open' = Append(open, [kind |-> kind, saved |-> offset, stmts |-> FALSE])

(* Mutant of Restored: a struct among the declarations resets the offset.  *)
Restored_NotStruct == IF Within = "func" THEN open[Len(open)].saved ELSE offset

(* The offset after a node: functions and structs restore it.              *)
Restored == IF Within = "block" THEN offset ELSE open[Len(open)].saved

End == open' = SubSeq(open, 1, Len(open) - 1)

(* Mutant of Stmt: declarations may follow statements.                     *)
Stmt_Mixed == open' = open

(* A statement has been seen, after which the block declares no more.      *)
Stmt == open' = [open EXCEPT ![Len(open)].stmts = TRUE]

Crash ==
    /\ phase' = "crashed"
    /\ UNCHANGED <<ast, tables, scopes, syms, offset, is_in_struct, semantic_error, open, pos>>

(***************************************************************************)
(* Semantic analysis                                                       *)
(***************************************************************************)
(* extdef_is_spec_func_compst and func_is_id_var: the name goes into the   *)
(* global table, the parameters and the body share a new one.              *)
OpenFunc(n) ==
    /\ Room /\ open = <<>> /\ InBounds(n)
    /\ Begin("func")
    /\ offset' = 0
    /\ semantic_error' = (semantic_error \/ Collides(tables[Top], n))
    /\ IF Collides(tables[Top], n)
       THEN Push /\ syms' = syms
       ELSE /\ tables' = Append([tables EXCEPT ![Top] = insert(@, n, Len(syms) + 1)], EmptyTable)
            /\ scopes' = Append(scopes, Len(tables) + 1)
            /\ syms' = Append(syms, NewSymbol("func", Top))
    /\ Add(Node("func", n, Len(tables) + 1, NULL, NULL))
    /\ UNCHANGED <<phase, is_in_struct, pos>>

(* stmt_is_compst                                                          *)
OpenBlock ==
    /\ Room /\ Within \in {"func", "block"} /\ Len(open) < MAX_DEPTH
    /\ open' = Append([open EXCEPT ![Len(open)].stmts = TRUE],
                      [kind |-> "block", saved |-> offset, stmts |-> FALSE])
    /\ Push
    /\ Add(Node("block", NULL, Len(tables) + 1, NULL, NULL))
    /\ UNCHANGED <<phase, syms, offset, is_in_struct, semantic_error, pos>>

Declaring == ~(open # <<>> /\ open[Len(open)].stmts)

(* struct_is_id_def up to its fields                                       *)
OpenStruct ==
    /\ Room /\ Declaring /\ Len(open) < MAX_DEPTH
    /\ Begin("struct")
    /\ is_in_struct' = TRUE
    /\ offset' = 0
    /\ Push
    /\ Add(Node("struct", NULL, Len(tables) + 1, NULL, NULL))
    /\ UNCHANGED <<phase, syms, semantic_error, pos>>

(* struct_is_id_def from its fields on; without a name nothing is inserted. *)
CloseStruct(n) ==
    /\ phase = "sema" /\ Within = "struct"
    /\ n # NULL => InBounds(n)
    /\ End /\ Pop
    /\ LET outer == scopes[Len(scopes) - 1]
           clash == n # NULL /\ Collides(tables[outer], n)
       IN  /\ semantic_error' = (semantic_error \/ clash)
           /\ IF n = NULL \/ clash THEN UNCHANGED <<tables, syms>>
              ELSE /\ tables' = [tables EXCEPT ![outer] = insert(@, n, Len(syms) + 1)]
                   /\ syms' = Append(syms, NewSymbol("type", outer))
    /\ is_in_struct' = FALSE
    /\ offset' = Restored
    /\ Add(Node("end", NULL, Top, NULL, NULL))
    /\ UNCHANGED <<phase, pos>>

Close ==
    /\ phase = "sema" /\ Within \in {"func", "block"}
    /\ End /\ Pop
    /\ offset' = Restored
    /\ Add(Node("end", NULL, Top, NULL, NULL))
    /\ UNCHANGED <<phase, tables, syms, is_in_struct, semantic_error, pos>>

(* insert, and the offset of the new symbol.                               *)
Declare(n, s) ==
    /\ tables' = [tables EXCEPT ![Top] = insert(@, n, Len(syms) + 1)]
    /\ syms' = Append(syms, [NewSymbol("var", Top) EXCEPT !.offset = offset, !.size = s])
    /\ offset' = offset + s
    /\ UNCHANGED phase

(* exp_is_id: the name is unknown, or that of a struct.                    *)
Unresolved(sym) == IF sym = NULL THEN TRUE ELSE syms'[sym].class = "type"

(* dec_is_vardec, dec_is_vardec_initialization; var_is_spec_vardec, and    *)
(* extdec_is_vardec for a global declared alone, do the same without an    *)
(* initializer, which is use here.  A clash is reported, and then the      *)
(* missing symbol is written to.                                           *)
DeclareVar(n, s, use) ==
    /\ Room /\ Declaring /\ InBounds(n)
    /\ Within = "program" => use = NULL
    /\ use # NULL /\ ~is_in_struct => InBounds(use)
    /\ IF Collides(tables[Top], n)
       THEN phase' = "crashed" /\ UNCHANGED <<tables, syms, offset>>
       ELSE Declare(n, s)
    /\ LET found == IF use = NULL \/ is_in_struct THEN NULL ELSE query(tables', scopes, use)
       IN  /\ Add(Node("var", n, Top, found, use))
           /\ semantic_error' = \/ semantic_error
                                \/ Collides(tables[Top], n)
                                \/ use # NULL /\ (is_in_struct \/ Unresolved(found))
    /\ UNCHANGED <<scopes, is_in_struct, open, pos>>

(* extdef_is_spec_extdec with two or more globals: the parser puts no      *)
(* EXTDEC node above them (syntax.y:110), so extdec_is_vardec is not       *)
(* called, and nothing is inserted.                                        *)
DeclareGlobals ==
    /\ Room /\ Within = "program"
    /\ Add(Node("globals", NULL, Top, NULL, NULL))
    /\ UNCHANGED <<phase, tables, scopes, syms, offset, is_in_struct, semantic_error, open, pos>>

(* exp_is_id in a statement                                                *)
Use(n) ==
    /\ Room /\ Within \in {"func", "block"} /\ InBounds(n)
    /\ Stmt
    /\ Add(Node("use", NULL, Top, query(tables, scopes, n), n))
    /\ UNCHANGED <<phase, tables, scopes, syms, offset, is_in_struct, pos>>
    /\ semantic_error' = (semantic_error \/ Unresolved(query(tables, scopes, n)))

OutOfBounds(n) ==  \* insert or query follows the word behind the table
    /\ Room /\ ~InBounds(n)
    /\ Crash

EndProgram ==
    /\ phase = "sema" /\ open = <<>>
    /\ Pop
    /\ phase' = IF semantic_error THEN "rejected" ELSE "translate"
    /\ UNCHANGED <<ast, tables, syms, offset, is_in_struct, semantic_error, open, pos>>

(***************************************************************************)
(* Translation                                                             *)
(***************************************************************************)
Curr == ast[pos]

At(op) == phase = "translate" /\ pos <= Len(ast) /\ Curr.op = op

Walked(p) == pos' = p /\ UNCHANGED <<phase, ast, tables, offset, is_in_struct, semantic_error, open>>

(* Mutant of TransOpen: a block is translated without its table.           *)
TransOpen_FuncOnly ==
    /\ At("func") \/ At("block")
    /\ scopes' = IF At("func") THEN Append(scopes, Curr.table) ELSE scopes
    /\ Walked(pos + 1)
    /\ UNCHANGED syms

(* translate_extdef_func, translate_stmt_is_compst: push_symtab            *)
TransOpen ==
    /\ At("func") \/ At("block")
    /\ scopes' = Append(scopes, Curr.table)
    /\ Walked(pos + 1)
    /\ UNCHANGED syms

TransClose ==
    /\ At("end")
    /\ Pop
    /\ Walked(pos + 1)
    /\ UNCHANGED syms

(* The fields of a struct are not translated.                              *)
TransStruct ==
    /\ At("struct")
    /\ \E e \in pos + 1 .. Len(ast) :
           /\ ast[e].op = "end" /\ ast[e].table = Curr.table
           /\ Walked(e + 1)
    /\ UNCHANGED <<scopes, syms>>

(* Mutant of TransVar: only the table of the function is asked.            *)
TransVar_Function ==
    /\ At("var")
    /\ LET found == IF scopes = <<>> THEN NULL ELSE query(tables, <<scopes[1]>>, Curr.name)
       IN  syms' = IF found = NULL THEN syms ELSE [syms EXCEPT ![found].address = TRUE]
    /\ Walked(pos + 1)
    /\ UNCHANGED scopes

(* translate_dec_is_vardec, translate_func_head: the symbol found under    *)
(* the name gets its operand, before the initializer is translated.        *)
TransVar ==
    /\ At("var")
    /\ LET found == query(tables, scopes, Curr.name)
       IN  syms' = IF found = NULL THEN syms  \* a global variable: not supported
                   ELSE [syms EXCEPT ![found].address = TRUE]
    /\ Walked(pos + 1)
    /\ UNCHANGED scopes

(* translate_exp_is_id; trans_default passes over the globals.             *)
TransUse ==
    /\ At("use") \/ At("globals")
    /\ Walked(pos + 1)
    /\ UNCHANGED <<scopes, syms>>

Finish ==
    /\ phase = "translate" /\ pos > Len(ast)
    /\ phase' = "done"
    /\ UNCHANGED <<ast, tables, scopes, syms, offset, is_in_struct, semantic_error, open, pos>>

Stopped == phase \in {"done", "rejected", "crashed"} /\ UNCHANGED vars

Next ==
    \/ \E n \in Names : OpenFunc(n) \/ Use(n) \/ OutOfBounds(n)
    \/ \E n \in Names \cup {NULL} : CloseStruct(n)
    \/ \E n \in Names, s \in Sizes, use \in Inits \cup {NULL} : DeclareVar(n, s, use)
    \/ DeclareGlobals \/ OpenBlock \/ OpenStruct \/ Close \/ EndProgram
    \/ TransOpen \/ TransClose \/ TransStruct \/ TransVar \/ TransUse
    \/ Finish \/ Stopped

Spec == Init /\ [][Next]_vars

(***************************************************************************)
(* Properties                                                              *)
(***************************************************************************)
ScopesTypeOK ==
    /\ phase \in {"sema", "translate", "rejected", "done", "crashed"}
    /\ \A t \in DOMAIN tables : tables[t] \in [0 .. SIZE - 1 -> Seq([symbol : Names, id : Nat])]
    /\ scopes \in Seq(DOMAIN tables)
    /\ syms \in Seq([class : {"func", "type", "var"}, table : DOMAIN tables, offset : Nat, size : Nat, address : BOOLEAN])
    /\ offset \in Nat /\ is_in_struct \in BOOLEAN /\ semantic_error \in BOOLEAN
    /\ pos \in 1 .. Len(ast) + 1

(* A node that names a variable is translated next, and no variable is     *)
(* global (the translator has no visitor for those and prints no code).    *)
Resolving ==
    /\ phase = "translate" /\ pos <= Len(ast) /\ Curr.sym # NULL
    /\ syms[Curr.sym].class = "var"
    /\ \A k \in DOMAIN ast : ast[k].op \in {"var", "globals"} => ast[k].table # 1

(* An initializer names a variable of an outer scope, and its own scope    *)
(* declares the name as well, after it.                                    *)
Hidden ==
    /\ Curr.op = "var"
    /\ syms[Curr.sym].table # Curr.table
    /\ query_without_fallback(tables[Curr.table], Curr.use) # NULL

(* translate_exp_is_id, exp_is_id: both passes resolve a name to the same  *)
(* symbol, although the second one sees the finished tables, with one      *)
(* exception: an initializer whose name its scope declares later.          *)
SameSymbol == Resolving /\ ~Hidden => query(tables, scopes, Curr.use) = Curr.sym

(* The symbol a name is resolved to has an operand.                        *)
Allocated ==
    LET found == query(tables, scopes, Curr.use)
    IN  \/ Curr.op = "var" /\ found = query(tables, scopes, Curr.name)
        \/ syms[found].address

(* translate_exp_is_id: "addresses of variables are all allocated in the   *)
(* declaration statements" (translate.c:110), so the symbol a name stands  *)
(* for has one when the name is translated.                                *)
AddressAllocated == Resolving => Allocated

(* The same where it is true: of every name but such an initializer's.     *)
AddressAllocatedUnlessHidden == Resolving /\ ~Hidden => Allocated

(* translate_stmt_is_compst, translate_extdef_func: pop_symtab returns the *)
(* table that was pushed (their assertions), and both walks end with an    *)
(* empty stack.                                                            *)
PopsItsOwn ==
    /\ At("end") => Top = Curr.table
    /\ phase \in {"done", "rejected"} => scopes = <<>>

(* The table of the function whose block t is; any other table is its own. *)
Owner(t) ==
    IF \E k \in DOMAIN ast : ast[k].op = "block" /\ ast[k].table = t
    THEN Max({ast[k].table : k \in {j \in DOMAIN ast : ast[j].op = "func" /\ ast[j].table < t}})
    ELSE t

Variables == {j \in DOMAIN syms : syms[j].class = "var"}

(* dec_is_vardec, struct_is_id_def, extdef_is_spec_func_compst: the fields *)
(* of a struct do not overlap, nor do the variables of a function, those   *)
(* of all its blocks included, also when structs are defined among them;   *)
(* nor do the globals, whatever functions come between.                    *)
OffsetsDisjoint ==
    \A j, k \in Variables : j # k /\ Owner(syms[j].table) = Owner(syms[k].table) =>
        \/ syms[j].offset + syms[j].size <= syms[k].offset
        \/ syms[k].offset + syms[k].size <= syms[j].offset
=============================================================================
