# A TLA+ verification of naivecc

naivecc compiles a C-like language to MIPS assembly. This directory models its
middle and back end, and the scope handling of its front end, in TLA+. TLC
checks the models on small instances, and TLAPS proves the basic facts about
register allocation for every instance.

The compiler is sequential and keeps nothing on disk between runs. What makes it
hard to test is not concurrency but long sequences of legal steps over shared
tables: an operand updated between two uses, a register taken while still in
use, a list rewritten while it is scanned, a global that a nested visit forgets
to restore.

## The system

| Part | Source | State | Operations |
|---|---|---|---|
| Lexer, parser, tree | `lexical.l`, `syntax.y`, `ast.c`, `node.c` | the tree, comment depth | tokens, tree building |
| String table | `cmm-strtab.c` | array of strings | `register_str` |
| Types | `cmm-type.c` | type graphs | constructors, `typecmp` |
| Symbol tables | `cmm-symtab.c` | stack of hash tables | `insert`, `query`, push, pop |
| Semantic analysis | `semantic.c` | `offset`, `is_in_struct`, `semantic_error` | one visitor per node |
| Translation | `translate.c`, `operand.c` | `instr_buffer`, operand and label counters | one visitor per node |
| Peephole pass | `ir.c` `preprocess_ir` | the buffer, label reference counts | count, invert, delete, merge, compress |
| Frame layout | `ir.c` `in_func_check` | operand addresses, function sizes | one step per operand |
| Liveness | `ir.c`, `basic-block.c` | `liveness`, `next_use`, per-instruction info | two loops per block |
| Code generation | `ir.c` `print_instr`, `asm.c` | `nr_arg`, `sp_offset`, `curr_func` | one handler per instruction |
| Register allocation | `register.c` | `ope_in_reg`, `dirty` | `ensure`, `allocate`, `push_all`, `clear_reg_state` |
| Driver | `main.c` | – | runs the passes in order |

The passes run one after the other and talk through the tree (tables hung into
it), the instruction buffer, and fields of the operands themselves. The last is
where most of the hazards in `PROJECT.json` lie: `liveness`, `next_use` and
`address` of an operand are overwritten as code generation advances, so each of
them is right only at one moment.

What correctness means for each part:

- allocation: a register that is read has the operand's current value, and the
  only copy of a value that is still needed is never dropped;
- liveness: the next use recorded for a temporary is the real one;
- peephole: control flow is unchanged, and labels that are used exist;
- frame: slots do not overlap, caller and callee agree on arguments, `$sp` and
  `$ra` are restored;
- scopes: both passes resolve a name alike, and one scope has one symbol of a name;
- translation: the code does what the tree says, and ends when the tree does.

## The modules

`IR` has operands, instructions, basic blocks and `MayFollow`, which says what
translation may append next. It is the environment of code generation.

`RegAlloc` is `register.c` as operators on a record `State`. Beside the
compiler's own fields (`ope_in_reg`, `dirty`, `next_use`, `liveness`) the record
says what is true of the running program: `holds[r]` is the operand whose
current value is in register `r`, `saved[o]` says that `o`'s slot is up to date.
Values are not modelled, only whether they are current. `misread` collects the
operands read from a register that did not hold them.

`CodeGen` composes these with the liveness analysis, the handlers of `asm.c` and
the block loop of `print_instr`. One action is one handler together with
everything `print_instr` does around it (update, push, clear). `gen_asm_call`
takes one step per turn of its loop. `MUL` stands for MUL and DIV, which use
registers alike, and `BR` for the six branches.

`Preprocess` is `preprocess_ir`, one step per iteration of its loops. That
includes the last one, `compress_ir`, which moves instructions down in the buffer
it reads; `Code` is the program in the middle of it, what is kept and what is not
yet read.

`Frame` is `in_func_check`, one step per operand, and the handlers that move
`$sp`. Addresses are relative to `$sp` at the function's entry. `exits` collects
`$sp` and `$ra` as each return of the function leaves them.

`SymTab` is the hash table with its chains; `Scopes` builds on it the walks of
`semantic.c` and `translate.c` over a tree that is chosen as the first goes.
The outermost table starts with `read` and `write`. A list of globals is a
node of its own: `syntax.y` gives a list of two or more names a shape that
`semantic.c` does not descend into, so it inserts nothing. Types are reduced to
their sizes.

`Translate` turns a tree into instructions with recursive operators named after
the visitors, then runs them one per step. `Eval` and `Run` give the meaning of
the tree independently. As in the assembly, `add`, `addi` and `sub` trap when the
result does not fit and `mul` wraps. `Input` is what the user types, the one part
of the model with no source. `MCTranslate` has the sets of trees.

`MCCodeGen`, `MCPreprocess` and `MCScopes` add symmetry sets and a hash function.
`CodeGenProofs` has the theorems.

Operators whose comment begins with "Mutant" are never used by a specification.
Each is a plausible mistake in the definition after it, and breaks the property
that `PROJECT.json` pairs it with.

## The runs

| Run | Shows | Bounds |
|---|---|---|
| `spill` | `RegistersCoherent`, `VarsSavedAtBlockEntry` | 3 variables, 2 save registers, 3 instructions over several blocks |
| `temps` | `TempReadsIntact`, `NextUseExact`, `VictimFound`, `NothingLost` | 3 temporaries, a constant, 2 registers, 5 instructions in blocks separated by labels |
| `calls` | `ReadsIntact` when the variables fit, `NothingLost`, `ArgsMatch`, types | 2 variables, 2 save registers, a temporary, 4 instructions with ARG and CALL |
| `flow` | peephole: `CountsExact`, `NoDanglingLabel`, `SameFlow`, `KeptInOrder`, types | 6 instructions, 3 labels, one comparison |
| `frames` | `SlotsDisjoint`, `ParamsWhereStored`, `FrameReleased`, types | 5 instructions, 2 operands of 4 or 8 bytes, parameters, calls and returns |
| `scopes` | `SameSymbol`, `AddressAllocatedUnlessHidden`, `PopsItsOwn`, `OffsetsDisjoint`, types | 6 nodes, depth 3, four names: one shares a slot with `read`, one hashes to the table's size, `write` has a slot of its own; initializers; variables of 4 bytes |
| `programs` | `SameOutcome`, `Returns`, types | nested expressions in every position, statements nested twice, integers of 3 bits |

The bounds are small because each mechanism is exercised by few objects: one
operand more than registers forces an eviction, three labels give a chain of
merges, a branch, a jump and a label are the peephole's longest pattern, and a
nested scope that shadows an outer one needs two tables and one name. The code
has 8 registers in each group, room for 4096 instructions and 63 hash slots;
nothing in it depends on these numbers being large. `flow` has one kind of
branch; that `get_relop_anti` gives the complement of each of the six is the
assumption `AntiIsComplement` of `MCPreprocess`, which TLC evaluates. Narrow
integers make overflow frequent: `SameOutcome` then says that a program traps
only when its tree overflows, and compares outcomes of the trees that do not.
`scopes` has one size because two with the same number of nodes are out of reach;
with 4 and 8 bytes and 5 nodes the same properties hold. `FUEL` bounds the loop
iterations the meaning of a tree follows, `MAX_IO` the values a run reads or
writes; a run that reaches `MAX_IO` is cut and makes no claim. Symmetry is used
for operands and labels, under invariants only.

Only `Translate` has a liveness property. It assumes weak fairness of the
processor's steps: a processor does not stop between two instructions. The other
specifications state safety alone.

Five further runs end in a violation. Each checks a statement the repository
makes about itself, and the code does otherwise; `findings` in `PROJECT.json`
quotes the statement.

| Run | What the code does |
|---|---|
| `misread` | with more variables than save registers the second source is loaded over the first |
| `args` | a temporary passed as an argument is taken for dead before the call stores it |
| `crossing` | a temporary is used in a later basic block than the one that defines it |
| `init` | an initializer is resolved to a later declaration that has no operand yet |
| `unary` | the operand of a negation is never computed |

`init` and `scopes` divide a question between them. The exception of `scopes`,
`Hidden`, is an initializer that names a variable of an outer scope which its own
scope declares later: the two passes then disagree about the name. `init` checks
the statement without the exception and finds that case.

The models have some more such behaviours, for which no run is kept; the notes
of `hazards` name them: a duplicate behind the head of its chain is accepted, a
name whose hash is the table's size is looked up behind the table, initializers
of fields are accepted after a nested struct, and an unused sum loses the reads
and assignments in it. That the operand index can exceed the map of
`in_func_check` was seen in the code and is not in the model.

`misread`, `temps` and `calls` belong together: the order in which `print_instr`
updates next uses does protect a source that is a temporary. It does not protect
variables, whose next use is always `MAX_LINE`, nor a constant, whose register can
be taken while the second source is loaded. `calls` shows every read intact where
there is no such pressure: the variables fit, there is no constant, and there are
temporary registers to spare. With more temporaries than registers, one that is
passed as an argument can still be dropped (`args`).

`crossing` limits what `temps` says: `MayFollow` keeps temporaries in one block,
as `push_all` assumes, and the runs of `CodeGen` and its theorems hold for code
that keeps to that. Statements about variables do not depend on it. `args` is likewise outside `NothingLost`, which counts a use where
the analysis does, at the ARG.

## What is proved

`CodeGenProofs` proves, for all sets of operands, all numbers of registers (at
least one of each group), every bound on the buffer and every instruction
sequence `MayFollow` admits:

- `TypeCorrect`: the type invariant of `CodeGen`;
- `BlockEntry`: every variable is in its slot when a basic block begins;
- `Coherence`: `ope_in_reg` is truthful about variables and constants, keeps to
  the register groups, and binds an operand at most once.

The assumptions are `IRAssumption` (kinds of operands are disjoint, the buffer
has room for an instruction), `RegAssumption` (both groups are non-empty) and
`KindsAssumption`; TLC evaluates them in the runs of `MCCodeGen`.

None of the three is inductive. That a variable is saved at a block's entry
depends on `push_all` storing it, which depends on its being marked alive, which
depends on the analysis having marked it and on `print_instr` copying only sound
information. The inductive invariant `IInv` is therefore

    IInv == TypeOK /\ Good(cg) /\ InfoSound /\ Control /\ Unbound

`Good` says that the registers are coherent, that variables are alive and have a
next use above -1 (so `get_reg` finds a victim and stores it), and that a
variable not in its slot is in a dirty register bound to it. `InfoSound` says the
same of what the analysis recorded. `Control` relates the loop variables to the
buffer, and says that every variable is saved while arguments are stored.
`Unbound` says that no register is bound between blocks.

The proof trusts `tlapm`'s translation to the SMT solver. That translation has
axioms about `Len` that are not restricted to sequences, so the leaves that use
them were also solved with the axioms restricted; all of them still hold.

The argument goes bottom up. Each operation of `register.c` keeps `Good`, where
`allocate` suspends it for one operand (`Coherent(s, o)`, `Safe(s, o)`) and the
load or the write of the destination restores it. From these, each pattern of
handler (`Compute0`–`2`, `Use1`–`2`, the call's result) keeps it; then each
action preserves `IInv`.

Beyond this prover stay liveness under fairness and ENABLED (`Returns`), what a
recursive definition computes for every input (induction over data), and modules
with RECURSIVE operators (`Translate`). The other properties of the runs are
model-checked only, for now.

## What is not modelled

- Lexer, parser, tree building, string table, `typecmp` and the type checks of
  expressions: see the plan.
- Arrays, struct fields, division and calls of user functions in `Translate`;
  the registers and the frame of calls are in `CodeGen` and `Frame`.
- Array and struct parameters: their OPE_ADDR operand lives through the whole
  function, unlike the temporaries of `IR`.
- `translate_cond_and`, `_or`, `_not`: `semantic.c` has no visitor for their
  nodes, so translation never sees one. Nodes for parentheses are never built.
- `construct_cfg`, `cfg_to_dot`, `calc_const`, `get_neg`: never called.
- The text of the assembly, logging, reading and writing files.
- Global variables: parsed, but without code (`Scopes` includes their
  declaration, and makes no claim about translating their uses).

## Plan

1. Done: `IR`, `RegAlloc`, `CodeGen` and their proofs; `Preprocess`, `Frame`,
   `SymTab`, `Scopes`, `Translate`.
2. Next modules: `Translate` with arrays, fields and calls (`try_deref`,
   `pass_arg`); `TypeCmp` with `typecmp` against a reference equivalence, and the
   expression checks of `semantic.c` on it; `Comments`, the comment states of the
   lexer, against the nesting they should recognise; `StrTab`, with the growth of
   its array.
3. Composition: `Preprocess` after `Translate` on the same trees, with
   `SameOutcome` for the result. An abstract machine in which every read returns
   the current value, implemented by `CodeGen` when the variables fit.
4. Further theorems: slot disjointness and argument agreement in `Frame` for all
   sizes; exact reference counts and the complement of comparisons in
   `Preprocess`; the stack discipline of `Scopes`; the depth counter of
   `Comments`; `NothingLost` for variables in `CodeGen`.
