------------------------------ MODULE SymTab ------------------------------
(***************************************************************************)
(* The symbol table (cmm-symtab.c): hash tables with chains, and a stack   *)
(* of them for the nested scopes.  A table has the slots 0 .. SIZE - 1.    *)
(* hash masks its result with SIZE, so it can also be SIZE, one slot past  *)
(* the end: there lies the allocator's size field of the next chunk, which *)
(* is neither NULL nor a Symbol, and following it stops the compiler.      *)
(***************************************************************************)
EXTENDS Integers, Sequences, FiniteSetsExt

CONSTANTS Names,  \* identifiers
          SIZE,   \* 0x3f in the code
          hash,   \* the slot of each name
          NULL

ASSUME SymTabAssumption ==
    /\ SIZE \in Nat \ {0}
    /\ hash \in [Names -> 0 .. SIZE]
    /\ NULL \notin Nat

EmptyTable == [s \in 0 .. SIZE - 1 |-> <<>>]

InBounds(n) == hash[n] < SIZE

(* insert compares the name with the head of the chain, on every turn.     *)
Collides(table, n) ==
    table[hash[n]] # <<>> /\ Head(table[hash[n]]).symbol = n

insert(table, n, id) ==
    [table EXCEPT ![hash[n]] = Append(@, [symbol |-> n, id |-> id])]

(* The id of the first symbol of the chain with that name.                 *)
query_without_fallback(table, n) ==
    LET chain == table[hash[n]]
        found == {k \in DOMAIN chain : chain[k].symbol = n}
    IN  IF found = {} THEN NULL ELSE chain[Min(found)].id

(* The innermost scope that knows the name answers.                       *)
query(tables, scopes, n) ==
    LET found == {k \in DOMAIN scopes : query_without_fallback(tables[scopes[k]], n) # NULL}
    IN  IF found = {} THEN NULL ELSE query_without_fallback(tables[scopes[Max(found)]], n)
=============================================================================
