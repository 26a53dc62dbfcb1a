---------------------------- MODULE MCTranslate ----------------------------
(***************************************************************************)
(* Programs for Translate: Expressions has one nested expression each, in  *)
(* every place an expression can be; Statements nests the statements; the  *)
(* last two sets have the trees that comments of the code do not account   *)
(* for.                                                                    *)
(***************************************************************************)
EXTENDS Translate

Num(n) == [op |-> "INT", v |-> n]

Id(x) == [op |-> "ID", v |-> x]

Node(op, types, ls, rs) == {[op |-> op, type |-> y, l |-> a, r |-> b] : y \in types, a \in ls, b \in rs}

Assign(x, e) == [op |-> "ASSIGN", l |-> Id(x), r |-> e]

Read == [op |-> "READ"]

Neg(e) == [op |-> "UNARY", l |-> e]

Do(e) == [op |-> "EXP", e |-> e]

Write(e) == Do([op |-> "WRITE", arg |-> e])

Return(e) == [op |-> "RETURN", e |-> e]

Block2(a, b) == [op |-> "COMPST", body |-> <<a, b>>]

If(e, s) == [op |-> "IF", cond |-> e, then |-> s]

IfElse(e, s, u) == [op |-> "IF_ELSE", cond |-> e, then |-> s, else |-> u]

While(e, s) == [op |-> "WHILE", cond |-> e, body |-> s]

For(i, e, p, s) == [op |-> "FOR", init |-> i, cond |-> e, step |-> p, body |-> s]

Leaf == {Num(3), Id(1), Id(2)}

Flat == Leaf \cup {Read}
        \cup Node("BINARY", {"ADD", "SUB"}, {Id(1), Num(1)}, {Id(2), Num(1)})
        \cup Node("RELOP", {"BLT", "BNE"}, {Id(1), Num(1)}, {Id(2), Num(1)})

Nested == Flat
          \cup Node("BINARY", {"SUB", "MUL"}, Flat, Leaf)
          \cup Node("BINARY", {"SUB"}, Leaf, Flat)
          \cup Node("RELOP", {"BLE"}, Flat, Leaf)
          \cup {Assign(2, e) : e \in Flat}

Expressions ==
    {<<Do(Assign(1, e)), Write(Id(2)), Return(Id(1))>> : e \in Nested}
    \cup {<<Write(e), Return(Id(2))>> : e \in Nested}
    \cup {<<If(e, Write(Num(0))), Return(e)>> : e \in Nested}
    \cup {<<Do(e), Return(Id(2))>> : e \in Flat}

Tests == {Id(1), Read, Assign(1, Id(2))}
         \cup Node("RELOP", {"BLT", "BNE"}, {Id(1)}, {Num(1), Id(2)})

Plus(x) == Assign(x, CHOOSE e \in Node("BINARY", {"ADD"}, {Id(x)}, {Num(1)}) : TRUE)

Simple == {Do(Plus(1)), Write(Id(1)), Return(Num(0))}
          \cup {Do(e) : e \in Node("RELOP", {"BLT"}, {Id(1)}, {Num(1)})}

Structured(tests, inner) ==
    {If(e, s) : e \in tests, s \in inner}
    \cup {IfElse(e, s, Do(Plus(2))) : e \in tests, s \in inner}
    \cup {While(e, Block2(s, Do(Plus(1)))) : e \in tests, s \in inner}
    \cup {For(Assign(2, Num(0)), e, Plus(1), s) : e \in tests, s \in inner}

Less == Node("RELOP", {"BLT"}, {Id(1)}, {Num(1), Id(2)})

Statements ==
    {<<s, Write(Id(1)), Return(Id(2))>> :
        s \in Structured(Tests, Simple) \cup Structured(Less, Structured(Less, Simple))}

Both == Expressions \cup Statements

Negations == {<<Do(Assign(1, Neg(e))), Return(Id(1))>> : e \in Leaf}

Sums == {<<Return(e)>> : e \in Node("BINARY", {"ADD"}, Flat, Flat)}
=============================================================================
