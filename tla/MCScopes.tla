----------------------------- MODULE MCScopes -----------------------------
(* A hash function for TLC.  A name of the program, 1, shares a slot with  *)
(* the predefined read, 2, as n and main do in the code; 3 hashes to SIZE, *)
(* as b1 and r0 do with SIZE = 0x3f; the predefined write, 4, is alone.    *)
EXTENDS Scopes

MCHash == [n \in Names |-> CASE n = 3 -> SIZE [] n = 4 -> 1 [] OTHER -> 0]
=============================================================================
