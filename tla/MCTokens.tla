------------------------------ MODULE MCTokens ------------------------------
(* A watch `w' with two sessions; and, beside it, a pass `p' with one.      *)
EXTENDS Tokens
CONSTANTS w, p, x, y, z
OfWatch == [s \in {x, y} |-> w]
OfBoth == [s \in {x, z} |-> IF s = x THEN w ELSE p]
OfAll == [s \in {x, y, z} |-> IF s = z THEN p ELSE w]
Sym == {[s \in {x, y} |-> s], [s \in {x, y} |-> IF s = x THEN y ELSE x]}
=============================================================================
