------------------------------- MODULE MCGlob -------------------------------
(***************************************************************************)
(* Instances of Glob for TLC: all names up to a length, and all patterns   *)
(* up to a number of pieces of at most two characters.                     *)
(***************************************************************************)
EXTENDS Glob

CONSTANTS NameLen, Pieces

UpTo(S, n) == UNION {[1..k -> S] : k \in 0..n}

Names == UpTo(Chars, NameLen)

Splits == UpTo(UpTo(Chars, 2), Pieces) \ {<<>>}
=============================================================================
