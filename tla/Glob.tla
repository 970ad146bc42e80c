-------------------------------- MODULE Glob --------------------------------
(***************************************************************************)
(* FileMatcher.__match of cincan/file_tool.py: does a file name match the  *)
(* pattern of an input or output filter?  The pattern is split at its      *)
(* stars; the pieces are looked for from left to right, each at its first  *)
(* place after the one before.  Properties compare this scan with what a   *)
(* glob pattern means.                                                     *)
(***************************************************************************)
EXTENDS Naturals, Sequences

CONSTANTS
    Chars,          \* characters of names and patterns, without the star
    Values,         \* names
    Patterns        \* match_string.split("*") of patterns

ASSUME GlobAssumption ==
    /\ Values \subseteq Seq(Chars)
    /\ Patterns \subseteq Seq(Seq(Chars)) \ {<<>>}

VARIABLES
    value,
    split,
    i,          \* the piece to look for next
    off,        \* the end of the piece before, in `value`
    verdict     \* "open", "match" or "miss"

vars  == <<value, split, i, off, verdict>>
input == <<value, split>>

Init ==
    /\ value \in Values
    /\ split \in Patterns
    /\ i = 1 /\ off = 0
    /\ verdict = "open"

\* value[k:].startswith(s)
Occurs(s, k) ==
    /\ k + Len(s) <= Len(value)
    /\ \A j \in 1..Len(s) : value[k + j] = s[j]

IsExact == Len(split) = 1

\* without a star
Exact ==
    /\ verdict = "open" /\ IsExact
    /\ verdict' = IF split[1] = value THEN "match" ELSE "miss"
    /\ UNCHANGED <<input, i, off>>

\* the piece before the first star
Prefix ==
    /\ verdict = "open" /\ ~IsExact /\ i = 1
    /\ Occurs(split[1], 0)
    /\ off' = Len(split[1])
    /\ i' = 2
    /\ UNCHANGED <<input, verdict>>

NoPrefix ==
    /\ verdict = "open" /\ ~IsExact /\ i = 1
    /\ ~Occurs(split[1], 0)
    /\ verdict' = "miss"
    /\ UNCHANGED <<input, i, off>>

Scanning == verdict = "open" /\ i \in 2..Len(split)

\* (fault) rfind
FindLast ==
    /\ Scanning
    /\ \E k \in off..Len(value) :
          /\ Occurs(split[i], k)
          /\ \A l \in (k + 1)..Len(value) : ~Occurs(split[i], l)
          /\ off' = k + Len(split[i])
    /\ i' = i + 1
    /\ UNCHANGED <<input, verdict>>

\* (fault) the piece is found, but not passed over
FindOverlaps ==
    /\ Scanning
    /\ \E k \in off..Len(value) :
          /\ Occurs(split[i], k)
          /\ \A l \in off..(k - 1) : ~Occurs(split[i], l)
          /\ off' = IF i = Len(split) THEN k + Len(split[i]) ELSE k
    /\ i' = i + 1
    /\ UNCHANGED <<input, verdict>>

\* value.find(s, off)
Find ==
    /\ Scanning
    /\ \E k \in off..Len(value) :
          /\ Occurs(split[i], k)
          /\ \A l \in off..(k - 1) : ~Occurs(split[i], l)
          /\ off' = k + Len(split[i])
    /\ i' = i + 1
    /\ UNCHANGED <<input, verdict>>

NotFound ==
    /\ Scanning
    /\ \A k \in off..Len(value) : ~Occurs(split[i], k)
    /\ verdict' = "miss"
    /\ UNCHANGED <<input, i, off>>

Last == split[Len(split)]

\* what is left over must belong to a star
Rest ==
    /\ verdict = "open" /\ ~IsExact /\ i > Len(split)
    /\ verdict' = IF Last # <<>> /\ off # Len(value) THEN "miss" ELSE "match"
    /\ UNCHANGED <<input, i, off>>

Next == Exact \/ Prefix \/ NoPrefix \/ Find \/ NotFound \/ Rest

Spec == Init /\ [][Next]_vars

----------------------------------------------------------------------------
(* What a glob pattern means *)

\* the first n pieces have places in the name, in order and apart
Placed(n, at) ==
    /\ at[1] = 0
    /\ \A k \in 1..n : Occurs(split[k], at[k])
    /\ \A k \in 1..(n - 1) : at[k] + Len(split[k]) <= at[k + 1]

Places(n) == [1..n -> 0..Len(value)]

\* the first n pieces can be placed so that they end at e
EndsAt(n, e) ==
    \E at \in Places(n) : Placed(n, at) /\ at[n] + Len(split[n]) = e

\* every star stands for some, or no, characters
GlobMatches == EndsAt(Len(split), Len(value))

----------------------------------------------------------------------------
(* Properties *)

TypeOK ==
    /\ value \in Values
    /\ split \in Patterns
    /\ i \in 1..(Len(split) + 1)
    /\ off \in 0..Len(value)
    /\ verdict \in {"open", "match", "miss"}

\* The scan is greedy: where it stands is the earliest place at which the
\* pieces so far can end. Nothing that a later star could need is passed over.
Earliest ==
    i > 1 => /\ EndsAt(i - 1, off)
             /\ \A e \in 0..Len(value) : EndsAt(i - 1, e) => off <= e

\* A filter never matches a name that its pattern does not: an excluding one
\* drops no result, and an including one lets no other file pass.
Sound == verdict = "match" => GlobMatches

\* It misses a name that its pattern matches only when the last piece is in
\* the name once more before its end, as ".txt" is in "a.txt.txt".
MissNeedsRepeat ==
    verdict = "miss" /\ GlobMatches =>
        \E k \in 0..Len(value) : Occurs(Last, k) /\ k + Len(Last) < Len(value)

\* The inductive invariant behind the theorems of GlobProofs.
IInv == TypeOK /\ Earliest /\ Sound /\ MissNeedsRepeat
=============================================================================
