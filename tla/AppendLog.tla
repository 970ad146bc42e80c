----------------------------- MODULE AppendLog ------------------------------
(***************************************************************************)
(* What a command log promises: entries are added to it one at a time, and *)
(* none of them is lost or changed.  The promise ends when the one         *)
(* accident happens that the log does not guard against.                   *)
(***************************************************************************)
CONSTANT Entry

VARIABLES
    entries,    \* the entries that can be read
    broken      \* has the accident happened?

vars == <<entries, broken>>

Init == entries = {} /\ broken = FALSE

Add(e) ==
    /\ e \notin entries
    /\ entries' = entries \cup {e}
    /\ UNCHANGED broken

Break == broken' = TRUE /\ UNCHANGED entries

Anything == broken /\ entries' \in SUBSET Entry /\ UNCHANGED broken

Next == (\E e \in Entry : Add(e)) \/ Break \/ Anything

Spec == Init /\ [][Next]_vars
=============================================================================
