---------------------------- MODULE RunContract ----------------------------
(***************************************************************************)
(* What one `cincan run` promises its caller, whatever happens inside.     *)
(* The run holds at most one tool container, fetches the results from it   *)
(* while it holds it, gives the container back, and then reports one       *)
(* verdict: the exit code of the process.  Verdict "zero" is only given    *)
(* when the results are on the host and the container is gone.             *)
(***************************************************************************)

VARIABLES
    stage,      \* "idle", "held" or "released": the tool container
    results,    \* have the results been fetched completely?
    verdict     \* exit code of the process, "open" until it ends

vars == <<stage, results, verdict>>

Init ==
    /\ stage = "idle"
    /\ results = FALSE
    /\ verdict = "open"

\* Where a call that was cut short may have left the container.
CutShort(s) ==
    CASE s = "idle" -> {"idle", "held"}
      [] s = "held" -> {"held", "released"}
      [] OTHER      -> {s}

Acquire ==
    /\ verdict = "open" /\ stage = "idle"
    /\ stage' = "held"
    /\ UNCHANGED <<results, verdict>>

Fetch ==
    /\ verdict = "open" /\ stage = "held"
    /\ results' = TRUE
    /\ UNCHANGED <<stage, verdict>>

Release ==
    /\ verdict = "open" /\ stage = "held"
    /\ stage' = "released"
    /\ UNCHANGED <<results, verdict>>

Succeed ==
    /\ verdict = "open" /\ stage = "released" /\ results
    /\ verdict' = "zero"
    /\ UNCHANGED <<stage, results>>

\* A failed run may abandon the container, and the failing call may have
\* taken effect.
Fail ==
    /\ verdict = "open"
    /\ verdict' = "nonzero"
    /\ stage' \in CutShort(stage)
    /\ UNCHANGED results

Next == Acquire \/ Fetch \/ Release \/ Succeed \/ Fail

Spec == Init /\ [][Next]_vars
=============================================================================
