--------------------------- MODULE MCResultFetch ---------------------------
(***************************************************************************)
(* Instances of ResultFetch for TLC: two contents of one length and one    *)
(* longer.                                                                 *)
(***************************************************************************)
EXTENDS ResultFetch

Length(d) == IF d = "long" THEN 2 ELSE 1
=============================================================================
