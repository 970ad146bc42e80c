----------------------------- MODULE MCSelfTest -----------------------------
(* The module has no constants: this is the whole state space.               *)
EXTENDS SelfTest
=============================================================================
