----------------------------- MODULE MCToolRun -----------------------------
(***************************************************************************)
(* Instances of ToolRun for TLC: every call may fail, or only the one that *)
(* a comment of the code is about.                                         *)
(***************************************************************************)
EXTENDS ToolRun

AllFaults   == Sites
AttachFault == {"attach"}
=============================================================================
