------------------------------- MODULE MCAgvInfo -------------------------------
(* Small instances of AgvInfo for TLC. *)
EXTENDS AgvInfo

CONSTANTS a1, a2, l1

TwoAgvs == <<a1, a2>>
OneLift == <<l1>>
================================================================================
