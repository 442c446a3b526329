------------------------------ MODULE MCCarSignals ------------------------------
(* Small instances of CarSignals for TLC. *)
EXTENDS CarSignals

CONSTANTS a, b

OneLift  == <<a>>
TwoLifts == <<a, b>>
================================================================================
