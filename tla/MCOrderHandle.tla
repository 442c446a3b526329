----------------------------- MODULE MCOrderHandle -----------------------------
(* Small instances of OrderHandle for TLC. *)
EXTENDS OrderHandle

CONSTANTS a, b

OneLift  == <<a>>
TwoLifts == <<a, b>>

\* both kinds
AllCommands == Bits

\* one command of each kind, on different lifts
OnePerLift == {<<a, "save">>, <<b, "take">>}

\* both kinds on one lift, and the other lift
BothAndOne == {<<a, "save">>, <<a, "take">>, <<b, "take">>}

AnyMode      == SUBSET {"AUTO", "STOP"}
AlwaysNormal == {{"AUTO"}}
================================================================================
