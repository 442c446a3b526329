----------------------------- MODULE MCReverseList -----------------------------
(* Small instances of ReverseList for TLC. *)
EXTENDS ReverseList

CONSTANTS a, b

TwoLifts == <<a, b>>

\* numbers of one, four and five digits, one that is negative; lists that fill
\* the registers, are shorter, or too long
SomeLists == {<<7>>, <<0, 65535>>, <<255, 4096, 7>>, <<256, 65536>>, <<-1>>}
================================================================================
