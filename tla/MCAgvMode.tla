------------------------------- MODULE MCAgvMode -------------------------------
(* Small instances of AgvMode for TLC. *)
EXTENDS AgvMode

CONSTANTS a1, a2

OneAgv  == <<a1>>
TwoAgvs == <<a1, a2>>

\* all have bits, or the last has none
AllOrOne == {{a1, a2}, {a1}}

Everything == [a \in AgvSet |-> AllConditions]

\* "offline" is left out: the code does the same for it as for "undispatched"
OneStaysFit ==
  [a \in AgvSet |-> IF a = a1 THEN {"undispatched", "faulty", "fit"} ELSE {"fit"}]

\* a request that turns a bit on, and one about the AGV that may have no bits
SomeReports == {<<1, "task">>, <<2, "faulty">>}
================================================================================
