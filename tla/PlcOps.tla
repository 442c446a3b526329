--------------------------------- MODULE PlcOps ---------------------------------
(***************************************************************************)
(* The calls a task can make on a device connection, shared by the         *)
(* abstract PlcRegister and the detailed McClient.                         *)
(***************************************************************************)
CONSTANTS
  Tasks,        \* asyncio tasks that share one device connection
  Addr,         \* register addresses
  Values,       \* what a register can hold
  Unsupported,  \* arguments that are neither int, list nor tuple
  PlcOwned,     \* registers the PLC program itself writes
  Nothing       \* no operation, no answer, no result

Send(a, v) == [kind |-> "send", addr |-> a, val |-> v]
Recv(a)    == [kind |-> "recv", addr |-> a, val |-> Nothing]

SendOp == [kind : {"send"}, addr : Addr, val : Values \cup Unsupported]
RecvOp == [kind : {"recv"}, addr : Addr, val : {Nothing}]
Op     == SendOp \cup RecvOp

ASSUME OpAssumption ==
  /\ PlcOwned \subseteq Addr
  /\ Values \cap Unsupported = {}
  /\ Nothing \notin Values \cup Unsupported
  /\ Nothing \notin Op
================================================================================
