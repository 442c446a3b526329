------------------------------ MODULE PlcRegister ------------------------------
(***************************************************************************)
(* What a device object promises its callers: BaseDevice.safe_send and     *)
(* BaseDevice.safe_recv look like plain operations on the registers of the *)
(* PLC.  A call is pending from the moment it is made until it returns; in *)
(* between the PLC serves it at least once.  A send may therefore be       *)
(* applied more than once, and be applied again long after it was applied  *)
(* first, but never after it returned; a recv returns what the PLC held    *)
(* when it served the call.  While the connection is closed by the PLC in  *)
(* an orderly way it serves nothing, and a send then returns without       *)
(* having been served: nobody looks at the empty answer.                   *)
(*                                                                         *)
(* McClient implements this specification, and the modules that model the  *)
(* tasks above it take one step per register call because of it.           *)
(***************************************************************************)
EXTENDS PlcOps

CONSTANT MayClose  \* the PLC may close the connection in an orderly way

VARIABLES
  plc,     \* contents of the registers
  op,      \* op[t]: the call task t is waiting for, or Nothing
  answer,  \* answer[t]: what the PLC last served for that call
  result,  \* result[t]: what the last call of t returned
  closed   \* the PLC has closed its side of the connection

regVars == <<plc, op, answer, result, closed>>

Init ==
  /\ plc \in [Addr -> Values]
  /\ op     = [t \in Tasks |-> Nothing]
  /\ answer = [t \in Tasks |-> Nothing]
  /\ result = [t \in Tasks |-> Nothing]
  /\ closed = FALSE

Call(t, o) ==
  /\ op[t] = Nothing
  /\ op'     = [op EXCEPT ![t] = o]
  /\ result' = [result EXCEPT ![t] = Nothing]
  /\ UNCHANGED <<plc, answer, closed>>

ServeSend(t) ==
  /\ ~ closed
  /\ op[t] # Nothing
  /\ op[t].kind = "send"
  /\ op[t].val \in Values
  /\ plc'    = [plc EXCEPT ![op[t].addr] = op[t].val]
  /\ answer' = [answer EXCEPT ![t] = op[t].val]
  /\ UNCHANGED <<op, result, closed>>

ServeRecv(t) ==
  /\ ~ closed
  /\ op[t] # Nothing
  /\ op[t].kind = "recv"
  /\ answer' = [answer EXCEPT ![t] = plc[op[t].addr]]
  /\ UNCHANGED <<plc, op, result, closed>>

Return(t) ==
  /\ op[t] # Nothing
  /\ answer[t] # Nothing
  /\ op'     = [op EXCEPT ![t] = Nothing]
  /\ result' = [result EXCEPT ![t] = answer[t]]
  /\ answer' = [answer EXCEPT ![t] = Nothing]
  /\ UNCHANGED <<plc, closed>>

ReturnUnserved(t) ==
  /\ closed
  /\ op[t] # Nothing
  /\ op[t].kind = "send"
  /\ op[t].val \in Values
  /\ op'     = [op EXCEPT ![t] = Nothing]
  /\ result' = [result EXCEPT ![t] = op[t].val]
  /\ answer' = [answer EXCEPT ![t] = Nothing]
  /\ UNCHANGED <<plc, closed>>

\* the PLC closes the connection, or the next call that fails opens another
CloseOrReopen ==
  /\ MayClose
  /\ closed' = ~ closed
  /\ UNCHANGED <<plc, op, answer, result>>

PlcScan(a, v) ==
  /\ plc' = [plc EXCEPT ![a] = v]
  /\ UNCHANGED <<op, answer, result, closed>>

Next ==
  \/ \E t \in Tasks, o \in Op : Call(t, o)
  \/ \E t \in Tasks : ServeSend(t) \/ ServeRecv(t) \/ Return(t)
                       \/ ReturnUnserved(t)
  \/ CloseOrReopen
  \/ \E a \in PlcOwned, v \in Values : PlcScan(a, v)

Spec == Init /\ [][Next]_regVars
================================================================================
