---------------------------- MODULE McRegisterProofs ----------------------------
(***************************************************************************)
(* What the callers of AioMcClient may rely on, for any number of tasks,   *)
(* registers and injected faults, as long as the PLC refuses nothing and   *)
(* an answer arrives in one segment: a recv returns the answer to its own  *)
(* request, and the client implements PlcRegister, where a send is dropped *)
(* only while the link is one the PLC has closed.                          *)
(***************************************************************************)
EXTENDS McClientProofs

USE DEF HeadLen, EndCodeAt, DataLen, ErrLen

\* an answer, refusals included, arrives in one segment
WholeAnswers == \A n \in Cuts : n >= HeadLen + ErrLen

AnswerLen(t) == IF op[t].kind = "recv" THEN HeadLen + DataLen ELSE HeadLen

Quiet == reqs = <<>> /\ unread = 0 /\ coming = 0

Served(t) ==
  /\ answer[t] = ans
  /\ ans \in Values
  /\ op[t].kind = "send" => ans = op[t].val

\* where the request of t and its answer are while t waits for the head
AwaitsHead(t) ==
  \/ /\ reqs = <<[task |-> t, call |-> op[t]]>>
     /\ unread = 0 /\ coming = 0 /\ skew = 0
     /\ link = "up"
  \/ /\ reqs = <<>>
     /\ Served(t)
     /\ \/ unread = 0 /\ coming = AnswerLen(t) /\ link = "up"
        \/ unread = AnswerLen(t) /\ coming = 0 /\ link \in {"up", "eof"}
     /\ skew = 0
  \/ Quiet /\ link \in {"eof", "reset"}

\* and while it waits for the data
AwaitsBody(t) ==
  /\ op[t].kind = "recv"
  /\ reqs = <<>>
  /\ coming = 0
  /\ \/ /\ Served(t)
        /\ unread = DataLen
        /\ got = HeadLen
        /\ reads = 1
        /\ skew = 0
        /\ link \in {"up", "eof"}
     \/ unread = 0 /\ link = "reset"

(***************************************************************************)
(* The link carries the request or the answer of the one task that waits   *)
(* for it, and nothing when nobody waits.                                  *)
(***************************************************************************)
InStep ==
  /\ \A t \in Tasks : pc[t] = "head" => AwaitsHead(t)
  /\ \A t \in Tasks : pc[t] = "body" => AwaitsBody(t)
  /\ \A t \in Tasks : pc[t] # "more"
  /\ (\A t \in Tasks : pc[t] \notin Awaiting) => Quiet

Inv == TypeOK /\ OpenIsProtected /\ Pending /\ InStep

LEMMA Alone ==
  ASSUME TypeOK, OpenIsProtected, NEW t \in Tasks, pc[t] \in Holding
  PROVE  \A u \in Tasks : u # t => pc[u] \notin Holding
BY DEF OpenIsProtected

LEMMA One ==
  ASSUME NEW S, NEW r \in S
  PROVE  /\ Append(<<>>, r) = <<r>>
         /\ Head(<<r>>) = r /\ Tail(<<r>>) = <<>>
         /\ <<r>> # <<>> /\ Len(<<>>) = 0
OBVIOUS

(* A step that leaves the link alone and enters or leaves no wait. *)
LEMMA OffLink ==
  ASSUME TypeOK, InStep, UNCHANGED <<streamVars, readVars>>,
         \A u \in Tasks : \/ pc[u] \notin Awaiting /\ pc'[u] \notin Awaiting
                          \/ pc'[u] = pc[u] /\ op'[u] = op[u] /\ answer'[u] = answer[u]
  PROVE  InStep'
<1> USE DEF streamVars, readVars, Awaiting, Reading
<1>1. ASSUME NEW u \in Tasks, pc'[u] = "head" PROVE AwaitsHead(u)'
  BY <1>1 DEF InStep, AwaitsHead, Served, AnswerLen, Quiet
<1>2. ASSUME NEW u \in Tasks, pc'[u] = "body" PROVE AwaitsBody(u)'
  BY <1>2 DEF InStep, AwaitsBody, Served
<1>3. (\A u \in Tasks : pc'[u] \notin Awaiting) => Quiet'
  BY DEF InStep, Quiet
<1> QED
  BY <1>1, <1>2, <1>3 DEF InStep

(* The holder of the lock leaves the wait with an empty link. *)
LEMMA LeaveWait ==
  ASSUME TypeOK, OpenIsProtected, NEW t \in Tasks, pc[t] \in Holding,
         pc'[t] \notin Awaiting, \A u \in Tasks : u # t => pc'[u] = pc[u], Quiet'
  PROVE  InStep'
BY Alone DEF InStep, Holding, Awaiting, Reading

LEMMA InStepStep ==
  ASSUME WholeAnswers, "refuse" \notin Faults, Inv, [Next]_vars
  PROVE  InStep'
<1> USE DEF Inv
<1>0. Awaiting \subseteq Holding /\ "start" \in Holding /\ "write" \in Holding
      /\ Awaiting = {"head", "body", "more"} /\ Nothing \notin Values
  BY OpAssumption DEF Holding, Awaiting, Reading
<1>1. ASSUME NEW t \in Tasks, NEW o \in Op, Call(t, o) PROVE InStep'
  <2>1. UNCHANGED <<streamVars, readVars, answer>>
    BY <1>1 DEF Call, clientVars
  <2>2. pc[t] \notin Awaiting /\ pc'[t] \notin Awaiting
    BY <1>0, <1>1 DEF TypeOK, Call, Acquire
  <2>3. \A u \in Tasks : u # t => pc'[u] = pc[u] /\ op'[u] = op[u]
    BY <1>1 DEF TypeOK, Call, Acquire
  <2> QED
    BY <2>1, <2>2, <2>3, OffLink
<1>2. ASSUME NEW t \in Tasks, Retry(t) PROVE InStep'
  <2>1. UNCHANGED <<streamVars, readVars, answer, op>>
    BY <1>2 DEF Retry, clientVars, callVars
  <2>2. pc[t] \notin Awaiting /\ pc'[t] \notin Awaiting
    BY <1>0, <1>2 DEF TypeOK, Retry, Acquire
  <2>3. \A u \in Tasks : u # t => pc'[u] = pc[u]
    BY <1>2 DEF TypeOK, Retry, Acquire
  <2> QED
    BY <2>1, <2>2, <2>3, OffLink
<1>3. ASSUME NEW t \in Tasks, Grant(t) PROVE InStep'
  <2>1. UNCHANGED <<streamVars, readVars, answer, op>>
    BY <1>3 DEF Grant, clientVars, callVars
  <2> QED
    BY <1>0, <1>3, <2>1, GrantStep, OffLink
<1>4. ASSUME NEW t \in Tasks, AlreadyOpen(t) PROVE InStep'
  <2>1. UNCHANGED <<streamVars, readVars, answer, op>>
    BY <1>4 DEF AlreadyOpen, Started, callVars
  <2>2. /\ pc[t] \notin Awaiting /\ pc'[t] \notin Awaiting
        /\ \A u \in Tasks : u # t => pc'[u] = pc[u]
    BY <1>0, <1>4 DEF TypeOK, AlreadyOpen, Started
  <2> QED
    BY <2>1, <2>2, OffLink
<1>5. ASSUME NEW t \in Tasks, Open(t) PROVE InStep'
  <2>1. /\ pc[t] = "start"
        /\ pc'[t] \notin Awaiting
        /\ \A u \in Tasks : u # t => pc'[u] = pc[u]
    BY <1>0, <1>5 DEF TypeOK, Open, Started, Fail
  <2>2. Quiet
    BY <1>0, <2>1, Alone DEF InStep
  <2>3. Quiet'
    BY <1>5, <2>2 DEF Open, NewStreams, Quiet, streamVars
  <2> QED
    BY <1>0, <2>1, <2>3, LeaveWait
<1>6. ASSUME NEW t \in Tasks, WriteRaises(t) PROVE InStep'
  <2>1. /\ pc[t] = "write"
        /\ pc'[t] \notin Awaiting
        /\ \A u \in Tasks : u # t => pc'[u] = pc[u]
    BY <1>0, <1>6 DEF TypeOK, WriteRaises, Fail
  <2>2. Quiet
    BY <1>0, <2>1, Alone DEF InStep
  <2>3. Quiet'
    BY <1>6, <2>2 DEF WriteRaises, Quiet, streamVars
  <2> QED
    BY <1>0, <2>1, <2>3, LeaveWait
<1>7. ASSUME NEW t \in Tasks, Write(t) PROVE InStep'
  <2>1. /\ pc[t] = "write"
        /\ pc'[t] = "head"
        /\ \A u \in Tasks : u # t => pc'[u] = pc[u]
        /\ op' = op /\ link' = link /\ unread' = unread /\ coming' = coming
    BY <1>7 DEF TypeOK, Write, callVars
  <2>2. Quiet /\ \A u \in Tasks : u # t => pc'[u] \notin Awaiting
    BY <1>0, <2>1, Alone DEF InStep
  <2>3. skew' = 0
    BY <1>7, <2>2, One DEF Write, Stale, Quiet
  <2>4. AwaitsHead(t)'
    <3>1. CASE link = "up"
      <4>1. reqs' = <<[task |-> t, call |-> op[t]]>>
        BY <1>7, <2>2, <3>1, One DEF Write, Quiet
      <4> QED
        BY <2>1, <2>2, <2>3, <3>1, <4>1 DEF AwaitsHead, Quiet
    <3>2. CASE link = "eof"
      BY <1>7, <2>1, <2>2, <3>2 DEF AwaitsHead, Quiet, Write
    <3> QED
      BY <1>7, <3>1, <3>2 DEF Write
  <2> QED
    BY <1>0, <2>1, <2>2, <2>4 DEF InStep
<1>8. ASSUME NEW t \in Tasks, ReadRaises(t) PROVE InStep'
  <2>1. /\ pc[t] \in Awaiting
        /\ pc'[t] \notin Awaiting
        /\ \A u \in Tasks : u # t => pc'[u] = pc[u]
    BY <1>0, <1>8 DEF TypeOK, ReadRaises, Fail
  <2>2. Quiet
    BY <1>0, <1>8 DEF InStep, ReadRaises, AwaitsHead, AwaitsBody, Quiet
  <2>3. Quiet'
    BY <1>8, <2>2 DEF ReadRaises, Quiet, streamVars
  <2> QED
    BY <1>0, <2>1, <2>3, LeaveWait
<1>9. ASSUME NEW t \in Tasks, SendHead(t) PROVE InStep'
  <2>1. /\ pc[t] \in Awaiting
        /\ pc'[t] \notin Awaiting
        /\ \A u \in Tasks : u # t => pc'[u] = pc[u]
    BY <1>0, <1>9 DEF TypeOK, SendHead, Return
  <2>2. AwaitsHead(t) /\ op[t].kind = "send"
    BY <1>9 DEF InStep, SendHead
  <2>3. Quiet'
    <3>1. CASE ReadEof
      BY <2>2, <3>1 DEF AwaitsHead, AnswerLen, Quiet, ReadEof, streamVars
    <3>2. CASE Read(HeadLen)
      BY <2>2, <3>2 DEF AwaitsHead, AnswerLen, Quiet, Read, Least
    <3> QED
      BY <1>9, <3>1, <3>2 DEF SendHead
  <2> QED
    BY <1>0, <2>1, <2>3, LeaveWait
<1>10. ASSUME NEW t \in Tasks, RecvHeadRaises(t) PROVE InStep'
  <2>1. /\ pc[t] \in Awaiting
        /\ pc'[t] \notin Awaiting
        /\ \A u \in Tasks : u # t => pc'[u] = pc[u]
    BY <1>0, <1>10 DEF TypeOK, RecvHeadRaises, Fail
  <2>2. AwaitsHead(t) /\ op[t].kind = "recv"
    BY <1>10 DEF InStep, RecvHeadRaises
  <2>3. Quiet'
    <3>1. CASE ReadEof
      BY <2>2, <3>1 DEF AwaitsHead, AnswerLen, Quiet, ReadEof, streamVars
    <3>2. CASE Read(HeadLen) /\ (unread < EndCodeAt \/ skew > 0)
      BY <2>2, <3>2 DEF AwaitsHead, AnswerLen, Quiet, Read
    <3> QED
      BY <1>10, <3>1, <3>2 DEF RecvHeadRaises
  <2> QED
    BY <1>0, <2>1, <2>3, LeaveWait
<1>11. ASSUME NEW t \in Tasks, RecvHead(t) PROVE InStep'
  <2>1. /\ pc[t] = "head" /\ pc'[t] = "body"
        /\ \A u \in Tasks : u # t => pc'[u] = pc[u]
        /\ op' = op /\ answer' = answer
    BY <1>11 DEF TypeOK, RecvHead, callVars
  <2>2. AwaitsHead(t) /\ op[t].kind = "recv"
    BY <1>11 DEF InStep, RecvHead
  <2>3. AwaitsBody(t)'
    BY <1>11, <2>1, <2>2 DEF AwaitsHead, AwaitsBody, AnswerLen, Quiet, Served, RecvHead, Read,
       Least, callVars
  <2> QED
    BY <1>0, <2>1, <2>3, Alone DEF InStep
<1>12. ASSUME NEW t \in Tasks, RecvBodyRaises(t) PROVE InStep'
  <2>1. AwaitsBody(t)
    BY <1>12 DEF InStep, RecvBodyRaises, Reading
  <2> QED
    BY <1>12, <2>1 DEF RecvBodyRaises, AwaitsBody, Read, ReadEof
<1>13. ASSUME NEW t \in Tasks, RecvBody(t) PROVE InStep'
  <2>1. /\ pc[t] \in Awaiting
        /\ pc'[t] \notin Awaiting
        /\ \A u \in Tasks : u # t => pc'[u] = pc[u]
    BY <1>0, <1>13 DEF TypeOK, RecvBody, Return, Reading
  <2>2. AwaitsBody(t)
    BY <1>13 DEF InStep, RecvBody, Reading
  <2>3. Quiet'
    BY <1>13, <2>2 DEF InStep, AwaitsBody, Quiet, RecvBody, Read, ReadEof, Least
  <2> QED
    BY <1>0, <2>1, <2>3, LeaveWait
<1>19. ASSUME NEW t \in Tasks, RecvMore(t) PROVE FALSE
  BY <1>19 DEF InStep, RecvMore, Reading, AwaitsBody, Read, ReadEof
<1>14. CASE Serve
  <2>1. PICK t \in Tasks : pc[t] = "head" /\ reqs = <<[task |-> t, call |-> op[t]]>>
                         /\ unread = 0 /\ coming = 0 /\ skew = 0 /\ link = "up"
    BY <1>0, <1>14 DEF InStep, Quiet, AwaitsHead, AwaitsBody, Serve, ServeSend, ServeRecv
  <2>2. Head(reqs) = [task |-> t, call |-> op[t]] /\ Tail(reqs) = <<>>
    BY <2>1
  <2>3. op[t] \in Op
    BY <2>1 DEF TypeOK, Pending
  <2>4. /\ pc' = pc /\ op' = op /\ link' = link /\ unread' = unread /\ skew' = skew
        /\ reqs' = <<>> /\ coming' = AnswerLen(t) /\ Served(t)'
    <3>1. CASE ServeSend
      <4>1. op[t].kind = "send" /\ op[t].val \in Values
        BY <1>0, <2>1, <2>2, <2>3, <3>1, OpFacts DEF ServeSend, Pending
      <4> QED
        BY <2>1, <2>2, <3>1, <4>1 DEF TypeOK, ServeSend, Reply, Answered, AnswerLen, Served
    <3>2. CASE ServeRecv
      <4>1. op[t].kind = "recv" /\ plc[op[t].addr] \in Values
        BY <2>2, <2>3, <3>2, OpFacts DEF TypeOK, ServeRecv
      <4> QED
        BY <2>1, <2>2, <3>2, <4>1 DEF TypeOK, ServeRecv, Reply, Answered, AnswerLen, Served
    <3> QED
      BY <1>14, <3>1, <3>2 DEF Serve
  <2>5. AwaitsHead(t)'
    BY <2>1, <2>4 DEF AwaitsHead, AnswerLen
  <2> QED
    BY <1>0, <2>1, <2>4, <2>5, Alone DEF InStep
<1>15. CASE Refuse
  BY <1>15 DEF Refuse, Fault
<1>16. CASE LinkEof \/ LinkReset
  <2>1. pc' = pc /\ op' = op /\ answer' = answer /\ UNCHANGED readVars /\ ans' = ans /\ skew' = skew /\ reqs' = <<>>
    BY <1>16 DEF LinkEof, LinkReset, callVars
  <2>2. \/ link = "up" /\ coming = 0 /\ link' = "eof" /\ unread' = unread /\ coming' = coming
        \/ link' = "reset" /\ unread' = 0 /\ coming' = 0
    BY <1>16 DEF LinkEof, LinkReset
  <2>3. ASSUME NEW u \in Tasks, pc[u] = "head" PROVE AwaitsHead(u)'
    <3>1. AwaitsHead(u)
      BY <2>3 DEF InStep
    <3> QED
      BY <2>1, <2>2, <3>1 DEF AwaitsHead, AnswerLen, Served, Quiet
  <2>4. ASSUME NEW u \in Tasks, pc[u] = "body" PROVE AwaitsBody(u)'
    <3>1. AwaitsBody(u)
      BY <2>4 DEF InStep
    <3> QED
      BY <2>1, <2>2, <3>1 DEF AwaitsBody, Served, readVars
  <2> QED
    BY <2>1, <2>2, <2>3, <2>4 DEF InStep, Quiet
<1>17. ASSUME NEW n \in Cuts, Deliver(n) PROVE InStep'
  <2>1. /\ pc' = pc /\ op' = op /\ answer' = answer /\ UNCHANGED readVars /\ ans' = ans
        /\ skew' = skew /\ reqs' = reqs /\ link' = link
    BY <1>17 DEF Deliver, callVars
  <2>2. PICK t \in Tasks : pc[t] \in Awaiting
    BY <1>17 DEF InStep, Quiet, Deliver
  <2>3. /\ pc[t] = "head"
        /\ reqs = <<>> /\ Served(t) /\ skew = 0
        /\ unread = 0 /\ coming = AnswerLen(t) /\ link = "up"
    BY <1>0, <1>17, <2>2 DEF InStep, Quiet, Deliver, AwaitsHead, AwaitsBody
  <2>4. n \in Nat /\ n >= coming
    BY <2>3, BoundAssumption DEF WholeAnswers, AnswerLen
  <2>5. unread' = AnswerLen(t) /\ coming' = 0
    BY <1>17, <2>3, <2>4 DEF Deliver, Least, AnswerLen
  <2>6. AwaitsHead(t)'
    BY <2>1, <2>3, <2>5 DEF AwaitsHead, AnswerLen, Served
  <2> QED
    BY <1>0, <2>1, <2>3, <2>6, Alone DEF InStep
<1>18. CASE \/ \E a \in PlcOwned, v \in Values : PlcScan(a, v)
            \/ UNCHANGED vars
  <2>1. UNCHANGED <<streamVars, readVars, pc, op, answer>>
    BY <1>18 DEF PlcScan, vars, clientVars, callVars
  <2> QED
    BY <2>1, OffLink
<1> QED
  BY <1>1, <1>2, <1>3, <1>4, <1>5, <1>6, <1>7, <1>8, <1>9, <1>10, <1>11, <1>12,
     <1>13, <1>14, <1>15, <1>16, <1>17, <1>18, <1>19 DEF Next, Proceed, Link
LEMMA InvInvariant ==
  ASSUME WholeAnswers, "refuse" \notin Faults
  PROVE  Spec => []Inv
<1>1. Init => InStep
  BY DEF Init, InStep, Quiet
<1>2. TypeOK /\ OpenIsProtected /\ Pending /\ InStep /\ [Next]_vars => InStep'
  BY InStepStep DEF Inv
<1> QED
  BY <1>1, <1>2, Control, PTL DEF Spec, Inv

(* The value a recv returns is the one the PLC served for this call. *)
LEMMA RecvReturns ==
  ASSUME Inv, NEW t \in Tasks, RecvBody(t)
  PROVE  /\ op[t].kind = "recv"
         /\ answer[t] # Nothing
         /\ Return(t, answer[t])
<1>1. AwaitsBody(t)
  BY DEF Inv, InStep, RecvBody, Reading
<1>2. Served(t) /\ unread = DataLen /\ got = HeadLen /\ skew = 0
  BY <1>1 DEF Inv, InStep, AwaitsBody, RecvBody, Read
<1> QED
  BY <1>1, <1>2, OpAssumption DEF AwaitsBody, RecvBody, Served

(* A call ends in one of the two actions that return a result. *)
LEMMA CallEnds ==
  ASSUME TypeOK, [Next]_vars, NEW t \in Tasks, op[t] # Nothing, op'[t] = Nothing
  PROVE  SendHead(t) \/ RecvBody(t)
<1>1. ASSUME NEW u \in Tasks, NEW o \in Op, Call(u, o) PROVE FALSE
  BY <1>1, OpAssumption DEF TypeOK, Call
<1>2. ASSUME NEW u \in Tasks, SendHead(u) \/ RecvBody(u) PROVE u = t
  BY <1>2 DEF TypeOK, SendHead, RecvBody, Return
<1>3. ASSUME NEW u \in Tasks,
             \/ Grant(u) \/ Retry(u) \/ AlreadyOpen(u) \/ Open(u) \/ WriteRaises(u)
             \/ Write(u) \/ ReadRaises(u) \/ RecvHeadRaises(u) \/ RecvHead(u)
             \/ RecvBodyRaises(u) \/ RecvMore(u)
      PROVE  op' = op
  BY <1>3 DEF Grant, Retry, AlreadyOpen, Open, WriteRaises, Write, ReadRaises,
     RecvHeadRaises, RecvHead, RecvBodyRaises, RecvMore, Started, Fail, callVars
<1>4. CASE \/ Serve \/ Link \/ UNCHANGED vars
           \/ \E a \in PlcOwned, v \in Values : PlcScan(a, v)
  BY <1>4 DEF Serve, ServeSend, ServeRecv, Link, Refuse, LinkEof, LinkReset, Deliver,
     PlcScan, callVars, vars
<1> QED
  BY <1>1, <1>2, <1>3, <1>4 DEF Next, Proceed

(***************************************************************************)
(* Unless answers are broken into segments or refused, recv_register never *)
(* returns the answer to another request, whatever link failures, swallowed*)
(* connect timeouts and retries came before.                               *)
(***************************************************************************)
THEOREM FreshAnswers ==
  ASSUME WholeAnswers, "refuse" \notin Faults
  PROVE  Spec => FreshAnswer
<1> DEFINE Fresh == \A t \in Tasks :
                      (op[t] # Nothing /\ op'[t] = Nothing /\ op[t].kind = "recv")
                        => result'[t] = answer[t] /\ answer[t] # Nothing
<1>1. Inv /\ [Next]_vars => Fresh
  <2> SUFFICES ASSUME Inv, [Next]_vars, NEW t \in Tasks,
                      op[t] # Nothing, op'[t] = Nothing, op[t].kind = "recv"
               PROVE  result'[t] = answer[t] /\ answer[t] # Nothing
    OBVIOUS
  <2>1. RecvBody(t)
    BY CallEnds DEF Inv, SendHead
  <2> QED
    BY <2>1, RecvReturns DEF Inv, TypeOK, Return
<1>2. Spec => [][Fresh]_vars
  BY <1>1, InvInvariant, PTL DEF Spec
<1> QED
  BY <1>2 DEF FreshAnswer

--------------------------------------------------------------------------------
(* The client is the abstract register.                                     *)

EofIsFault == link = "eof" => "eof" \in Faults

LEMMA EofIsFaultStep ==
  ASSUME EofIsFault, [Next]_vars
  PROVE  EofIsFault'
BY DEF EofIsFault, Next, vars, Proceed, Serve, Link, Call, Grant, Retry, AlreadyOpen, Open,
   NewStreams, WriteRaises, Write, ReadRaises, SendHead, RecvHeadRaises, RecvHead,
   RecvMore, RecvBodyRaises, RecvBody, Read, ReadEof, ServeSend, ServeRecv, Reply, Refuse,
   LinkEof, Fault, LinkReset, Deliver, PlcScan, clientVars, streamVars

(* A send returns with its answer, or at the end of the stream. *)
LEMMA SendReturns ==
  ASSUME Inv, NEW t \in Tasks, SendHead(t)
  PROVE  /\ Return(t, op[t].val)
         /\ (answer[t] # Nothing /\ answer[t] = op[t].val) \/ link = "eof"
<1>1. Return(t, op[t].val) /\ op[t].kind = "send" /\ AwaitsHead(t)
  BY DEF Inv, InStep, SendHead
<1>2. CASE Read(HeadLen) /\ link # "eof"
  <2>1. Served(t)
    BY <1>1, <1>2 DEF AwaitsHead, Read, Quiet
  <2> QED
    BY <1>1, <2>1, OpAssumption DEF Served
<1>3. CASE ReadEof
  BY <1>1, <1>3 DEF ReadEof
<1> QED
  BY <1>1, <1>2, <1>3 DEF SendHead

LEMMA RegisterStep ==
  ASSUME Inv, EofIsFault, [Next]_vars
  PROVE  [Register!Next]_<<plc, op, answer, result, link = "eof">>
<1> USE DEF Inv
<1> USE DEF Register!Next
<1>1. ASSUME NEW t \in Tasks, NEW o \in Op, Call(t, o) PROVE Register!Next
  <2>1. Register!Call(t, o)
    BY <1>1 DEF Pending, Call, Register!Call, clientVars, streamVars
  <2> QED
    BY <2>1 DEF Op, SendOp, RecvOp, Register!Op, Register!SendOp, Register!RecvOp
<1>2. ASSUME NEW t \in Tasks, SendHead(t) \/ RecvBody(t) PROVE Register!Next
  <2>1. op[t] # Nothing /\ link' = link
    BY <1>2 DEF Pending, SendHead, RecvBody, Read, ReadEof, Reading, streamVars
  <2>2. CASE answer[t] # Nothing /\ Return(t, answer[t])
    BY <2>1, <2>2 DEF Return, Register!Return
  <2>3. CASE SendHead(t) /\ Return(t, op[t].val) /\ link = "eof"
    <3>1. op[t].kind = "send" /\ op[t].val \in Values
      BY <2>1, <2>3, OpFacts DEF TypeOK, Pending, SendHead, Awaiting
    <3>2. Register!ReturnUnserved(t)
      BY <2>1, <2>3, <3>1 DEF Return, Register!ReturnUnserved
    <3> QED
      BY <3>2
  <2> QED
    BY <1>2, <2>2, <2>3, SendReturns, RecvReturns
<1>3. CASE Serve
  <2>1. PICK t \in Tasks : op[t] # Nothing /\ pc[t] \in Awaiting /\ link = "up"
                         /\ Head(reqs).task = t /\ Head(reqs).call = op[t]
    BY <1>3 DEF InStep, Quiet, AwaitsHead, AwaitsBody, Pending, Awaiting,
       Reading, Serve, ServeSend, ServeRecv
  <2>2. link' = link
    BY <1>3 DEF Serve, ServeSend, ServeRecv, Reply
  <2>3. ASSUME ServeSend PROVE Register!ServeSend(t)
    <3>1. op[t].val \in Values
      BY <2>1, <2>3, OpFacts DEF TypeOK, Pending, ServeSend
    <3> QED
      BY <2>1, <2>2, <2>3, <3>1 DEF ServeSend, Answered, Register!ServeSend
  <2>4. ASSUME ServeRecv PROVE Register!ServeRecv(t)
    BY <2>1, <2>2, <2>4 DEF ServeRecv, Answered, Register!ServeRecv
  <2> QED
    BY <1>3, <2>1, <2>3, <2>4 DEF Serve
<1>4. CASE \E a \in PlcOwned, v \in Values : PlcScan(a, v)
  BY <1>4 DEF PlcScan, callVars, clientVars, streamVars, Register!PlcScan
<1>5. ASSUME NEW t \in Tasks,
             \/ Grant(t) \/ Retry(t) \/ AlreadyOpen(t) \/ WriteRaises(t) \/ Write(t)
             \/ ReadRaises(t) \/ RecvHeadRaises(t) \/ RecvHead(t) \/ RecvMore(t)
             \/ RecvBodyRaises(t)
      PROVE  UNCHANGED <<plc, op, answer, result, link>>
  BY <1>5 DEF Grant, Retry, AlreadyOpen, WriteRaises, Write, ReadRaises,
     RecvHeadRaises, RecvHead, RecvMore, RecvBodyRaises, Read, ReadEof, Started, Fail, callVars,
     clientVars, streamVars
<1>6. CASE Refuse \/ (\E n \in Cuts : Deliver(n)) \/ UNCHANGED vars
  BY <1>6 DEF Refuse, Reply, Deliver, callVars, clientVars, streamVars, vars
<1>7. ASSUME (\E t \in Tasks : Open(t)) \/ LinkEof \/ LinkReset
      PROVE  Register!CloseOrReopen \/ UNCHANGED <<plc, op, answer, result, link = "eof">>
  <2>1. UNCHANGED <<plc, op, answer, result>>
    BY <1>7 DEF Open, Started, Fail, LinkEof, LinkReset, callVars
  <2>2. (link = "eof")' = (link = "eof") \/ "eof" \in Faults
    BY <1>7 DEF Open, NewStreams, streamVars, LinkEof, LinkReset, Fault, EofIsFault
  <2> QED
    BY <2>1, <2>2 DEF Register!CloseOrReopen
<1> QED
  BY <1>1, <1>2, <1>3, <1>4, <1>5, <1>6, <1>7 DEF Next, Proceed, Link

(***************************************************************************)
(* safe_send_register and safe_recv_register are at-least-once operations  *)
(* on the registers, served between their call and their return; only on a *)
(* link the PLC has closed in an orderly way does a send return unserved.  *)
(***************************************************************************)
THEOREM Refinement ==
  ASSUME WholeAnswers, "refuse" \notin Faults
  PROVE  Spec => ImplementsRegister
<1>1. Init => Register!Init /\ EofIsFault
  BY DEF Init, Register!Init, EofIsFault
<1>2. EofIsFault /\ [Next]_vars => EofIsFault'
  BY EofIsFaultStep
<1>3. Inv /\ EofIsFault /\ [Next]_vars => [Register!Next]_(Register!regVars)
  BY RegisterStep DEF Register!regVars
<1> QED
  BY <1>1, <1>2, <1>3, InvInvariant, PTL DEF Spec, ImplementsRegister, Register!Spec
================================================================================
