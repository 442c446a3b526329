----------------------------- MODULE McClientProofs -----------------------------
(***************************************************************************)
(* Proofs about McClient for any number of tasks, registers, values and    *)
(* injected faults.                                                        *)
(***************************************************************************)
EXTENDS McClient, SequenceTheorems, TLAPS

USE DEF HeadLen, EndCodeAt, DataLen, ErrLen

LEMMA OpFacts ==
  /\ \A o \in Op : o.kind \in {"send", "recv"} /\ o.addr \in Addr
  /\ \A o \in Op : o.kind = "send" => o.val \in Values \cup Unsupported
  /\ \A o \in Op : o.kind = "recv" => o.val = Nothing
  /\ Nothing \notin Op
BY OpAssumption DEF Op, SendOp, RecvOp

LEMMA SeqFacts ==
  ASSUME NEW S, NEW s \in Seq(S)
  PROVE  /\ <<>> \in Seq(S)
         /\ \A x \in S : Append(s, x) \in Seq(S)
         /\ s # <<>> => Head(s) \in S /\ Tail(s) \in Seq(S)
         /\ Len(s) \in Nat
OBVIOUS

LEMMA FaultCount ==
  ASSUME faults \in 0..FaultBudget, NEW kind, Fault(kind)
  PROVE  faults' \in 0..FaultBudget
BY BoundAssumption DEF Fault

LEMMA AcquireType ==
  ASSUME TypeOK, NEW t \in Tasks, Acquire(t)
  PROVE  /\ pc' \in [Tasks -> {"idle", "lock", "sleep"} \cup Holding]
         /\ owner' \in Tasks \cup {NoTask}
         /\ waiters' \in Seq(Tasks)
<1>1. waiters \in Seq(Tasks) /\ Append(waiters, t) \in Seq(Tasks)
  BY SeqFacts DEF TypeOK
<1> QED
  BY <1>1 DEF Acquire, TypeOK, Holding

LEMMA FailType ==
  ASSUME TypeOK, NEW t \in Tasks, Fail(t)
  PROVE  /\ plc' \in [Addr -> Values]
         /\ op' \in [Tasks -> Op \cup {Nothing}]
         /\ answer' \in [Tasks -> Values \cup {Nothing}]
         /\ result' \in [Tasks -> Values \cup {Nothing, Garbage}]
         /\ pc' \in [Tasks -> {"idle", "lock", "sleep"} \cup Holding]
         /\ owner' \in Tasks \cup {NoTask}
         /\ waiters' \in Seq(Tasks)
         /\ stoped' \in BOOLEAN
         /\ got' \in 0..HeadLen
         /\ reads' \in 0..MaxReads
         /\ wrote' \subseteq Tasks
BY BoundAssumption DEF Fail, Leave, TypeOK, callVars

LEMMA ReadType ==
  ASSUME TypeOK, NEW n \in Nat, Read(n) \/ ReadEof
  PROVE  /\ link' \in {"none", "up", "eof", "reset"}
         /\ reqs' \in Seq(Request)
         /\ unread' \in Nat
         /\ coming' \in Nat
         /\ ans' \in Values \cup {Nothing, Garbage}
         /\ skew' \in 0..MaxSkew
BY DEF Read, ReadEof, Least, TypeOK, streamVars

(***************************************************************************)
(* A task is inside a call exactly while its call is pending, and   *)
(* nothing is written for an argument the protocol cannot carry.           *)
(***************************************************************************)
Pending ==
  \A t \in Tasks :
    /\ pc[t] = "idle" <=> op[t] = Nothing
    /\ pc[t] \in Awaiting => op[t].val \notin Unsupported

(***************************************************************************)
(* What a step can do to the tasks and to the lock, whatever it does to    *)
(* the link.                                                               *)
(***************************************************************************)
Advance(t, from, to) ==
  /\ pc[t] = from
  /\ pc' = [pc EXCEPT ![t] = to]
  /\ UNCHANGED <<callVars, lockVars, stoped>>

ReadOn(t) ==
  /\ pc[t] \in Reading
  /\ pc' = [pc EXCEPT ![t] = "more"]
  /\ UNCHANGED <<callVars, lockVars, stoped>>

ControlAct(t) ==
  \/ /\ pc[t] = "idle" /\ Acquire(t) /\ UNCHANGED stoped
     /\ \E o \in Op : op' = [op EXCEPT ![t] = o]
  \/ pc[t] = "sleep" /\ Acquire(t) /\ UNCHANGED <<op, stoped>>
  \/ Grant(t)
  \/ pc[t] = "start" /\ Started(t)
  \/ pc[t] \in Holding /\ Fail(t)
  \/ Advance(t, "write", "head") /\ op[t].val \notin Unsupported
  \/ Advance(t, "head", "body")
  \/ ReadOn(t)
  \/ pc[t] \in Awaiting /\ \E r : Return(t, r)

LEMMA ControlStep ==
  ASSUME [Next]_vars
  PROVE  (\E t \in Tasks : ControlAct(t)) \/ UNCHANGED <<op, pc, lockVars, stoped>>
<1>1. ASSUME NEW t \in Tasks, NEW o \in Op, Call(t, o) PROVE ControlAct(t)
  BY <1>1 DEF Call, ControlAct, clientVars
<1>2. ASSUME NEW t \in Tasks, Retry(t) PROVE ControlAct(t)
  BY <1>2 DEF Retry, ControlAct, clientVars, callVars
<1>3. ASSUME NEW t \in Tasks, Grant(t) PROVE ControlAct(t)
  BY <1>3 DEF ControlAct
<1>4. ASSUME NEW t \in Tasks, AlreadyOpen(t) \/ Open(t) PROVE ControlAct(t)
  BY <1>4 DEF AlreadyOpen, Open, ControlAct, Holding
<1>5. ASSUME NEW t \in Tasks,
             \/ WriteRaises(t) \/ ReadRaises(t)
             \/ RecvHeadRaises(t) \/ RecvBodyRaises(t)
      PROVE  ControlAct(t)
  BY <1>5 DEF WriteRaises, ReadRaises, RecvHeadRaises, RecvBodyRaises, ControlAct,
     Holding, Awaiting, Reading
<1>6. ASSUME NEW t \in Tasks, Write(t) PROVE ControlAct(t)
  BY <1>6 DEF Write, ControlAct, Advance
<1>7. ASSUME NEW t \in Tasks, RecvHead(t) PROVE ControlAct(t)
  BY <1>7 DEF RecvHead, ControlAct, Advance
<1>8. ASSUME NEW t \in Tasks, SendHead(t) PROVE ControlAct(t)
  BY <1>8 DEF SendHead, ControlAct, Awaiting
<1>9. ASSUME NEW t \in Tasks, RecvBody(t) PROVE ControlAct(t)
  BY <1>9 DEF RecvBody, ControlAct, Awaiting
<1>12. ASSUME NEW t \in Tasks, RecvMore(t)
       PROVE  ControlAct(t) \/ UNCHANGED <<op, pc, lockVars, stoped>>
  BY <1>12 DEF RecvMore, ControlAct, ReadOn, callVars
<1>10. CASE Serve \/ Link \/ \E a \in PlcOwned, v \in Values : PlcScan(a, v)
  BY <1>10 DEF Serve, ServeSend, ServeRecv, Link, Refuse, LinkEof, LinkReset, Deliver,
     Reply, PlcScan, callVars, clientVars
<1>11. CASE UNCHANGED vars
  BY <1>11 DEF vars, callVars, clientVars
<1> QED
  BY <1>1, <1>2, <1>3, <1>4, <1>5, <1>6, <1>7, <1>8, <1>9, <1>10, <1>11, <1>12
     DEF Next, Proceed

(* Waking the first waiter moves exactly that task out of the queue. *)
LEMMA GrantStep ==
  ASSUME TypeOK, OpenIsProtected, NEW t \in Tasks, Grant(t)
  PROVE  /\ pc[t] = "lock" /\ pc'[t] = "start"
         /\ \A u \in Tasks : u # t => pc'[u] = pc[u]
         /\ op' = op
         /\ \A u \in Tasks : (\E i \in DOMAIN waiters' : waiters'[i] = u)
                             <=> u # t /\ \E i \in DOMAIN waiters : waiters[i] = u
         /\ \A i, j \in DOMAIN waiters' : waiters'[i] = waiters'[j] => i = j
<1>0. waiters \in Seq(Tasks)
  BY DEF TypeOK
<1>1. /\ Len(waiters) \in Nat
      /\ DOMAIN waiters = 1..Len(waiters)
      /\ DOMAIN waiters' = 1..(Len(waiters) - 1)
      /\ \A i \in DOMAIN waiters' : waiters'[i] = waiters[i + 1]
      /\ 1 \in DOMAIN waiters
      /\ waiters[1] = t
  BY <1>0, SeqFacts DEF Grant
<1>2. \A i \in DOMAIN waiters' : i + 1 \in DOMAIN waiters
  BY <1>1
<1>3. \A i \in DOMAIN waiters : i = 1 \/ (i - 1 \in DOMAIN waiters' /\ waiters'[i - 1] = waiters[i])
  BY <1>1
<1>4. \A i, j \in DOMAIN waiters' : waiters'[i] = waiters'[j] => i = j
  BY <1>1, <1>2 DEF OpenIsProtected
<1>5. \A i \in DOMAIN waiters' : waiters'[i] # t
  BY <1>1, <1>2 DEF OpenIsProtected
<1>6. \A u \in Tasks : (\E i \in DOMAIN waiters' : waiters'[i] = u)
                        <=> u # t /\ \E i \in DOMAIN waiters : waiters[i] = u
  BY <1>1, <1>2, <1>3, <1>5
<1>7. pc[t] = "lock" /\ pc'[t] = "start" /\ \A u \in Tasks : u # t => pc'[u] = pc[u]
  BY <1>1 DEF TypeOK, OpenIsProtected, Grant
<1> QED
  BY <1>4, <1>6, <1>7 DEF Grant, callVars

LEMMA PendingStep ==
  ASSUME TypeOK, OpenIsProtected, Pending, [Next]_vars
  PROVE  Pending'
<1>1. ASSUME NEW t \in Tasks, ControlAct(t) PROVE Pending'
  <2>1. ASSUME NEW o \in Op, pc[t] = "idle", Acquire(t), op' = [op EXCEPT ![t] = o]
        PROVE  Pending'
    BY <2>1, OpFacts DEF TypeOK, Pending, Acquire, Awaiting, Reading
  <2>2. CASE \/ pc[t] = "sleep" /\ Acquire(t) /\ UNCHANGED <<op, stoped>>
             \/ pc[t] = "start" /\ Started(t)
             \/ pc[t] \in Holding /\ Fail(t)
    <3>1. /\ op' = op
          /\ pc[t] # "idle" /\ pc'[t] # "idle" /\ pc'[t] \notin Awaiting
          /\ \A u \in Tasks : u # t => pc'[u] = pc[u]
      BY <2>2 DEF TypeOK, Acquire, Started, Fail, Holding, Awaiting, Reading, callVars
    <3> QED
      BY <3>1 DEF Pending
  <2>3. CASE \/ Advance(t, "write", "head") /\ op[t].val \notin Unsupported
             \/ Advance(t, "head", "body") \/ ReadOn(t)
    BY <2>3 DEF TypeOK, Pending, Advance, ReadOn, Awaiting, Reading, callVars
  <2>4. ASSUME NEW r, pc[t] \in Awaiting, Return(t, r) PROVE Pending'
    BY <2>4 DEF TypeOK, Pending, Return, Awaiting, Reading
  <2>5. CASE Grant(t)
    BY <2>5, GrantStep DEF Pending, Awaiting, Reading, callVars
  <2> QED
    BY <1>1, <2>1, <2>2, <2>3, <2>4, <2>5 DEF ControlAct
<1>2. CASE UNCHANGED <<op, pc, lockVars, stoped>>
  BY <1>2 DEF Pending
<1> QED
  BY <1>1, <1>2, ControlStep

LEMMA LockStep ==
  ASSUME TypeOK, OpenIsProtected, [Next]_vars
  PROVE  OpenIsProtected'
<1>0. waiters \in Seq(Tasks) /\ NoTask \notin Tasks
  BY ClientAssumption DEF TypeOK
<1>1. ASSUME NEW t \in Tasks, pc[t] \in {"idle", "sleep"}, Acquire(t), UNCHANGED stoped
      PROVE  OpenIsProtected'
  <2>1. CASE owner = NoTask /\ owner' = t
    BY <1>0, <1>1, <2>1 DEF TypeOK, OpenIsProtected, Acquire, Holding, Awaiting, Reading
  <2>2. CASE waiters' = Append(waiters, t) /\ pc' = [pc EXCEPT ![t] = "lock"] /\ owner' = owner
    <3>1. /\ Len(waiters) \in Nat
          /\ DOMAIN waiters = 1..Len(waiters)
          /\ DOMAIN waiters' = 1..(Len(waiters) + 1)
          /\ waiters'[Len(waiters) + 1] = t
          /\ \A i \in DOMAIN waiters : waiters'[i] = waiters[i]
      BY <1>0, <2>2
    <3>2. \A i \in DOMAIN waiters : waiters[i] # t
      BY <1>0, <1>1 DEF OpenIsProtected
    <3>3. \A i \in DOMAIN waiters' : i \in DOMAIN waiters \/ i = Len(waiters) + 1
      BY <3>1
    <3>4. \A u \in Tasks : (\E i \in DOMAIN waiters' : waiters'[i] = u)
                            <=> u = t \/ \E i \in DOMAIN waiters : waiters[i] = u
      BY <3>1, <3>3
    <3>5. \A i, j \in DOMAIN waiters' : waiters'[i] = waiters'[j] => i = j
      BY <3>1, <3>2, <3>3 DEF OpenIsProtected
    <3>6. pc'[t] = "lock" /\ \A u \in Tasks : u # t => pc'[u] = pc[u]
      BY <2>2 DEF TypeOK
    <3> QED
      BY <1>1, <2>2, <3>4, <3>5, <3>6 DEF OpenIsProtected, Holding, Awaiting, Reading
  <2> QED
    BY <1>1, <2>1, <2>2 DEF Acquire
<1>2. ASSUME NEW t \in Tasks, Grant(t) PROVE OpenIsProtected'
  <2>1. owner = NoTask /\ owner' = t /\ stoped' = stoped
    BY <1>2 DEF Grant, clientVars
  <2>2. /\ \A u \in Tasks : pc[u] \notin Holding
        /\ \A u \in Tasks : pc'[u] \in Holding <=> u = t
        /\ \A u \in Tasks : pc'[u] \notin {"write"} \cup Awaiting
        /\ \A u \in Tasks : pc'[u] = "lock" <=> u # t /\ pc[u] = "lock"
    BY <1>0, <1>2, <2>1, GrantStep DEF OpenIsProtected, Holding, Awaiting, Reading
  <2>3. \A u \in Tasks : pc'[u] = "lock" <=> \E i \in DOMAIN waiters' : waiters'[i] = u
    BY <1>2, <2>2, GrantStep DEF OpenIsProtected
  <2>4. \A i, j \in DOMAIN waiters' : waiters'[i] = waiters'[j] => i = j
    BY <1>2, GrantStep
  <2> QED
    BY <2>1, <2>2, <2>3, <2>4 DEF OpenIsProtected
<1>3. ASSUME NEW t \in Tasks,
             \/ pc[t] = "start" /\ Started(t)
             \/ Advance(t, "write", "head") \/ Advance(t, "head", "body") \/ ReadOn(t)
      PROVE  OpenIsProtected'
  BY <1>0, <1>3 DEF TypeOK, OpenIsProtected, Started, Advance, ReadOn, Holding, Awaiting, Reading, lockVars
<1>4. ASSUME NEW t \in Tasks,
             \/ pc[t] \in Holding /\ Fail(t)
             \/ pc[t] \in Awaiting /\ \E r : Return(t, r)
      PROVE  OpenIsProtected'
  <2>1. owner = t /\ \A u \in Tasks : u # t => pc[u] \notin Holding
    BY <1>4 DEF OpenIsProtected, Holding, Awaiting, Reading
  <2>2. /\ owner' = NoTask /\ waiters' = waiters
        /\ pc'[t] \notin Holding \cup {"lock"} /\ pc[t] # "lock"
        /\ \A u \in Tasks : u # t => pc'[u] = pc[u]
    BY <1>4 DEF TypeOK, Fail, Leave, Return, Holding, Awaiting, Reading
  <2>3. \A u \in Tasks : pc'[u] \notin Holding
    BY <2>1, <2>2
  <2>4. \A u \in Tasks : pc'[u] = "lock" <=> pc[u] = "lock"
    BY <2>2
  <2> QED
    BY <1>0, <2>2, <2>3, <2>4 DEF OpenIsProtected, Holding, Awaiting, Reading
<1>5. CASE UNCHANGED <<op, pc, lockVars, stoped>>
  BY <1>5 DEF OpenIsProtected, lockVars
<1> QED
  BY <1>1, <1>2, <1>3, <1>4, <1>5, ControlStep DEF ControlAct

LEMMA TypeStep ==
  ASSUME TypeOK, Pending, [Next]_vars
  PROVE  TypeOK'
<1>1. ASSUME NEW t \in Tasks, NEW o \in Op, Call(t, o) PROVE TypeOK'
  BY <1>1, AcquireType DEF TypeOK, Call, clientVars, streamVars, readVars
<1>2. ASSUME NEW t \in Tasks, Grant(t) PROVE TypeOK'
  BY <1>2 DEF TypeOK, Grant, callVars, clientVars, streamVars, readVars, Holding
<1>3. ASSUME NEW t \in Tasks, Retry(t) PROVE TypeOK'
  BY <1>3, AcquireType DEF TypeOK, Retry, callVars, clientVars, streamVars, readVars
<1>4. ASSUME NEW t \in Tasks, AlreadyOpen(t) PROVE TypeOK'
  BY <1>4 DEF TypeOK, AlreadyOpen, Started, callVars, streamVars, lockVars, readVars, Holding
<1>5. ASSUME NEW t \in Tasks, Open(t) PROVE TypeOK'
  <2>1. CASE Started(t) /\ NewStreams /\ UNCHANGED faults
    <3>1. <<>> \in Seq(Request) /\ 0 \in 0..MaxSkew
      BY SeqFacts, BoundAssumption DEF TypeOK
    <3> QED
      BY <2>1, <3>1 DEF TypeOK, Started, NewStreams, callVars, lockVars, readVars, Holding
  <2>2. CASE Started(t) /\ Fault("connect timeout") /\ UNCHANGED <<streamVars, wrote>>
    BY <2>2, FaultCount DEF TypeOK, Started, callVars, streamVars, lockVars, readVars, Holding
  <2>3. CASE Fail(t) /\ Fault("connect refused") /\ UNCHANGED streamVars
    BY <2>3, FaultCount, FailType DEF TypeOK, streamVars
  <2> QED
    BY <1>5, <2>1, <2>2, <2>3 DEF Open
<1>6. ASSUME NEW t \in Tasks, WriteRaises(t) PROVE TypeOK'
  BY <1>6, FailType DEF TypeOK, WriteRaises, streamVars
<1>7. ASSUME NEW t \in Tasks, Write(t) PROVE TypeOK'
  <2>1. skew' \in 0..MaxSkew
    BY <1>7, SeqFacts, BoundAssumption DEF TypeOK, Write, Stale
  <2>2. [task |-> t, call |-> op[t]] \in Request
    BY <1>7, OpFacts DEF TypeOK, Pending, Write, Request
  <2>3. reqs' \in Seq(Request)
    BY <1>7, <2>2, SeqFacts DEF TypeOK, Write
  <2> QED
    BY <1>7, <2>1, <2>3 DEF TypeOK, Write, callVars, lockVars, readVars, Holding, Awaiting
<1>8. ASSUME NEW t \in Tasks, ReadRaises(t) PROVE TypeOK'
  BY <1>8, FailType DEF TypeOK, ReadRaises, streamVars
<1>9. ASSUME NEW t \in Tasks, SendHead(t) PROVE TypeOK'
  BY <1>9, OpFacts, BoundAssumption DEF TypeOK, Pending, Awaiting, SendHead, Read, ReadEof, Return, Leave, Least, streamVars
<1>10. ASSUME NEW t \in Tasks, RecvHeadRaises(t) PROVE TypeOK'
  BY <1>10, FailType, ReadType DEF TypeOK, RecvHeadRaises
<1>11. ASSUME NEW t \in Tasks, RecvHead(t) PROVE TypeOK'
  BY <1>11, BoundAssumption DEF TypeOK, RecvHead, Read, Least, callVars, lockVars, Holding, Awaiting,
     Reading
<1>12. ASSUME NEW t \in Tasks, RecvBodyRaises(t) PROVE TypeOK'
  BY <1>12, FailType, ReadType DEF TypeOK, RecvBodyRaises
<1>13. ASSUME NEW t \in Tasks, RecvBody(t) PROVE TypeOK'
  <2>1. unread' \in Nat /\ UNCHANGED <<link, reqs, coming, ans, skew>>
    BY <1>13 DEF TypeOK, RecvBody, Read, ReadEof, Least, streamVars
  <2> QED
    BY <1>13, <2>1, BoundAssumption DEF TypeOK, RecvBody, Return, Leave
<1>22. ASSUME NEW t \in Tasks, RecvMore(t) PROVE TypeOK'
  <2>1. /\ pc' \in [Tasks -> {"idle", "lock", "sleep"} \cup Holding]
        /\ reads' \in 0..MaxReads
    BY <1>22, BoundAssumption DEF TypeOK, RecvMore, Holding, Awaiting, Reading
  <2> QED
    BY <1>22, <2>1, ReadType DEF TypeOK, RecvMore, callVars, lockVars, readVars
<1>14. CASE ServeSend
  <2>1. Head(reqs) \in Request /\ Tail(reqs) \in Seq(Request)
    BY <1>14, SeqFacts DEF TypeOK, ServeSend
  <2>2. /\ Head(reqs).task \in Tasks
        /\ Head(reqs).call.addr \in Addr
        /\ Head(reqs).call.val \in Values
    BY <1>14, <2>1, OpFacts DEF Request, ServeSend
  <2> QED
    BY <1>14, <2>1, <2>2 DEF TypeOK, ServeSend, Answered, Reply, lockVars, readVars
<1>15. CASE ServeRecv
  <2>1. Head(reqs) \in Request /\ Tail(reqs) \in Seq(Request)
    BY <1>15, SeqFacts DEF TypeOK, ServeRecv
  <2>2. Head(reqs).task \in Tasks /\ Head(reqs).call.addr \in Addr
    BY <1>15, <2>1, OpFacts DEF Request
  <2> QED
    BY <1>15, <2>1, <2>2 DEF TypeOK, ServeRecv, Answered, Reply, lockVars, readVars
<1>16. CASE Refuse
  <2>1. Tail(reqs) \in Seq(Request)
    BY <1>16, SeqFacts DEF TypeOK, Refuse
  <2> QED
    BY <1>16, <2>1, FaultCount DEF TypeOK, Refuse, Reply, callVars, lockVars, readVars
<1>17. CASE LinkEof
  BY <1>17, FaultCount, SeqFacts DEF TypeOK, LinkEof, callVars, lockVars, readVars
<1>18. CASE LinkReset
  BY <1>18, FaultCount, SeqFacts DEF TypeOK, LinkReset, callVars, lockVars, readVars
<1>19. ASSUME NEW n \in Cuts, Deliver(n) PROVE TypeOK'
  BY <1>19, BoundAssumption DEF TypeOK, Deliver, Least, callVars, lockVars, readVars
<1>20. ASSUME NEW a \in PlcOwned, NEW v \in Values, PlcScan(a, v) PROVE TypeOK'
  BY <1>20, OpAssumption DEF TypeOK, PlcScan, callVars, lockVars, clientVars, streamVars, readVars
<1>21. CASE UNCHANGED vars
  BY <1>21 DEF TypeOK, vars, callVars, lockVars, clientVars, streamVars, readVars
<1> QED
  BY <1>1, <1>2, <1>3, <1>4, <1>5, <1>6, <1>7, <1>8, <1>9, <1>10, <1>11, <1>12,
     <1>13, <1>14, <1>15, <1>16, <1>17, <1>18, <1>19, <1>20, <1>21, <1>22
     DEF Next, Proceed, Serve, Link

THEOREM Control == Spec => [](TypeOK /\ OpenIsProtected /\ Pending)
<1>1. Init => TypeOK /\ OpenIsProtected /\ Pending
  BY BoundAssumption, ClientAssumption
     DEF Init, TypeOK, OpenIsProtected, Pending, Holding, Awaiting, Reading
<1>2. TypeOK /\ OpenIsProtected /\ Pending /\ [Next]_vars
        => (TypeOK /\ OpenIsProtected /\ Pending)'
  BY TypeStep, LockStep, PendingStep
<1> QED
  BY <1>1, <1>2, PTL DEF Spec

(* Every variable keeps the shape its declaration says. *)
THEOREM TypeInvariant == Spec => []TypeOK
BY Control, PTL

(***************************************************************************)
(* Only the holder of the lock is inside a transaction, and the client     *)
(* counts as started while a request or its answer may be on the link.     *)
(***************************************************************************)
THEOREM Protection == Spec => []OpenIsProtected
BY Control, PTL

(* A step that takes the holder of the lock out of the reading.             *)
LEMMA HolderLeaves ==
  ASSUME OpenIsProtected, NEW u \in Tasks, pc[u] \in Holding, pc'[u] \notin Awaiting,
         \A v \in Tasks : v # u => pc'[v] = pc[v]
  PROVE  \A t \in Tasks : pc'[t] \notin Awaiting
BY DEF OpenIsProtected, Holding

(* The actions that do, and that alone may open other streams.              *)
LEMMA HolderActs ==
  ASSUME TypeOK, OpenIsProtected, NEW u \in Tasks,
         \/ AlreadyOpen(u) \/ Open(u) \/ WriteRaises(u) \/ ReadRaises(u)
         \/ SendHead(u) \/ RecvHeadRaises(u) \/ RecvBodyRaises(u) \/ RecvBody(u)
  PROVE  \A t \in Tasks : pc'[t] \notin Awaiting
<1>1. /\ pc[u] \in Holding /\ pc'[u] \notin Awaiting
      /\ \A v \in Tasks : v # u => pc'[v] = pc[v]
  BY DEF AlreadyOpen, Open, Started, WriteRaises, ReadRaises, SendHead, RecvHeadRaises,
     RecvBodyRaises, RecvBody, Fail, Return, TypeOK, Holding, Awaiting, Reading
<1> QED
  BY <1>1, HolderLeaves

LEMMA OwnStreamsStep ==
  ASSUME TypeOK, OpenIsProtected, ReadsOwnStreams, [Next]_vars
  PROVE  ReadsOwnStreams'
<1>1. ASSUME NEW u \in Tasks, NEW o \in Op, Call(u, o) PROVE ReadsOwnStreams'
  BY <1>1 DEF Call, Acquire, TypeOK, ReadsOwnStreams, Awaiting, Reading, clientVars
<1>2. ASSUME NEW u \in Tasks, Retry(u) \/ Grant(u) PROVE ReadsOwnStreams'
  BY <1>2 DEF Retry, Grant, Acquire, TypeOK, ReadsOwnStreams, Awaiting, Reading, clientVars
<1>3. ASSUME NEW u \in Tasks,
             \/ AlreadyOpen(u) \/ Open(u) \/ WriteRaises(u) \/ ReadRaises(u)
             \/ SendHead(u) \/ RecvHeadRaises(u) \/ RecvBodyRaises(u) \/ RecvBody(u)
      PROVE  ReadsOwnStreams'
  BY <1>3, HolderActs DEF ReadsOwnStreams
<1>4. ASSUME NEW u \in Tasks, Write(u) \/ RecvHead(u) \/ RecvMore(u)
      PROVE  ReadsOwnStreams'
  BY <1>4 DEF Write, RecvHead, RecvMore, TypeOK, ReadsOwnStreams, Awaiting, Reading
<1>5. CASE \/ Serve \/ Link \/ UNCHANGED vars
           \/ \E a \in PlcOwned, v \in Values : PlcScan(a, v)
  BY <1>5 DEF Serve, ServeSend, ServeRecv, Link, Refuse, LinkEof, LinkReset, Deliver,
     Reply, PlcScan, vars, clientVars, ReadsOwnStreams
<1> QED
  BY <1>1, <1>2, <1>3, <1>4, <1>5 DEF Next, Proceed

(***************************************************************************)
(* New streams are never put in the place of those a task reads its answer *)
(* from: not if they are up, not after a fault, and not by a second task   *)
(* or a retry; whatever faults occur and whatever is misread.              *)
(***************************************************************************)
THEOREM StreamsAreNotReplaced == Spec => []ReadsOwnStreams
<1>1. Init => ReadsOwnStreams
  BY DEF Init, ReadsOwnStreams, Awaiting, Reading
<1>2. TypeOK /\ OpenIsProtected /\ ReadsOwnStreams /\ [Next]_vars => ReadsOwnStreams'
  BY OwnStreamsStep
<1> QED
  BY <1>1, <1>2, Control, PTL DEF Spec
--------------------------------------------------------------------------------
(***************************************************************************)
(* What a reader can count on while its link is up: the newest request is  *)
(* its own, or that was served and as many characters as an answer has,    *)
(* less what was read of the head, are still to be read.                   *)
(***************************************************************************)
Needed(t) == IF pc[t] = "body" THEN DataLen
             ELSE IF op[t].kind = "recv" THEN HeadLen + DataLen ELSE HeadLen

OwnAnswer(t) ==
  IF reqs = <<>> THEN unread + coming >= Needed(t) ELSE reqs[Len(reqs)].call = op[t]

(* Only out of step is the data read more than once.                        *)
InLoop(t) ==
  /\ pc[t] = "body" => op[t].kind = "recv" /\ (reads = 1 \/ skew > 0)
  /\ pc[t] = "more" => skew > 0

Answering ==
  \A t \in Tasks :
    /\ InLoop(t)
    /\ pc[t] \in {"head", "body"} /\ link = "up" => OwnAnswer(t)

LEMMA LastOf ==
  ASSUME NEW S, NEW s \in Seq(S)
  PROVE  /\ \A x \in S : Append(s, x) # <<>> /\ Append(s, x)[Len(Append(s, x))] = x
         /\ s # <<>> /\ Tail(s) = <<>> => s[Len(s)] = Head(s)
         /\ s # <<>> /\ Tail(s) # <<>> => Tail(s)[Len(Tail(s))] = s[Len(s)]
<1>1. \A x \in S : Append(s, x) # <<>> /\ Append(s, x)[Len(Append(s, x))] = x
  OBVIOUS
<1>2. ASSUME s # <<>> PROVE Len(s) >= 1 /\ Len(Tail(s)) = Len(s) - 1 /\ Head(s) = s[1]
  BY <1>2
<1>3. ASSUME s # <<>>, Tail(s) = <<>> PROVE s[Len(s)] = Head(s)
  <2>1. Len(Tail(s)) = 0
    <3>1. Len(<<>>) = 0
      OBVIOUS
    <3> QED
      BY Zenon, <1>3, <3>1
  <2>2. Len(s) = 1
    BY <1>2, <1>3, <2>1
  <2> QED
    BY <1>2, <1>3, <2>2
<1>4. ASSUME s # <<>>, Tail(s) # <<>> PROVE Tail(s)[Len(Tail(s))] = s[Len(s)]
  <2>1. Len(s) # 1
    <3>1. Tail(s) \in Seq(S)
      BY <1>4
    <3>2. Len(Tail(s)) # 0
      BY Zenon, <1>4, <3>1, EmptySeq
    <3> QED
      BY <1>2, <1>4, <3>2
  <2>2. Len(s) \in Nat /\ Len(Tail(s)) >= 1
    BY <1>2, <1>4, <2>1
  <2>3. \A i \in 1..Len(Tail(s)) : Tail(s)[i] = s[i + 1]
    BY <1>4
  <2> QED
    BY <1>2, <1>4, <2>2, <2>3
<1> QED
  BY <1>1, <1>3, <1>4

(* A step that leaves the reader and the link alone.                        *)
LEMMA ReaderStays ==
  ASSUME Answering, UNCHANGED <<streamVars, reads>>, NEW t \in Tasks, pc'[t] = pc[t], op'[t] = op[t]
  PROVE  /\ InLoop(t)'
         /\ pc'[t] \in {"head", "body"} /\ link' = "up" => OwnAnswer(t)'
BY DEF Answering, InLoop, OwnAnswer, Needed, streamVars

(* The PLC deals with the oldest request.                                   *)
LEMMA ReplyStep ==
  ASSUME TypeOK, Answering, NEW len \in Nat, NEW v, Reply(len, v), op' = op,
         reqs # <<>>, len >= HeadLen,
         Head(reqs).call.kind = "recv" => len >= HeadLen + DataLen
  PROVE  Answering'
<1> SUFFICES ASSUME NEW t \in Tasks
             PROVE  /\ InLoop(t)'
                    /\ pc'[t] \in {"head", "body"} /\ link' = "up" => OwnAnswer(t)'
  BY DEF Answering
<1>1. pc' = pc /\ link' = link /\ unread' = unread /\ coming' = coming + len /\ reqs' = Tail(reqs)
      /\ skew' = skew /\ reads' = reads
  BY DEF Reply, readVars
<1>2. ASSUME pc[t] \in {"head", "body"}, link = "up" PROVE OwnAnswer(t)'
  <2>0. reqs \in Seq(Request)
    BY DEF TypeOK
  <2>1. reqs[Len(reqs)].call = op[t]
    BY <1>2 DEF Answering, OwnAnswer
  <2>2. CASE Tail(reqs) # <<>>
    <3>1. reqs'[Len(reqs')] = reqs[Len(reqs)]
      BY <1>1, <2>0, <2>2, LastOf
    <3> QED
      BY <1>1, <2>1, <2>2, <3>1 DEF OwnAnswer
  <2>3. CASE Tail(reqs) = <<>>
    <3>1. Head(reqs).call = op[t]
      BY <2>0, <2>1, <2>3, LastOf
    <3>2. len >= Needed(t)
      BY <1>2, <3>1 DEF Needed, Answering, InLoop
    <3>3. unread' + coming' >= Needed(t)
      BY <1>1, <3>2 DEF TypeOK, Needed
    <3>4. Needed(t)' = Needed(t)
      BY <1>1 DEF Needed
    <3> QED
      BY <1>1, <2>3, <3>3, <3>4 DEF OwnAnswer
  <2> QED
    BY <2>2, <2>3
<1> QED
  BY <1>1, <1>2 DEF Answering, InLoop

LEMMA AnsweringStep ==
  ASSUME TypeOK, OpenIsProtected, Pending, Answering, [Next]_vars
  PROVE  Answering'
<1>0. \A t \in Tasks : op[t] \in Op \cup {Nothing}
  BY DEF TypeOK
<1>1. ASSUME NEW u \in Tasks, NEW o \in Op, Call(u, o) PROVE Answering'
  <2>1. pc'[u] \notin Awaiting /\ \A v \in Tasks : v # u => pc'[v] = pc[v] /\ op'[v] = op[v]
    BY <1>1 DEF Call, Acquire, TypeOK, Awaiting, Reading
  <2>2. UNCHANGED <<streamVars, reads>>
    BY <1>1 DEF Call, clientVars, readVars
  <2> QED
    BY <2>1, <2>2, ReaderStays DEF Answering, Awaiting, Reading, InLoop, OwnAnswer
<1>2. ASSUME NEW u \in Tasks, Retry(u) \/ Grant(u) PROVE Answering'
  <2>1. pc'[u] \notin Awaiting /\ (\A v \in Tasks : v # u => pc'[v] = pc[v]) /\ op' = op
    BY <1>2 DEF Retry, Grant, Acquire, TypeOK, Awaiting, Reading, callVars
  <2>2. UNCHANGED <<streamVars, reads>>
    BY <1>2 DEF Retry, Grant, clientVars, readVars
  <2> QED
    BY <2>1, <2>2, ReaderStays DEF Answering, Awaiting, Reading, InLoop, OwnAnswer
<1>3. ASSUME NEW u \in Tasks,
             \/ AlreadyOpen(u) \/ Open(u) \/ WriteRaises(u) \/ ReadRaises(u)
             \/ SendHead(u) \/ RecvHeadRaises(u) \/ RecvBodyRaises(u) \/ RecvBody(u)
      PROVE  Answering'
  BY <1>3, HolderActs DEF Answering, InLoop, Awaiting, Reading
<1>4. ASSUME NEW u \in Tasks, Write(u) PROVE Answering'
  <2>1. /\ pc'[u] = "head" /\ op' = op /\ \A v \in Tasks : v # u => pc'[v] = pc[v]
        /\ pc[u] \in Holding
    BY <1>4 DEF Write, TypeOK, callVars, Holding
  <2>2. \A t \in Tasks : t # u => pc'[t] \notin Awaiting
    BY <2>1 DEF OpenIsProtected, Holding, Awaiting, Reading
  <2>3. ASSUME link' = "up" PROVE OwnAnswer(u)'
    <3>1. reqs' = Append(reqs, [task |-> u, call |-> op[u]]) /\ reqs \in Seq(Request)
      BY <1>4, <2>3 DEF Write, TypeOK
    <3>2. [task |-> u, call |-> op[u]] \in Request
      BY <1>4, <1>0, OpFacts DEF Pending, Write, Request
    <3>3. reqs' # <<>> /\ reqs'[Len(reqs')] = [task |-> u, call |-> op[u]]
      BY <3>1, <3>2, LastOf
    <3> QED
      BY <2>1, <3>3 DEF OwnAnswer
  <2> QED
    BY <2>1, <2>2, <2>3 DEF Answering, InLoop, Awaiting, Reading
<1>5. ASSUME NEW u \in Tasks, RecvHead(u) PROVE Answering'
  <2>1. /\ pc[u] = "head" /\ pc'[u] = "body" /\ op[u].kind = "recv" /\ op' = op
        /\ \A v \in Tasks : v # u => pc'[v] = pc[v]
    BY <1>5 DEF RecvHead, TypeOK, callVars
  <2>2. \A t \in Tasks : t # u => pc'[t] \notin Awaiting
    BY <2>1 DEF OpenIsProtected, Holding, Awaiting, Reading
  <2>3. /\ link' = link /\ reqs' = reqs /\ coming' = coming
        /\ unread' = unread - Least(HeadLen, unread)
        /\ skew' = skew /\ (reads' = 1 \/ skew > 0)
    BY <1>5 DEF RecvHead, Read, TypeOK
  <2>4. ASSUME link = "up" PROVE OwnAnswer(u)'
    <3>1. OwnAnswer(u)
      BY <2>1, <2>4 DEF Answering
    <3>2. CASE reqs = <<>>
      <4>1. unread + coming >= HeadLen + DataLen
        BY <2>1, <3>1, <3>2 DEF OwnAnswer, Needed
      <4>2. unread' + coming' >= DataLen
        BY <2>3, <4>1 DEF Least, TypeOK
      <4> QED
        BY <2>1, <2>3, <3>2, <4>2 DEF OwnAnswer, Needed
    <3> QED
      BY <2>1, <2>3, <3>1, <3>2 DEF OwnAnswer
  <2> QED
    BY <2>1, <2>2, <2>3, <2>4 DEF Answering, InLoop, Awaiting, Reading
<1>13. ASSUME NEW u \in Tasks, RecvMore(u) PROVE Answering'
  <2>1. /\ pc[u] \in Holding /\ skew > 0 /\ skew' = skew
        /\ op' = op /\ link' = link
        /\ \A v \in Tasks : v # u => pc'[v] = pc[v]
    BY <1>13 DEF RecvMore, Answering, InLoop, Read, ReadEof, TypeOK, Reading, Holding,
       Awaiting, callVars, streamVars
  <2>2. \A t \in Tasks : t # u => pc'[t] \notin Awaiting
    BY <2>1 DEF OpenIsProtected, Holding
  <2>3. pc'[u] = "more" \/ (pc' = pc /\ UNCHANGED streamVars /\ link = "eof")
    BY <1>13 DEF RecvMore, ReadEof, TypeOK
  <2> QED
    BY <1>13, <2>1, <2>2, <2>3 DEF RecvMore, Answering, InLoop, Awaiting, Reading
<1>6. CASE ServeSend
  BY <1>6, ReplyStep DEF ServeSend
<1>7. CASE ServeRecv
  BY <1>7, ReplyStep DEF ServeRecv
<1>8. CASE Refuse
  BY <1>8, ReplyStep DEF Refuse, callVars
<1>9. CASE LinkEof \/ LinkReset
  <2>1. link' # "up" /\ pc' = pc /\ op' = op /\ skew' = skew /\ reads' = reads
    BY <1>9 DEF LinkEof, LinkReset, callVars, readVars
  <2> QED
    BY <2>1 DEF Answering, InLoop
<1>10. ASSUME NEW n \in Cuts, Deliver(n) PROVE Answering'
  <2>1. /\ pc' = pc /\ op' = op /\ link' = link /\ reqs' = reqs
        /\ unread' + coming' = unread + coming /\ skew' = skew /\ reads' = reads
    BY <1>10, BoundAssumption DEF Deliver, Least, TypeOK, callVars, readVars
  <2> QED
    BY <2>1 DEF Answering, InLoop, OwnAnswer, Needed
<1>11. ASSUME NEW a \in PlcOwned, NEW v \in Values, PlcScan(a, v) PROVE Answering'
  BY <1>11, ReaderStays DEF PlcScan, Answering, callVars, clientVars, readVars
<1>12. CASE UNCHANGED vars
  BY <1>12, ReaderStays DEF vars, Answering, callVars, clientVars, readVars
<1> QED
  BY <1>1, <1>2, <1>3, <1>4, <1>5, <1>6, <1>7, <1>8, <1>9, <1>10, <1>11, <1>12, <1>13
     DEF Next, Proceed, Serve, Link

(***************************************************************************)
(* However answers are cut, left over, misread or refused: the read of the *)
(* head, and the first of the data, on a link that is up have an answer to *)
(* wait for; a read without one is a later read of a misread length.       *)
(***************************************************************************)
THEOREM AnswersAreDue == Spec => []AnswerDue
<1>1. Init => Answering
  BY DEF Init, Answering, InLoop
<1>2. TypeOK /\ OpenIsProtected /\ Pending /\ Answering /\ [Next]_vars => Answering'
  BY AnsweringStep
<1>3. TypeOK /\ Answering => AnswerDue
  <2> SUFFICES ASSUME TypeOK, Answering, NEW t \in Tasks,
                      pc[t] \in {"head", "body"}, link = "up", reqs = <<>>
               PROVE  unread + coming > 0
    BY DEF Answering, InLoop, AnswerDue
  <2>1. unread + coming >= Needed(t) /\ Needed(t) \in Nat \ {0}
    BY DEF Answering, OwnAnswer, Needed
  <2> QED
    BY <2>1 DEF TypeOK
<1> QED
  BY <1>1, <1>2, <1>3, Control, PTL DEF Spec
================================================================================
