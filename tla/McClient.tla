-------------------------------- MODULE McClient --------------------------------
(***************************************************************************)
(* AioMcClient, the one connection to the PLC that the base device and     *)
(* every sub-device share (BaseDevice._connection_pool).                   *)
(*                                                                         *)
(* A call runs safe_send_register or safe_recv_register: a loop around one *)
(* transaction under an asyncio.Lock.  A transaction opens the TCP link if *)
(* the client is stopped, writes one request and reads the answer with     *)
(* read(22) and, for a recv, as many read(1024) as the length in the head  *)
(* asks for.  Any Exception releases the lock, marks the client stopped    *)
(* and tries again after a second's sleep.                                 *)
(*                                                                         *)
(* The answer's characters are counted, not spelled: an answer is a head   *)
(* of HeadLen characters, the data of a recv DataLen more, an error report *)
(* ErrLen more.  A segment of the TCP stream carries any number of Cuts.   *)
(***************************************************************************)
EXTENDS Naturals, Sequences, PlcOps

CONSTANTS
  NoTask,      \* owner of the free lock
  Garbage,     \* a value parsed from characters of no single answer
  Faults,      \* which faults the environment may inject
  FaultBudget, \* how many of them it injects
  Cuts,        \* how many characters one segment may carry
  MaxSkew,     \* bound: stale characters in front of a new request
  MaxReads     \* bound: read(1024) calls a misread length asks for (64 in the code)

HeadLen   == 22   \* read(22)
EndCodeAt == 18   \* characters up to the end of the length field [14:18]
DataLen   == 4    \* one register in hexadecimal
ErrLen    == 18   \* error information that follows the head of a refusal

FaultKind == {"refuse", "eof", "reset", "connect timeout", "connect refused"}

ASSUME ClientAssumption ==
  /\ NoTask \notin Tasks
  /\ Garbage \notin Values \cup {Nothing}
  /\ Faults \subseteq FaultKind

ASSUME BoundAssumption ==
  /\ FaultBudget \in Nat
  /\ Cuts \subseteq Nat \ {0}
  /\ MaxSkew \in Nat
  /\ MaxReads \in Nat \ {0}

VARIABLES
  plc,      \* contents of the PLC's registers
  op,       \* op[t]: the call task t is in, or Nothing
  answer,   \* history: what the PLC last served for that call
  result,   \* result[t]: what the last call of t returned
  pc,       \* where t stands in its transaction
  owner,    \* holder of the asyncio.Lock
  waiters,  \* tasks queued on the lock, first in first out
  stoped,   \* AioMcClient._stoped
  link,     \* of the streams _reader and _writer: "none" before the first open,
            \* "eof" after the PLC closed its side, "reset" when they raise
  reqs,     \* requests on the link that the PLC has not served yet
  unread,   \* characters in the StreamReader
  coming,   \* characters on their way to it
  ans,      \* the value the newest answer carries
  skew,     \* characters of earlier answers ahead of the current one
  got,      \* length of resp_head in the running transaction
  reads,    \* read(1024) calls its loop has still to make
  wrote,    \* history: tasks waiting for an answer to what they wrote to the
            \* streams open now
  faults    \* faults injected so far

callVars   == <<op, answer, result>>
lockVars   == <<owner, waiters>>
streamVars == <<link, reqs, unread, coming, ans, skew>>
readVars   == <<got, reads>>
clientVars == <<stoped, streamVars, readVars, wrote>>
vars       == <<plc, callVars, pc, lockVars, clientVars, faults>>

Reading  == {"body", "more"}        \* in the loop; "more" once resp_body is not b""
Awaiting == {"head"} \cup Reading
Holding  == {"start", "write"} \cup Awaiting

Least(a, b) == IF a < b THEN a ELSE b

Init ==
  /\ plc \in [Addr -> Values]
  /\ op     = [t \in Tasks |-> Nothing]
  /\ answer = [t \in Tasks |-> Nothing]
  /\ result = [t \in Tasks |-> Nothing]
  /\ pc     = [t \in Tasks |-> "idle"]
  /\ owner = NoTask
  /\ waiters = <<>>
  /\ stoped = TRUE
  /\ link = "none"
  /\ reqs = <<>>
  /\ unread = 0
  /\ coming = 0
  /\ ans = Nothing
  /\ skew = 0
  /\ got = 0
  /\ reads = 0
  /\ wrote = {}
  /\ faults = 0

Fault(kind) ==
  /\ kind \in Faults
  /\ faults < FaultBudget
  /\ faults' = faults + 1

--------------------------------------------------------------------------------
(* The lock of coroutine_safe.                                              *)

\* mutation: the method lost its coroutine_safe decorator
AcquireUndecorated(t) ==
  /\ owner' = t
  /\ pc' = [pc EXCEPT ![t] = "start"]
  /\ UNCHANGED waiters

Acquire(t) ==
  \/ /\ owner = NoTask
     /\ waiters = <<>>
     /\ owner' = t
     /\ pc' = [pc EXCEPT ![t] = "start"]
     /\ UNCHANGED waiters
  \/ /\ owner # NoTask \/ waiters # <<>>
     /\ waiters' = Append(waiters, t)
     /\ pc' = [pc EXCEPT ![t] = "lock"]
     /\ UNCHANGED owner

\* release() wakes the first waiter
Grant(t) ==
  /\ owner = NoTask
  /\ waiters # <<>>
  /\ t = Head(waiters)
  /\ owner' = t
  /\ waiters' = Tail(waiters)
  /\ pc' = [pc EXCEPT ![t] = "start"]
  /\ UNCHANGED <<plc, callVars, clientVars, faults>>

\* the transaction is over and leaves the lock
Leave(t) ==
  /\ owner' = NoTask
  /\ got' = 0
  /\ reads' = 0
  /\ wrote' = wrote \ {t}

\* mutation: the exception handler forgets self._stoped = True
FailStillStarted(t) ==
  /\ Leave(t)
  /\ pc' = [pc EXCEPT ![t] = "sleep"]
  /\ UNCHANGED <<plc, callVars, waiters, stoped>>

\* the transaction raised: leave the lock, stop the client, sleep
Fail(t) ==
  /\ Leave(t)
  /\ stoped' = TRUE
  /\ pc' = [pc EXCEPT ![t] = "sleep"]
  /\ UNCHANGED <<plc, callVars, waiters>>

\* the transaction, and with it the call, returned r
Return(t, r) ==
  /\ Leave(t)
  /\ pc' = [pc EXCEPT ![t] = "idle"]
  /\ op' = [op EXCEPT ![t] = Nothing]
  /\ result' = [result EXCEPT ![t] = r]
  /\ answer' = [answer EXCEPT ![t] = Nothing]
  /\ UNCHANGED <<plc, waiters, stoped, faults>>

--------------------------------------------------------------------------------
(* safe_send_register and safe_recv_register.                               *)

Call(t, o) ==
  /\ pc[t] = "idle"
  /\ op' = [op EXCEPT ![t] = o]
  /\ result' = [result EXCEPT ![t] = Nothing]
  /\ Acquire(t)
  /\ UNCHANGED <<plc, answer, clientVars, faults>>

Retry(t) ==
  /\ pc[t] = "sleep"
  /\ Acquire(t)
  /\ UNCHANGED <<plc, callVars, clientVars, faults>>

--------------------------------------------------------------------------------
(* smart_start: open the link unless the client is running.  A connection   *)
(* attempt that times out is reported and swallowed by AioTcpClient.open,   *)
(* which keeps the old streams, and the client counts as started.           *)

Started(t) ==
  /\ stoped' = FALSE
  /\ pc' = [pc EXCEPT ![t] = "write"]
  /\ UNCHANGED <<plc, callVars, lockVars, readVars>>

AlreadyOpen(t) ==
  /\ pc[t] = "start"
  /\ ~stoped
  /\ Started(t)
  /\ UNCHANGED <<streamVars, wrote, faults>>

NewStreams ==
  /\ link' = "up"
  /\ reqs' = <<>>
  /\ unread' = 0
  /\ coming' = 0
  /\ ans' = Nothing
  /\ skew' = 0
  /\ wrote' = {}

Open(t) ==
  /\ pc[t] = "start"
  /\ stoped
  /\ \/ Started(t) /\ NewStreams /\ UNCHANGED faults
     \/ Started(t) /\ Fault("connect timeout") /\ UNCHANGED <<streamVars, wrote>>
     \/ Fail(t) /\ Fault("connect refused") /\ UNCHANGED streamVars

--------------------------------------------------------------------------------
(* Building and writing the request.                                        *)

\* send_register's TypeError, or AioTcpClient.write on no or a dead stream
WriteRaises(t) ==
  /\ pc[t] = "write"
  /\ op[t].val \in Unsupported \/ link \in {"none", "reset"}
  /\ Fail(t)
  /\ UNCHANGED <<streamVars, faults>>

\* characters of earlier answers that are, or will be, ahead of the next one
Stale == unread + coming + HeadLen * Len(reqs)

Write(t) ==
  /\ pc[t] = "write"
  /\ op[t].val \notin Unsupported
  /\ link \in {"up", "eof"}
  /\ Stale <= MaxSkew
  /\ skew' = Stale
  /\ reqs' = IF link = "up" THEN Append(reqs, [task |-> t, call |-> op[t]])
                           ELSE reqs
  /\ wrote' = wrote \cup {t}
  /\ pc' = [pc EXCEPT ![t] = "head"]
  /\ UNCHANGED <<plc, callVars, lockVars, stoped, link, unread, coming, ans,
                 readVars, faults>>

--------------------------------------------------------------------------------
(* Reading the answer.                                                      *)

\* mutation: the read takes n characters whether or not they are there
ReadExactly(n) ==
  /\ link # "reset"
  /\ unread > 0
  /\ unread' = unread - n
  /\ UNCHANGED <<link, reqs, coming, ans, skew>>

\* mutation: the read takes all there is, as that of the data does
ReadAll(n) ==
  /\ link # "reset"
  /\ unread > 0
  /\ unread' = 0
  /\ UNCHANGED <<link, reqs, coming, ans, skew>>

\* read(n) takes what there is, up to n characters
Read(n) ==
  /\ link # "reset"
  /\ unread > 0
  /\ unread' = unread - Least(n, unread)
  /\ UNCHANGED <<link, reqs, coming, ans, skew>>

\* and returns b"" once the stream has ended and its buffer is empty
ReadEof ==
  /\ link = "eof"
  /\ unread = 0
  /\ UNCHANGED streamVars

ReadRaises(t) ==
  /\ pc[t] \in Awaiting
  /\ link = "reset"
  /\ Fail(t)
  /\ UNCHANGED <<streamVars, faults>>

\* mutation: the read of the answer is missing
SendHeadUnread(t) ==
  /\ pc[t] = "head"
  /\ op[t].kind = "send"
  /\ UNCHANGED streamVars
  /\ Return(t, op[t].val)

\* send_register discards whatever read(22) returns
SendHead(t) ==
  /\ pc[t] = "head"
  /\ op[t].kind = "send"
  /\ Read(HeadLen) \/ ReadEof
  /\ Return(t, op[t].val)

\* b"" is a BrokenPipeError, a head without its length field a ValueError; out
\* of step the length may be no number, or so small that nothing is read
RecvHeadRaises(t) ==
  /\ pc[t] = "head"
  /\ op[t].kind = "recv"
  /\ \/ ReadEof
     \/ Read(HeadLen) /\ (unread < EndCodeAt \/ skew > 0)
  /\ Fail(t)
  /\ UNCHANGED faults

\* the length of an answer, or of an error report, asks for one read(1024); out
\* of step the four characters read as the length may ask for any number
RecvHead(t) ==
  /\ pc[t] = "head"
  /\ op[t].kind = "recv"
  /\ unread >= EndCodeAt
  /\ Read(HeadLen)
  /\ got' = Least(HeadLen, unread)
  /\ reads' \in IF skew = 0 THEN {1} ELSE 1..MaxReads
  /\ pc' = [pc EXCEPT ![t] = "body"]
  /\ UNCHANGED <<plc, callVars, lockVars, stoped, wrote, faults>>

\* a read(1024) that is not the last takes all there is; b"" counts as a read too
RecvMore(t) ==
  /\ pc[t] \in Reading
  /\ reads > 1
  /\ reads' = reads - 1
  /\ \/ Read(unread) /\ pc' = [pc EXCEPT ![t] = "more"]
     \/ ReadEof /\ UNCHANGED pc
  /\ UNCHANGED <<plc, callVars, lockVars, stoped, got, wrote, faults>>

\* int(b"") raises, and so may the characters of a misread answer
RecvBodyRaises(t) ==
  /\ pc[t] \in Reading
  /\ reads = 1
  /\ \/ ReadEof /\ (pc[t] = "body" \/ skew > 0)
     \/ Read(unread) /\ skew > 0
  /\ Fail(t)
  /\ UNCHANGED faults

\* after the last read(1024) only a complete answer holds the value
RecvBody(t) ==
  /\ pc[t] \in Reading
  /\ reads = 1
  /\ Read(unread) \/ (pc[t] = "more" /\ ReadEof)
  /\ Return(t, IF skew = 0 /\ got + unread = HeadLen + DataLen THEN ans
                                                             ELSE Garbage)

--------------------------------------------------------------------------------
(* The PLC and the network.                                                 *)

Reply(len, v) ==
  /\ reqs' = Tail(reqs)
  /\ coming' = coming + len
  /\ ans' = v
  /\ UNCHANGED <<pc, lockVars, stoped, link, unread, skew, readVars, wrote>>

\* the history variable: v was served for the call request r belongs to
Answered(r, v) ==
  answer' = [answer EXCEPT ![r.task] = IF op[r.task] = r.call THEN v ELSE @]

ServeSend ==
  /\ reqs # <<>>
  /\ LET r == Head(reqs) IN
       /\ r.call.kind = "send"
       /\ plc' = [plc EXCEPT ![r.call.addr] = r.call.val]
       /\ Answered(r, r.call.val)
       /\ Reply(HeadLen, r.call.val)
  /\ UNCHANGED <<op, result, faults>>

ServeRecv ==
  /\ reqs # <<>>
  /\ LET r == Head(reqs) IN
       /\ r.call.kind = "recv"
       /\ Answered(r, plc[r.call.addr])
       /\ Reply(HeadLen + DataLen, plc[r.call.addr])
  /\ UNCHANGED <<plc, op, result, faults>>

\* an answer with a non-zero end code, which the client never looks at
Refuse ==
  /\ reqs # <<>>
  /\ Fault("refuse")
  /\ Reply(HeadLen + ErrLen, Garbage)
  /\ UNCHANGED <<plc, callVars>>

Deliver(n) ==
  /\ coming > 0
  /\ coming' = coming - Least(n, coming)
  /\ unread' = unread + Least(n, coming)
  /\ UNCHANGED <<plc, callVars, pc, lockVars, stoped, link, reqs, ans, skew,
                 readVars, wrote, faults>>

\* the PLC closes the link without serving what it has not served
LinkEof ==
  /\ link = "up"
  /\ coming = 0
  /\ Fault("eof")
  /\ link' = "eof"
  /\ reqs' = <<>>
  /\ UNCHANGED <<plc, callVars, pc, lockVars, stoped, unread, coming, ans, skew,
                 readVars, wrote>>

\* the link breaks: requests and answers on it are gone
LinkReset ==
  /\ link \in {"up", "eof"}
  /\ Fault("reset")
  /\ link' = "reset"
  /\ reqs' = <<>>
  /\ unread' = 0
  /\ coming' = 0
  /\ UNCHANGED <<plc, callVars, pc, lockVars, stoped, ans, skew, readVars, wrote>>

PlcScan(a, v) ==
  /\ plc' = [plc EXCEPT ![a] = v]
  /\ UNCHANGED <<callVars, pc, lockVars, clientVars, faults>>

--------------------------------------------------------------------------------
\* what a task does once it has made its call
Proceed(t) ==
  \/ Grant(t) \/ Retry(t) \/ AlreadyOpen(t) \/ Open(t)
  \/ WriteRaises(t) \/ Write(t) \/ ReadRaises(t)
  \/ SendHead(t) \/ RecvHeadRaises(t) \/ RecvHead(t) \/ RecvMore(t)
  \/ RecvBodyRaises(t) \/ RecvBody(t)

Serve == ServeSend \/ ServeRecv

Link == Refuse \/ LinkEof \/ LinkReset \/ \E n \in Cuts : Deliver(n)

Next ==
  \/ \E t \in Tasks, o \in Op : Call(t, o)
  \/ \E t \in Tasks : Proceed(t)
  \/ Serve
  \/ Link
  \/ \E a \in PlcOwned, v \in Values : PlcScan(a, v)

Spec == Init /\ [][Next]_vars

(***************************************************************************)
(* The event loop runs every task that can run, the PLC answers, TCP       *)
(* delivers.  Faults need not happen, and FaultBudget makes them stop.     *)
(***************************************************************************)
Fairness ==
  /\ \A t \in Tasks : WF_vars(Proceed(t))
  /\ WF_vars(Serve)
  /\ WF_vars(\E n \in Cuts : Deliver(n))

FairSpec == Spec /\ Fairness

--------------------------------------------------------------------------------
\* what may be written to the link
Request == [task : Tasks, call : {o \in Op : o.val \notin Unsupported}]

(* Every variable has the shape its declaration says. *)
TypeOK ==
  /\ plc \in [Addr -> Values]
  /\ op \in [Tasks -> Op \cup {Nothing}]
  /\ answer \in [Tasks -> Values \cup {Nothing}]
  /\ result \in [Tasks -> Values \cup {Nothing, Garbage}]
  /\ pc \in [Tasks -> {"idle", "lock", "sleep"} \cup Holding]
  /\ owner \in Tasks \cup {NoTask}
  /\ waiters \in Seq(Tasks)
  /\ stoped \in BOOLEAN
  /\ link \in {"none", "up", "eof", "reset"}
  /\ reqs \in Seq(Request)
  /\ unread \in Nat
  /\ coming \in Nat
  /\ ans \in Values \cup {Nothing, Garbage}
  /\ skew \in 0..MaxSkew
  /\ got \in 0..HeadLen
  /\ reads \in 0..MaxReads
  /\ wrote \subseteq Tasks
  /\ faults \in 0..FaultBudget

(***************************************************************************)
(* open and smart_start need no protection of their own because they run   *)
(* under coroutine_safe (the comment in AioMcClient.open): whatever fails, *)
(* retries or times out, only the holder of the lock is inside a           *)
(* transaction, and the client is marked started for as long as a request  *)
(* or its answer may be on the link, so nobody reopens it under a reader.  *)
(***************************************************************************)
OpenIsProtected ==
  /\ \A t \in Tasks : pc[t] \in Holding <=> owner = t
  /\ \A t \in Tasks : pc[t] \in {"write"} \cup Awaiting => ~stoped
  /\ \A t \in Tasks : pc[t] = "lock" <=> \E i \in DOMAIN waiters : waiters[i] = t
  /\ \A i, j \in DOMAIN waiters : waiters[i] = waiters[j] => i = j

(***************************************************************************)
(* No read has a timeout, so a task that reads must have something to wait *)
(* for: on a link that is up the PLC still has a request to answer, or     *)
(* characters of an answer are there or on their way, however often a      *)
(* failure left answers on the link and whatever part of them is read.     *)
(* That holds for the read of the head and the first read of the data; the *)
(* second and later reads of the data happen only out of step, for a       *)
(* length that is no length, and may wait for ever with the lock held.     *)
(***************************************************************************)
AnswerDue ==
  \A t \in Tasks :
    /\ pc[t] \in {"head", "body"} => link # "up" \/ reqs # <<>> \/ unread + coming > 0
    /\ pc[t] = "more" => skew > 0

(***************************************************************************)
(* A task waits for its answer on the streams it wrote its request to:     *)
(* they are not replaced, by a retry or by another task, under the reader. *)
(***************************************************************************)
ReadsOwnStreams == \A t \in Tasks : pc[t] \in Awaiting => t \in wrote

(***************************************************************************)
(* A recv returns the value the PLC served for this very call: never the   *)
(* answer to an earlier request left on the link by a failure, a swallowed *)
(* connect timeout or another task.                                        *)
(***************************************************************************)
FreshAnswer ==
  [][\A t \in Tasks :
       (op[t] # Nothing /\ op'[t] = Nothing /\ op[t].kind = "recv")
          => result'[t] = answer[t] /\ answer[t] # Nothing]_vars

(* Every call with arguments the protocol supports returns. *)
CallReturns ==
  \A t \in Tasks :
    (op[t] # Nothing /\ op[t].val \notin Unsupported) ~> (op[t] = Nothing)

(***************************************************************************)
(* The promise made to the layers above: each call is served at least once *)
(* between its beginning and its return, and not after, but for a send on a *)
(* connection the PLC has closed, which returns without being served.      *)
(***************************************************************************)
Register == INSTANCE PlcRegister
  WITH Tasks <- Tasks, Addr <- Addr, Values <- Values, Unsupported <- Unsupported,
       PlcOwned <- PlcOwned, Nothing <- Nothing, MayClose <- "eof" \in Faults,
       plc <- plc, op <- op, answer <- answer, result <- result,
       closed <- link = "eof"

ImplementsRegister == Register!Spec
================================================================================
