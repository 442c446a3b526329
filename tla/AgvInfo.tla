-------------------------------- MODULE AgvInfo --------------------------------
(***************************************************************************)
(* What the lifts are told about every AGV, one register per AGV each: the *)
(* code of its fault (report_agv_error_info) and its battery level         *)
(* (report_agv_battery_info).  Both rounds fetch the rows of all AGVs and  *)
(* then write AGV by AGV; for an AGV with a fault the error round asks the *)
(* fleet manager for the code.  monitor_clear_error has the faults cleared *)
(* while a lift is in RESET.  The rows of the error round come from the    *)
(* database, through the pool other tasks use too (PgPool).                *)
(***************************************************************************)
EXTENDS Naturals, Sequences

CONSTANTS
  Agvs,         \* the AGVs of the fleet, in the order of the rows
  Configured,   \* those that have registers in signal.json
  Codes,        \* codes of the faults they have
  Levels,       \* battery levels
  Ask,          \* a row with fault_happened: its code has to be asked for
  Lifts,        \* get_all_sub_devices(), in order
  OtherUsers,   \* other tasks that query the database
  NoPool,
  FailBudget,   \* how often the creation of a pool fails
  RaiseBudget   \* how often a query or a request raises

AgvSet  == {Agvs[i] : i \in DOMAIN Agvs}
LiftSet == {Lifts[i] : i \in DOMAIN Lifts}
Kinds   == {"error", "battery"}
Users   == {"error"} \cup OtherUsers
Value   == [k \in Kinds |-> IF k = "error" THEN Codes \cup {0} ELSE Levels]

ASSUME InfoAssumption ==
  /\ Agvs \in Seq(AgvSet)
  /\ Agvs # <<>>
  /\ Configured \subseteq AgvSet
  /\ Codes \subseteq Nat \ {0}
  /\ Levels \subseteq Nat
  /\ Levels # {}
  /\ Lifts \in Seq(LiftSet)
  /\ Lifts # <<>>
  /\ Ask \notin Nat
  /\ NoPool \notin Users
  /\ FailBudget \in Nat
  /\ RaiseBudget \in Nat

VARIABLES
  truth,   \* truth[k][a]: fault code (0: none), battery level of a
  reg,     \* reg[k][a]: what the register of a configured AGV shows
  pc,      \* pc[k]: what the round of k does next
  pos,     \* pos[k]: the row it deals with, or at which it ended
  rows,    \* rows[k][a]: what its query returned for a, during a round
  val,     \* val[k]: value it is about to send
  seen,    \* history: seen[k][a], what truth[k][a] was since that query
  reset,   \* lifts with RESET on
  cpc,     \* what monitor_clear_error does next
  lift,    \* position in Lifts of the lift it deals with
  faulty,  \* agv_id_list
  raised,  \* queries and requests that raised so far
  pool, step, made, failed  \* of PgPool

Pg == INSTANCE PgPool

roundVars == <<reg, pc, pos, rows, val>>
clearVars == <<cpc, lift, faulty>>
poolVars  == <<pool, step, made, failed>>
vars == <<truth, roundVars, seen, reset, clearVars, raised, poolVars>>

NoRow == [a \in AgvSet |-> 0]

Init ==
  /\ truth \in {f \in [Kinds -> [AgvSet -> Value["error"] \cup Levels]] :
                  \A k \in Kinds, a \in AgvSet : f[k][a] \in Value[k]}
  /\ reg = [k \in Kinds |-> [a \in Configured |-> 0]]
  /\ pc = [k \in Kinds |-> "sleep"]
  /\ pos = [k \in Kinds |-> 1]
  /\ rows = [k \in Kinds |-> NoRow]
  /\ val = [k \in Kinds |-> 0]
  /\ seen = [k \in Kinds |-> [a \in Configured |-> {truth[k][a]}]]
  /\ reset = {}
  /\ cpc = "mode"
  /\ lift = 1
  /\ faulty = {}
  /\ raised = 0
  /\ Pg!Init

\* truth changes, and the history with it
Becomes(new) ==
  /\ truth' = new
  /\ seen' = [k \in Kinds |-> [a \in Configured |-> seen[k][a] \cup {new[k][a]}]]

Raises == raised < RaiseBudget /\ raised' = raised + 1

--------------------------------------------------------------------------------
(* The two rounds.                                                          *)

\* the round ends, at row i or after the last one
Rest(k, i) ==
  /\ pc'   = [pc EXCEPT ![k] = "sleep"]
  /\ pos'  = [pos EXCEPT ![k] = i]
  /\ val'  = [val EXCEPT ![k] = 0]
  /\ rows' = [rows EXCEPT ![k] = NoRow]

\* row i of the rows is dealt with, v to be sent
Go(k, row, i, where, v) ==
  /\ pc'   = [pc EXCEPT ![k] = where]
  /\ pos'  = [pos EXCEPT ![k] = i]
  /\ val'  = [val EXCEPT ![k] = v]
  /\ rows' = [rows EXCEPT ![k] = row]

\* mutant: an AGV without a fault keeps its code
StartRowFaultyOnly(k, row, i) ==
  \/ i > Len(Agvs) /\ Rest(k, i)
  \/ /\ i <= Len(Agvs)
     /\ \/ row[Agvs[i]] = Ask /\ Go(k, row, i, "detail", 0)
        \/ row[Agvs[i]] = 0 /\ Rest(k, i + 1)
        \/ row[Agvs[i]] \notin {Ask, 0} /\ Go(k, row, i, "send", row[Agvs[i]])

\* mutant: an AGV that is not configured is not noticed
StartRowUnchecked(k, row, i) ==
  \/ i > Len(Agvs) /\ Rest(k, i)
  \/ i <= Len(Agvs) /\ Go(k, row, i, IF row[Agvs[i]] = Ask THEN "detail" ELSE "send", 0)

\* the address of an AGV that is not configured is a KeyError: the round ends
StartRow(k, row, i) ==
  \/ i > Len(Agvs) /\ Rest(k, i)
  \/ /\ i <= Len(Agvs)
     /\ \/ row[Agvs[i]] = Ask /\ Go(k, row, i, "detail", 0)
        \/ row[Agvs[i]] # Ask /\ Agvs[i] \in Configured /\ Go(k, row, i, "send", row[Agvs[i]])
        \/ row[Agvs[i]] # Ask /\ Agvs[i] \notin Configured /\ Rest(k, i)

\* get_all_agv_state on the pool, get_all_agv_info by HTTP
Query(k) ==
  /\ pc[k] = "sleep"
  /\ \/ k = "error" /\ Pg!Queried("error")
     \/ k # "error" /\ UNCHANGED poolVars

Row(k, a) == IF k = "error" /\ truth[k][a] # 0 THEN Ask ELSE truth[k][a]

Fetch(k) ==
  /\ Query(k)
  /\ seen' = [seen EXCEPT ![k] = [a \in Configured |-> {truth[k][a]}]]
  /\ StartRow(k, [a \in AgvSet |-> Row(k, a)], 1)
  /\ UNCHANGED <<truth, reg, reset, clearVars, raised>>

FetchRaises(k) ==
  /\ Query(k)
  /\ Raises
  /\ UNCHANGED <<truth, roundVars, seen, reset, clearVars>>

\* the code of the fault, or 0 if it has gone since the query
GetAgvErrorInfo ==
  /\ pc["error"] = "detail"
  /\ LET a == Agvs[pos["error"]] IN
       \/ a \in Configured /\ Go("error", rows["error"], pos["error"], "send", truth["error"][a])
       \/ a \notin Configured /\ Rest("error", pos["error"])
  /\ UNCHANGED <<truth, reg, seen, reset, clearVars, raised, poolVars>>

GetAgvErrorInfoRaises ==
  /\ pc["error"] = "detail"
  /\ Raises
  /\ Rest("error", pos["error"])
  /\ UNCHANGED <<truth, reg, seen, reset, clearVars, poolVars>>

\* the PLC applies the send, for the first time or again
ApplySend(k) ==
  /\ pc[k] \in {"send", "sent"}
  /\ reg' = [reg EXCEPT ![k] = [@ EXCEPT ![Agvs[pos[k]]] = val[k]]]
  /\ pc' = [pc EXCEPT ![k] = "sent"]
  /\ UNCHANGED <<truth, pos, rows, val, seen, reset, clearVars, raised, poolVars>>

SendReturns(k) ==
  /\ pc[k] = "sent"
  /\ StartRow(k, rows[k], pos[k] + 1)
  /\ UNCHANGED <<truth, reg, seen, reset, clearVars, raised, poolVars>>

--------------------------------------------------------------------------------
(* monitor_clear_error.                                                     *)

NextLift ==
  /\ cpc' = "mode"
  /\ lift' = IF lift < Len(Lifts) THEN lift + 1 ELSE 1
  /\ faulty' = {}

\* an exception ends the round
Abandon ==
  /\ cpc' = "mode"
  /\ lift' = 1
  /\ faulty' = {}

ModeIsReset ==
  /\ cpc = "mode"
  /\ \/ Lifts[lift] \in reset /\ cpc' = "list" /\ UNCHANGED <<lift, faulty>>
     \/ Lifts[lift] \notin reset /\ NextLift
  /\ UNCHANGED <<truth, roundVars, seen, reset, raised, poolVars>>

\* mutant: only AGVs that are configured have their faults cleared
GetAllAgvInfoConfigured ==
  /\ cpc = "list"
  /\ \/ /\ cpc' = "post"
        /\ faulty' = {a \in Configured : truth["error"][a] # 0}
        /\ UNCHANGED <<lift, raised>>
     \/ Raises /\ Abandon
  /\ UNCHANGED <<truth, roundVars, seen, reset, poolVars>>

GetAllAgvInfo ==
  /\ cpc = "list"
  /\ \/ /\ cpc' = "post"
        /\ faulty' = {a \in AgvSet : truth["error"][a] # 0}
        /\ UNCHANGED <<lift, raised>>
     \/ Raises /\ Abandon
  /\ UNCHANGED <<truth, roundVars, seen, reset, poolVars>>

Cleared == [truth EXCEPT !["error"] = [a \in AgvSet |-> IF a \in faulty THEN 0 ELSE @[a]]]

\* the request may fail before or after it took effect
ClearAgvError ==
  /\ cpc = "post"
  /\ \/ Becomes(Cleared) /\ NextLift /\ UNCHANGED raised
     \/ Becomes(Cleared) /\ Raises /\ Abandon
     \/ Raises /\ Abandon /\ UNCHANGED <<truth, seen>>
  /\ UNCHANGED <<roundVars, reset, poolVars>>

--------------------------------------------------------------------------------
(* The other users of the pool, the fleet and the lifts.                    *)

UsePool ==
  /\ \/ Pg!Obtain("error") /\ pc["error"] = "sleep"
     \/ \E u \in OtherUsers : Pg!Obtain(u) \/ Pg!Queried(u)
  /\ UNCHANGED <<truth, roundVars, seen, reset, clearVars, raised>>

TruthChanges(k, a, v) ==
  /\ truth[k][a] # v
  /\ Becomes([truth EXCEPT ![k] = [@ EXCEPT ![a] = v]])
  /\ UNCHANGED <<roundVars, reset, clearVars, raised, poolVars>>

ResetChanges(l) ==
  /\ reset' = IF l \in reset THEN reset \ {l} ELSE reset \cup {l}
  /\ UNCHANGED <<truth, roundVars, seen, clearVars, raised, poolVars>>

--------------------------------------------------------------------------------
Round(k) ==
  \/ Fetch(k) \/ FetchRaises(k) \/ ApplySend(k) \/ SendReturns(k)
  \/ k = "error" /\ (GetAgvErrorInfo \/ GetAgvErrorInfoRaises)

MonitorClearError == ModeIsReset \/ GetAllAgvInfo \/ ClearAgvError

World ==
  \/ \E k \in Kinds, a \in AgvSet : \E v \in Value[k] : TruthChanges(k, a, v)
  \/ \E l \in LiftSet : ResetChanges(l)

Next == (\E k \in Kinds : Round(k)) \/ MonitorClearError \/ UsePool \/ World

Spec == Init /\ [][Next]_vars

(***************************************************************************)
(* The event loop repeats the rounds and the monitor for ever; a send that *)
(* is applied again and again still returns.                               *)
(***************************************************************************)
ObtainForErrors == Pg!Obtain("error") /\ UsePool

Fairness ==
  /\ \A k \in Kinds : WF_vars(Round(k)) /\ WF_vars(SendReturns(k))
  /\ WF_vars(MonitorClearError)
  /\ WF_vars(ObtainForErrors)

FairSpec == Spec /\ Fairness

--------------------------------------------------------------------------------
(* Every variable has the shape its declaration says. *)
TypeOK ==
  /\ truth \in [Kinds -> [AgvSet -> Nat]]
  /\ \A k \in Kinds, a \in AgvSet : truth[k][a] \in Value[k]
  /\ reg \in [Kinds -> [Configured -> Nat]]
  /\ pc \in [Kinds -> {"sleep", "detail", "send", "sent"}]
  /\ pos \in [Kinds -> 1..Len(Agvs) + 1]
  /\ \A k \in Kinds : pc[k] # "sleep" => pos[k] \in DOMAIN Agvs
  /\ \A k \in Kinds : pc[k] \in {"send", "sent"} => Agvs[pos[k]] \in Configured
  /\ rows \in [Kinds -> [AgvSet -> Nat \cup {Ask}]]
  /\ val \in [Kinds -> Nat]
  /\ seen \in [Kinds -> [Configured -> SUBSET Nat]]
  /\ reset \subseteq LiftSet
  /\ cpc \in {"mode", "list", "post"}
  /\ lift \in DOMAIN Lifts
  /\ faulty \subseteq AgvSet
  /\ raised \in 0..RaiseBudget
  /\ Pg!PoolTypeOK

(***************************************************************************)
(* What the register of an AGV shows once the round has passed it, until   *)
(* the next one asks, was so at some moment since the round asked: the     *)
(* flag of the row and the code, taken at different times, never make up a *)
(* state the AGV was not in, and no code stays behind for a fault that had *)
(* gone before.                                                            *)
(***************************************************************************)
ShowsRecent ==
  \A k \in Kinds : \A i \in 1..pos[k] - 1 :
    Agvs[i] \in Configured => reg[k][Agvs[i]] \in seen[k][Agvs[i]]

(* No task creates a second pool (aio_postgresql.py:26). *)
OnePoolEach == Pg!OnePoolEach

(***************************************************************************)
(* What lasts is shown in the end, although queries and requests fail for  *)
(* a while and pools have to be created: for every AGV but those that come *)
(* after one that is not configured.                                       *)
(***************************************************************************)
Reached == {i \in DOMAIN Agvs : \A j \in 1..i : Agvs[j] \in Configured}

ShownInTheEnd ==
  \A k \in Kinds, i \in Reached : \A v \in Value[k] :
    <>[](truth[k][Agvs[i]] = v) => <>[](reg[k][Agvs[i]] = v)

(***************************************************************************)
(* While a lift stays in RESET every fault of the fleet is cleared again,  *)
(* that of an AGV that is not configured included, although queries and    *)
(* requests fail for a while.                                              *)
(***************************************************************************)
ResetClears ==
  \A l \in LiftSet, a \in AgvSet : <>[](l \in reset) => []<>(truth["error"][a] = 0)
================================================================================
