-------------------------------- MODULE AgvMode --------------------------------
(***************************************************************************)
(* The REPORT_AGV_MODE register: an AUTO and a RUNNING bit for every AGV.  *)
(* Adapter.report_agv_state takes the state of the fleet from the database *)
(* and then brings the bits in line, AGV by AGV and bit by bit; the        *)
(* deprecated HTTP handler dep_report_agv_status changes the same register *)
(* when the fleet manager reports an AGV.  Every change of a bit is a recv *)
(* of the register followed by a send of all its bits.                     *)
(***************************************************************************)
EXTENDS Naturals, Sequences

CONSTANTS
  Agvs,           \* rows of get_all_agv_state, in order
  Configurations, \* which AGVs the configuration may have REPORT_AGV_MODE bits for
  Ordered,        \* AGVs that are given orders
  Conditions,     \* Conditions[a]: the conditions a gets into
  Reports,        \* requests <<position of the AGV, what it does>> to the handler
  RequestBudget,  \* how many requests reach the deprecated handler
  RaiseBudget     \* how often a database query raises

AgvSet == {Agvs[i] : i \in DOMAIN Agvs}
Modes  == {"AUTO", "RUNNING"}
Bits   == AgvSet \X Modes

\* the first condition of report_agv_state an AGV meets
AllConditions == {"offline", "undispatched", "faulty", "fit"}

\* and of dep_report_agv_status
AllReports == {"offline", "faulty", "charging", "rest", "no task", "task"}

ASSUME AgvAssumption ==
  /\ Agvs \in Seq(AgvSet)
  /\ Agvs # <<>>
  /\ \A i, j \in DOMAIN Agvs : Agvs[i] = Agvs[j] => i = j
  /\ Configurations \subseteq SUBSET AgvSet
  /\ Ordered \subseteq AgvSet
  /\ Conditions \in [AgvSet -> (SUBSET AllConditions) \ {{}}]
  /\ Reports \subseteq (DOMAIN Agvs) \X AllReports
  /\ RequestBudget \in Nat
  /\ RaiseBudget \in Nat

VARIABLES
  configured, \* AGVs the configuration has bits for
  bits,      \* bits of the register that are on
  fleet,     \* fleet[a]: the condition of a, as the database has it
  busy,      \* busy[a]: a has an active order
  rows,      \* all_agv_state of the round
  pc,        \* pc[w]: what the writer w does next
  agv,       \* agv[w]: position in Agvs of the AGV it deals with
  todo,      \* todo[w]: the bit updates left for this AGV
  new,       \* new[w]: NEW_VAL of the update it is in
  from,      \* history: the first AGV of the round the handler left undisturbed
  requests,  \* requests so far
  raised     \* failed queries so far

vars == <<configured, bits, fleet, busy, rows, pc, agv, todo, new, from, requests, raised>>

Writers == {"report", "handler"}

Updates == {"on", "off"} \X Modes

Init ==
  /\ configured \in Configurations
  /\ bits \in SUBSET (configured \X Modes)
  /\ fleet \in {f \in [AgvSet -> AllConditions] : \A a \in AgvSet : f[a] \in Conditions[a]}
  /\ busy = [a \in AgvSet |-> FALSE]
  /\ rows = fleet
  /\ pc   = [w \in Writers |-> "sleep"]
  /\ agv  = [w \in Writers |-> 1]
  /\ todo = [w \in Writers |-> <<>>]
  /\ new  = [w \in Writers |-> {}]
  /\ from = 1
  /\ requests = 0
  /\ raised = 0

--------------------------------------------------------------------------------
(* The round of report_agv_state.                                           *)

Rest(w) ==
  /\ pc'   = [pc EXCEPT ![w] = "sleep"]
  /\ agv'  = [agv EXCEPT ![w] = 1]
  /\ todo' = [todo EXCEPT ![w] = <<>>]

\* mutant: one AGV too many
NextAgvBeyond ==
  /\ pc'   = [pc EXCEPT !["report"] = "order"]
  /\ agv'  = [agv EXCEPT !["report"] = @ + 1]
  /\ todo' = [todo EXCEPT !["report"] = <<>>]
  /\ UNCHANGED from

\* the AGV after the one that is dealt with while the handler is in a request
FromNext(position) == from' = IF pc["handler"] = "sleep" THEN from ELSE position + 1

NextAgv ==
  \/ /\ agv["report"] < Len(Agvs)
     /\ pc'   = [pc EXCEPT !["report"] = "order"]
     /\ agv'  = [agv EXCEPT !["report"] = @ + 1]
     /\ todo' = [todo EXCEPT !["report"] = <<>>]
     /\ FromNext(agv["report"] + 1)
  \/ agv["report"] = Len(Agvs) /\ Rest("report") /\ UNCHANGED from

GetAllAgvState ==
  /\ pc["report"] = "sleep"
  /\ rows' = fleet
  /\ pc' = [pc EXCEPT !["report"] = "order"]
  /\ from' = IF pc["handler"] = "sleep" THEN 1 ELSE 2
  /\ UNCHANGED <<configured, bits, fleet, busy, agv, todo, new, requests, raised>>

\* mutant: RUNNING stays on for an AGV that is not dispatched
ReportUpdatesAutoOnly(row, order) ==
  CASE row = "offline"                   -> <<<<"off", "AUTO">>, <<"off", "RUNNING">>>>
    [] row \in {"undispatched", "faulty"} -> <<<<"off", "AUTO">>>>
    [] row = "fit" /\ order              -> <<<<"on", "RUNNING">>>>
    [] row = "fit" /\ ~ order            -> <<<<"on", "AUTO">>, <<"off", "RUNNING">>>>

ReportUpdates(row, order) ==
  CASE row \in {"offline", "undispatched"} -> <<<<"off", "AUTO">>, <<"off", "RUNNING">>>>
    [] row = "faulty"                      -> <<<<"off", "AUTO">>>>
    [] row = "fit" /\ order                -> <<<<"on", "RUNNING">>>>
    [] row = "fit" /\ ~ order              -> <<<<"on", "AUTO">>, <<"off", "RUNNING">>>>

AgvHasActiveOrder ==
  /\ pc["report"] = "order"
  /\ LET a == Agvs[agv["report"]] IN
       todo' = [todo EXCEPT !["report"] = ReportUpdates(rows[a], busy[a])]
  /\ pc' = [pc EXCEPT !["report"] = "recv"]
  /\ UNCHANGED <<configured, bits, fleet, busy, rows, agv, new, from, requests, raised>>

\* the exception ends the round
AgvHasActiveOrderRaises ==
  /\ pc["report"] = "order"
  /\ raised < RaiseBudget
  /\ raised' = raised + 1
  /\ Rest("report")
  /\ UNCHANGED <<configured, bits, fleet, busy, rows, new, from, requests>>

--------------------------------------------------------------------------------
(* write_agv_mode and reset_agv_mode.                                       *)

\* the KeyError of an AGV without bits ends the round, or the request
ModeUnconfigured(w) ==
  /\ pc[w] = "recv"
  /\ Agvs[agv[w]] \notin configured
  /\ Rest(w)
  /\ UNCHANGED <<configured, bits, fleet, busy, rows, new, from, requests, raised>>

\* mutant: the bit is written without what was read
ChangedOverwrites(w, pre) ==
  LET bit == <<Agvs[agv[w]], Head(todo[w])[2]>> IN
  IF Head(todo[w])[1] = "on" THEN {bit} ELSE pre \ {bit}

\* NEW_VAL
Changed(w, pre) ==
  LET bit == <<Agvs[agv[w]], Head(todo[w])[2]>> IN
  IF Head(todo[w])[1] = "on" THEN pre \cup {bit} ELSE pre \ {bit}

\* mutant: only the first update is made
UpdateDoneFirstOnly(w) ==
  \/ w = "report" /\ NextAgv
  \/ w = "handler" /\ Rest(w) /\ UNCHANGED from

UpdateDone(w) ==
  \/ /\ Len(todo[w]) > 1
     /\ todo' = [todo EXCEPT ![w] = Tail(@)]
     /\ pc'   = [pc EXCEPT ![w] = "recv"]
     /\ UNCHANGED <<agv, from>>
  \/ Len(todo[w]) = 1 /\ w = "report" /\ NextAgv
  \/ Len(todo[w]) = 1 /\ w = "handler" /\ Rest(w) /\ UNCHANGED from

RecvMode(w) ==
  /\ pc[w] = "recv"
  /\ Agvs[agv[w]] \in configured
  /\ \/ /\ Changed(w, bits) = bits
        /\ UpdateDone(w)
        /\ UNCHANGED new
     \/ /\ Changed(w, bits) # bits
        /\ new' = [new EXCEPT ![w] = Changed(w, bits)]
        /\ pc'  = [pc EXCEPT ![w] = "send"]
        /\ UNCHANGED <<agv, todo, from>>
  /\ UNCHANGED <<configured, bits, fleet, busy, rows, requests, raised>>

\* the PLC applies the send, for the first time or again
ApplyMode(w) ==
  /\ pc[w] \in {"send", "sent"}
  /\ bits' = new[w]
  /\ pc' = [pc EXCEPT ![w] = "sent"]
  /\ UNCHANGED <<configured, fleet, busy, rows, agv, todo, new, from, requests, raised>>

ModeReturns(w) ==
  /\ pc[w] = "sent"
  /\ UpdateDone(w)
  /\ new' = [new EXCEPT ![w] = {}]
  /\ UNCHANGED <<configured, bits, fleet, busy, rows, requests, raised>>

--------------------------------------------------------------------------------
(* The deprecated handler; what it is told need not be what is so by now.   *)

HandlerUpdate(report) ==
  CASE report \in {"offline", "faulty"}          -> <<"off", "AUTO">>
    [] report \in {"charging", "rest", "no task"} -> <<"on", "AUTO">>
    [] report = "task"                           -> <<"on", "RUNNING">>

ReportAgvStatus(i, report) ==
  /\ pc["handler"] = "sleep"
  /\ requests < RequestBudget
  /\ requests' = requests + 1
  /\ pc'   = [pc EXCEPT !["handler"] = "recv"]
  /\ agv'  = [agv EXCEPT !["handler"] = i]
  /\ todo' = [todo EXCEPT !["handler"] = <<HandlerUpdate(report)>>]
  /\ from' = agv["report"] + 1
  /\ UNCHANGED <<configured, bits, fleet, busy, rows, new, raised>>

--------------------------------------------------------------------------------
(* The fleet.                                                               *)

ConditionChanges(a, c) ==
  /\ fleet[a] # c
  /\ fleet' = [fleet EXCEPT ![a] = c]
  /\ UNCHANGED <<configured, bits, busy, rows, pc, agv, todo, new, from, requests, raised>>

OrderChanges(a) ==
  /\ busy' = [busy EXCEPT ![a] = ~ @]
  /\ UNCHANGED <<configured, bits, fleet, rows, pc, agv, todo, new, from, requests, raised>>

--------------------------------------------------------------------------------
Update(w) == ModeUnconfigured(w) \/ RecvMode(w) \/ ApplyMode(w) \/ ModeReturns(w)

Report ==
  \/ GetAllAgvState \/ AgvHasActiveOrder \/ AgvHasActiveOrderRaises
  \/ Update("report")

Handle ==
  \/ \E r \in Reports : ReportAgvStatus(r[1], r[2])
  \/ Update("handler")

Fleet ==
  \/ \E a \in AgvSet : \E c \in Conditions[a] : ConditionChanges(a, c)
  \/ \E a \in Ordered : OrderChanges(a)

Next == Report \/ Handle \/ Fleet

Spec == Init /\ [][Next]_vars

(***************************************************************************)
(* The event loop repeats the round for ever and finishes every request; a *)
(* send that is applied again and again still returns.                     *)
(***************************************************************************)
Fairness ==
  /\ WF_vars(Report)
  /\ \A w \in Writers : WF_vars(Update(w)) /\ WF_vars(ModeReturns(w))

FairSpec == Spec /\ Fairness

--------------------------------------------------------------------------------
(* Every variable has the shape its declaration says. *)
TypeOK ==
  /\ configured \subseteq AgvSet
  /\ bits \subseteq configured \X Modes
  /\ fleet \in [AgvSet -> AllConditions]
  /\ busy \in [AgvSet -> BOOLEAN]
  /\ rows \in [AgvSet -> AllConditions]
  /\ pc \in [Writers -> {"sleep", "order", "recv", "send", "sent"}]
  /\ agv \in [Writers -> DOMAIN Agvs]
  /\ todo \in [Writers -> Seq(Updates)]
  /\ \A w \in Writers : pc[w] \in {"recv", "send", "sent"} <=> todo[w] # <<>>
  /\ new \in [Writers -> SUBSET (configured \X Modes)]
  /\ from \in 1..Len(Agvs) + 1
  /\ requests \in 0..RequestBudget
  /\ raised \in 0..RaiseBudget

(***************************************************************************)
(* The bits of the AGVs the round of report_agv_state has passed since a   *)
(* request was last under way agree with the rows it works from, whatever  *)
(* the register held before, whatever the request has overwritten in it,   *)
(* however often a send was applied.                                       *)
(***************************************************************************)
Agrees(a) ==
  /\ rows[a] \in {"offline", "undispatched"} => \A m \in Modes : <<a, m>> \notin bits
  /\ rows[a] = "faulty" => <<a, "AUTO">> \notin bits
  /\ rows[a] = "fit" => \E m \in Modes : <<a, m>> \in bits

RoundAgrees == \A i \in from..agv["report"] - 1 : Agrees(Agvs[i])

(***************************************************************************)
(* Nor do the bits of one AGV change while the round deals with another    *)
(* that it began after the last request, although every send writes the    *)
(* bits of all of them.                                                    *)
(***************************************************************************)
OthersUntouched ==
  [][from <= agv["report"] =>
       \A b \in Bits : b[1] # Agvs[agv["report"]] => (b \in bits' <=> b \in bits)]_vars

(***************************************************************************)
(* What the modes of an AGV come to be once its condition lasts, with the  *)
(* handler interfering and rounds cut short by exceptions for a while.     *)
(* Nothing of the kind is so for an AGV without bits or for any after it:  *)
(* its KeyError (device.py:107, 125) ends every round there.               *)
(***************************************************************************)
Shown(a, c, order) ==
  /\ c \in {"offline", "undispatched", "faulty"} => <<a, "AUTO">> \notin bits
  /\ c \in {"offline", "undispatched"} => <<a, "RUNNING">> \notin bits
  /\ c = "fit" /\ order => <<a, "RUNNING">> \in bits
  /\ c = "fit" /\ ~ order => <<a, "AUTO">> \in bits /\ <<a, "RUNNING">> \notin bits

Served(a) == \E i \in DOMAIN Agvs : Agvs[i] = a /\ \A j \in 1..i : Agvs[j] \in configured

Converges ==
  \A a \in AgvSet, c \in AllConditions, o \in BOOLEAN :
    <>[](Served(a) /\ fleet[a] = c /\ busy[a] = o) => <>[]Shown(a, c, o)

(***************************************************************************)
(* AUTO and RUNNING exclude each other (device.py:95): once a round has    *)
(* dealt with an AGV, it is not reported in both modes at once.            *)
(***************************************************************************)
BothModes(a) == \A m \in Modes : <<a, m>> \in bits

ModesExclusive ==
  [][ModeReturns("report") /\ Len(todo["report"]) = 1 => ~ BothModes(Agvs[agv["report"]])]_vars
================================================================================
