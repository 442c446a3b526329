------------------------------ MODULE OrderHandle ------------------------------
(***************************************************************************)
(* How a lift's command becomes an AGV order.  The PLC raises a SAVE or    *)
(* TAKE bit in the COMMAND register; Adapter.monitor_generate_order polls  *)
(* it, creates an order and acknowledges the command with a bit of the     *)
(* ORDER_HANDLE register; Adapter.monitor_clear_signal turns those bits    *)
(* off again, and so does the deprecated HTTP handler                      *)
(* dep_report_task_finish.  Both registers hold the bits of every lift.    *)
(*                                                                         *)
(* Every register call is one step (PlcRegister): a recv reads, a send is  *)
(* applied once or more before it returns.  An acknowledgement is a recv   *)
(* followed by a send of the whole register, and other tasks run between.  *)
(***************************************************************************)
EXTENDS Naturals, Sequences

CONSTANTS
  Lifts,        \* get_all_sub_devices(), in order
  PlcCommands,  \* commands <<lift, kind>> the PLC gives
  Modes,        \* what the STATUS register of a lift can show
  FinishCodes,  \* task codes sent to dep_report_task_finish
  FaultBudget   \* how often create_order raises, a send is lost, the adapter restarts

LiftSet == {Lifts[i] : i \in DOMAIN Lifts}
Kinds   == {"save", "take"}
Bits    == LiftSet \X Kinds

ASSUME OrderAssumption ==
  /\ Lifts \in Seq(LiftSet)
  /\ Lifts # <<>>
  /\ PlcCommands \subseteq Bits
  /\ Modes \subseteq SUBSET {"AUTO", "STOP"}
  /\ Modes # {}
  /\ FinishCodes \subseteq {1000, 2000, 3000}
  /\ FaultBudget \in Nat

VARIABLES
  command,  \* bits of the COMMAND register that are on
  handle,   \* bits of the ORDER_HANDLE register that are on
  mode,     \* mode[l]: AUTO and STOP bits of the STATUS register of l
  pc,       \* pc[w]: what the writer w does next
  lift,     \* lift[w]: position in Lifts of the lift it deals with
  kind,     \* kind[w]: and the kind of task
  new,      \* new[w]: NEW_VAL of the register update it is in
  faults,   \* create_order calls that raised, lost sends and restarts so far
  owed,     \* history: bits without an acknowledged order since they were off
  ordered   \* history: commands that are up and have had an order created

vars == <<command, handle, mode, pc, lift, kind, new, faults, owed, ordered>>

Writers == {"generate", "clear", "finish"}

Bit(w) == <<Lifts[lift[w]], kind[w]>>

Init ==
  /\ command = {}
  /\ handle \in SUBSET PlcCommands
  /\ mode \in [LiftSet -> Modes]
  /\ pc   = [w \in Writers |-> "sleep"]
  /\ lift = [w \in Writers |-> 1]
  /\ kind = [w \in Writers |-> "save"]
  /\ new  = [w \in Writers |-> {}]
  /\ faults = 0
  /\ owed = Bits \ handle
  /\ ordered = {}

--------------------------------------------------------------------------------
(* Control of the two loops over the lifts.                                 *)

Go(w, step) == pc' = [pc EXCEPT ![w] = step] /\ UNCHANGED <<lift, kind>>

FirstStep == [generate |-> "auto", clear |-> "check"]

\* the end of a round or of a request; the next one starts over
Rest(w) ==
  /\ pc'   = [pc EXCEPT ![w] = "sleep"]
  /\ lift' = [lift EXCEPT ![w] = 1]
  /\ kind' = [kind EXCEPT ![w] = "save"]

\* mutant: one lift too many
NextLiftBeyond(w) ==
  \/ /\ lift[w] <= Len(Lifts)
     /\ pc'   = [pc EXCEPT ![w] = FirstStep[w]]
     /\ lift' = [lift EXCEPT ![w] = @ + 1]
     /\ kind' = [kind EXCEPT ![w] = "save"]
  \/ lift[w] > Len(Lifts) /\ Rest(w)

NextLift(w) ==
  \/ /\ lift[w] < Len(Lifts)
     /\ pc'   = [pc EXCEPT ![w] = FirstStep[w]]
     /\ lift' = [lift EXCEPT ![w] = @ + 1]
     /\ kind' = [kind EXCEPT ![w] = "save"]
  \/ lift[w] = Len(Lifts) /\ Rest(w)

\* mutant: takes are left out
NextKindSaveOnly == NextLift("clear")

\* monitor_clear_signal: save first, then take, then the next lift
NextKind ==
  \/ /\ kind["clear"] = "save"
     /\ pc' = [pc EXCEPT !["clear"] = "check"]
     /\ kind' = [kind EXCEPT !["clear"] = "take"]
     /\ UNCHANGED lift
  \/ kind["clear"] = "take" /\ NextLift("clear")

Continue(w) ==
  \/ w = "generate" /\ NextLift(w)
  \/ w = "clear" /\ NextKind
  \/ w = "finish" /\ Rest(w)

WakeUp(w) ==
  /\ w # "finish"
  /\ pc[w] = "sleep"
  /\ Go(w, FirstStep[w])
  /\ UNCHANGED <<command, handle, mode, new, faults, owed, ordered>>

\* mutant: an exception ends the task (no safe_forever_loop)
RaisesForGood(w) ==
  /\ faults < FaultBudget
  /\ faults' = faults + 1
  /\ pc' = [pc EXCEPT ![w] = "dead"]
  /\ UNCHANGED <<lift, kind>>

\* an exception ends the round
Raises(w) ==
  /\ faults < FaultBudget
  /\ faults' = faults + 1
  /\ Rest(w)

--------------------------------------------------------------------------------
(* The update of ORDER_HANDLE: report_{save,take}_task_handle_{start,finish}.*)

\* mutant: the bit is written without what was read
UpdateOverwrites(w, pre) == IF w = "generate" THEN {Bit(w)} ELSE pre \ {Bit(w)}

\* NEW_VAL: the generator turns its bit on, the others turn theirs off
Update(w, pre) == IF w = "generate" THEN pre \cup {Bit(w)} ELSE pre \ {Bit(w)}

RecvPre(w) ==
  /\ pc[w] = "recv"
  /\ \/ /\ Update(w, handle) = handle
        /\ Continue(w)
        /\ UNCHANGED new
     \/ /\ Update(w, handle) # handle
        /\ new' = [new EXCEPT ![w] = Update(w, handle)]
        /\ Go(w, "send")
  /\ UNCHANGED <<command, handle, mode, faults, owed, ordered>>

\* the PLC applies the send, for the first time or again
ApplySend(w) ==
  /\ pc[w] \in {"send", "sent"}
  /\ handle' = new[w]
  /\ owed' = owed \cup (handle \ new[w])
  /\ Go(w, "sent")
  /\ UNCHANGED <<command, mode, new, faults, ordered>>

SendReturns(w) ==
  /\ pc[w] = "sent"
  /\ Continue(w)
  /\ new' = [new EXCEPT ![w] = {}]
  /\ UNCHANGED <<command, handle, mode, faults, owed, ordered>>

\* the PLC closed the connection: the send returns without having been applied
SendUnserved(w) ==
  /\ pc[w] = "send"
  /\ faults < FaultBudget
  /\ faults' = faults + 1
  /\ Continue(w)
  /\ new' = [new EXCEPT ![w] = {}]
  /\ owed' = owed \cup (IF w = "generate" THEN {Bit(w)} ELSE {})
  /\ UNCHANGED <<command, handle, mode, ordered>>

--------------------------------------------------------------------------------
(* monitor_generate_order.                                                  *)

\* mode_is_abnormal reads STATUS for AUTO, and again for STOP
ModeIsAuto ==
  /\ pc["generate"] = "auto"
  /\ \/ "AUTO" \in mode[Lifts[lift["generate"]]] /\ Go("generate", "stop")
     \/ "AUTO" \notin mode[Lifts[lift["generate"]]] /\ NextLift("generate")
  /\ UNCHANGED <<command, handle, mode, new, faults, owed, ordered>>

ModeIsStop ==
  /\ pc["generate"] = "stop"
  /\ \/ "STOP" \notin mode[Lifts[lift["generate"]]] /\ Go("generate", "has save")
     \/ "STOP" \in mode[Lifts[lift["generate"]]] /\ NextLift("generate")
  /\ UNCHANGED <<command, handle, mode, new, faults, owed, ordered>>

HasSaveTask ==
  /\ pc["generate"] = "has save"
  /\ \/ Bit("generate") \in command /\ Go("generate", "check")
     \/ /\ Bit("generate") \notin command
        /\ pc' = [pc EXCEPT !["generate"] = "has take"]
        /\ kind' = [kind EXCEPT !["generate"] = "take"]
        /\ UNCHANGED lift
  /\ UNCHANGED <<command, handle, mode, new, faults, owed, ordered>>

HasTakeTask ==
  /\ pc["generate"] = "has take"
  /\ \/ Bit("generate") \in command /\ Go("generate", "check")
     \/ Bit("generate") \notin command /\ NextLift("generate")
  /\ UNCHANGED <<command, handle, mode, new, faults, owed, ordered>>

\* mutant: the acknowledgement is not looked at
NotStartHandleUnchecked ==
  /\ pc["generate"] = "check"
  /\ Go("generate", "create")
  /\ UNCHANGED <<command, handle, mode, new, faults, owed, ordered>>

\* {save,take}_task_is_start_handle, half a second after the command was read
NotStartHandle ==
  /\ pc["generate"] = "check"
  /\ \/ Bit("generate") \notin handle /\ Go("generate", "create")
     \/ Bit("generate") \in handle /\ NextLift("generate")
  /\ UNCHANGED <<command, handle, mode, new, faults, owed, ordered>>

CreateOrder ==
  /\ pc["generate"] = "create"
  /\ owed' = owed \ {Bit("generate")}
  /\ ordered' = ordered \cup ({Bit("generate")} \cap command)
  /\ Go("generate", "recv")
  /\ UNCHANGED <<command, handle, mode, new, faults>>

\* the request failed, or the answer to a request that created the order did
CreateOrderRaises ==
  /\ pc["generate"] = "create"
  /\ Raises("generate")
  /\ \/ ordered' = ordered \cup ({Bit("generate")} \cap command)
     \/ UNCHANGED ordered
  /\ UNCHANGED <<command, handle, mode, new, owed>>

--------------------------------------------------------------------------------
(* monitor_clear_signal, and the handler of the deprecated finish report.   *)

IsStartHandle ==
  /\ pc["clear"] = "check"
  /\ \/ Bit("clear") \in handle /\ Go("clear", "recv")
     \/ Bit("clear") \notin handle /\ NextKind
  /\ UNCHANGED <<command, handle, mode, new, faults, owed, ordered>>

FinishKind(c) == IF c = 3000 THEN "save" ELSE "take"

ReportTaskFinish(c, i) ==
  /\ pc["finish"] = "sleep"
  /\ pc'   = [pc EXCEPT !["finish"] = "recv"]
  /\ lift' = [lift EXCEPT !["finish"] = i]
  /\ kind' = [kind EXCEPT !["finish"] = FinishKind(c)]
  /\ UNCHANGED <<command, handle, mode, new, faults, owed, ordered>>

--------------------------------------------------------------------------------
(* The PLC: a command is up until it is acknowledged, and is not raised     *)
(* again before the acknowledgement is gone.                                *)

RaiseCommand(b) ==
  /\ b \notin command \cup handle
  /\ command' = command \cup {b}
  /\ UNCHANGED <<handle, mode, pc, lift, kind, new, faults, owed, ordered>>

DropCommand(b) ==
  /\ b \in command \cap handle
  /\ command' = command \ {b}
  /\ ordered' = ordered \ {b}
  /\ UNCHANGED <<handle, mode, pc, lift, kind, new, faults, owed>>

SetMode(l, m) ==
  /\ mode[l] # m
  /\ mode' = [mode EXCEPT ![l] = m]
  /\ UNCHANGED <<command, handle, pc, lift, kind, new, faults, owed, ordered>>

\* the adapter is restarted; the registers keep their values
Restart ==
  /\ faults < FaultBudget
  /\ faults' = faults + 1
  /\ pc'   = [w \in Writers |-> "sleep"]
  /\ lift' = [w \in Writers |-> 1]
  /\ kind' = [w \in Writers |-> "save"]
  /\ new'  = [w \in Writers |-> {}]
  /\ owed' = owed \cup (IF pc["generate"] \in {"recv", "send"} THEN {Bit("generate")}
                                                               ELSE {})
  /\ UNCHANGED <<command, handle, mode, ordered>>

--------------------------------------------------------------------------------
Step(w) == WakeUp(w) \/ RecvPre(w) \/ ApplySend(w) \/ SendReturns(w) \/ SendUnserved(w)

Generate ==
  \/ Step("generate")
  \/ ModeIsAuto \/ ModeIsStop \/ HasSaveTask \/ HasTakeTask \/ NotStartHandle
  \/ CreateOrder \/ CreateOrderRaises

Clear == Step("clear") \/ IsStartHandle

Finish ==
  \/ Step("finish")
  \/ \E c \in FinishCodes, i \in DOMAIN Lifts : ReportTaskFinish(c, i)

Plc ==
  \/ \E b \in PlcCommands : RaiseCommand(b)
  \/ \E b \in PlcCommands : DropCommand(b)
  \/ \E l \in LiftSet, m \in Modes : SetMode(l, m)

Next == Generate \/ Clear \/ Finish \/ Plc \/ Restart

Spec == Init /\ [][Next]_vars

(***************************************************************************)
(* The event loop runs both monitors for ever, and a send that is applied  *)
(* again and again still returns.                                          *)
(***************************************************************************)
Fairness ==
  /\ WF_vars(Generate)
  /\ WF_vars(Clear)
  /\ \A w \in {"generate", "clear"} : WF_vars(SendReturns(w))

FairSpec == Spec /\ Fairness

--------------------------------------------------------------------------------
Steps == {"sleep", "auto", "stop", "has save", "has take", "check", "create",
          "recv", "send", "sent"}

(* Every variable has the shape its declaration says. *)
TypeOK ==
  /\ command \subseteq Bits
  /\ handle \subseteq Bits
  /\ mode \in [LiftSet -> SUBSET {"AUTO", "STOP"}]
  /\ pc \in [Writers -> Steps]
  /\ lift \in [Writers -> DOMAIN Lifts]
  /\ kind \in [Writers -> Kinds]
  /\ new \in [Writers -> SUBSET Bits]
  /\ faults \in 0..FaultBudget
  /\ owed \subseteq Bits
  /\ ordered \subseteq Bits

(***************************************************************************)
(* No two orders for one command without a cause that shows in the         *)
(* register: monitor_generate_order is about to create an order only if    *)
(* the bit was turned off since the last order it acknowledged, or the     *)
(* last order was never acknowledged (create_order raised, the send of the *)
(* acknowledgement was lost, or a restart).                                *)
(***************************************************************************)
DuplicatesExcused ==
  pc["generate"] = "create" => Bit("generate") \in owed

(***************************************************************************)
(* The interleaved read-modify-write updates of the shared register lose   *)
(* updates in one direction only: whatever the generator writes back turns *)
(* no acknowledgement off, whatever the clearing monitor writes back turns *)
(* none on, however stale the value either of them read.                   *)
(***************************************************************************)
OneSided ==
  [][/\ ApplySend("generate") => handle \subseteq handle'
     /\ ApplySend("clear") => handle' \subseteq handle]_vars

(***************************************************************************)
(* A handle bit reports a task as handled (device.py:406): a command that  *)
(* is up and acknowledged has had an order created for it.                 *)
(***************************************************************************)
AckMeansOrder == command \cap handle \subseteq ordered

(***************************************************************************)
(* Every command of a lift in normal mode is acknowledged, although lifts  *)
(* are visited in turn and an exception for one lift ends the round, but a *)
(* TAKE only when the lift's SAVE is not up (elif, adapter.py:230): a SAVE *)
(* the PLC keeps up after its acknowledgement starves the TAKE.            *)
(***************************************************************************)
Unserved(b) ==
  \/ mode[b[1]] # {"AUTO"}
  \/ b[2] = "take" /\ <<b[1], "save">> \in command

CommandAcked ==
  \A b \in PlcCommands : b \in command ~> (b \in handle \/ Unserved(b))

(***************************************************************************)
(* When the PLC stops giving commands the register goes quiet: no          *)
(* acknowledgement brought back by a stale write stays on for good.        *)
(***************************************************************************)
SettlesClean == <>[](command = {}) => <>[](handle = {})
================================================================================
