------------------------------- MODULE CarSignals -------------------------------
(***************************************************************************)
(* The signals about an AGV in a lift.  HTTP handlers write that it starts *)
(* or has finished loading or unloading (LOAD_ACTION, UNLOAD_ACTION) and   *)
(* which car it brings or found (CAR_FINISH_NUMBER, REPORT_FIND_CAR_NUMBER,*)
(* and for all lifts REPORT_REVERSE_CAR_NUMBER).                           *)
(* Adapter.monitor_clear_signal resets them: an action that has finished   *)
(* when the lift no longer waits for it, the numbers when the lift is away *)
(* from the docking level.  Each check, read and write is a call of its    *)
(* own, and the handlers and the PLC run between them.                     *)
(*                                                                         *)
(* Zero is CLEAR in every register; a number is NUMBER.                    *)
(***************************************************************************)
EXTENDS Naturals, Sequences

CONSTANTS
  Lifts,       \* get_all_sub_devices(), in order
  Kinds,       \* the actions the AGVs do: load, unload
  Numbers,     \* the numbers they report: find, finish, reverse
  Handlers,    \* HTTP requests handled at the same time
  Deprecated,  \* the endpoint of dep_ssio_request_action is used
  LossBudget   \* how often the send of a reset is lost

LiftSet == {Lifts[i] : i \in DOMAIN Lifts}

ASSUME CarAssumption ==
  /\ Lifts \in Seq(LiftSet)
  /\ Lifts # <<>>
  /\ Kinds \subseteq {"load", "unload"}
  /\ Numbers \subseteq {"find", "finish", "reverse"}
  /\ Deprecated \in BOOLEAN
  /\ LossBudget \in Nat
  /\ "basic" \notin LiftSet

\* the list of cars to move out of the way is a signal of the base device
Reg(l, s) == IF s = "reverse" THEN <<"basic", s>> ELSE <<l, s>>

Signals   == {"load", "unload", "find", "finish", "reverse"}
Registers == {Reg(l, s) : l \in LiftSet, s \in Signals}

VARIABLES
  reg,      \* reg[r]: CLEAR, START or FINISH, or CLEAR or NUMBER
  waiting,  \* lifts with WAIT_SAVE (load), WAIT_TAKE (unload) on
  docked,   \* lifts with DOCKED on
  lift,     \* position in Lifts of the lift the monitor deals with
  signal,   \* the signal it deals with, "docked" for its check of DOCKED
  stage,    \* and what it does next
  hpc,      \* hpc[h]: what the handler of a request does next
  target,   \* target[h]: the register the request is about
  value,    \* value[h]: and what is written to it
  lost,     \* resets lost so far
  fresh     \* history: START has been written to the register the monitor is
            \* about to reset since it read FINISH there

monitorVars == <<lift, signal, stage>>
requestVars == <<hpc, target, value>>
vars == <<reg, waiting, docked, monitorVars, requestVars, lost, fresh>>

Init ==
  /\ reg = [r \in Registers |-> "CLEAR"]
  /\ waiting = {}
  /\ docked \in SUBSET LiftSet
  /\ lift = 1
  /\ signal = "load"
  /\ stage = "check"
  /\ hpc = [h \in Handlers |-> "idle"]
  /\ target = [h \in Handlers |-> Reg(Lifts[1], "reverse")]
  /\ value = [h \in Handlers |-> "CLEAR"]
  /\ lost = 0
  /\ fresh = FALSE

--------------------------------------------------------------------------------
(* monitor_clear_signal.                                                    *)

Here == Lifts[lift]

To(s) ==
  /\ signal' = s
  /\ stage' = IF s \in {"load", "unload", "docked"} THEN "check" ELSE "read"
  /\ UNCHANGED lift

\* mutant: the round goes on after the last lift
NextLiftBeyond ==
  /\ lift' = lift + 1
  /\ signal' = "load"
  /\ stage' = "check"

\* the next lift, or the next round
NextLift ==
  /\ lift' = IF lift < Len(Lifts) THEN lift + 1 ELSE 1
  /\ signal' = "load"
  /\ stage' = "check"

\* mutant: the number of the finished car is forgotten
NextSignalButFinish ==
  \/ signal = "load" /\ To("unload")
  \/ signal = "unload" /\ To("docked")
  \/ signal = "reverse" /\ To("find")
  \/ signal \in {"find", "finish"} /\ NextLift

NextSignal ==
  \/ signal = "load" /\ To("unload")
  \/ signal = "unload" /\ To("docked")
  \/ signal = "reverse" /\ To("find")
  \/ signal = "find" /\ To("finish")
  \/ signal = "finish" /\ NextLift

\* mutant: an action is reset while the lift waits for it
IsWaitTaskInverted ==
  /\ stage = "check"
  /\ signal \in {"load", "unload"}
  /\ \/ <<Here, signal>> \notin waiting /\ NextSignal
     \/ <<Here, signal>> \in waiting /\ stage' = "read" /\ UNCHANGED <<lift, signal>>
  /\ UNCHANGED <<reg, waiting, docked, requestVars, lost, fresh>>

\* is_wait_save_task, is_wait_take_task
IsWaitTask ==
  /\ stage = "check"
  /\ signal \in {"load", "unload"}
  /\ \/ <<Here, signal>> \in waiting /\ NextSignal
     \/ <<Here, signal>> \notin waiting /\ stage' = "read" /\ UNCHANGED <<lift, signal>>
  /\ UNCHANGED <<reg, waiting, docked, requestVars, lost, fresh>>

ReadyDocking ==
  /\ stage = "check"
  /\ signal = "docked"
  /\ \/ Here \in docked /\ NextLift
     \/ Here \notin docked /\ To("reverse")
  /\ UNCHANGED <<reg, waiting, docked, requestVars, lost, fresh>>

\* mutant: whatever the action is, it is reset
MustResetAlways(s, v) == v # "CLEAR"

MustReset(s, v) == IF s \in {"load", "unload"} THEN v = "FINISH" ELSE v # "CLEAR"

\* require_reset_*
RequireReset ==
  /\ stage = "read"
  /\ \/ /\ MustReset(signal, reg[Reg(Here, signal)])
        /\ stage' = "send"
        /\ UNCHANGED <<lift, signal>>
     \/ ~ MustReset(signal, reg[Reg(Here, signal)]) /\ NextSignal
  /\ UNCHANGED <<reg, waiting, docked, requestVars, lost, fresh>>

\* reset_*, for the first time or again; that of the list sleeps three seconds
ApplyReset ==
  /\ stage \in {"send", "sent"}
  /\ stage' = "sent"
  /\ reg' = [reg EXCEPT ![Reg(Here, signal)] = "CLEAR"]
  /\ UNCHANGED <<waiting, docked, lift, signal, requestVars, lost, fresh>>

ResetReturns ==
  /\ stage = "sent"
  /\ NextSignal
  /\ fresh' = FALSE
  /\ UNCHANGED <<reg, waiting, docked, requestVars, lost>>

\* the PLC closed the connection: the send returns without having been applied
ResetUnserved ==
  /\ stage = "send"
  /\ lost < LossBudget
  /\ lost' = lost + 1
  /\ NextSignal
  /\ fresh' = FALSE
  /\ UNCHANGED <<reg, waiting, docked, requestVars>>

--------------------------------------------------------------------------------
(* The HTTP handlers.  Nothing ties a request to what the lift waits for,  *)
(* to what its signal says or to another request about it.                  *)

Begin(h, r, v, step) ==
  /\ hpc[h] = "idle"
  /\ hpc' = [hpc EXCEPT ![h] = step]
  /\ target' = [target EXCEPT ![h] = r]
  /\ value' = [value EXCEPT ![h] = v]
  /\ UNCHANGED <<reg, waiting, docked, monitorVars, lost, fresh>>

\* ssio_request_in: an AGV asks to enter a lift
RequestIn(h, l, k) == Begin(h, Reg(l, k), "START", "check")

\* its deprecated half dep_ssio_request_action asks nobody
RequestAction(h, l, k) == Deprecated /\ Begin(h, Reg(l, k), "START", "send")

\* ssio_request_level: an AGV says that it has finished and leaves
RequestLevel(h, l, k) == Begin(h, Reg(l, k), "FINISH", "send")

\* report_agv_{find,unload_finish,reverse}_car_number
ReportNumber(h, l, s) == Begin(h, Reg(l, s), "NUMBER", "send")

CheckDocked(h) ==
  /\ hpc[h] = "check"
  /\ \/ target[h][1] \in docked /\ hpc' = [hpc EXCEPT ![h] = "send"] /\ UNCHANGED <<target, value>>
     \/ /\ target[h][1] \notin docked
        /\ hpc' = [hpc EXCEPT ![h] = "idle"]
        /\ target' = [target EXCEPT ![h] = Reg(Lifts[1], "reverse")]
        /\ value' = [value EXCEPT ![h] = "CLEAR"]
  /\ UNCHANGED <<reg, waiting, docked, monitorVars, lost, fresh>>

ApplyReport(h) ==
  /\ hpc[h] \in {"send", "sent"}
  /\ hpc' = [hpc EXCEPT ![h] = "sent"]
  /\ reg' = [reg EXCEPT ![target[h]] = value[h]]
  /\ fresh' = \/ fresh
              \/ /\ stage \in {"send", "sent"}
                 /\ value[h] = "START"
                 /\ target[h] = Reg(Here, signal)
  /\ UNCHANGED <<waiting, docked, monitorVars, target, value, lost>>

ReportReturns(h) ==
  /\ hpc[h] = "sent"
  /\ hpc' = [hpc EXCEPT ![h] = "idle"]
  /\ target' = [target EXCEPT ![h] = Reg(Lifts[1], "reverse")]
  /\ value' = [value EXCEPT ![h] = "CLEAR"]
  /\ UNCHANGED <<reg, waiting, docked, monitorVars, lost, fresh>>

--------------------------------------------------------------------------------
(* The PLC: a lift waits for an action, and comes and goes, as it likes.    *)

TurnWait(l, k) ==
  /\ waiting' = IF <<l, k>> \in waiting THEN waiting \ {<<l, k>>} ELSE waiting \cup {<<l, k>>}
  /\ UNCHANGED <<reg, docked, monitorVars, requestVars, lost, fresh>>

MoveLift(l) ==
  /\ docked' = IF l \in docked THEN docked \ {l} ELSE docked \cup {l}
  /\ UNCHANGED <<reg, waiting, monitorVars, requestVars, lost, fresh>>

--------------------------------------------------------------------------------
MonitorClearSignal ==
  \/ IsWaitTask \/ ReadyDocking \/ RequireReset
  \/ ApplyReset \/ ResetReturns \/ ResetUnserved

Handle(h) == CheckDocked(h) \/ ApplyReport(h) \/ ReportReturns(h)

Request ==
  \E h \in Handlers, l \in LiftSet :
    \/ \E k \in Kinds : RequestIn(h, l, k) \/ RequestAction(h, l, k) \/ RequestLevel(h, l, k)
    \/ \E s \in Numbers : ReportNumber(h, l, s)

Plc ==
  \E l \in LiftSet :
    \/ \E k \in Kinds : TurnWait(l, k)
    \/ MoveLift(l)

Next == MonitorClearSignal \/ (\E h \in Handlers : Handle(h)) \/ Request \/ Plc

Spec == Init /\ [][Next]_vars

(* The event loop repeats the monitor for ever, and a send returns. *)
Fairness == WF_vars(MonitorClearSignal) /\ WF_vars(ResetReturns)

FairSpec == Spec /\ Fairness

--------------------------------------------------------------------------------
(* Every variable has the shape its declaration says. *)
TypeOK ==
  /\ reg \in [Registers -> {"CLEAR", "START", "FINISH", "NUMBER"}]
  /\ \A r \in Registers : reg[r] = "NUMBER" => r[2] \in {"find", "finish", "reverse"}
  /\ waiting \subseteq LiftSet \X {"load", "unload"}
  /\ docked \subseteq LiftSet
  /\ lift \in DOMAIN Lifts
  /\ signal \in Signals \cup {"docked"}
  /\ stage \in {"check", "read", "send", "sent"}
  /\ hpc \in [Handlers -> {"idle", "check", "send", "sent"}]
  /\ target \in [Handlers -> Registers]
  /\ value \in [Handlers -> {"CLEAR", "START", "FINISH", "NUMBER"}]
  /\ lost \in 0..LossBudget
  /\ fresh \in BOOLEAN

(***************************************************************************)
(* An AGV in a lift is not forgotten as long as the monitor looked at its  *)
(* signal after it entered: START is replaced by FINISH only, whatever the *)
(* monitor and the other requests do.  What the monitor may take away is   *)
(* a START written between its read of FINISH and the last time its reset  *)
(* is applied (device.py:482-507), by the one reset that follows that read.*)
(***************************************************************************)
StartStands ==
  [][\A l \in LiftSet, k \in Kinds :
       reg[Reg(l, k)] = "START" =>
         \/ reg[Reg(l, k)]' \in {"START", "FINISH"}
         \/ fresh /\ Here = l /\ signal = k]_vars

(***************************************************************************)
(* An action a lift no longer waits for does not stay finished for good,   *)
(* so that the lift can wait for the next.                                 *)
(***************************************************************************)
FinishCleared ==
  \A l \in LiftSet, k \in Kinds :
    <>[](<<l, k>> \notin waiting) => []<>(reg[Reg(l, k)] # "FINISH")

(* The numbers of a lift that is away do not stay for good. *)
NumbersCleared ==
  \A l \in LiftSet, s \in Numbers : <>[](l \notin docked) => []<>(reg[Reg(l, s)] = "CLEAR")

(***************************************************************************)
(* An AGV is let in only when the lift really is at the docking level      *)
(* (views.py:224): when its START is first written.                        *)
(***************************************************************************)
EntryOnlyDocked ==
  [][\A h \in Handlers :
       hpc[h] = "send" /\ value[h] = "START" /\ ApplyReport(h) => target[h][1] \in docked]_vars
================================================================================
