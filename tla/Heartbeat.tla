------------------------------- MODULE Heartbeat -------------------------------
(***************************************************************************)
(* The heartbeats of the adapter and the PLC.  Device.send_heartbeat       *)
(* counts in a register the PLC watches, one turn of its loop a second,    *)
(* and goes on from the value it finds there when it starts.               *)
(* Device.recv_heartbeat watches the register the PLC counts in.           *)
(***************************************************************************)
EXTENDS Naturals

CONSTANTS
  Min, Max,      \* MIN and MAX of the HEARTBEAT signal
  Top,           \* the largest value a register is found with
  Beats,         \* values of the PLC's heartbeat
  RestartBudget  \* how often the adapter is restarted

ASSUME HeartbeatAssumption ==
  /\ Min \in Nat /\ Max \in Nat /\ Top \in Nat
  /\ Min + 1 < Max
  /\ Max <= Top
  /\ Beats # {}
  /\ RestartBudget \in Nat

VARIABLES
  shown,     \* the register of the adapter's heartbeat
  cur,       \* cur_val
  pc,        \* what send_heartbeat does next
  quiet,     \* history: turns of the loop since the register last changed
  starts,    \* history: and how often the loop has started since then
  restarts,  \* restarts so far
  beat,      \* the register of the PLC's heartbeat
  alive,     \* the PLC still counts
  pre,       \* pre_updated_data
  watching,  \* recv_heartbeat is in its loop
  warned     \* its last turn logged the warning

sendVars == <<shown, cur, pc, quiet, starts>>
recvVars == <<pre, watching, warned>>
plcVars  == <<beat, alive>>
vars     == <<sendVars, restarts, recvVars, plcVars>>

Init ==
  /\ shown \in 0..Top
  /\ cur = 0
  /\ pc = "start"
  /\ quiet = 0
  /\ starts = 1
  /\ restarts = 0
  /\ beat \in Beats
  /\ alive = TRUE
  /\ pre = beat
  /\ watching = FALSE
  /\ warned = FALSE

--------------------------------------------------------------------------------
(* send_heartbeat.                                                          *)

FirstRecv ==
  /\ pc = "start"
  /\ cur' = shown
  /\ pc' = "turn"
  /\ UNCHANGED <<shown, quiet, starts, restarts, recvVars, plcVars>>

\* mutant: the count does not start over
TurnNoWrap ==
  /\ pc = "turn"
  /\ pc' = "send"
  /\ UNCHANGED <<shown, cur, quiet, starts, restarts, recvVars, plcVars>>

\* mutant: the count stops at MAX
TurnStops ==
  /\ pc = "turn"
  /\ cur < Max
  /\ pc' = "send"
  /\ UNCHANGED <<shown, cur, quiet, starts, restarts, recvVars, plcVars>>

\* one turn of the loop sends, or starts over and sends nothing
Turn ==
  /\ pc = "turn"
  /\ \/ cur < Max /\ pc' = "send" /\ UNCHANGED <<cur, quiet>>
     \/ cur >= Max /\ cur' = Min /\ quiet' = quiet + 1 /\ UNCHANGED pc
  /\ UNCHANGED <<shown, starts, restarts, recvVars, plcVars>>

\* the PLC applies the send, for the first time or again
ApplyBeat ==
  /\ pc \in {"send", "sent"}
  /\ shown' = cur
  /\ \/ pc = "sent" /\ UNCHANGED <<quiet, starts>>
     \/ pc = "send" /\ shown = cur /\ quiet' = quiet + 1 /\ UNCHANGED starts
     \/ pc = "send" /\ shown # cur /\ quiet' = 0 /\ starts' = 0
  /\ pc' = "sent"
  /\ UNCHANGED <<cur, restarts, recvVars, plcVars>>

\* mutant: the count is left where it is
BeatReturnsUncounted ==
  /\ pc = "sent"
  /\ pc' = "turn"
  /\ UNCHANGED <<shown, cur, quiet, starts, restarts, recvVars, plcVars>>

BeatReturns ==
  /\ pc = "sent"
  /\ cur' = cur + 1
  /\ pc' = "turn"
  /\ UNCHANGED <<shown, quiet, starts, restarts, recvVars, plcVars>>

--------------------------------------------------------------------------------
(* recv_heartbeat.                                                          *)

FirstBeat ==
  /\ ~ watching
  /\ watching' = TRUE
  /\ pre' = beat
  /\ UNCHANGED <<warned, sendVars, restarts, plcVars>>

\* mutant: every value is compared with the first
CheckBeatFirst ==
  /\ watching
  /\ warned' = (pre = beat)
  /\ UNCHANGED <<pre, watching, sendVars, restarts, plcVars>>

CheckBeat ==
  /\ watching
  /\ warned' = (pre = beat)
  /\ pre' = beat
  /\ UNCHANGED <<watching, sendVars, restarts, plcVars>>

--------------------------------------------------------------------------------
PlcBeats ==
  /\ alive
  /\ \E v \in Beats : v # beat /\ beat' = v
  /\ UNCHANGED <<alive, sendVars, restarts, recvVars>>

PlcStops ==
  /\ alive
  /\ alive' = FALSE
  /\ UNCHANGED <<beat, sendVars, restarts, recvVars>>

Restart ==
  /\ restarts < RestartBudget
  /\ restarts' = restarts + 1
  /\ pc' = "start"
  /\ cur' = 0
  /\ starts' = starts + 1
  /\ watching' = FALSE
  /\ warned' = FALSE
  /\ UNCHANGED <<shown, quiet, pre, plcVars>>

SendHeartbeat == FirstRecv \/ Turn \/ ApplyBeat \/ BeatReturns
RecvHeartbeat == FirstBeat \/ CheckBeat

Next == SendHeartbeat \/ RecvHeartbeat \/ PlcBeats \/ PlcStops \/ Restart

Spec == Init /\ [][Next]_vars

(***************************************************************************)
(* The event loop wakes both tasks up again and again, and a send that is  *)
(* applied again and again still returns.                                  *)
(***************************************************************************)
Fairness == WF_vars(SendHeartbeat) /\ WF_vars(BeatReturns) /\ WF_vars(RecvHeartbeat)

FairSpec == Spec /\ Fairness

--------------------------------------------------------------------------------
(* Every variable has the shape its declaration says. *)
TypeOK ==
  /\ shown \in 0..Top
  /\ cur \in 0..Top
  /\ pc \in {"start", "turn", "send", "sent"}
  /\ quiet \in Nat
  /\ starts \in 0..restarts + 1
  /\ restarts \in 0..RestartBudget
  /\ beat \in Beats
  /\ alive \in BOOLEAN
  /\ pre \in Beats
  /\ watching \in BOOLEAN
  /\ warned \in BOOLEAN

(***************************************************************************)
(* The PLC misses one heartbeat where the count starts over.  A start of   *)
(* the adapter costs two more: the value that is there already is sent     *)
(* again, and the count may have been about to start over.  Otherwise      *)
(* every turn of the loop shows the PLC a new value.                       *)
(***************************************************************************)
QuietTurnsBounded == quiet <= 2 * starts + 1

(* The heartbeat never stands still, whatever value the adapter found. *)
KeepsBeating == \A v \in 0..Top : []<>(shown # v)

(* A PLC that stopped counting is warned about from some turn on. *)
SilenceNoticed == <>[](~ alive) => <>[]warned
================================================================================
