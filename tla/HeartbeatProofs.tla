---------------------------- MODULE HeartbeatProofs ----------------------------
(***************************************************************************)
(* Proofs about Heartbeat for any limits of the count.                     *)
(***************************************************************************)
EXTENDS Heartbeat, TLAPS

LEMMA Limits ==
  /\ Min \in Nat /\ Max \in Nat /\ Top \in Nat /\ RestartBudget \in Nat
  /\ Min + 1 < Max
  /\ Max <= Top
BY HeartbeatAssumption

(* The types of what send_heartbeat deals with. *)
Counts ==
  /\ shown \in 0..Top
  /\ cur \in 0..Top
  /\ quiet \in Nat
  /\ starts \in Nat

(***************************************************************************)
(* How long the register may have stood still, by where the loop is: a     *)
(* start costs two turns once it has sent what it found and started over,  *)
(* and what is sent after that is new.                                     *)
(***************************************************************************)
Found    == cur = shown /\ quiet + 1 <= 2 * starts
Counted  == cur = shown + 1 /\ cur <= Max /\ quiet <= 2 * starts
Wrapped  == cur = Min /\ shown >= Max - 1 /\ quiet <= 2 * starts + 1

Bounded ==
  /\ pc \in {"start", "turn", "send", "sent"}
  /\ pc = "start" => quiet + 1 <= 2 * starts
  /\ pc = "turn" => Found \/ Counted \/ Wrapped
  /\ pc = "send" => cur < Max /\ (Found \/ (quiet <= 2 * starts + 1 /\ cur # shown))
  /\ pc = "sent" => cur < Max /\ cur = shown /\ quiet <= 2 * starts

Inv == Counts /\ Bounded

LEMMA InvInit == Init => Inv
<1> SUFFICES ASSUME Init PROVE Inv
  OBVIOUS
<1>1. shown \in 0..Top /\ cur = 0 /\ quiet = 0 /\ starts = 1 /\ pc = "start"
  BY DEF Init
<1>2. Counts
  BY <1>1, Limits DEF Counts
<1> QED
  BY <1>1, <1>2 DEF Inv, Bounded

LEMMA InvStep ==
  ASSUME Inv, [Next]_vars
  PROVE  Inv'
<1> USE Limits
<1>0. shown \in Nat /\ cur \in Nat /\ quiet \in Nat /\ starts \in Nat
  BY DEF Inv, Counts
<1>1. CASE FirstRecv
  BY <1>1 DEF FirstRecv, Inv, Counts, Bounded, Found
<1>2. CASE Turn
  <2>1. CASE cur < Max /\ pc' = "send" /\ UNCHANGED <<cur, quiet>>
    <3>1. Found \/ (quiet <= 2 * starts + 1 /\ cur # shown)
      <4>1. Found \/ Counted \/ Wrapped
        BY <1>2 DEF Turn, Inv, Bounded
      <4>2. CASE Counted
        BY <1>0, <4>2 DEF Counted
      <4>3. CASE Wrapped
        BY <1>0, <4>3 DEF Wrapped
      <4> QED
        BY <4>1, <4>2, <4>3
    <3>2. Counts' /\ pc' = "send" /\ cur' < Max /\ UNCHANGED <<shown, cur, quiet, starts>>
      BY <1>2, <2>1 DEF Turn, Inv, Counts
    <3> QED
      BY <3>1, <3>2 DEF Inv, Bounded, Found
  <2>2. CASE cur >= Max /\ cur' = Min /\ quiet' = quiet + 1 /\ UNCHANGED pc
    <3>1. shown >= Max - 1 /\ quiet <= 2 * starts
      <4>1. Found \/ Counted \/ Wrapped
        BY <1>2 DEF Turn, Inv, Bounded
      <4> QED
        BY <1>0, <2>2, <4>1 DEF Found, Counted, Wrapped
    <3>2. Wrapped' /\ Counts'
      BY <1>0, <1>2, <2>2, <3>1 DEF Turn, Wrapped, Inv, Counts
    <3> QED
      BY <1>2, <2>2, <3>2 DEF Turn, Inv, Bounded
  <2> QED
    BY <1>2, <2>1, <2>2 DEF Turn
<1>3. CASE ApplyBeat
  <2>1. cur < Max /\ quiet' <= 2 * starts' /\ cur' = cur /\ shown' = cur /\ pc' = "sent"
    BY <1>0, <1>3 DEF ApplyBeat, Inv, Bounded, Found
  <2>2. Counts'
    BY <1>0, <1>3 DEF ApplyBeat, Inv, Counts
  <2> QED
    BY <2>1, <2>2 DEF Inv, Bounded
<1>4. CASE BeatReturns
  <2>1. Counted' /\ pc' = "turn"
    BY <1>0, <1>4 DEF BeatReturns, Inv, Bounded, Counted
  <2>2. Counts'
    BY <1>0, <1>4 DEF BeatReturns, Inv, Counts, Bounded
  <2> QED
    BY <2>1, <2>2 DEF Inv, Bounded
<1>5. CASE Restart
  <2>1. quiet <= 2 * starts + 1
    BY <1>0 DEF Inv, Bounded, Found, Counted, Wrapped
  <2>2. quiet' + 1 <= 2 * starts' /\ pc' = "start"
    BY <1>0, <1>5, <2>1 DEF Restart
  <2> QED
    BY <1>0, <1>5, <2>2 DEF Restart, Inv, Counts, Bounded
<1>6. CASE UNCHANGED sendVars
  BY <1>6 DEF sendVars, Inv, Counts, Bounded, Found, Counted, Wrapped
<1> QED
  BY <1>1, <1>2, <1>3, <1>4, <1>5, <1>6
  DEF Next, SendHeartbeat, RecvHeartbeat, FirstBeat, CheckBeat, PlcBeats, PlcStops, vars

LEMMA InvInvariant == Spec => []Inv
BY InvInit, InvStep, PTL DEF Spec

(***************************************************************************)
(* The register goes without a new heartbeat for at most one turn of the   *)
(* loop and two more for every start since, for any MIN and MAX that leave *)
(* at least two values and any number of restarts.                         *)
(***************************************************************************)
THEOREM FewQuietTurns == Spec => []QuietTurnsBounded
<1>1. Inv => QuietTurnsBounded
  <2> SUFFICES ASSUME Inv PROVE QuietTurnsBounded
    OBVIOUS
  <2>1. quiet \in Nat /\ starts \in Nat
    BY DEF Inv, Counts
  <2> QED
    BY <2>1 DEF Inv, Bounded, Found, Counted, Wrapped, QuietTurnsBounded
<1> QED
  BY <1>1, InvInvariant, PTL

(* Every variable keeps its type: the count never passes MAX. *)
THEOREM TypeInvariant == Spec => []TypeOK
<1> DEFINE Started == /\ restarts \in Nat /\ restarts <= RestartBudget
                      /\ starts \in Nat /\ starts <= restarts + 1
           Others == /\ beat \in Beats /\ alive \in BOOLEAN
                     /\ pre \in Beats /\ watching \in BOOLEAN /\ warned \in BOOLEAN
<1>1. Init => Started /\ Others
  <2> SUFFICES ASSUME Init PROVE Started /\ Others
    OBVIOUS
  <2>1. Others
    BY DEF Init
  <2>2. restarts = 0 /\ starts = 1
    BY DEF Init
  <2> QED
    BY <2>1, <2>2, Limits
<1>2. Started /\ [Next]_vars => Started'
  <2> SUFFICES ASSUME Started, [Next]_vars PROVE Started'
    OBVIOUS
  <2>1. CASE Restart
    BY <2>1, Limits DEF Restart
  <2>2. CASE ApplyBeat
    BY <2>2 DEF ApplyBeat
  <2>3. CASE UNCHANGED <<restarts, starts>>
    BY <2>3
  <2> QED
    BY <2>1, <2>2, <2>3
    DEF Next, SendHeartbeat, RecvHeartbeat, FirstRecv, Turn, BeatReturns, FirstBeat, CheckBeat,
        PlcBeats, PlcStops, vars, sendVars
<1>3. Others /\ [Next]_vars => Others'
  <2> SUFFICES ASSUME Others, [Next]_vars PROVE Others'
    OBVIOUS
  <2>1. CASE Restart \/ PlcBeats \/ PlcStops \/ FirstBeat \/ CheckBeat
    BY <2>1 DEF Restart, PlcBeats, PlcStops, FirstBeat, CheckBeat, recvVars, plcVars
  <2>2. CASE UNCHANGED <<recvVars, plcVars>>
    BY <2>2 DEF recvVars, plcVars
  <2> QED
    BY <2>1, <2>2
    DEF Next, SendHeartbeat, RecvHeartbeat, FirstRecv, Turn, ApplyBeat, BeatReturns, vars
<1>4. Inv /\ Started /\ Others => TypeOK
  <2> SUFFICES ASSUME Inv, Started, Others PROVE TypeOK
    OBVIOUS
  <2>1. restarts \in 0..RestartBudget /\ starts \in 0..restarts + 1
    BY Limits
  <2> QED
    BY <2>1 DEF Inv, Counts, Bounded, TypeOK
<1> QED
  BY <1>1, <1>2, <1>3, <1>4, InvInvariant, PTL DEF Spec
================================================================================
