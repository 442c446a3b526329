---------------------------- MODULE CarSignalsProofs ----------------------------
(***************************************************************************)
(* Proofs about CarSignals for any lifts, and any number of requests.      *)
(***************************************************************************)
EXTENDS CarSignals, SequenceTheorems, TLAPS

Actions    == {"load", "unload"}
GateRegs   == {Reg(l, k) : l \in LiftSet, k \in Actions}
NumberRegs == Registers \ GateRegs

LEMMA LiftFacts ==
  /\ Len(Lifts) \in Nat
  /\ DOMAIN Lifts = 1..Len(Lifts)
  /\ 1 \in DOMAIN Lifts
  /\ \A i \in DOMAIN Lifts : Lifts[i] \in LiftSet
<1>1. Lifts \in Seq(LiftSet) /\ Lifts # <<>>
  BY CarAssumption
<1> QED
  BY <1>1 DEF LiftSet

LEMMA KindFacts ==
  /\ Kinds \subseteq Actions
  /\ Numbers \subseteq {"find", "finish", "reverse"}
BY CarAssumption DEF Actions

LEMMA RegFacts ==
  /\ GateRegs \subseteq Registers
  /\ \A l \in LiftSet, s \in Signals : Reg(l, s) \in Registers
  /\ \A l \in LiftSet, k \in Actions : Reg(l, k) \in GateRegs
  /\ \A l \in LiftSet, s \in Signals \ Actions : Reg(l, s) \in NumberRegs
  /\ \A r \in NumberRegs : r[2] \in {"find", "finish", "reverse"}
<1>1. Actions \subseteq Signals
  BY DEF Actions, Signals
<1>2. \A l \in LiftSet, s \in Signals : Reg(l, s)[2] = s
  BY DEF Reg
<1>3. \A r \in GateRegs : r[2] \in Actions
  BY <1>1, <1>2 DEF GateRegs
<1>4. \A r \in Registers : r[2] \in Signals
  BY <1>2 DEF Registers
<1>5. \A l \in LiftSet, s \in Signals \ Actions : Reg(l, s) \in Registers /\ Reg(l, s) \notin GateRegs
  BY <1>2, <1>3 DEF Registers
<1>6. ASSUME NEW r \in NumberRegs PROVE r[2] \in {"find", "finish", "reverse"}
  <2>1. PICK l \in LiftSet, s \in Signals : r = Reg(l, s)
    BY DEF NumberRegs, Registers
  <2>2. s \notin Actions
    BY <2>1 DEF NumberRegs, GateRegs
  <2> QED
    BY <1>2, <2>1, <2>2 DEF Signals, Actions
<1> QED
  BY <1>1, <1>5, <1>6 DEF GateRegs, NumberRegs, Registers

--------------------------------------------------------------------------------
(* Types.  A request writes a number to a register of numbers and START or  *)
(* FINISH to one of actions, and the monitor reads and resets registers     *)
(* only.                                                                    *)

Place ==
  /\ lift \in DOMAIN Lifts
  /\ signal \in Signals \cup {"docked"}
  /\ stage \in {"check", "read", "send", "sent"}
  /\ stage # "check" => signal # "docked"

Requests ==
  /\ hpc \in [Handlers -> {"idle", "check", "send", "sent"}]
  /\ target \in [Handlers -> Registers]
  /\ value \in [Handlers -> {"CLEAR", "START", "FINISH", "NUMBER"}]
  /\ \A h \in Handlers : hpc[h] # "idle" =>
       \/ value[h] = "NUMBER" /\ target[h] \in NumberRegs
       \/ value[h] \in {"START", "FINISH"} /\ target[h] \in GateRegs

Values ==
  /\ reg \in [Registers -> {"CLEAR", "START", "FINISH", "NUMBER"}]
  /\ \A r \in Registers : reg[r] = "NUMBER" => r \in NumberRegs
  /\ waiting \subseteq LiftSet \X {"load", "unload"}
  /\ docked \subseteq LiftSet
  /\ lost \in 0..LossBudget
  /\ fresh \in BOOLEAN

Types == Place /\ Requests /\ Values

LEMMA NextLiftPlace ==
  ASSUME Place, NextLift
  PROVE  Place'
<1>1. lift < Len(Lifts) => lift + 1 \in DOMAIN Lifts
  BY LiftFacts DEF Place
<1>2. lift' \in DOMAIN Lifts
  BY <1>1, LiftFacts DEF NextLift, Place
<1> QED
  BY <1>2 DEF NextLift, Place, Signals

LEMMA NextSignalPlace ==
  ASSUME Place, NextSignal
  PROVE  Place'
<1>1. {"unload", "docked", "find", "finish"} \subseteq Signals \cup {"docked"}
  BY DEF Signals
<1>2. ASSUME NEW s \in Signals \cup {"docked"}, To(s) PROVE Place'
  BY <1>2 DEF To, Place
<1> QED
  BY <1>1, <1>2, NextLiftPlace DEF NextSignal

(* The register the monitor deals with. *)
LEMMA HereFacts ==
  ASSUME Place
  PROVE  /\ Here \in LiftSet
         /\ signal # "docked" => Reg(Here, signal) \in Registers
         /\ signal \in Actions => Reg(Here, signal) \in GateRegs
         /\ signal \in Signals \ Actions => Reg(Here, signal) \in NumberRegs
<1>1. Here \in LiftSet
  BY LiftFacts DEF Here, Place
<1> QED
  BY <1>1, RegFacts DEF Place

LEMMA MonitorTypes ==
  ASSUME Types, MonitorClearSignal
  PROVE  Types'
<1>1. CASE IsWaitTask
  <2>1. Place'
    <3>1. CASE NextSignal
      BY <3>1, NextSignalPlace DEF Types
    <3>2. CASE stage' = "read" /\ UNCHANGED <<lift, signal>>
      BY <1>1, <3>2 DEF IsWaitTask, Types, Place
    <3> QED
      BY <1>1, <3>1, <3>2 DEF IsWaitTask
  <2> QED
    BY <1>1, <2>1 DEF IsWaitTask, Types, Requests, Values, requestVars
<1>2. CASE ReadyDocking
  <2>1. Place'
    <3>1. CASE NextLift
      BY <3>1, NextLiftPlace DEF Types
    <3>2. CASE To("reverse")
      BY <3>2 DEF To, Types, Place, Signals
    <3> QED
      BY <1>2, <3>1, <3>2 DEF ReadyDocking
  <2> QED
    BY <1>2, <2>1 DEF ReadyDocking, Types, Requests, Values, requestVars
<1>3. CASE RequireReset
  <2>1. Place'
    <3>1. CASE NextSignal
      BY <3>1, NextSignalPlace DEF Types
    <3>2. CASE stage' = "send" /\ UNCHANGED <<lift, signal>>
      BY <1>3, <3>2 DEF RequireReset, Types, Place
    <3> QED
      BY <1>3, <3>1, <3>2 DEF RequireReset
  <2> QED
    BY <1>3, <2>1 DEF RequireReset, Types, Requests, Values, requestVars
<1>4. CASE ApplyReset
  <2>1. Place'
    BY <1>4 DEF ApplyReset, Types, Place
  <2>2. Reg(Here, signal) \in Registers
    BY <1>4, HereFacts DEF ApplyReset, Types, Place
  <2>3. Values'
    BY <1>4, <2>2 DEF ApplyReset, Types, Values
  <2> QED
    BY <1>4, <2>1, <2>3 DEF ApplyReset, Types, Requests, requestVars
<1>5. CASE ResetReturns
  BY <1>5, NextSignalPlace DEF ResetReturns, Types, Requests, Values, requestVars
<1>6. CASE ResetUnserved
  <2>1. lost' \in 0..LossBudget
    BY <1>6, CarAssumption DEF ResetUnserved, Types, Values
  <2> QED
    BY <1>6, <2>1, NextSignalPlace DEF ResetUnserved, Types, Requests, Values, requestVars
<1> QED
  BY <1>1, <1>2, <1>3, <1>4, <1>5, <1>6 DEF MonitorClearSignal

LEMMA HandleTypes ==
  ASSUME Types, NEW h \in Handlers, Handle(h)
  PROVE  Types'
<1>0. Reg(Lifts[1], "reverse") \in Registers
  BY LiftFacts, RegFacts DEF Signals
<1>1. CASE CheckDocked(h)
  BY <1>0, <1>1 DEF CheckDocked, Types, Place, Requests, Values, monitorVars
<1>2. CASE ApplyReport(h)
  <2>1. hpc[h] # "idle" /\ target[h] \in Registers
    BY <1>2 DEF ApplyReport, Types, Requests
  <2>2. Values'
    BY <1>2, <2>1 DEF ApplyReport, Types, Requests, Values
  <2> QED
    BY <1>2, <2>2 DEF ApplyReport, Types, Place, Requests, monitorVars
<1>3. CASE ReportReturns(h)
  BY <1>0, <1>3 DEF ReportReturns, Types, Place, Requests, Values, monitorVars
<1> QED
  BY <1>1, <1>2, <1>3 DEF Handle

LEMMA BeginTypes ==
  ASSUME Types, NEW h \in Handlers, NEW r, NEW v, NEW step \in {"check", "send"},
         \/ v = "NUMBER" /\ r \in NumberRegs
         \/ v \in {"START", "FINISH"} /\ r \in GateRegs,
         Begin(h, r, v, step)
  PROVE  Types'
<1>1. r \in Registers
  BY RegFacts DEF NumberRegs
<1> QED
  BY <1>1 DEF Begin, Types, Place, Requests, Values, monitorVars

LEMMA RequestTypes ==
  ASSUME Types, Request
  PROVE  Types'
<1> PICK h \in Handlers, l \in LiftSet :
      \/ \E k \in Kinds : RequestIn(h, l, k) \/ RequestAction(h, l, k) \/ RequestLevel(h, l, k)
      \/ \E s \in Numbers : ReportNumber(h, l, s)
  BY DEF Request
<1>1. ASSUME NEW k \in Kinds, RequestIn(h, l, k) \/ RequestAction(h, l, k) \/ RequestLevel(h, l, k)
      PROVE  Types'
  <2>1. Reg(l, k) \in GateRegs
    BY KindFacts, RegFacts
  <2> QED
    BY <1>1, <2>1, BeginTypes DEF RequestIn, RequestAction, RequestLevel
<1>2. ASSUME NEW s \in Numbers, ReportNumber(h, l, s)
      PROVE  Types'
  <2>1. Reg(l, s) \in NumberRegs
    BY KindFacts, RegFacts DEF Signals, Actions
  <2> QED
    BY <1>2, <2>1, BeginTypes DEF ReportNumber
<1> QED
  BY <1>1, <1>2

LEMMA PlcTypes ==
  ASSUME Types, Plc
  PROVE  Types'
<1> PICK l \in LiftSet : (\E k \in Kinds : TurnWait(l, k)) \/ MoveLift(l)
  BY DEF Plc
<1>1. Kinds \subseteq {"load", "unload"}
  BY CarAssumption
<1>2. ASSUME NEW k \in Kinds, TurnWait(l, k) PROVE Types'
  BY <1>1, <1>2 DEF TurnWait, Types, Place, Requests, Values, monitorVars, requestVars
<1>3. CASE MoveLift(l)
  BY <1>3 DEF MoveLift, Types, Place, Requests, Values, monitorVars, requestVars
<1> QED
  BY <1>2, <1>3

LEMMA TypesInit == Init => Types
<1> SUFFICES ASSUME Init PROVE Types
  OBVIOUS
<1>1. Reg(Lifts[1], "reverse") \in Registers
  BY LiftFacts, RegFacts DEF Signals
<1>2. Place
  BY LiftFacts DEF Init, Place, Signals
<1>3. Requests
  BY <1>1 DEF Init, Requests
<1>4. Values
  <2>1. lost \in 0..LossBudget
    BY CarAssumption DEF Init
  <2> QED
    BY <2>1 DEF Init, Values
<1> QED
  BY <1>2, <1>3, <1>4 DEF Types

LEMMA TypesStep ==
  ASSUME Types, [Next]_vars
  PROVE  Types'
<1>1. CASE UNCHANGED vars
  BY <1>1 DEF vars, monitorVars, requestVars, Types, Place, Requests, Values
<1> QED
  BY <1>1, MonitorTypes, HandleTypes, RequestTypes, PlcTypes DEF Next

(* Every variable keeps its type, for any lifts and any number of requests. *)
THEOREM TypeInvariant == Spec => []TypeOK
<1>1. Types => TypeOK
  BY RegFacts DEF Types, Place, Requests, Values, TypeOK
<1> QED
  BY <1>1, TypesInit, TypesStep, PTL DEF Spec

--------------------------------------------------------------------------------
(* START stands.                                                            *)

(* What the monitor is going to reset, or resets. *)
Resets ==
  stage \in {"send", "sent"} /\ signal \in Actions /\ ~ fresh =>
    reg[Reg(Here, signal)] \in {"FINISH", "CLEAR"}

Inv == Types /\ Resets

Stands(r) ==
  reg[r] = "START" =>
    \/ reg'[r] \in {"START", "FINISH"}
    \/ fresh /\ signal \in Actions /\ r = Reg(Here, signal)

LEMMA MonitorInv ==
  ASSUME Inv, MonitorClearSignal
  PROVE  Inv' /\ \A r \in GateRegs : Stands(r)
<1>0. Types'
  BY MonitorTypes DEF Inv
<1>1. CASE stage' \notin {"send", "sent"} /\ UNCHANGED reg
  BY <1>0, <1>1 DEF Inv, Resets, Stands
<1>2. ASSUME NextSignal \/ NextLift PROVE stage' \notin {"send", "sent"}
  BY <1>2 DEF NextSignal, NextLift, To
<1>3. CASE IsWaitTask \/ ReadyDocking \/ ResetReturns \/ ResetUnserved
  BY <1>1, <1>2, <1>3 DEF IsWaitTask, ReadyDocking, ResetReturns, ResetUnserved, To
<1>4. CASE RequireReset
  <2>1. CASE NextSignal
    BY <1>1, <1>2, <1>4, <2>1 DEF RequireReset
  <2>2. CASE MustReset(signal, reg[Reg(Here, signal)]) /\ UNCHANGED <<lift, signal>>
    <3>1. Resets'
      BY <1>4, <2>2 DEF RequireReset, MustReset, Resets, Here, Actions
    <3> QED
      BY <1>0, <1>4, <3>1 DEF RequireReset, Inv, Stands
  <2> QED
    BY <1>4, <2>1, <2>2 DEF RequireReset
<1>5. CASE ApplyReset
  <2>1. stage \in {"send", "sent"} /\ UNCHANGED <<lift, signal, fresh>> /\ Types
    BY <1>5 DEF ApplyReset, Inv
  <2>2. Reg(Here, signal) \in Registers
    BY <2>1, HereFacts DEF Types, Place
  <2>3. \A r \in Registers : reg'[r] = IF r = Reg(Here, signal) THEN "CLEAR" ELSE reg[r]
    BY <1>5, <2>1, <2>2 DEF ApplyReset, Types, Values
  <2>4. Resets'
    BY <2>1, <2>2, <2>3 DEF Resets, Here
  <2>5. ASSUME NEW r \in GateRegs PROVE Stands(r)
    <3> SUFFICES ASSUME reg[r] = "START", r = Reg(Here, signal)
                 PROVE  fresh /\ signal \in Actions
      BY <2>3, RegFacts DEF Stands
    <3>1. signal \in Actions
      BY <2>1, HereFacts DEF NumberRegs, Types, Place
    <3> QED
      BY <2>1, <3>1 DEF Inv, Resets
  <2> QED
    BY <1>0, <2>4, <2>5 DEF Inv
<1> QED
  BY <1>3, <1>4, <1>5 DEF MonitorClearSignal

LEMMA HandleInv ==
  ASSUME Inv, NEW h \in Handlers, Handle(h)
  PROVE  Inv' /\ \A r \in GateRegs : Stands(r)
<1>0. Types'
  BY HandleTypes DEF Inv
<1>1. CASE CheckDocked(h) \/ ReportReturns(h)
  BY <1>0, <1>1 DEF CheckDocked, ReportReturns, Inv, Resets, Here, Stands, monitorVars
<1>2. CASE ApplyReport(h)
  <2>1. /\ hpc[h] # "idle"
        /\ target[h] \in Registers
        /\ target[h] \in GateRegs => value[h] \in {"START", "FINISH"}
    BY <1>2 DEF ApplyReport, Inv, Types, Requests, NumberRegs
  <2>2. /\ \A r \in Registers : reg'[r] = IF r = target[h] THEN value[h] ELSE reg[r]
        /\ UNCHANGED <<lift, signal, stage>>
    BY <1>2 DEF ApplyReport, Inv, Types, Values, monitorVars
  <2>3. Resets'
    <3> SUFFICES ASSUME stage \in {"send", "sent"}, signal \in Actions, ~ fresh'
                 PROVE  reg'[Reg(Here, signal)] \in {"FINISH", "CLEAR"}
      BY <2>2 DEF Resets, Here
    <3>1. Reg(Here, signal) \in GateRegs /\ Reg(Here, signal) \in Registers
      BY HereFacts, RegFacts DEF Inv, Types
    <3>2. ~ fresh /\ ~ (value[h] = "START" /\ target[h] = Reg(Here, signal))
      BY <1>2 DEF ApplyReport
    <3> QED
      BY <2>1, <2>2, <3>1, <3>2 DEF Inv, Resets
  <2>4. \A r \in GateRegs : Stands(r)
    BY <2>1, <2>2, RegFacts DEF Stands
  <2> QED
    BY <1>0, <2>3, <2>4 DEF Inv
<1> QED
  BY <1>1, <1>2 DEF Handle

LEMMA InvStep ==
  ASSUME Inv, [Next]_vars
  PROVE  Inv' /\ \A r \in GateRegs : Stands(r)
<1>0. Types'
  BY TypesStep DEF Inv
<1>1. CASE UNCHANGED <<reg, lift, signal, stage, fresh>>
  BY <1>0, <1>1 DEF Inv, Resets, Here, Stands
<1>2. CASE Plc \/ Request \/ UNCHANGED vars
  BY <1>1, <1>2
     DEF Plc, TurnWait, MoveLift, Request, RequestIn, RequestAction, RequestLevel, ReportNumber,
         Begin, vars, monitorVars
<1> QED
  BY <1>2, MonitorInv, HandleInv DEF Next

LEMMA InvInit == Init => Inv
BY TypesInit DEF Init, Inv, Resets

(***************************************************************************)
(* An AGV in a lift is not forgotten, for any lifts and any requests: only *)
(* a START written after the monitor has read FINISH is taken away.        *)
(***************************************************************************)
THEOREM EntryStands == Spec => StartStands
<1>1. Inv /\ [Next]_vars => Inv' /\ \A r \in GateRegs : Stands(r)
  BY InvStep
<1>2. (\A r \in GateRegs : Stands(r)) =>
        \A l \in LiftSet, k \in Kinds :
          reg[Reg(l, k)] = "START" =>
            \/ reg[Reg(l, k)]' \in {"START", "FINISH"}
            \/ fresh /\ Here = l /\ signal = k
  <2> SUFFICES ASSUME \A r \in GateRegs : Stands(r),
                      NEW l \in LiftSet, NEW k \in Kinds,
                      reg[Reg(l, k)] = "START"
               PROVE  \/ reg[Reg(l, k)]' \in {"START", "FINISH"}
                      \/ fresh /\ Here = l /\ signal = k
    OBVIOUS
  <2>1. k \in Actions /\ Reg(l, k) \in GateRegs
    BY KindFacts, RegFacts
  <2>2. Stands(Reg(l, k))
    BY <2>1
  <2>3. ASSUME signal \in Actions, Reg(l, k) = Reg(Here, signal) PROVE Here = l /\ signal = k
    BY <2>1, <2>3 DEF Reg, Actions
  <2>4. reg[Reg(l, k)]' = reg'[Reg(l, k)]
    BY DEF Reg
  <2> QED
    BY <2>2, <2>3, <2>4 DEF Stands
<1> QED
  BY <1>1, <1>2, InvInit, PTL DEF Spec, StartStands
================================================================================
