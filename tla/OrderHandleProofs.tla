--------------------------- MODULE OrderHandleProofs ---------------------------
(***************************************************************************)
(* Proofs about OrderHandle for any number of lifts, any commands, modes,  *)
(* finish reports and faults.                                              *)
(***************************************************************************)
EXTENDS OrderHandle, TLAPS

LEMMA LiftFacts ==
  /\ Len(Lifts) \in Nat
  /\ DOMAIN Lifts = 1..Len(Lifts)
  /\ 1 \in DOMAIN Lifts
  /\ \A i \in DOMAIN Lifts : Lifts[i] \in LiftSet
<1>1. Lifts \in Seq(LiftSet) /\ Lifts # <<>>
  BY OrderAssumption
<1> QED
  BY <1>1 DEF LiftSet

LEMMA BitType ==
  ASSUME TypeOK, NEW w \in Writers
  PROVE  Bit(w) \in Bits
BY LiftFacts DEF TypeOK, Bit, Bits

LEMMA FirstSteps == \A w \in {"generate", "clear"} : FirstStep[w] \in Steps
<1>1. FirstStep["generate"] = "auto" /\ FirstStep["clear"] = "check"
  BY DEF FirstStep
<1> QED
  BY <1>1 DEF Steps

(* Where a writer is, in the round or in the update of the register. *)
Place == /\ pc \in [Writers -> Steps]
         /\ lift \in [Writers -> DOMAIN Lifts]
         /\ kind \in [Writers -> Kinds]

LEMMA GoPlace ==
  ASSUME TypeOK, NEW w \in Writers, NEW step \in Steps, Go(w, step)
  PROVE  Place'
BY DEF TypeOK, Go, Place

LEMMA RestPlace ==
  ASSUME TypeOK, NEW w \in Writers, Rest(w)
  PROVE  Place'
BY LiftFacts DEF TypeOK, Rest, Place, Steps, Kinds

LEMMA NextLiftPlace ==
  ASSUME TypeOK, NEW w \in {"generate", "clear"}, NextLift(w)
  PROVE  Place'
<1>1. w \in Writers /\ FirstStep[w] \in Steps
  BY FirstSteps DEF Writers
<1>2. lift[w] < Len(Lifts) => lift[w] + 1 \in DOMAIN Lifts
  BY <1>1, LiftFacts DEF TypeOK
<1> QED
  BY <1>1, <1>2, RestPlace DEF NextLift, TypeOK, Place, Kinds

LEMMA ContinuePlace ==
  ASSUME TypeOK, NEW w \in Writers, Continue(w)
  PROVE  Place'
<1>1. CASE w = "generate" /\ NextLift(w)
  BY <1>1, NextLiftPlace
<1>2. CASE w = "clear" /\ NextKind
  <2>1. CASE NextLift("clear")
    BY <2>1, NextLiftPlace
  <2> QED
    BY <1>2, <2>1 DEF NextKind, TypeOK, Place, Steps, Kinds
<1>3. CASE w = "finish" /\ Rest(w)
  BY <1>3, RestPlace
<1> QED
  BY <1>1, <1>2, <1>3 DEF Continue

(* The rest of TypeOK. *)
Registers ==
  /\ command \subseteq Bits
  /\ handle \subseteq Bits
  /\ mode \in [LiftSet -> SUBSET {"AUTO", "STOP"}]
  /\ new \in [Writers -> SUBSET Bits]
  /\ faults \in 0..FaultBudget
  /\ owed \subseteq Bits
  /\ ordered \subseteq Bits

LEMMA TypeParts == TypeOK <=> Place /\ Registers
BY DEF TypeOK, Place, Registers

LEMMA NextSteps ==
  ASSUME Next
  PROVE  \/ \E w \in {"generate", "clear"} : WakeUp(w)
         \/ \E w \in Writers : RecvPre(w) \/ ApplySend(w) \/ SendReturns(w) \/ SendUnserved(w)
         \/ ModeIsAuto \/ ModeIsStop \/ HasSaveTask \/ HasTakeTask \/ NotStartHandle
         \/ CreateOrder \/ CreateOrderRaises \/ IsStartHandle
         \/ \E c \in FinishCodes, i \in DOMAIN Lifts : ReportTaskFinish(c, i)
         \/ \E b \in PlcCommands : RaiseCommand(b) \/ DropCommand(b)
         \/ \E l \in LiftSet, m \in Modes : SetMode(l, m)
         \/ Restart
BY DEF Next, Generate, Clear, Finish, Plc, Step, WakeUp, Writers

LEMMA TypeInit == Init => TypeOK
<1> SUFFICES ASSUME Init PROVE TypeOK
  OBVIOUS
<1>1. Place
  BY LiftFacts DEF Init, Place, Steps, Kinds
<1>2. mode \in [LiftSet -> SUBSET {"AUTO", "STOP"}]
  <2>1. Modes \subseteq SUBSET {"AUTO", "STOP"}
    BY OrderAssumption
  <2>2. mode \in [LiftSet -> Modes]
    BY DEF Init
  <2> QED
    BY <2>1, <2>2
<1>3. faults \in 0..FaultBudget
  <2>1. FaultBudget \in Nat
    BY OrderAssumption
  <2>2. faults = 0
    BY DEF Init
  <2>3. 0 \in 0..FaultBudget
    BY <2>1
  <2> QED
    BY <2>2, <2>3
<1>4. PlcCommands \subseteq Bits
  BY OrderAssumption
<1> QED
  BY <1>1, <1>2, <1>3, <1>4, TypeParts DEF Init, Registers

LEMMA PlaceStep ==
  ASSUME TypeOK, [Next]_vars
  PROVE  Place'
<1>1. ASSUME NEW w \in {"generate", "clear"}, WakeUp(w) PROVE Place'
  <2>1. w \in Writers /\ FirstStep[w] \in Steps
    BY FirstSteps DEF Writers
  <2> QED
    BY <1>1, <2>1, GoPlace DEF WakeUp
<1>2. ASSUME NEW w \in Writers,
             RecvPre(w) \/ ApplySend(w) \/ SendReturns(w) \/ SendUnserved(w)
      PROVE  Place'
  <2>1. "send" \in Steps /\ "sent" \in Steps
    BY DEF Steps
  <2> QED
    BY <1>2, <2>1, GoPlace, ContinuePlace DEF RecvPre, ApplySend, SendReturns, SendUnserved
<1>3. ASSUME ModeIsAuto \/ ModeIsStop \/ HasTakeTask \/ NotStartHandle \/ CreateOrder
      PROVE  Place'
  <2>1. {"stop", "has save", "check", "create", "recv"} \subseteq Steps
    BY DEF Steps
  <2>2. "generate" \in Writers
    BY DEF Writers
  <2> QED
    BY <1>3, <2>1, <2>2, GoPlace, NextLiftPlace
    DEF ModeIsAuto, ModeIsStop, HasTakeTask, NotStartHandle, CreateOrder
<1>4. CASE HasSaveTask
  BY <1>4 DEF HasSaveTask, Go, TypeOK, Place, Steps, Kinds
<1>5. CASE CreateOrderRaises
  BY <1>5, RestPlace DEF CreateOrderRaises, Raises, Writers
<1>6. CASE IsStartHandle
  <2>1. CASE NextKind
    BY <2>1, ContinuePlace DEF Continue, Writers
  <2> QED
    BY <1>6, <2>1, GoPlace DEF IsStartHandle, Writers, Steps
<1>7. ASSUME NEW c \in FinishCodes, NEW i \in DOMAIN Lifts, ReportTaskFinish(c, i)
      PROVE  Place'
  <2>1. "recv" \in Steps /\ "finish" \in Writers
    BY DEF Steps, Writers
  <2>2. FinishKind(c) \in Kinds
    BY DEF FinishKind, Kinds
  <2> QED
    BY <1>7, <2>1, <2>2 DEF ReportTaskFinish, TypeOK, Place
<1>8. ASSUME UNCHANGED <<pc, lift, kind>> PROVE Place'
  BY <1>8 DEF TypeOK, Place
<1>9. CASE Restart
  BY <1>9, LiftFacts DEF Restart, Place, Steps, Kinds
<1> QED
  BY <1>1, <1>2, <1>3, <1>4, <1>5, <1>6, <1>7, <1>8, <1>9, NextSteps
  DEF RaiseCommand, DropCommand, SetMode, vars

LEMMA RegistersStep ==
  ASSUME TypeOK, [Next]_vars
  PROVE  Registers'
<1>1. \A w \in Writers : Bit(w) \in Bits
  BY BitType
<1>2. "generate" \in Writers
  BY DEF Writers
<1>3. faults' = faults + 1 /\ faults < FaultBudget => faults' \in 0..FaultBudget
  BY OrderAssumption DEF TypeOK
<1>4. ASSUME NEW w \in Writers, RecvPre(w) PROVE Registers'
  <2>1. Update(w, handle) \subseteq Bits
    BY <1>1 DEF Update, TypeOK
  <2> QED
    BY <1>4, <2>1 DEF RecvPre, TypeOK, Registers
<1>5. ASSUME NEW w \in Writers, ApplySend(w) PROVE Registers'
  BY <1>5 DEF ApplySend, TypeOK, Registers
<1>6. ASSUME NEW w \in Writers, SendReturns(w) PROVE Registers'
  BY <1>6 DEF SendReturns, TypeOK, Registers
<1>13. ASSUME NEW w \in Writers, SendUnserved(w) PROVE Registers'
  BY <1>1, <1>3, <1>13 DEF SendUnserved, TypeOK, Registers
<1>7. CASE CreateOrder
  BY <1>1, <1>2, <1>7 DEF CreateOrder, TypeOK, Registers
<1>8. CASE CreateOrderRaises
  BY <1>1, <1>2, <1>3, <1>8 DEF CreateOrderRaises, Raises, TypeOK, Registers
<1>9. ASSUME NEW b \in PlcCommands, RaiseCommand(b) \/ DropCommand(b) PROVE Registers'
  BY <1>9, OrderAssumption DEF RaiseCommand, DropCommand, TypeOK, Registers
<1>10. ASSUME NEW l \in LiftSet, NEW m \in Modes, SetMode(l, m) PROVE Registers'
  <2>1. m \in SUBSET {"AUTO", "STOP"}
    BY OrderAssumption
  <2> QED
    BY <1>10, <2>1 DEF SetMode, TypeOK, Registers
<1>11. CASE Restart
  BY <1>1, <1>2, <1>3, <1>11 DEF Restart, TypeOK, Registers
<1>12. ASSUME UNCHANGED <<command, handle, mode, new, faults, owed, ordered>>
       PROVE  Registers'
  BY <1>12 DEF TypeOK, Registers
<1> QED
  BY <1>4, <1>5, <1>6, <1>7, <1>8, <1>9, <1>10, <1>11, <1>12, <1>13, NextSteps
  DEF WakeUp, ModeIsAuto, ModeIsStop, HasSaveTask, HasTakeTask, NotStartHandle,
      IsStartHandle, ReportTaskFinish, vars

LEMMA TypeStep ==
  ASSUME TypeOK, [Next]_vars
  PROVE  TypeOK'
<1>1. Place' /\ Registers'
  BY PlaceStep, RegistersStep
<1> QED
  BY <1>1, TypeParts, PTL

(* Every variable keeps its type: no round steps past the last lift. *)
THEOREM TypeInvariant == Spec => []TypeOK
<1>1. Init => TypeOK
  BY TypeInit
<1>2. TypeOK /\ [Next]_vars => TypeOK'
  BY TypeStep
<1> QED
  BY <1>1, <1>2, PTL DEF Spec

--------------------------------------------------------------------------------
(***************************************************************************)
(* Every bit is accounted for: without an acknowledged order since it was  *)
(* off, or on, or about to be turned on by the generator, which writes it. *)
(***************************************************************************)
Acknowledging(b) == pc["generate"] \in {"recv", "send"} /\ b = Bit("generate")

Accounted == \A b \in Bits : b \in owed \/ b \in handle \/ Acknowledging(b)

WritesItsBit ==
  pc["generate"] \in {"send", "sent"} => Bit("generate") \in new["generate"]

Inv == TypeOK /\ Accounted /\ WritesItsBit /\ DuplicatesExcused

(* A step of another writer, or of the PLC, leaves the generator alone. *)
GeneratorStill ==
  /\ pc'["generate"] = pc["generate"]
  /\ lift'["generate"] = lift["generate"]
  /\ kind'["generate"] = kind["generate"]
  /\ new'["generate"] = new["generate"]

LEMMA StillBit ==
  ASSUME GeneratorStill
  PROVE  Bit("generate")' = Bit("generate")
BY DEF GeneratorStill, Bit

LEMMA MoveStill ==
  ASSUME TypeOK, NEW w \in {"clear", "finish"},
         (\E step \in Steps : Go(w, step)) \/ Continue(w)
  PROVE  /\ pc'["generate"] = pc["generate"]
         /\ lift'["generate"] = lift["generate"]
         /\ kind'["generate"] = kind["generate"]
BY DEF TypeOK, Writers, Go, Continue, NextKind, NextLift, Rest

(* Everything but an acknowledgement and the writes keeps the parts of Inv. *)
LEMMA StillStep ==
  ASSUME Inv, GeneratorStill, owed \subseteq owed', handle \ handle' \subseteq owed'
  PROVE  Accounted' /\ WritesItsBit' /\ DuplicatesExcused'
<1>1. Bit("generate")' = Bit("generate")
  BY StillBit
<1>2. pc'["generate"] = pc["generate"] /\ new'["generate"] = new["generate"]
  BY DEF GeneratorStill
<1>3. Accounted'
  BY <1>1, <1>2 DEF Inv, Accounted, Acknowledging
<1> QED
  BY <1>1, <1>2, <1>3 DEF Inv, WritesItsBit, DuplicatesExcused

(* The generator goes on without creating or acknowledging anything. *)
LEMMA QuietStep ==
  ASSUME Inv, pc["generate"] \notin {"recv", "send"},
         pc'["generate"] \notin {"create", "recv", "send", "sent"},
         UNCHANGED <<handle, owed>>
  PROVE  Accounted' /\ WritesItsBit' /\ DuplicatesExcused'
BY DEF Inv, Accounted, Acknowledging, WritesItsBit, DuplicatesExcused

LEMMA InvStep ==
  ASSUME Inv, [Next]_vars
  PROVE  Accounted' /\ WritesItsBit' /\ DuplicatesExcused'
<1>0. TypeOK
  BY DEF Inv
<1>1. CASE WakeUp("generate")
  <2>1. pc["generate"] = "sleep" /\ pc'["generate"] = "auto"
    BY <1>0, <1>1 DEF WakeUp, Go, FirstStep, TypeOK, Writers
  <2> QED
    BY <1>1, <2>1, QuietStep DEF WakeUp
<1>2. CASE ModeIsAuto \/ ModeIsStop \/ HasSaveTask \/ HasTakeTask
  <2>1. pc["generate"] \in {"auto", "stop", "has save", "has take"}
    BY <1>2 DEF ModeIsAuto, ModeIsStop, HasSaveTask, HasTakeTask
  <2>2. pc'["generate"] \in {"sleep", "auto", "stop", "has save", "has take", "check"}
    BY <1>0, <1>2 DEF ModeIsAuto, ModeIsStop, HasSaveTask, HasTakeTask, Go, NextLift,
                      Rest, FirstStep, TypeOK, Writers
  <2> QED
    BY <1>2, <2>1, <2>2, QuietStep DEF ModeIsAuto, ModeIsStop, HasSaveTask, HasTakeTask
<1>3. CASE NotStartHandle
  <2>1. pc["generate"] = "check" /\ UNCHANGED <<handle, owed>>
    BY <1>3 DEF NotStartHandle
  <2>2. CASE NextLift("generate")
    <3>1. pc'["generate"] \in {"sleep", "auto"}
      BY <1>0, <2>2 DEF NextLift, Rest, FirstStep, TypeOK, Writers
    <3> QED
      BY <2>1, <3>1, QuietStep
  <2>3. CASE Bit("generate") \notin handle /\ Go("generate", "create")
    <3>1. pc'["generate"] = "create" /\ Bit("generate")' = Bit("generate")
      BY <1>0, <2>3 DEF Go, TypeOK, Writers, Bit
    <3>2. Bit("generate") \in owed
      BY <1>0, <2>1, <2>3, BitType DEF Inv, Accounted, Acknowledging, Writers
    <3> QED
      BY <2>1, <3>1, <3>2 DEF Inv, Accounted, Acknowledging, WritesItsBit, DuplicatesExcused
  <2> QED
    BY <1>3, <2>2, <2>3 DEF NotStartHandle
<1>4. CASE CreateOrder
  <2>1. pc["generate"] = "create" /\ pc'["generate"] = "recv"
        /\ Bit("generate")' = Bit("generate")
    BY <1>0, <1>4 DEF CreateOrder, Go, TypeOK, Writers, Bit
  <2>2. owed' = owed \ {Bit("generate")} /\ handle' = handle
    BY <1>4 DEF CreateOrder
  <2> QED
    BY <2>1, <2>2 DEF Inv, Accounted, Acknowledging, WritesItsBit, DuplicatesExcused
<1>5. CASE CreateOrderRaises
  <2>1. pc["generate"] = "create" /\ pc'["generate"] = "sleep"
    BY <1>0, <1>5 DEF CreateOrderRaises, Raises, Rest, TypeOK, Writers
  <2> QED
    BY <1>5, <2>1, QuietStep DEF CreateOrderRaises
<1>6. CASE RecvPre("generate")
  <2>1. pc["generate"] = "recv" /\ UNCHANGED <<handle, owed>>
    BY <1>6 DEF RecvPre
  <2>2. CASE Update("generate", handle) = handle /\ Continue("generate")
    <3>1. pc'["generate"] \in {"sleep", "auto"}
      BY <1>0, <2>2 DEF Continue, NextLift, Rest, FirstStep, TypeOK, Writers
    <3>2. Bit("generate") \in handle
      BY <2>2 DEF Update
    <3> QED
      BY <2>1, <3>1, <3>2
      DEF Inv, Accounted, Acknowledging, WritesItsBit, DuplicatesExcused
  <2>3. CASE Go("generate", "send") /\ new' = [new EXCEPT !["generate"] = Update("generate", handle)]
    <3>1. pc'["generate"] = "send" /\ Bit("generate")' = Bit("generate")
      BY <1>0, <2>3 DEF Go, TypeOK, Writers, Bit
    <3>2. Bit("generate") \in new'["generate"]
      BY <1>0, <2>3 DEF Update, TypeOK, Writers
    <3> QED
      BY <2>1, <3>1, <3>2
      DEF Inv, Accounted, Acknowledging, WritesItsBit, DuplicatesExcused
  <2> QED
    BY <1>6, <2>2, <2>3 DEF RecvPre
<1>7. CASE ApplySend("generate")
  <2>1. pc["generate"] \in {"send", "sent"} /\ pc'["generate"] = "sent"
        /\ Bit("generate")' = Bit("generate")
    BY <1>0, <1>7 DEF ApplySend, Go, TypeOK, Writers, Bit
  <2>2. handle' = new["generate"] /\ new' = new /\ owed' = owed \cup (handle \ new["generate"])
    BY <1>7 DEF ApplySend
  <2> QED
    BY <2>1, <2>2 DEF Inv, Accounted, Acknowledging, WritesItsBit, DuplicatesExcused
<1>8. CASE SendReturns("generate")
  <2>1. pc["generate"] = "sent" /\ pc'["generate"] \in {"sleep", "auto"}
    BY <1>0, <1>8 DEF SendReturns, Continue, NextLift, Rest, FirstStep, TypeOK, Writers
  <2> QED
    BY <1>8, <2>1, QuietStep DEF SendReturns
<1>14. CASE SendUnserved("generate")
  <2>1. pc["generate"] = "send" /\ pc'["generate"] \in {"sleep", "auto"}
    BY <1>0, <1>14 DEF SendUnserved, Continue, NextLift, Rest, FirstStep, TypeOK, Writers
  <2>2. owed' = owed \cup {Bit("generate")} /\ handle' = handle
    BY <1>14 DEF SendUnserved
  <2>3. Accounted'
    BY <2>2 DEF Inv, Accounted, Acknowledging
  <2> QED
    BY <2>1, <2>3 DEF WritesItsBit, DuplicatesExcused
<1>9. ASSUME NEW w \in {"clear", "finish"},
             RecvPre(w) \/ ApplySend(w) \/ SendReturns(w) \/ SendUnserved(w)
      PROVE  Accounted' /\ WritesItsBit' /\ DuplicatesExcused'
  <2>1. (\E step \in Steps : Go(w, step)) \/ Continue(w)
    BY <1>9 DEF RecvPre, ApplySend, SendReturns, SendUnserved, Steps
  <2>2. new'["generate"] = new["generate"]
    BY <1>0, <1>9 DEF RecvPre, ApplySend, SendReturns, SendUnserved, TypeOK, Writers
  <2>3. GeneratorStill
    BY <1>0, <2>1, <2>2, MoveStill DEF GeneratorStill
  <2>4. owed \subseteq owed' /\ handle \ handle' \subseteq owed'
    BY <1>9 DEF RecvPre, ApplySend, SendReturns, SendUnserved
  <2> QED
    BY <2>3, <2>4, StillStep
<1>10. CASE WakeUp("clear") \/ IsStartHandle
  <2>1. (\E step \in Steps : Go("clear", step)) \/ Continue("clear")
    BY <1>10 DEF WakeUp, IsStartHandle, Continue, FirstStep, Steps
  <2>2. GeneratorStill
    BY <1>0, <1>10, <2>1, MoveStill DEF WakeUp, IsStartHandle, GeneratorStill
  <2> QED
    BY <1>10, <2>2, StillStep DEF WakeUp, IsStartHandle
<1>11. ASSUME NEW c \in FinishCodes, NEW i \in DOMAIN Lifts, ReportTaskFinish(c, i)
       PROVE  Accounted' /\ WritesItsBit' /\ DuplicatesExcused'
  <2>1. GeneratorStill
    BY <1>0, <1>11 DEF ReportTaskFinish, GeneratorStill, TypeOK, Writers
  <2> QED
    BY <1>11, <2>1, StillStep DEF ReportTaskFinish
<1>12. ASSUME UNCHANGED <<handle, pc, lift, kind, new, owed>>
       PROVE  Accounted' /\ WritesItsBit' /\ DuplicatesExcused'
  BY <1>12, StillStep DEF GeneratorStill
<1>13. CASE Restart
  <2>1. pc'["generate"] = "sleep"
    BY <1>13 DEF Restart, Writers
  <2>2. \A b \in Bits : Acknowledging(b) => b \in owed'
    BY <1>13 DEF Restart, Acknowledging
  <2>3. owed \subseteq owed' /\ handle' = handle
    BY <1>13 DEF Restart
  <2>4. Accounted'
    BY <2>2, <2>3 DEF Inv, Accounted
  <2> QED
    BY <2>1, <2>4 DEF WritesItsBit, DuplicatesExcused
<1> QED
  BY <1>1, <1>2, <1>3, <1>4, <1>5, <1>6, <1>7, <1>8, <1>9, <1>10, <1>11, <1>12, <1>13, <1>14,
     NextSteps DEF RaiseCommand, DropCommand, SetMode, vars, Writers

LEMMA InvInvariant == Spec => []Inv
<1>1. Init => Inv
  <2> SUFFICES ASSUME Init PROVE Inv
    OBVIOUS
  <2>1. pc["generate"] = "sleep" /\ owed = Bits \ handle
    BY DEF Init, Writers
  <2> QED
    BY <2>1, TypeInit DEF Inv, Accounted, WritesItsBit, DuplicatesExcused
<1>2. Inv /\ [Next]_vars => Inv'
  BY TypeStep, InvStep DEF Inv
<1> QED
  BY <1>1, <1>2, PTL DEF Spec

(***************************************************************************)
(* The generator is about to create an order only for a bit that was       *)
(* turned off since its last acknowledged order, or whose last order was   *)
(* never acknowledged.                                                     *)
(***************************************************************************)
THEOREM NoUnexcusedDuplicate == Spec => []DuplicatesExcused
<1>1. Inv => DuplicatesExcused
  BY DEF Inv
<1> QED
  BY <1>1, InvInvariant, PTL

--------------------------------------------------------------------------------
(***************************************************************************)
(* While nobody uses the deprecated handler: what the generator is about   *)
(* to write holds every bit that is on, however old its read is, and what  *)
(* the clearing monitor is about to write holds no other bit.              *)
(***************************************************************************)
Writing(w) == pc[w] \in {"send", "sent"}

Sided ==
  /\ pc["finish"] = "sleep"
  /\ Writing("generate") => handle \subseteq new["generate"]
  /\ Writing("clear") => new["clear"] \subseteq handle

(* A step that writes nothing and prepares no write. *)
LEMMA SidedStill ==
  ASSUME Sided, UNCHANGED <<handle, new>>, pc'["finish"] = "sleep",
         \A w \in {"generate", "clear"} : Writing(w)' => Writing(w)
  PROVE  Sided'
BY DEF Sided, Writing

(* What a writer does moves no other writer. *)
LEMMA Moves ==
  ASSUME TypeOK, NEW w \in Writers, NEW v \in Writers, v # w,
         (\E step \in Steps : Go(w, step)) \/ Continue(w) \/ Rest(w) \/ NextLift(w)
  PROVE  pc'[v] = pc[v]
BY DEF TypeOK, Writers, Go, Continue, NextKind, NextLift, Rest

LEMMA ContinueStops ==
  ASSUME TypeOK, NEW w \in {"generate", "clear"}, Continue(w) \/ NextLift(w) \/ Rest(w)
  PROVE  ~ Writing(w)'
BY DEF TypeOK, Writers, Continue, NextKind, NextLift, Rest, Writing, FirstStep

LEMMA SidedStep ==
  ASSUME FinishCodes = {}, TypeOK, Sided, [Next]_vars
  PROVE  Sided'
<1>1. ASSUME NEW w \in {"generate", "clear"}, WakeUp(w) \/ SendReturns(w) \/ SendUnserved(w)
      PROVE  Sided'
  <2>1. (\E step \in Steps : Go(w, step)) \/ Continue(w)
    BY <1>1, FirstSteps DEF WakeUp, SendReturns, SendUnserved
  <2>2. \A v \in Writers : v # w => pc'[v] = pc[v]
    BY <2>1, Moves DEF Writers
  <2>3. ~ Writing(w)'
    BY <1>1, ContinueStops DEF WakeUp, SendReturns, SendUnserved, Go, FirstStep, TypeOK,
                               Writers, Writing
  <2>4. CASE WakeUp(w)
    BY <2>2, <2>3, <2>4, SidedStill DEF WakeUp, Writers, Writing, Sided
  <2>5. CASE SendReturns(w) \/ SendUnserved(w)
    <3>1. handle' = handle /\ \A v \in Writers : v # w => new'[v] = new[v]
      BY <2>5 DEF SendReturns, SendUnserved, TypeOK, Writers
    <3> QED
      BY <2>2, <2>3, <3>1 DEF Sided, Writers, Writing
  <2> QED
    BY <1>1, <2>4, <2>5
<1>2. ASSUME NEW w \in {"generate", "clear"}, RecvPre(w) PROVE Sided'
  <2>1. \A v \in Writers : v # w => pc'[v] = pc[v]
    BY <1>2, Moves DEF RecvPre, Writers, Steps
  <2>2. CASE UNCHANGED new /\ Continue(w)
    BY <1>2, <2>1, <2>2, ContinueStops, SidedStill DEF RecvPre, Writers, Writing, Sided
  <2>3. CASE new' = [new EXCEPT ![w] = Update(w, handle)]
    <3>1. new'[w] = Update(w, handle) /\ handle' = handle
      BY <1>2, <2>3 DEF RecvPre, TypeOK, Writers
    <3>2. \A v \in Writers : v # w => new'[v] = new[v]
      BY <2>3 DEF TypeOK, Writers
    <3> QED
      BY <2>1, <3>1, <3>2 DEF Update, Sided, Writers, Writing
  <2> QED
    BY <1>2, <2>2, <2>3 DEF RecvPre
<1>3. ASSUME NEW w \in {"generate", "clear"}, ApplySend(w) PROVE Sided'
  <2>1. \A v \in Writers : v # w => pc'[v] = pc[v]
    <3>1. Go(w, "sent") /\ "sent" \in Steps
      BY <1>3 DEF ApplySend, Steps
    <3> QED
      BY <3>1, Moves DEF Writers
  <2>2. Writing(w) /\ handle' = new[w] /\ new' = new
    BY <1>3 DEF ApplySend, Writing
  <2> QED
    BY <2>1, <2>2 DEF Sided, Writers, Writing
<1>4. CASE ModeIsAuto \/ ModeIsStop \/ HasSaveTask \/ HasTakeTask \/ NotStartHandle
           \/ CreateOrder \/ CreateOrderRaises
  <2>1. ~ Writing("generate")'
    BY <1>4, ContinueStops
    DEF ModeIsAuto, ModeIsStop, HasSaveTask, HasTakeTask, NotStartHandle, CreateOrder,
        CreateOrderRaises, Raises, Go, TypeOK, Writers, Writing
  <2>2. \A v \in Writers : v # "generate" => pc'[v] = pc[v]
    BY <1>4 DEF ModeIsAuto, ModeIsStop, HasSaveTask, HasTakeTask, NotStartHandle,
        CreateOrder, CreateOrderRaises, Raises, Go, NextLift, Rest, TypeOK, Writers
  <2>3. UNCHANGED <<handle, new>>
    BY <1>4 DEF ModeIsAuto, ModeIsStop, HasSaveTask, HasTakeTask, NotStartHandle,
        CreateOrder, CreateOrderRaises
  <2> QED
    BY <2>1, <2>2, <2>3, SidedStill DEF Writers, Writing, Sided
<1>5. CASE IsStartHandle
  <2>1. ~ Writing("clear")'
    BY <1>5, ContinueStops DEF IsStartHandle, Continue, Go, TypeOK, Writers, Writing
  <2>2. \A v \in Writers : v # "clear" => pc'[v] = pc[v]
    BY <1>5 DEF IsStartHandle, Go, NextKind, NextLift, Rest, TypeOK, Writers
  <2> QED
    BY <1>5, <2>1, <2>2, SidedStill DEF IsStartHandle, Writers, Writing, Sided
<1>6. CASE Restart
  BY <1>6 DEF Restart, Writers, Writing, Sided
<1>7. CASE UNCHANGED <<handle, new, pc>>
  BY <1>7, SidedStill DEF Sided, Writing
<1>8. ~ (RecvPre("finish") \/ ApplySend("finish") \/ SendReturns("finish") \/ SendUnserved("finish"))
  BY DEF RecvPre, ApplySend, SendReturns, SendUnserved, Sided
<1> QED
  BY <1>1, <1>2, <1>3, <1>4, <1>5, <1>6, <1>7, <1>8, NextSteps
  DEF RaiseCommand, DropCommand, SetMode, vars, Writers

(***************************************************************************)
(* Without the deprecated handler the stale writes of the shared register  *)
(* err in one direction only.                                              *)
(***************************************************************************)
THEOREM StaleWritesOneSided ==
  ASSUME FinishCodes = {}
  PROVE  Spec => OneSided
<1>1. Init => Sided
  <2> SUFFICES ASSUME Init PROVE Sided
    OBVIOUS
  <2>1. \A w \in Writers : pc[w] = "sleep"
    BY DEF Init
  <2> QED
    BY <2>1 DEF Sided, Writing, Writers
<1>2. TypeOK /\ Sided /\ [Next]_vars => Sided'
  BY SidedStep
<1>3. Sided /\ [Next]_vars
      => [/\ ApplySend("generate") => handle \subseteq handle'
          /\ ApplySend("clear") => handle' \subseteq handle]_vars
  BY DEF Sided, Writing, ApplySend
<1> QED
  BY <1>1, <1>2, <1>3, TypeInvariant, PTL DEF Spec, OneSided
================================================================================
