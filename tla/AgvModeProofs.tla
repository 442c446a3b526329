----------------------------- MODULE AgvModeProofs -----------------------------
(***************************************************************************)
(* Proofs about AgvMode for any number of AGVs, any conditions they get    *)
(* into, any requests and any number of failed queries.                    *)
(***************************************************************************)
EXTENDS AgvMode, SequenceTheorems, TLAPS

LEMMA AgvFacts ==
  /\ Len(Agvs) \in Nat
  /\ DOMAIN Agvs = 1..Len(Agvs)
  /\ 1 \in DOMAIN Agvs
  /\ \A i \in DOMAIN Agvs : Agvs[i] \in AgvSet
<1>1. Agvs \in Seq(AgvSet) /\ Agvs # <<>>
  BY AgvAssumption
<1> QED
  BY <1>1 DEF AgvSet

LEMMA Bounds ==
  /\ RequestBudget \in Nat /\ RaiseBudget \in Nat
  /\ Configurations \subseteq SUBSET AgvSet /\ Ordered \subseteq AgvSet
  /\ \A a \in AgvSet : \A c \in Conditions[a] : c \in AllConditions
  /\ \A r \in Reports : r[1] \in DOMAIN Agvs /\ r[2] \in AllReports
BY AgvAssumption

LEMMA SeqFacts ==
  ASSUME NEW S, NEW s \in Seq(S)
  PROVE  /\ <<>> \in Seq(S)
         /\ s # <<>> => Head(s) \in S /\ Tail(s) \in Seq(S)
         /\ Len(s) > 1 => Tail(s) # <<>>
         /\ s # <<>> => Len(s) \in Nat \ {0}
<1>1. <<>> \in Seq(S) /\ Len(<<>>) = 0 /\ (s # <<>> => Len(s) \in Nat \ {0})
  BY EmptySeq
<1>2. s # <<>> => Head(s) \in S /\ Tail(s) \in Seq(S) /\ Len(Tail(s)) = Len(s) - 1
  BY HeadTailProperties
<1>3. ASSUME Len(s) > 1 PROVE Tail(s) # <<>>
  <2>1. s # <<>>
    <3> SUFFICES ASSUME s = <<>> PROVE FALSE
      OBVIOUS
    <3>1. Len(s) = Len(<<>>)
      OBVIOUS
    <3>2. Len(s) = 0
      BY <1>1, <3>1, Zenon
    <3> QED
      BY <1>3, <3>2
  <2>2. Len(Tail(s)) = Len(s) - 1 /\ Len(s) \in Nat \ {0}
    BY <1>1, <1>2, <2>1
  <2>3. Len(Tail(s)) # 0
    BY <1>3, <2>2
  <2> QED
    BY <1>1, <2>3, Zenon
<1> QED
  BY <1>1, <1>2, <1>3

LEMMA One ==
  ASSUME NEW S, NEW x \in S
  PROVE  <<x>> \in Seq(S) /\ <<x>> # <<>> /\ Len(<<x>>) = 1 /\ Head(<<x>>) = x
OBVIOUS

LEMMA Two ==
  ASSUME NEW S, NEW x \in S, NEW y \in S
  PROVE  /\ <<x, y>> \in Seq(S) /\ <<x, y>> # <<>> /\ Len(<<x, y>>) = 2
         /\ Head(<<x, y>>) = x /\ Tail(<<x, y>>) = <<y>>
OBVIOUS

LEMMA ReportUpdatesType ==
  ASSUME NEW row \in AllConditions, NEW order \in BOOLEAN
  PROVE  ReportUpdates(row, order) \in Seq(Updates) /\ ReportUpdates(row, order) # <<>>
<1>1. \A o \in {"on", "off"}, m \in Modes : <<o, m>> \in Updates
  BY DEF Updates
<1>2. "AUTO" \in Modes /\ "RUNNING" \in Modes
  BY DEF Modes
<1>3. CASE row \in {"offline", "undispatched"}
  BY <1>1, <1>2, <1>3, Two DEF ReportUpdates
<1>4. CASE row = "faulty"
  BY <1>1, <1>2, <1>4, One DEF ReportUpdates
<1>5. CASE row = "fit" /\ order
  BY <1>1, <1>2, <1>5, One DEF ReportUpdates
<1>6. CASE row = "fit" /\ ~ order
  BY <1>1, <1>2, <1>6, Two DEF ReportUpdates
<1> QED
  BY <1>3, <1>4, <1>5, <1>6 DEF AllConditions

LEMMA HandlerUpdateType ==
  ASSUME NEW r \in AllReports
  PROVE  HandlerUpdate(r) \in Updates
<1>1. CASE r \in {"offline", "faulty"}
  BY <1>1 DEF HandlerUpdate, Updates, Modes
<1>2. CASE r \in {"charging", "rest", "no task"}
  BY <1>2 DEF HandlerUpdate, Updates, Modes
<1>3. CASE r = "task"
  BY <1>3 DEF HandlerUpdate, Updates, Modes
<1> QED
  BY <1>1, <1>2, <1>3 DEF AllReports

LEMMA RequestCount ==
  ASSUME requests \in 0..RequestBudget, requests < RequestBudget, requests' = requests + 1
  PROVE  requests' \in 0..RequestBudget
BY Bounds

(* Where a writer is. *)
Place ==
  /\ pc \in [Writers -> {"sleep", "order", "recv", "send", "sent"}]
  /\ agv \in [Writers -> DOMAIN Agvs]
  /\ todo \in [Writers -> Seq(Updates)]
  /\ \A w \in Writers : pc[w] \in {"recv", "send", "sent"} <=> todo[w] # <<>>
  /\ from \in 1..Len(Agvs) + 1

LEMMA FromPlace ==
  ASSUME NEW n \in DOMAIN Agvs
  PROVE  n \in Nat /\ n >= 1 /\ n + 1 \in 1..Len(Agvs) + 1 /\ n \in 1..Len(Agvs) + 1
BY AgvFacts

LEMMA RestPlace ==
  ASSUME TypeOK, NEW w \in Writers, Rest(w), UNCHANGED from
  PROVE  Place'
<1>1. <<>> \in Seq(Updates) /\ 1 \in DOMAIN Agvs
  BY SeqFacts, AgvFacts
<1> QED
  BY <1>1 DEF Rest, TypeOK, Place

LEMMA NextAgvPlace ==
  ASSUME TypeOK, NextAgv
  PROVE  Place'
<1>1. "report" \in Writers
  BY DEF Writers
<1>2. agv["report"] < Len(Agvs) => agv["report"] + 1 \in DOMAIN Agvs
  BY <1>1, AgvFacts DEF TypeOK
<1>3. <<>> \in Seq(Updates)
  BY SeqFacts
<1>4. CASE agv["report"] < Len(Agvs)
  <2>1. /\ pc'   = [pc EXCEPT !["report"] = "order"]
        /\ agv'  = [agv EXCEPT !["report"] = agv["report"] + 1]
        /\ todo' = [todo EXCEPT !["report"] = <<>>]
        /\ FromNext(agv["report"] + 1)
    BY <1>1, <1>4, AgvFacts DEF NextAgv, TypeOK
  <2>2. from' \in 1..Len(Agvs) + 1
    BY <1>2, <1>4, <2>1, FromPlace DEF FromNext, TypeOK
  <2> QED
    BY <1>1, <1>2, <1>3, <1>4, <2>1, <2>2 DEF TypeOK, Place
<1>5. CASE Rest("report") /\ UNCHANGED from
  BY <1>1, <1>5, RestPlace
<1> QED
  BY <1>4, <1>5 DEF NextAgv

LEMMA UpdateDonePlace ==
  ASSUME TypeOK, NEW w \in Writers, UpdateDone(w)
  PROVE  Place'
<1>1. CASE Len(todo[w]) > 1 /\ todo' = [todo EXCEPT ![w] = Tail(@)]
           /\ pc' = [pc EXCEPT ![w] = "recv"] /\ UNCHANGED <<agv, from>>
  <2>1. todo[w] \in Seq(Updates)
    BY DEF TypeOK
  <2>2. todo[w] # <<>>
    BY <1>1, <2>1
  <2>3. Tail(todo[w]) \in Seq(Updates) /\ Tail(todo[w]) # <<>>
    BY <1>1, <2>1, <2>2, SeqFacts
  <2> QED
    BY <1>1, <2>3 DEF TypeOK, Place
<1> QED
  BY <1>1, NextAgvPlace, RestPlace DEF UpdateDone

LEMMA ChangedType ==
  ASSUME TypeOK, NEW w \in Writers, pc[w] \in {"recv", "send", "sent"},
         Agvs[agv[w]] \in configured
  PROVE  Changed(w, bits) \subseteq configured \X Modes
<1>1. Head(todo[w]) \in Updates
  BY SeqFacts DEF TypeOK
<1>2. Head(todo[w])[2] \in Modes
  BY <1>1 DEF Updates
<1> QED
  BY <1>2 DEF Changed, TypeOK

LEMMA TypeInit == Init => TypeOK
<1> SUFFICES ASSUME Init PROVE TypeOK
  OBVIOUS
<1>1. requests \in 0..RequestBudget /\ raised \in 0..RaiseBudget
  <2>1. requests = 0 /\ raised = 0
    BY DEF Init
  <2> QED
    BY <2>1, Bounds
<1>2. fleet \in [AgvSet -> AllConditions] /\ rows = fleet
  BY Bounds DEF Init
<1>3. 1 \in DOMAIN Agvs /\ <<>> \in Seq(Updates)
  BY AgvFacts, SeqFacts
<1>4. configured \subseteq AgvSet
  BY Bounds DEF Init
<1> QED
  BY <1>1, <1>2, <1>3, <1>4, FromPlace DEF Init, TypeOK

LEMMA NextSteps ==
  ASSUME Next
  PROVE  \/ GetAllAgvState \/ AgvHasActiveOrder \/ AgvHasActiveOrderRaises
         \/ \E w \in Writers : ModeUnconfigured(w) \/ RecvMode(w) \/ ApplyMode(w) \/ ModeReturns(w)
         \/ \E i \in DOMAIN Agvs, r \in AllReports : ReportAgvStatus(i, r)
         \/ \E a \in AgvSet, c \in AllConditions : ConditionChanges(a, c)
         \/ \E a \in AgvSet : OrderChanges(a)
BY Bounds DEF Next, Report, Handle, Fleet, Update, Writers

LEMMA TypeStep ==
  ASSUME TypeOK, [Next]_vars
  PROVE  TypeOK'
<1>0. "report" \in Writers /\ "handler" \in Writers
  BY DEF Writers
<1>1. CASE GetAllAgvState
  <2>1. <<>> = todo["report"]
    BY <1>0, <1>1 DEF GetAllAgvState, TypeOK
  <2>2. from' \in 1..Len(Agvs) + 1
    <3>1. 1 \in DOMAIN Agvs
      BY AgvFacts
    <3>2. 1 \in 1..Len(Agvs) + 1 /\ 2 \in 1..Len(Agvs) + 1
      BY <3>1, FromPlace
    <3> QED
      BY <1>1, <3>2 DEF GetAllAgvState
  <2> QED
    BY <1>0, <1>1, <2>1, <2>2 DEF GetAllAgvState, TypeOK
<1>2. CASE AgvHasActiveOrder
  <2>1. Agvs[agv["report"]] \in AgvSet
    BY <1>0, AgvFacts DEF TypeOK
  <2>2. rows[Agvs[agv["report"]]] \in AllConditions /\ busy[Agvs[agv["report"]]] \in BOOLEAN
    BY <2>1 DEF TypeOK
  <2> DEFINE u == ReportUpdates(rows[Agvs[agv["report"]]], busy[Agvs[agv["report"]]])
  <2>3. u \in Seq(Updates) /\ u # <<>>
    BY <2>2, ReportUpdatesType
  <2>4. /\ todo' = [todo EXCEPT !["report"] = u]
        /\ pc' = [pc EXCEPT !["report"] = "recv"]
        /\ UNCHANGED <<configured, bits, fleet, busy, rows, agv, new, from, requests, raised>>
    BY <1>2 DEF AgvHasActiveOrder
  <2> HIDE DEF u
  <2> QED
    BY <1>0, <2>3, <2>4 DEF TypeOK
<1>3. CASE AgvHasActiveOrderRaises
  <2>1. Place'
    BY <1>0, <1>3, RestPlace DEF AgvHasActiveOrderRaises
  <2>2. raised' \in 0..RaiseBudget
    BY <1>3, Bounds DEF AgvHasActiveOrderRaises, TypeOK
  <2> QED
    BY <1>3, <2>1, <2>2 DEF AgvHasActiveOrderRaises, TypeOK, Place
<1>4. ASSUME NEW w \in Writers, RecvMode(w) PROVE TypeOK'
  <2>1. CASE UpdateDone(w) /\ UNCHANGED new
    <3>1. Place'
      BY <2>1, UpdateDonePlace
    <3> QED
      BY <1>4, <2>1, <3>1 DEF RecvMode, TypeOK, Place
  <2>2. CASE new' = [new EXCEPT ![w] = Changed(w, bits)] /\ pc' = [pc EXCEPT ![w] = "send"]
             /\ UNCHANGED <<agv, todo, from>>
    <3>1. Changed(w, bits) \subseteq configured \X Modes
      BY <1>4, ChangedType DEF RecvMode
    <3>2. todo[w] # <<>>
      BY <1>4 DEF RecvMode, TypeOK
    <3> QED
      BY <1>4, <2>2, <3>1, <3>2 DEF RecvMode, TypeOK
  <2> QED
    BY <1>4, <2>1, <2>2 DEF RecvMode
<1>5. ASSUME NEW w \in Writers, ApplyMode(w) PROVE TypeOK'
  <2>1. todo[w] # <<>>
    BY <1>5 DEF ApplyMode, TypeOK
  <2> QED
    BY <1>5, <2>1 DEF ApplyMode, TypeOK
<1>6. ASSUME NEW w \in Writers, ModeReturns(w) PROVE TypeOK'
  <2>1. Place'
    BY <1>6, UpdateDonePlace DEF ModeReturns
  <2> QED
    BY <1>6, <2>1 DEF ModeReturns, TypeOK, Place
<1>7. ASSUME NEW i \in DOMAIN Agvs,
             NEW r \in AllReports,
             ReportAgvStatus(i, r)
      PROVE  TypeOK'
  <2>1. HandlerUpdate(r) \in Updates
    BY HandlerUpdateType
  <2>2. <<HandlerUpdate(r)>> \in Seq(Updates) /\ <<HandlerUpdate(r)>> # <<>>
    BY <2>1, One
  <2>3. requests' \in 0..RequestBudget
    BY <1>7, RequestCount DEF ReportAgvStatus, TypeOK
  <2>5. from' \in 1..Len(Agvs) + 1
    BY <1>0, <1>7, FromPlace DEF ReportAgvStatus, TypeOK
  <2>4. Place'
    BY <1>0, <1>7, <2>2, <2>5 DEF ReportAgvStatus, TypeOK, Place
  <2> QED
    BY <1>7, <2>3, <2>4 DEF ReportAgvStatus, TypeOK, Place
<1>8. ASSUME NEW a \in AgvSet, NEW c \in AllConditions, ConditionChanges(a, c) PROVE TypeOK'
  BY <1>8 DEF ConditionChanges, TypeOK
<1>9. ASSUME NEW a \in AgvSet, OrderChanges(a) PROVE TypeOK'
  BY <1>9 DEF OrderChanges, TypeOK
<1>10. ASSUME NEW w \in Writers, ModeUnconfigured(w) PROVE TypeOK'
  <2>1. Place'
    BY <1>10, RestPlace DEF ModeUnconfigured
  <2> QED
    BY <1>10, <2>1 DEF ModeUnconfigured, TypeOK, Place
<1>11. CASE UNCHANGED vars
  BY <1>11 DEF vars, TypeOK
<1> QED
  BY <1>1, <1>2, <1>3, <1>4, <1>5, <1>6, <1>7, <1>8, <1>9, <1>10, <1>11, NextSteps

(* Every variable keeps its type: no round steps past the last AGV. *)
THEOREM TypeInvariant == Spec => []TypeOK
<1>1. Init => TypeOK
  BY TypeInit
<1>2. TypeOK /\ [Next]_vars => TypeOK'
  BY TypeStep
<1> QED
  BY <1>1, <1>2, PTL DEF Spec

--------------------------------------------------------------------------------
(***************************************************************************)
(* While the round deals with an AGV it began after the last request.      *)
(***************************************************************************)
A == Agvs[agv["report"]]

Undisturbed == from <= agv["report"]

Working == pc["report"] \in {"recv", "send", "sent"}

Agreement == \A i \in from..agv["report"] - 1 : Agrees(Agvs[i])

HandlerIdle == Undisturbed => pc["handler"] = "sleep"

StartsAtFirst == pc["report"] = "sleep" => agv["report"] = 1

(* What is about to be written is the register with one bit changed, and   *)
(* nobody changes the register in between.                                 *)
UpToDate ==
  Undisturbed =>
    /\ pc["report"] = "send" => new["report"] = Changed("report", bits)
    /\ pc["report"] = "sent" => new["report"] = bits /\ Changed("report", bits) = bits

(* What is left to do for an AGV, and what is done: its AUTO bit is right  *)
(* once only RUNNING is left to be reset.                                  *)
Left(u, row, a) ==
  \/ row \in {"offline", "undispatched"} /\ u = <<<<"off", "AUTO">>, <<"off", "RUNNING">>>>
  \/ row \in {"offline", "undispatched"} /\ u = <<<<"off", "RUNNING">>>> /\ <<a, "AUTO">> \notin bits
  \/ row = "faulty" /\ u = <<<<"off", "AUTO">>>>
  \/ row = "fit" /\ u = <<<<"on", "RUNNING">>>>
  \/ row = "fit" /\ u = <<<<"on", "AUTO">>, <<"off", "RUNNING">>>>
  \/ row = "fit" /\ u = <<<<"off", "RUNNING">>>> /\ <<a, "AUTO">> \in bits

Remaining == Undisturbed /\ Working => Left(todo["report"], rows[A], A)

Inv ==
  /\ TypeOK
  /\ HandlerIdle
  /\ StartsAtFirst
  /\ UpToDate
  /\ Remaining
  /\ Agreement

LEMMA LeftFacts ==
  ASSUME NEW u, NEW row, NEW a, Left(u, row, a)
  PROVE  \/ /\ row \in {"offline", "undispatched"} /\ Len(u) = 2
            /\ Head(u) = <<"off", "AUTO">> /\ Tail(u) = <<<<"off", "RUNNING">>>>
         \/ /\ row \in {"offline", "undispatched"} /\ <<a, "AUTO">> \notin bits /\ Len(u) = 1
            /\ Head(u) = <<"off", "RUNNING">>
         \/ row = "faulty" /\ Len(u) = 1 /\ Head(u) = <<"off", "AUTO">>
         \/ row = "fit" /\ Len(u) = 1 /\ Head(u) = <<"on", "RUNNING">>
         \/ /\ row = "fit" /\ Len(u) = 2
            /\ Head(u) = <<"on", "AUTO">> /\ Tail(u) = <<<<"off", "RUNNING">>>>
         \/ row = "fit" /\ <<a, "AUTO">> \in bits /\ Len(u) = 1 /\ Head(u) = <<"off", "RUNNING">>
<1>1. ASSUME NEW x, NEW y
      PROVE  /\ Len(<<x>>) = 1 /\ Head(<<x>>) = x
             /\ Len(<<x, y>>) = 2 /\ Head(<<x, y>>) = x /\ Tail(<<x, y>>) = <<y>>
  OBVIOUS
<1>2. CASE row \in {"offline", "undispatched"}
           /\ u = <<<<"off", "AUTO">>, <<"off", "RUNNING">>>>
  BY <1>1, <1>2, Zenon
<1>3. CASE row \in {"offline", "undispatched"} /\ u = <<<<"off", "RUNNING">>>> /\ <<a, "AUTO">> \notin bits
  BY <1>1, <1>3, Zenon
<1>4. CASE row = "faulty" /\ u = <<<<"off", "AUTO">>>>
  BY <1>1, <1>4, Zenon
<1>5. CASE row = "fit" /\ u = <<<<"on", "RUNNING">>>>
  BY <1>1, <1>5, Zenon
<1>6. CASE row = "fit" /\ u = <<<<"on", "AUTO">>, <<"off", "RUNNING">>>>
  BY <1>1, <1>6, Zenon
<1>7. CASE row = "fit" /\ u = <<<<"off", "RUNNING">>>> /\ <<a, "AUTO">> \in bits
  BY <1>1, <1>7, Zenon
<1> QED
  BY <1>2, <1>3, <1>4, <1>5, <1>6, <1>7 DEF Left

LEMMA ReportUpdatesLeft ==
  ASSUME NEW row \in AllConditions, NEW order \in BOOLEAN, NEW a
  PROVE  Left(ReportUpdates(row, order), row, a)
<1>1. CASE row \in {"offline", "undispatched"}
  BY <1>1 DEF ReportUpdates, Left
<1>2. CASE row = "faulty"
  BY <1>2 DEF ReportUpdates, Left
<1>3. CASE row = "fit" /\ order
  BY <1>3 DEF ReportUpdates, Left
<1>4. CASE row = "fit" /\ ~ order
  BY <1>4 DEF ReportUpdates, Left
<1> QED
  BY <1>1, <1>2, <1>3, <1>4 DEF AllConditions

(* One update changes one bit, and making it again changes nothing. *)
LEMMA ChangedFacts ==
  ASSUME NEW pre
  PROVE  LET bit == <<A, Head(todo["report"])[2]>> IN
         /\ \A b : b # bit => (b \in Changed("report", pre) <=> b \in pre)
         /\ Head(todo["report"])[1] = "on" => bit \in Changed("report", pre)
         /\ Head(todo["report"])[1] # "on" => bit \notin Changed("report", pre)
         /\ Changed("report", Changed("report", pre)) = Changed("report", pre)
BY DEF Changed, A

(* The bits of the AGVs the round has passed do not depend on those of A. *)
LEMMA AgreesOthers ==
  ASSUME TypeOK, Agreement, rows' = rows, agv'["report"] = agv["report"], from' = from,
         \A b : b[1] # A => (b \in bits' <=> b \in bits)
  PROVE  Agreement'
<1>1. ASSUME NEW i \in from..agv["report"] - 1 PROVE Agrees(Agvs[i])'
  <2>1. agv["report"] \in DOMAIN Agvs /\ from \in 1..Len(Agvs) + 1
    BY DEF TypeOK, Writers
  <2>2. i \in DOMAIN Agvs /\ i # agv["report"]
    BY <2>1, AgvFacts
  <2>3. Agvs[i] # A
    BY <2>1, <2>2, AgvAssumption DEF A
  <2>4. \A m : <<Agvs[i], m>>[1] = Agvs[i]
    OBVIOUS
  <2>5. \A m : <<Agvs[i], m>> \in bits' <=> <<Agvs[i], m>> \in bits
    BY <2>3, <2>4
  <2>6. Agrees(Agvs[i])
    BY DEF Agreement
  <2> QED
    BY <2>5, <2>6 DEF Agrees
<1> QED
  BY <1>1 DEF Agreement

(* When the last update of an AGV is made, its bits agree with its row. *)
LEMMA DoneAgrees ==
  ASSUME Inv, Working, Undisturbed, Changed("report", bits) = bits, Len(todo["report"]) = 1
  PROVE  Agrees(A)
<1> DEFINE head == Head(todo["report"])
<1>1. /\ head[1] = "on" => <<A, head[2]>> \in bits
      /\ head[1] # "on" => <<A, head[2]>> \notin bits
  BY ChangedFacts
<1>2. Left(todo["report"], rows[A], A)
  BY DEF Inv, Remaining
<1>3. \/ /\ rows[A] \in {"offline", "undispatched"}
         /\ <<A, "AUTO">> \notin bits /\ head = <<"off", "RUNNING">>
      \/ rows[A] = "faulty" /\ head = <<"off", "AUTO">>
      \/ rows[A] = "fit" /\ head = <<"on", "RUNNING">>
      \/ rows[A] = "fit" /\ <<A, "AUTO">> \in bits
  <2> DEFINE u == todo["report"]
             row == rows[A]
             a == A
  <2>1. Len(u) # 2
    OBVIOUS
  <2>2. Left(u, row, a)
    BY <1>2
  <2> HIDE DEF u, row, a
  <2>3. \/ row \in {"offline", "undispatched"} /\ <<a, "AUTO">> \notin bits /\ Head(u) = <<"off", "RUNNING">>
        \/ row = "faulty" /\ Head(u) = <<"off", "AUTO">>
        \/ row = "fit" /\ Head(u) = <<"on", "RUNNING">>
        \/ row = "fit" /\ <<a, "AUTO">> \in bits
    BY <2>1, <2>2, LeftFacts
  <2> USE DEF u, row, a
  <2> QED
    BY <2>3
<1> HIDE DEF head
<1>4. CASE rows[A] \in {"offline", "undispatched"}
           /\ <<A, "AUTO">> \notin bits /\ head = <<"off", "RUNNING">>
  <2>1. <<A, "RUNNING">> \notin bits
    BY <1>1, <1>4
  <2> QED
    BY <1>4, <2>1 DEF Agrees, Modes
<1>5. CASE rows[A] = "faulty" /\ head = <<"off", "AUTO">>
  BY <1>1, <1>5 DEF Agrees
<1>6. CASE rows[A] = "fit" /\ head = <<"on", "RUNNING">>
  BY <1>1, <1>6 DEF Agrees, Modes
<1>7. CASE rows[A] = "fit" /\ <<A, "AUTO">> \in bits
  BY <1>7 DEF Agrees, Modes
<1> QED
  BY <1>3, <1>4, <1>5, <1>6, <1>7

(* The end of an update: the next one of the AGV, the next AGV, or the end. *)
LEMMA DoneMoves ==
  ASSUME TypeOK, UpdateDone("report")
  PROVE  /\ pc'["handler"] = pc["handler"]
         /\ \/ /\ Len(todo["report"]) > 1 /\ pc'["report"] = "recv"
               /\ agv'["report"] = agv["report"] /\ todo'["report"] = Tail(todo["report"])
               /\ from' = from
            \/ /\ Len(todo["report"]) = 1 /\ pc'["report"] = "order"
               /\ agv'["report"] = agv["report"] + 1
               /\ FromNext(agv["report"] + 1)
            \/ pc'["report"] = "sleep" /\ agv'["report"] = 1 /\ from' = from
<1>0. "report" \in Writers /\ "handler" \in Writers
  BY DEF Writers
<1>1. CASE /\ Len(todo["report"]) > 1
           /\ todo' = [todo EXCEPT !["report"] = Tail(@)]
           /\ pc' = [pc EXCEPT !["report"] = "recv"]
           /\ UNCHANGED <<agv, from>>
  <2>1. todo'["report"] = Tail(todo["report"])
    BY <1>0, <1>1 DEF TypeOK
  <2>2. pc'["report"] = "recv" /\ pc'["handler"] = pc["handler"]
    BY <1>0, <1>1 DEF TypeOK
  <2> QED
    BY Zenon, <1>1, <2>1, <2>2
<1>2. CASE Len(todo["report"]) = 1 /\ NextAgv
  <2>1. CASE /\ pc' = [pc EXCEPT !["report"] = "order"]
             /\ agv' = [agv EXCEPT !["report"] = @ + 1]
             /\ FromNext(agv["report"] + 1)
    BY <1>0, <1>2, <2>1 DEF TypeOK
  <2>2. CASE Rest("report") /\ UNCHANGED from
    BY <1>0, <2>2 DEF Rest, TypeOK
  <2> QED
    BY <1>2, <2>1, <2>2 DEF NextAgv
<1> QED
  BY <1>1, <1>2 DEF UpdateDone

LEMMA Positions ==
  ASSUME TypeOK
  PROVE  /\ agv["report"] \in Nat /\ agv["report"] >= 1
         /\ from \in Nat /\ from >= 1
BY FromPlace, AgvFacts DEF TypeOK, Writers

LEMMA NextUpdate ==
  ASSUME Inv, Working, Undisturbed, Changed("report", bits) = bits, Len(todo["report"]) > 1
  PROVE  Left(Tail(todo["report"]), rows[A], A)
<1> DEFINE u == todo["report"]
           row == rows[A]
           a == A
<1>1. Left(u, row, a)
  BY DEF Inv, Remaining
<1>2. Len(u) # 1
  <2>1. \A n : n > 1 /\ n = 1 => FALSE
    OBVIOUS
  <2> QED
    BY <2>1, Zenon
<1>3. /\ Head(u)[1] = "on" => <<a, Head(u)[2]>> \in bits
      /\ Head(u)[1] # "on" => <<a, Head(u)[2]>> \notin bits
  BY ChangedFacts
<1> HIDE DEF u, row, a
<1>4. /\ Tail(u) = <<<<"off", "RUNNING">>>>
      /\ \/ row \in {"offline", "undispatched"} /\ Head(u) = <<"off", "AUTO">>
         \/ row = "fit" /\ Head(u) = <<"on", "AUTO">>
  BY <1>1, <1>2, LeftFacts
<1>5. ASSUME Head(u) = <<"off", "AUTO">> PROVE <<a, "AUTO">> \notin bits
  BY <1>3, <1>5
<1>6. ASSUME Head(u) = <<"on", "AUTO">> PROVE <<a, "AUTO">> \in bits
  BY <1>3, <1>6
<1>7. Left(Tail(u), row, a)
  BY <1>4, <1>5, <1>6, Zenon DEF Left
<1> QED
  BY <1>7 DEF u, row, a

LEMMA DoneStep ==
  ASSUME Inv, Working, Undisturbed => Changed("report", bits) = bits, UpdateDone("report"),
         UNCHANGED <<bits, rows>>
  PROVE  /\ pc'["report"] \in {"sleep", "order", "recv"}
         /\ HandlerIdle' /\ StartsAtFirst' /\ Remaining' /\ Agreement'
<1>0. TypeOK /\ agv["report"] \in Nat /\ agv["report"] >= 1 /\ from \in Nat
  BY Positions DEF Inv
<1>1. pc'["handler"] = pc["handler"]
  BY <1>0, DoneMoves
<1>2. CASE /\ Len(todo["report"]) > 1 /\ pc'["report"] = "recv"
           /\ agv'["report"] = agv["report"] /\ todo'["report"] = Tail(todo["report"])
           /\ from' = from
  <2>1. A' = A /\ (Undisturbed' <=> Undisturbed)
    BY <1>2 DEF A, Undisturbed
  <2>2. Remaining'
    <3>1. ASSUME Undisturbed PROVE Left(Tail(todo["report"]), rows[A], A)
      BY <1>2, <3>1, NextUpdate
    <3> QED
      BY <1>2, <2>1, <3>1 DEF Remaining, Left
  <2> QED
    BY <1>1, <1>2, <2>1, <2>2 DEF HandlerIdle, StartsAtFirst, Agreement, Agrees, Inv
<1>3. CASE /\ Len(todo["report"]) = 1 /\ pc'["report"] = "order"
           /\ agv'["report"] = agv["report"] + 1
           /\ FromNext(agv["report"] + 1)
  <2>1. CASE pc["handler"] = "sleep"
    <3>1. from' = from
      BY <1>3, <2>1 DEF FromNext
    <3>2. ASSUME NEW i \in from..agv["report"] PROVE Agrees(Agvs[i])
      <4>1. Undisturbed
        BY <1>0 DEF Undisturbed
      <4>2. CASE i = agv["report"]
        BY <1>3, <4>1, <4>2, DoneAgrees DEF A
      <4>3. CASE i # agv["report"]
        BY <1>0, <4>3 DEF Inv, Agreement
      <4> QED
        BY <4>2, <4>3
    <3>3. \A a : Agrees(a)' <=> Agrees(a)
      BY DEF Agrees
    <3>4. from'..agv'["report"] - 1 = from..agv["report"]
      BY <1>0, <1>3, <3>1
    <3>5. Agreement'
      BY <3>2, <3>3, <3>4 DEF Agreement
    <3> QED
      BY <1>1, <1>3, <2>1, <3>5 DEF HandlerIdle, StartsAtFirst, Remaining, Working
  <2>2. CASE pc["handler"] # "sleep"
    <3>1. from' = agv'["report"] + 1
      BY <1>3, <2>2 DEF FromNext
    <3>2. ~ Undisturbed' /\ Agreement'
      BY <1>0, <1>3, <3>1 DEF Undisturbed, Agreement
    <3> QED
      BY <1>3, <3>2 DEF HandlerIdle, StartsAtFirst, Remaining
  <2> QED
    BY <2>1, <2>2
<1>4. CASE pc'["report"] = "sleep" /\ agv'["report"] = 1 /\ from' = from
  <2>1. Undisturbed' => Undisturbed
    BY <1>0, <1>4 DEF Undisturbed
  <2>2. Agreement'
    BY <1>4, Positions DEF Agreement, Inv
  <2> QED
    BY <1>1, <1>4, <2>1, <2>2 DEF Inv, HandlerIdle, StartsAtFirst, Remaining, Working
<1> QED
  BY <1>0, <1>2, <1>3, <1>4, DoneMoves

(* A step that leaves the AGV the round is at, and whether it is disturbed. *)
LEMMA SameAgv ==
  ASSUME TypeOK, UNCHANGED <<agv, from>>
  PROVE  A' = A /\ (Undisturbed' <=> Undisturbed)
BY DEF A, Undisturbed

(* A step of the handler, during which nothing is claimed.                  *)
LEMMA HandlerStep ==
  ASSUME Inv, ~ Undisturbed, agv'["report"] = agv["report"], from' = from,
         pc'["report"] = pc["report"]
  PROVE  HandlerIdle' /\ StartsAtFirst' /\ UpToDate' /\ Remaining' /\ Agreement'
<1>1. ~ Undisturbed' /\ agv["report"] \in Nat /\ from \in Nat
  BY Positions DEF Undisturbed, Inv
<1>2. Agreement'
  BY <1>1 DEF Agreement, Undisturbed
<1> QED
  BY <1>1, <1>2 DEF Inv, HandlerIdle, StartsAtFirst, UpToDate, Remaining

LEMMA InvStep ==
  ASSUME Inv, [Next]_vars
  PROVE  HandlerIdle' /\ StartsAtFirst' /\ UpToDate' /\ Remaining' /\ Agreement'
<1>0. /\ TypeOK /\ "report" \in Writers /\ "handler" \in Writers
      /\ agv["report"] \in Nat /\ agv["report"] >= 1 /\ from \in Nat
  BY Positions DEF Inv, Writers
<1>1. CASE GetAllAgvState
  <2>1. agv'["report"] = 1 /\ pc'["report"] = "order" /\ pc'["handler"] = pc["handler"]
    BY <1>0, <1>1 DEF GetAllAgvState, TypeOK, Inv, StartsAtFirst
  <2>2. from' = IF pc["handler"] = "sleep" THEN 1 ELSE 2
    BY <1>1 DEF GetAllAgvState
  <2> QED
    BY <2>1, <2>2
    DEF HandlerIdle, StartsAtFirst, UpToDate, Remaining, Working, Agreement, Undisturbed
<1>2. CASE AgvHasActiveOrder
  <2> DEFINE u == ReportUpdates(rows[A], busy[A])
  <2>1. /\ pc'["report"] = "recv" /\ pc'["handler"] = pc["handler"] /\ todo'["report"] = u
        /\ UNCHANGED <<bits, rows, agv, new, from, requests>>
    BY <1>0, <1>2 DEF AgvHasActiveOrder, TypeOK, A
  <2>2. A \in AgvSet
    BY <1>0, AgvFacts DEF TypeOK, A
  <2>3. rows[A] \in AllConditions /\ busy[A] \in BOOLEAN
    BY <1>0, <2>2 DEF TypeOK
  <2>4. Left(u, rows[A], A)
    BY <2>3, ReportUpdatesLeft
  <2> HIDE DEF u
  <2>5. Remaining'
    BY <2>1, <2>4 DEF Remaining, Left, A
  <2>6. Agreement' /\ (Undisturbed' <=> Undisturbed)
    BY <2>1 DEF Inv, Agreement, Agrees, Undisturbed
  <2> QED
    BY <2>1, <2>5, <2>6 DEF Inv, HandlerIdle, StartsAtFirst, UpToDate
<1>3. CASE AgvHasActiveOrderRaises \/ ModeUnconfigured("report")
  <2>1. /\ pc'["report"] = "sleep" /\ agv'["report"] = 1 /\ pc'["handler"] = pc["handler"]
        /\ from' = from
    BY <1>0, <1>3 DEF AgvHasActiveOrderRaises, ModeUnconfigured, Rest, TypeOK
  <2>2. Undisturbed' => Undisturbed
    BY <1>0, <2>1 DEF Undisturbed
  <2>3. Agreement'
    BY <2>1, Positions DEF Agreement, Inv
  <2> QED
    BY <2>1, <2>2, <2>3 DEF Inv, HandlerIdle, StartsAtFirst, UpToDate, Remaining, Working
<1>4. CASE RecvMode("report")
  <2>1. Working /\ UNCHANGED <<bits, rows, requests>>
    BY <1>4 DEF RecvMode, Working
  <2>2. CASE Changed("report", bits) = bits /\ UpdateDone("report")
    BY <2>1, <2>2, DoneStep DEF UpToDate
  <2>3. CASE /\ new' = [new EXCEPT !["report"] = Changed("report", bits)]
             /\ pc' = [pc EXCEPT !["report"] = "send"] /\ UNCHANGED <<agv, todo, from>>
    <3>1. /\ pc'["report"] = "send" /\ pc'["handler"] = pc["handler"]
          /\ new'["report"] = Changed("report", bits)
      BY <1>0, <2>3 DEF TypeOK
    <3>2. /\ Changed("report", bits)' = Changed("report", bits)
          /\ A' = A /\ (Undisturbed' <=> Undisturbed)
      BY <2>1, <2>3 DEF Changed, A, Undisturbed
    <3>3. Remaining'
      BY <2>1, <2>3, <3>2 DEF Inv, Remaining, Left
    <3>4. Agreement'
      BY <2>1, <2>3 DEF Inv, Agreement, Agrees
    <3> QED
      BY <2>1, <3>1, <3>2, <3>3, <3>4 DEF Inv, HandlerIdle, StartsAtFirst, UpToDate
  <2> QED
    BY <1>4, <2>2, <2>3 DEF RecvMode
<1>5. CASE ApplyMode("report") /\ Undisturbed
  <2>1. /\ Working /\ bits' = new["report"] /\ UNCHANGED <<rows, agv, todo, new, from, requests>>
        /\ pc'["report"] = "sent" /\ pc'["handler"] = pc["handler"]
    BY <1>0, <1>5 DEF ApplyMode, Working, TypeOK
  <2>2. bits' = Changed("report", bits)
    BY <1>5, <2>1 DEF ApplyMode, Inv, UpToDate
  <2>3. Changed("report", bits)' = bits'
    <3>1. Changed("report", bits)' = Changed("report", bits')
      BY <2>1 DEF Changed
    <3> QED
      BY <2>2, <3>1, ChangedFacts
  <2>4. A' = A /\ UpToDate' /\ (Undisturbed' <=> Undisturbed)
    BY <2>1, <2>3 DEF A, UpToDate, Undisturbed
  <2>5. \A b : b[1] # A => (b \in bits' <=> b \in bits)
    BY <2>2 DEF Changed, A
  <2>6. Agreement'
    BY <1>0, <2>1, <2>5, AgreesOthers DEF Inv
  <2>7. Remaining'
    <3> DEFINE u == todo["report"]
               row == rows[A]
               a == A
    <3>1. Left(u, row, a)
      BY <1>5, <2>1 DEF Inv, Remaining
    <3>2. Head(u)[2] = "RUNNING" => (<<a, "AUTO">> \in bits' <=> <<a, "AUTO">> \in bits)
      BY <2>2 DEF Changed, A
    <3> HIDE DEF u, row, a
    <3>3. u = <<<<"off", "RUNNING">>>> => Head(u)[2] = "RUNNING"
      OBVIOUS
    <3>4. Left(u, row, a)'
      <4>1. u' = u /\ row' = row /\ a' = a
        BY <2>1, <2>4 DEF u, row, a
      <4> QED
        BY <3>1, <3>2, <3>3, <4>1 DEF Left
    <3> QED
      BY <3>4 DEF Remaining, u, row, a
  <2> QED
    BY <2>1, <2>4, <2>6, <2>7 DEF Inv, HandlerIdle, StartsAtFirst
<1>6. CASE ApplyMode("report") /\ ~ Undisturbed
  <2>1. pc'["report"] = "sent" /\ pc["report"] # "sleep" /\ UNCHANGED <<agv, from>>
    BY <1>0, <1>6 DEF ApplyMode, TypeOK
  <2>2. ~ Undisturbed' /\ Agreement'
    BY <1>0, <1>6, <2>1 DEF Undisturbed, Agreement
  <2> QED
    BY <2>1, <2>2 DEF HandlerIdle, StartsAtFirst, UpToDate, Remaining
<1>7. CASE ModeReturns("report")
  <2>1. /\ Working /\ UNCHANGED <<bits, rows, requests>>
        /\ Undisturbed => Changed("report", bits) = bits
    BY <1>7 DEF ModeReturns, Working, Inv, UpToDate
  <2> QED
    BY <1>7, <2>1, DoneStep DEF ModeReturns, UpToDate
<1>8. CASE ModeUnconfigured("handler") \/ RecvMode("handler") \/ ApplyMode("handler") \/ ModeReturns("handler")
  <2>1. ~ Undisturbed
    BY <1>8 DEF ModeUnconfigured, RecvMode, ApplyMode, ModeReturns, Inv, HandlerIdle
  <2>2. agv'["report"] = agv["report"] /\ from' = from /\ pc'["report"] = pc["report"]
    BY <1>0, <1>8
    DEF ModeUnconfigured, RecvMode, ApplyMode, ModeReturns, UpdateDone, Rest, TypeOK
  <2> QED
    BY <2>1, <2>2, HandlerStep
<1>9. ASSUME NEW i \in DOMAIN Agvs, NEW r \in AllReports, ReportAgvStatus(i, r)
      PROVE  HandlerIdle' /\ StartsAtFirst' /\ UpToDate' /\ Remaining' /\ Agreement'
  <2>1. /\ agv'["report"] = agv["report"] /\ from' = agv["report"] + 1
        /\ pc'["report"] = pc["report"]
    BY <1>0, <1>9 DEF ReportAgvStatus, TypeOK
  <2>2. ~ Undisturbed' /\ Agreement'
    BY <1>0, <2>1 DEF Undisturbed, Agreement
  <2> QED
    BY <2>1, <2>2 DEF Inv, HandlerIdle, StartsAtFirst, UpToDate, Remaining
<1>10. CASE UNCHANGED <<bits, rows, pc, agv, todo, new, from, requests>>
  <2>1. /\ Changed("report", bits)' = Changed("report", bits) /\ A' = A
        /\ Undisturbed' <=> Undisturbed
    BY <1>10 DEF Changed, A, Undisturbed
  <2>2. Remaining'
    BY <1>10, <2>1 DEF Inv, Remaining, Working, Left
  <2> QED
    BY <1>10, <2>1, <2>2 DEF Inv, HandlerIdle, StartsAtFirst, UpToDate, Agreement, Agrees
<1> QED
  BY <1>1, <1>2, <1>3, <1>4, <1>5, <1>6, <1>7, <1>8, <1>9, <1>10, NextSteps
  DEF ConditionChanges, OrderChanges, vars, Writers

LEMMA InvInvariant == Spec => []Inv
<1>1. Init => Inv
  <2> SUFFICES ASSUME Init PROVE Inv
    OBVIOUS
  <2>1. /\ pc["report"] = "sleep" /\ pc["handler"] = "sleep" /\ agv["report"] = 1
        /\ from = 1
    BY DEF Init, Writers
  <2> QED
    BY <2>1, TypeInit
    DEF Inv, HandlerIdle, StartsAtFirst, UpToDate, Remaining, Working, Agreement
<1>2. Inv /\ [Next]_vars => Inv'
  BY InvStep, TypeStep DEF Inv
<1> QED
  BY <1>1, <1>2, PTL DEF Spec

(***************************************************************************)
(* Whatever requests came before, the bits of every AGV the round has      *)
(* passed since the last one agree with the row it read from the database. *)
(***************************************************************************)
THEOREM RoundFollowsRows == Spec => []RoundAgrees
<1>1. Inv => RoundAgrees
  BY DEF Inv, Agreement, RoundAgrees
<1> QED
  BY <1>1, InvInvariant, PTL

(***************************************************************************)
(* Nor does a step change a bit of any other AGV than the round is at.     *)
(***************************************************************************)
THEOREM OneAgvAtATime == Spec => OthersUntouched
<1>1. ASSUME Inv, [Next]_vars, Undisturbed, NEW b \in Bits, b[1] # A
      PROVE  b \in bits' <=> b \in bits
  <2>1. CASE ApplyMode("report")
    <3>1. bits' = bits \/ bits' = Changed("report", bits)
      BY <1>1, <2>1 DEF ApplyMode, Inv, UpToDate
    <3>2. b # <<A, Head(todo["report"])[2]>>
      BY <1>1
    <3> QED
      BY <3>1, <3>2, ChangedFacts
  <2>2. ~ ApplyMode("handler")
    BY <1>1 DEF ApplyMode, Inv, HandlerIdle
  <2>3. CASE UNCHANGED bits
    BY <2>3
  <2> QED
    BY <1>1, <2>1, <2>2, <2>3, NextSteps
    DEF GetAllAgvState, AgvHasActiveOrder, AgvHasActiveOrderRaises, ModeUnconfigured, RecvMode,
        ModeReturns, ReportAgvStatus, ConditionChanges, OrderChanges, vars, Writers
<1>2. Inv /\ [Next]_vars
      => [from <= agv["report"] =>
            \A b \in Bits : b[1] # Agvs[agv["report"]] => (b \in bits' <=> b \in bits)]_vars
  BY <1>1 DEF A, Undisturbed
<1> QED
  BY <1>2, InvInvariant, PTL DEF Spec, OthersUntouched
================================================================================
