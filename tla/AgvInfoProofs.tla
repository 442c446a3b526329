----------------------------- MODULE AgvInfoProofs -----------------------------
(***************************************************************************)
(* Proofs about AgvInfo for any fleet, any faults and levels, any lifts    *)
(* and any other users of the database.                                    *)
(***************************************************************************)
EXTENDS AgvInfo, TLAPS

LEMMA Facts ==
  /\ Len(Agvs) \in Nat
  /\ DOMAIN Agvs = 1..Len(Agvs)
  /\ 1 \in DOMAIN Agvs
  /\ \A i \in DOMAIN Agvs : Agvs[i] \in AgvSet
  /\ Configured \subseteq AgvSet
  /\ Ask \notin Nat
  /\ \A k \in Kinds : Value[k] \subseteq Nat
  /\ RaiseBudget \in Nat
<1>1. Agvs \in Seq(AgvSet) /\ Agvs # <<>>
  BY InfoAssumption
<1>2. \A k \in Kinds : Value[k] \subseteq Nat
  BY InfoAssumption DEF Value
<1> QED
  BY <1>1, <1>2, InfoAssumption DEF AgvSet

LEMMA LiftFacts ==
  /\ Len(Lifts) \in Nat
  /\ DOMAIN Lifts = 1..Len(Lifts)
  /\ 1 \in DOMAIN Lifts
  /\ \A i \in DOMAIN Lifts : Lifts[i] \in LiftSet
<1>1. Lifts \in Seq(LiftSet) /\ Lifts # <<>>
  BY InfoAssumption
<1> QED
  BY <1>1 DEF LiftSet

LEMMA KindFacts ==
  /\ "error" \in Kinds
  /\ "error" \in Users
  /\ OtherUsers \subseteq Users
BY DEF Kinds, Users

--------------------------------------------------------------------------------
(* The invariant in four parts: the world, the rounds, the monitor and the  *)
(* pool.                                                                    *)

WorldOK ==
  /\ truth \in [Kinds -> [AgvSet -> Nat]]
  /\ \A k \in Kinds : \A a \in AgvSet : truth[k][a] \in Value[k]
  /\ seen \in [Kinds -> [Configured -> SUBSET Nat]]
  /\ \A k \in Kinds : \A a \in Configured : truth[k][a] \in seen[k][a]

PlaceOK ==
  /\ pc \in [Kinds -> {"sleep", "detail", "send", "sent"}]
  /\ pos \in [Kinds -> 1..Len(Agvs) + 1]
  /\ rows \in [Kinds -> [AgvSet -> Nat \cup {Ask}]]
  /\ val \in [Kinds -> Nat]

RegOK == reg \in [Kinds -> [Configured -> Nat]]

ClearOK ==
  /\ reset \subseteq LiftSet
  /\ cpc \in {"mode", "list", "post"}
  /\ lift \in DOMAIN Lifts
  /\ faulty \subseteq AgvSet
  /\ raised \in 0..RaiseBudget

(* Everything the round of k still holds was so since its query: the rows,  *)
(* the value on its way, and the registers it has passed.                   *)
RoundOK(k) ==
  /\ pc[k] # "sleep" =>
       /\ pos[k] \in DOMAIN Agvs
       /\ \A a \in Configured : rows[k][a] = Ask \/ rows[k][a] \in seen[k][a]
  /\ pc[k] \in {"send", "sent"} =>
       /\ Agvs[pos[k]] \in Configured
       /\ val[k] \in seen[k][Agvs[pos[k]]]
  /\ pc[k] = "sent" => reg[k][Agvs[pos[k]]] \in seen[k][Agvs[pos[k]]]
  /\ \A i \in 1..pos[k] - 1 :
       Agvs[i] \in Configured => reg[k][Agvs[i]] \in seen[k][Agvs[i]]

(* A task that is creating a pool has created none, and a pool that was     *)
(* created is never forgotten.                                              *)
PoolOK ==
  /\ Pg!PoolTypeOK
  /\ \A u \in Users :
       /\ made[u] \in {0, 1}
       /\ made[u] = 1 => pool # NoPool
       /\ step[u] \in {"create", "sleep"} => made[u] = 0

IInv ==
  /\ WorldOK /\ PlaceOK /\ RegOK /\ ClearOK /\ PoolOK
  /\ \A k \in Kinds : RoundOK(k)

LEMMA InitIInv == Init => IInv
<1> SUFFICES ASSUME Init PROVE IInv
  OBVIOUS
<1>1. \A k \in Kinds : \A a \in AgvSet : truth[k][a] \in Value[k]
  BY DEF Init
<1>2. truth \in [Kinds -> [AgvSet -> Nat]]
  <2>1. truth \in [Kinds -> [AgvSet -> Value["error"] \cup Levels]]
    BY DEF Init
  <2>2. Value["error"] \cup Levels \subseteq Nat
    BY Facts, KindFacts, InfoAssumption
  <2> QED
    BY <2>1, <2>2
<1>3. WorldOK
  BY <1>1, <1>2, Facts DEF Init, WorldOK
<1>4. PlaceOK
  BY Facts DEF Init, PlaceOK, NoRow
<1>5. RegOK
  BY DEF Init, RegOK
<1>6. ClearOK
  BY LiftFacts, Facts DEF Init, ClearOK
<1>7. PoolOK
  BY InfoAssumption DEF Init, PoolOK, Pg!Init, Pg!PoolTypeOK
<1>8. \A k \in Kinds : RoundOK(k)
  BY DEF Init, RoundOK
<1> QED
  BY <1>3, <1>4, <1>5, <1>6, <1>7, <1>8 DEF IInv

--------------------------------------------------------------------------------
(* The pool.                                                                *)

LEMMA ObtainPool ==
  ASSUME PoolOK, NEW u \in Users, Pg!Obtain(u)
  PROVE  PoolOK'
<1>1. ASSUME Pg!WhileNone(u), UNCHANGED <<pool, made, failed>> PROVE PoolOK'
  BY <1>1 DEF PoolOK, Pg!PoolTypeOK, Pg!WhileNone
<1>2. CASE Pg!GetConnectPool(u)
  BY <1>1, <1>2 DEF Pg!GetConnectPool
<1>3. CASE Pg!Retry(u)
  BY <1>1, <1>3 DEF Pg!Retry
<1>4. CASE Pg!CreatePool(u)
  <2>1. NoPool # u /\ step[u] = "create" /\ made[u] = 0
    BY <1>4, InfoAssumption DEF PoolOK, Pg!CreatePool
  <2> QED
    BY <1>4, <2>1 DEF PoolOK, Pg!PoolTypeOK, Pg!CreatePool
<1>5. CASE Pg!CreatePoolRaises(u)
  BY <1>5, InfoAssumption DEF PoolOK, Pg!PoolTypeOK, Pg!CreatePoolRaises
<1> QED
  BY <1>2, <1>3, <1>4, <1>5 DEF Pg!Obtain

LEMMA QueriedPool ==
  ASSUME PoolOK, NEW u \in Users, Pg!Queried(u)
  PROVE  PoolOK'
BY DEF PoolOK, Pg!PoolTypeOK, Pg!Queried

LEMMA SamePool ==
  ASSUME PoolOK, UNCHANGED poolVars
  PROVE  PoolOK'
BY DEF PoolOK, Pg!PoolTypeOK, poolVars

LEMMA QueryPool ==
  ASSUME PoolOK, NEW k \in Kinds, Query(k)
  PROVE  PoolOK'
BY QueriedPool, SamePool, KindFacts DEF Query

--------------------------------------------------------------------------------
(* The rounds.                                                              *)

LEMMA StartRowRound ==
  ASSUME IInv, NEW k \in Kinds, UNCHANGED reg,
         NEW row \in [AgvSet -> Nat \cup {Ask}], NEW i \in 1..Len(Agvs) + 1,
         StartRow(k, row, i),
         seen' \in [Kinds -> [Configured -> SUBSET Nat]],
         \A j \in Kinds \ {k} : seen'[j] = seen[j],
         \A a \in Configured : row[a] = Ask \/ row[a] \in seen'[k][a],
         \A j \in 1..i - 1 :
           Agvs[j] \in Configured => reg[k][Agvs[j]] \in seen'[k][Agvs[j]]
  PROVE  PlaceOK' /\ \A j \in Kinds : RoundOK(j)'
<1> USE DEF IInv
<1>0. NoRow \in [AgvSet -> Nat \cup {Ask}] /\ Len(Agvs) \in Nat
  BY Facts DEF NoRow
<1>1. ASSUME Rest(k, i) PROVE PlaceOK' /\ \A j \in Kinds : RoundOK(j)'
  <2>1. PlaceOK'
    BY <1>0, <1>1 DEF PlaceOK, Rest
  <2>2. pc'[k] = "sleep" /\ pos'[k] = i
    BY <1>1 DEF PlaceOK, Rest
  <2>3. RoundOK(k)'
    BY <2>2 DEF RoundOK
  <2>4. ASSUME NEW j \in Kinds \ {k} PROVE RoundOK(j)'
    <3>1. /\ pc'[j] = pc[j] /\ pos'[j] = pos[j] /\ rows'[j] = rows[j]
          /\ val'[j] = val[j] /\ seen'[j] = seen[j]
      BY <1>1 DEF PlaceOK, Rest
    <3> QED
      BY <3>1 DEF RoundOK
  <2> QED
    BY <2>1, <2>3, <2>4
<1>2. ASSUME NEW where \in {"detail", "send"}, NEW v \in Nat, Go(k, row, i, where, v),
             i \in DOMAIN Agvs,
             where = "send" => Agvs[i] \in Configured /\ v \in seen'[k][Agvs[i]]
      PROVE  PlaceOK' /\ \A j \in Kinds : RoundOK(j)'
  <2>1. PlaceOK'
    BY <1>2 DEF PlaceOK, Go
  <2>2. pc'[k] = where /\ pos'[k] = i /\ val'[k] = v /\ rows'[k] = row
    BY <1>2 DEF PlaceOK, Go
  <2>3. RoundOK(k)'
    BY <1>2, <2>2 DEF RoundOK
  <2>4. ASSUME NEW j \in Kinds \ {k} PROVE RoundOK(j)'
    <3>1. /\ pc'[j] = pc[j] /\ pos'[j] = pos[j] /\ rows'[j] = rows[j]
          /\ val'[j] = val[j] /\ seen'[j] = seen[j]
      BY <1>2 DEF PlaceOK, Go
    <3> QED
      BY <3>1 DEF RoundOK
  <2> QED
    BY <2>1, <2>3, <2>4
<1>3. CASE i > Len(Agvs)
  <2>1. Rest(k, i)
    BY <1>0, <1>3 DEF StartRow
  <2> QED
    BY <1>1, <2>1
<1>4. CASE i <= Len(Agvs)
  <2>1. i \in DOMAIN Agvs /\ Agvs[i] \in AgvSet
    BY <1>4, Facts
  <2>2. CASE row[Agvs[i]] = Ask /\ Go(k, row, i, "detail", 0)
    BY <1>2, <2>1, <2>2
  <2>3. CASE row[Agvs[i]] # Ask /\ Agvs[i] \in Configured /\ Go(k, row, i, "send", row[Agvs[i]])
    <3>1. row[Agvs[i]] \in Nat /\ row[Agvs[i]] \in seen'[k][Agvs[i]]
      BY <2>1, <2>3
    <3> QED
      BY <1>2, <2>1, <2>3, <3>1
  <2>4. CASE Rest(k, i)
    BY <1>1, <2>4
  <2> QED
    BY <1>0, <1>4, <2>2, <2>3, <2>4 DEF StartRow
<1> QED
  BY <1>0, <1>3, <1>4

LEMMA RestRound ==
  ASSUME IInv, NEW k \in Kinds, Rest(k, pos[k]), UNCHANGED <<reg, seen>>
  PROVE  PlaceOK' /\ \A j \in Kinds : RoundOK(j)'
<1> USE DEF IInv
<1>1. NoRow \in [AgvSet -> Nat \cup {Ask}] /\ pos[k] \in 1..Len(Agvs) + 1
  BY DEF NoRow, PlaceOK
<1>2. PlaceOK'
  BY <1>1 DEF PlaceOK, Rest
<1>3. pc'[k] = "sleep" /\ pos'[k] = pos[k]
  BY DEF PlaceOK, Rest
<1>4. RoundOK(k)'
  BY <1>3 DEF RoundOK
<1>5. ASSUME NEW j \in Kinds \ {k} PROVE RoundOK(j)'
  <2>1. pc'[j] = pc[j] /\ pos'[j] = pos[j] /\ rows'[j] = rows[j] /\ val'[j] = val[j]
    BY DEF PlaceOK, Rest
  <2> QED
    BY <2>1 DEF RoundOK
<1> QED
  BY <1>2, <1>4, <1>5

LEMMA FetchIInv ==
  ASSUME IInv, NEW k \in Kinds, Fetch(k)
  PROVE  IInv'
<1> USE DEF IInv
<1> DEFINE row == [a \in AgvSet |-> Row(k, a)]
<1>1. row \in [AgvSet -> Nat \cup {Ask}]
  BY DEF Row, WorldOK
<1>2. /\ seen' \in [Kinds -> [Configured -> SUBSET Nat]]
      /\ \A j \in Kinds \ {k} : seen'[j] = seen[j]
      /\ seen'[k] = [a \in Configured |-> {truth[k][a]}]
  BY Facts DEF Fetch, WorldOK
<1>3. \A a \in Configured : row[a] = Ask \/ row[a] \in seen'[k][a]
  BY <1>2, Facts DEF Row
<1>4. PlaceOK' /\ \A j \in Kinds : RoundOK(j)'
  <2>1. UNCHANGED reg /\ StartRow(k, row, 1) /\ 1 \in 1..Len(Agvs) + 1
    BY Facts DEF Fetch
  <2>2. \A j \in 1..1 - 1 : Agvs[j] \in Configured => reg[k][Agvs[j]] \in seen'[k][Agvs[j]]
    OBVIOUS
  <2> HIDE DEF row
  <2> QED
    BY <1>1, <1>2, <1>3, <2>1, <2>2, StartRowRound
<1>5. WorldOK'
  BY <1>2, Facts DEF Fetch, WorldOK
<1>6. RegOK' /\ ClearOK'
  BY DEF Fetch, RegOK, ClearOK, clearVars
<1>7. PoolOK'
  BY QueryPool DEF Fetch
<1> QED
  BY <1>4, <1>5, <1>6, <1>7

LEMMA RaisedOK ==
  ASSUME ClearOK, Raises
  PROVE  raised' \in 0..RaiseBudget
BY Facts DEF ClearOK, Raises

LEMMA FetchRaisesIInv ==
  ASSUME IInv, NEW k \in Kinds, FetchRaises(k)
  PROVE  IInv'
<1> USE DEF IInv
<1>1. PoolOK'
  BY QueryPool DEF FetchRaises
<1>2. ClearOK'
  BY RaisedOK DEF FetchRaises, ClearOK, clearVars
<1> QED
  BY <1>1, <1>2 DEF FetchRaises, WorldOK, PlaceOK, RegOK, RoundOK, roundVars

LEMMA GetAgvErrorInfoIInv ==
  ASSUME IInv, GetAgvErrorInfo
  PROVE  IInv'
<1> USE DEF IInv
<1> DEFINE a == Agvs[pos["error"]]
<1>1. "error" \in Kinds /\ pos["error"] \in DOMAIN Agvs /\ a \in AgvSet
  BY Facts, KindFacts DEF GetAgvErrorInfo, RoundOK
<1>2. rows["error"] \in [AgvSet -> Nat \cup {Ask}] /\ Len(Agvs) \in Nat
  BY <1>1, Facts DEF PlaceOK
<1>3. UNCHANGED <<truth, reg, seen>> /\ WorldOK' /\ RegOK' /\ ClearOK' /\ PoolOK'
  BY SamePool DEF GetAgvErrorInfo, WorldOK, RegOK, ClearOK, clearVars
<1>4. CASE a \in Configured /\ Go("error", rows["error"], pos["error"], "send", truth["error"][a])
  <2>1. truth["error"][a] \in Nat /\ truth["error"][a] \in seen["error"][a]
    BY <1>1, <1>4, Facts DEF WorldOK
  <2>2. PlaceOK'
    BY <1>1, <1>2, <1>4, <2>1 DEF PlaceOK, Go
  <2>3. /\ pc'["error"] = "send" /\ pos'["error"] = pos["error"]
        /\ val'["error"] = truth["error"][a] /\ rows'["error"] = rows["error"]
    BY <1>1, <1>4 DEF PlaceOK, Go
  <2>4. RoundOK("error")'
    BY <1>1, <1>3, <1>4, <2>1, <2>3 DEF RoundOK, GetAgvErrorInfo
  <2>5. ASSUME NEW j \in Kinds \ {"error"} PROVE RoundOK(j)'
    <3>1. pc'[j] = pc[j] /\ pos'[j] = pos[j] /\ rows'[j] = rows[j] /\ val'[j] = val[j]
      BY <1>4 DEF PlaceOK, Go
    <3> QED
      BY <1>3, <3>1 DEF RoundOK
  <2> QED
    BY <1>3, <2>2, <2>4, <2>5
<1>5. CASE Rest("error", pos["error"])
  BY <1>1, <1>3, <1>5, RestRound
<1> QED
  BY <1>4, <1>5 DEF GetAgvErrorInfo

LEMMA GetAgvErrorInfoRaisesIInv ==
  ASSUME IInv, GetAgvErrorInfoRaises
  PROVE  IInv'
<1> USE DEF IInv
<1>1. PlaceOK' /\ \A j \in Kinds : RoundOK(j)'
  BY RestRound, KindFacts DEF GetAgvErrorInfoRaises
<1>2. ClearOK'
  BY RaisedOK DEF GetAgvErrorInfoRaises, ClearOK, clearVars
<1> QED
  BY <1>1, <1>2, SamePool DEF GetAgvErrorInfoRaises, WorldOK, RegOK

LEMMA ApplySendIInv ==
  ASSUME IInv, NEW k \in Kinds, ApplySend(k)
  PROVE  IInv'
<1> USE DEF IInv
<1> DEFINE a == Agvs[pos[k]]
<1>1. a \in Configured /\ val[k] \in Nat /\ val[k] \in seen[k][a]
  BY DEF ApplySend, RoundOK, PlaceOK
<1>2. reg[k] \in [Configured -> Nat] /\ reg' = [reg EXCEPT ![k] = [reg[k] EXCEPT ![a] = val[k]]]
  BY DEF ApplySend, RegOK
<1>3. /\ reg'[k] = [reg[k] EXCEPT ![a] = val[k]]
      /\ \A j \in Kinds \ {k} : reg'[j] = reg[j] /\ pc'[j] = pc[j]
      /\ pc'[k] = "sent"
  BY <1>2 DEF ApplySend, RegOK, PlaceOK
<1>4. RegOK'
  BY <1>1, <1>2 DEF RegOK
<1>5. UNCHANGED <<truth, pos, rows, val, seen>>
  BY DEF ApplySend
<1>6. RoundOK(k)'
  <2>1. reg'[k][a] = val[k]
    BY <1>1, <1>2, <1>3
  <2>2. \A i \in 1..pos[k] - 1 :
          Agvs[i] \in Configured => reg'[k][Agvs[i]] \in seen[k][Agvs[i]]
    BY <1>1, <1>2, <1>3 DEF RoundOK
  <2> QED
    BY <1>1, <1>3, <1>5, <2>1, <2>2 DEF RoundOK, ApplySend
<1>7. ASSUME NEW j \in Kinds \ {k} PROVE RoundOK(j)'
  BY <1>3, <1>5 DEF RoundOK
<1>8. WorldOK' /\ ClearOK' /\ PoolOK'
  BY SamePool DEF ApplySend, WorldOK, ClearOK, clearVars
<1>9. PlaceOK'
  BY DEF ApplySend, PlaceOK
<1> QED
  BY <1>4, <1>6, <1>7, <1>8, <1>9

LEMMA SendReturnsIInv ==
  ASSUME IInv, NEW k \in Kinds, SendReturns(k)
  PROVE  IInv'
<1> USE DEF IInv
<1>1. /\ pos[k] \in DOMAIN Agvs
      /\ rows[k] \in [AgvSet -> Nat \cup {Ask}]
      /\ \A a \in Configured : rows[k][a] = Ask \/ rows[k][a] \in seen[k][a]
      /\ reg[k][Agvs[pos[k]]] \in seen[k][Agvs[pos[k]]]
  BY DEF SendReturns, RoundOK, PlaceOK
<1>2. pos[k] + 1 \in 1..Len(Agvs) + 1
  BY <1>1, Facts
<1>3. \A j \in 1..(pos[k] + 1) - 1 :
        Agvs[j] \in Configured => reg[k][Agvs[j]] \in seen[k][Agvs[j]]
  <2>1. \A j \in 1..(pos[k] + 1) - 1 : j \in 1..pos[k] - 1 \/ j = pos[k]
    BY <1>1, Facts
  <2> QED
    BY <1>1, <2>1 DEF RoundOK
<1>4. UNCHANGED <<truth, reg, seen>> /\ StartRow(k, rows[k], pos[k] + 1)
  BY DEF SendReturns
<1>5. seen' \in [Kinds -> [Configured -> SUBSET Nat]]
  BY <1>4 DEF WorldOK
<1>6. PlaceOK' /\ \A j \in Kinds : RoundOK(j)'
  BY <1>1, <1>2, <1>3, <1>4, <1>5, StartRowRound
<1> QED
  BY <1>6, SamePool DEF SendReturns, WorldOK, RegOK, ClearOK, clearVars

--------------------------------------------------------------------------------
(* The monitor and the world.                                               *)

LEMMA BecomesOK ==
  ASSUME IInv, NEW new \in [Kinds -> [AgvSet -> Nat]],
         \A k \in Kinds : \A a \in AgvSet : new[k][a] \in Value[k],
         Becomes(new)
  PROVE  WorldOK' /\ \A k \in Kinds : \A a \in Configured : seen[k][a] \subseteq seen'[k][a]
<1> USE DEF IInv
<1>1. truth' = new /\ seen' = [k \in Kinds |-> [a \in Configured |-> seen[k][a] \cup {new[k][a]}]]
  BY DEF Becomes
<1>2. seen' \in [Kinds -> [Configured -> SUBSET Nat]]
  BY <1>1, Facts DEF WorldOK
<1>3. \A k \in Kinds : \A a \in Configured : seen'[k][a] = seen[k][a] \cup {new[k][a]}
  BY <1>1
<1> QED
  BY <1>1, <1>2, <1>3 DEF WorldOK

LEMMA MoreSeen ==
  ASSUME IInv, UNCHANGED roundVars,
         \A k \in Kinds : \A a \in Configured : seen[k][a] \subseteq seen'[k][a]
  PROVE  PlaceOK' /\ RegOK' /\ \A k \in Kinds : RoundOK(k)'
<1> USE DEF IInv
<1>1. PlaceOK' /\ RegOK'
  BY DEF PlaceOK, RegOK, roundVars
<1>2. ASSUME NEW k \in Kinds PROVE RoundOK(k)'
  BY DEF RoundOK, roundVars
<1> QED
  BY <1>1, <1>2

LEMMA LiftOK ==
  ASSUME ClearOK, NextLift \/ Abandon
  PROVE  lift' \in DOMAIN Lifts /\ faulty' \subseteq AgvSet /\ cpc' = "mode"
BY LiftFacts DEF ClearOK, NextLift, Abandon

LEMMA MonitorIInv ==
  ASSUME IInv, MonitorClearError
  PROVE  IInv'
<1> USE DEF IInv
<1>1. CASE ModeIsReset
  <2>1. ClearOK'
    BY <1>1, LiftOK DEF ModeIsReset, ClearOK
  <2>2. UNCHANGED <<truth, roundVars, seen, poolVars>>
    BY <1>1 DEF ModeIsReset
  <2>3. WorldOK' /\ PoolOK'
    BY <2>2, SamePool DEF WorldOK
  <2>4. PlaceOK' /\ RegOK' /\ \A k \in Kinds : RoundOK(k)'
    BY <2>2, MoreSeen
  <2> QED
    BY <2>1, <2>3, <2>4
<1>2. CASE GetAllAgvInfo
  <2>1. ClearOK'
    BY <1>2, LiftOK, RaisedOK DEF GetAllAgvInfo, ClearOK
  <2>2. UNCHANGED <<truth, roundVars, seen, poolVars>>
    BY <1>2 DEF GetAllAgvInfo
  <2>3. WorldOK' /\ PoolOK'
    BY <2>2, SamePool DEF WorldOK
  <2>4. PlaceOK' /\ RegOK' /\ \A k \in Kinds : RoundOK(k)'
    BY <2>2, MoreSeen
  <2> QED
    BY <2>1, <2>3, <2>4
<1>3. CASE ClearAgvError
  <2>1. ClearOK'
    BY <1>3, LiftOK, RaisedOK DEF ClearAgvError, ClearOK
  <2>2. UNCHANGED roundVars /\ PoolOK'
    BY <1>3, SamePool DEF ClearAgvError
  <2>3. CASE Becomes(Cleared)
    <3>1. "error" \in Kinds /\ truth["error"] \in [AgvSet -> Nat]
      BY KindFacts DEF WorldOK
    <3>2. Cleared = [truth EXCEPT !["error"] =
                       [a \in AgvSet |-> IF a \in faulty THEN 0 ELSE truth["error"][a]]]
      BY <3>1 DEF Cleared, WorldOK
    <3>3. Cleared \in [Kinds -> [AgvSet -> Nat]]
      BY <3>1, <3>2 DEF WorldOK
    <3>4. /\ Cleared["error"] = [a \in AgvSet |-> IF a \in faulty THEN 0 ELSE truth["error"][a]]
          /\ \A k \in Kinds \ {"error"} : Cleared[k] = truth[k]
      BY <3>1, <3>2 DEF WorldOK
    <3>5. 0 \in Value["error"]
      BY KindFacts DEF Value
    <3>6. \A a \in AgvSet : Cleared["error"][a] \in {0, truth["error"][a]}
      BY <3>4
    <3>7. \A k \in Kinds : \A a \in AgvSet : Cleared[k][a] \in Value[k]
      BY <3>4, <3>5, <3>6 DEF WorldOK
    <3>8. WorldOK' /\ \A k \in Kinds : \A a \in Configured : seen[k][a] \subseteq seen'[k][a]
      BY <2>3, <3>3, <3>7, BecomesOK
    <3> QED
      BY <2>1, <2>2, <3>8, MoreSeen
  <2>4. CASE UNCHANGED <<truth, seen>>
    <3>1. WorldOK'
      BY <2>4 DEF WorldOK
    <3>2. \A k \in Kinds : \A a \in Configured : seen[k][a] \subseteq seen'[k][a]
      BY <2>4
    <3> QED
      BY <2>1, <2>2, <3>1, <3>2, MoreSeen
  <2> QED
    BY <1>3, <2>3, <2>4 DEF ClearAgvError
<1> QED
  BY <1>1, <1>2, <1>3 DEF MonitorClearError

LEMMA UsePoolIInv ==
  ASSUME IInv, UsePool
  PROVE  IInv'
<1> USE DEF IInv
<1>1. PoolOK'
  BY ObtainPool, QueriedPool, KindFacts DEF UsePool
<1>2. UNCHANGED <<truth, roundVars, seen, reset, clearVars, raised>>
  BY DEF UsePool
<1>3. WorldOK' /\ ClearOK'
  BY <1>2 DEF WorldOK, ClearOK, clearVars
<1>4. PlaceOK' /\ RegOK' /\ \A k \in Kinds : RoundOK(k)'
  BY <1>2, MoreSeen
<1> QED
  BY <1>1, <1>3, <1>4

LEMMA WorldIInv ==
  ASSUME IInv, World
  PROVE  IInv'
<1> USE DEF IInv
<1>1. ASSUME NEW k \in Kinds, NEW a \in AgvSet, NEW v \in Value[k], TruthChanges(k, a, v)
      PROVE  IInv'
  <2> DEFINE new == [truth EXCEPT ![k] = [truth[k] EXCEPT ![a] = v]]
  <2>1. Becomes(new) /\ UNCHANGED <<roundVars, reset, clearVars, raised, poolVars>>
    BY <1>1 DEF TruthChanges, WorldOK
  <2>2. truth[k] \in [AgvSet -> Nat] /\ v \in Nat
    BY Facts DEF WorldOK
  <2>3. new \in [Kinds -> [AgvSet -> Nat]]
    BY <2>2 DEF WorldOK
  <2>4. new[k] = [truth[k] EXCEPT ![a] = v] /\ \A j \in Kinds \ {k} : new[j] = truth[j]
    BY DEF WorldOK
  <2>5. \A b \in AgvSet : new[k][b] \in {v, truth[k][b]}
    BY <2>2, <2>4
  <2>6. \A j \in Kinds : \A b \in AgvSet : new[j][b] \in Value[j]
    BY <2>4, <2>5 DEF WorldOK
  <2> HIDE DEF new
  <2>7. WorldOK' /\ \A j \in Kinds : \A b \in Configured : seen[j][b] \subseteq seen'[j][b]
    BY <2>1, <2>3, <2>6, BecomesOK
  <2>8. ClearOK' /\ PoolOK'
    BY <2>1, SamePool DEF ClearOK, clearVars
  <2> QED
    BY <2>1, <2>7, <2>8, MoreSeen
<1>2. ASSUME NEW l \in LiftSet, ResetChanges(l)
      PROVE  IInv'
  <2>1. UNCHANGED <<truth, roundVars, seen, clearVars, raised, poolVars>>
    BY <1>2 DEF ResetChanges
  <2>2. ClearOK'
    BY <1>2, <2>1 DEF ResetChanges, ClearOK, clearVars
  <2>3. WorldOK' /\ PoolOK'
    BY <2>1, SamePool DEF WorldOK
  <2>4. PlaceOK' /\ RegOK' /\ \A k \in Kinds : RoundOK(k)'
    BY <2>1, MoreSeen
  <2> QED
    BY <2>2, <2>3, <2>4
<1> QED
  BY <1>1, <1>2 DEF World

--------------------------------------------------------------------------------
LEMMA NextIInv == IInv /\ [Next]_vars => IInv'
<1> SUFFICES ASSUME IInv, [Next]_vars PROVE IInv'
  OBVIOUS
<1>1. ASSUME NEW k \in Kinds, Round(k) PROVE IInv'
  BY <1>1, FetchIInv, FetchRaisesIInv, GetAgvErrorInfoIInv, GetAgvErrorInfoRaisesIInv,
     ApplySendIInv, SendReturnsIInv DEF Round
<1>2. CASE UNCHANGED vars
  <2>1. UNCHANGED <<truth, roundVars, seen, reset, clearVars, raised, poolVars>>
    BY <1>2 DEF vars
  <2>2. WorldOK' /\ ClearOK' /\ PoolOK'
    BY <2>1, SamePool DEF IInv, WorldOK, ClearOK, clearVars
  <2>3. PlaceOK' /\ RegOK' /\ \A k \in Kinds : RoundOK(k)'
    BY <2>1, MoreSeen
  <2> QED
    BY <2>2, <2>3 DEF IInv
<1> QED
  BY <1>1, <1>2, MonitorIInv, UsePoolIInv, WorldIInv DEF Next

LEMMA Invariant == Spec => []IInv
<1> QED
  BY InitIInv, NextIInv, PTL DEF Spec

(* AgvInfo keeps the types of its variables; a round never sends anything  *)
(* for an AGV that has no register (the KeyError of device.py:142, 152).    *)
THEOREM TypeInvariant == Spec => []TypeOK
<1>1. IInv => TypeOK
  <2> SUFFICES ASSUME IInv PROVE TypeOK
    OBVIOUS
  <2>1. \A k \in Kinds : pc[k] # "sleep" => pos[k] \in DOMAIN Agvs
    BY DEF IInv, RoundOK
  <2>2. \A k \in Kinds : pc[k] \in {"send", "sent"} => Agvs[pos[k]] \in Configured
    BY DEF IInv, RoundOK
  <2> QED
    BY <2>1, <2>2 DEF IInv, TypeOK, WorldOK, PlaceOK, RegOK, ClearOK, PoolOK
<1> QED
  BY <1>1, Invariant, PTL

(* What the lifts are shown was true since the round asked, for fleets of   *)
(* any size, faults and clearings at any moment (adapter.py:84-122).        *)
THEOREM RegistersShowRecent == Spec => []ShowsRecent
<1>1. IInv => ShowsRecent
  BY DEF IInv, RoundOK, ShowsRecent
<1> QED
  BY <1>1, Invariant, PTL

(* Any number of tasks create at most one pool each (aio_postgresql.py:27). *)
THEOREM PoolsBounded == Spec => []OnePoolEach
<1>1. IInv => OnePoolEach
  BY DEF IInv, PoolOK, OnePoolEach, Pg!OnePoolEach
<1> QED
  BY <1>1, Invariant, PTL
================================================================================
