------------------------------ MODULE ReverseList ------------------------------
(***************************************************************************)
(* REPORT_REVERSE_CAR_NUMBER: the cars that have to be moved out of the    *)
(* way are written as a list over Length registers of the base device, and *)
(* over the registers that follow if the list is longer.  The monitor      *)
(* zeroes the Length registers when a lift is away from the docking level: *)
(* it reads DOCKED, reads the registers, sleeps three seconds and writes.  *)
(* Here the numbers go through the frames of McFrame: a list with a number *)
(* that has not four digits is refused, which send_register does not       *)
(* notice, and the rest of the answer stays on the connection.  A recv     *)
(* that finds it there may take anything for its answer, may raise, or may *)
(* wait for ever with the lock of the one client held.                     *)
(***************************************************************************)
EXTENDS McFrame

CONSTANTS
  Lifts,     \* get_all_sub_devices(), in order
  Length,    \* LENGTH of REPORT_REVERSE_CAR_NUMBER
  Above,     \* registers after those that are looked at
  Lists,     \* lists of numbers that are reported
  Handlers,  \* HTTP requests handled at the same time
  Segments   \* the answer to a read may come in segments

LiftSet   == {Lifts[i] : i \in DOMAIN Lifts}
Registers == 1..(Length + Above)

ASSUME ReverseAssumption ==
  /\ Lifts \in Seq(LiftSet)
  /\ Lifts # <<>>
  /\ Length \in Nat \ {0}
  /\ Above \in Nat
  /\ Lists \subseteq {s \in Seq(Number) : Len(s) <= Length + Above}
  /\ Segments \in BOOLEAN

VARIABLES
  reg,     \* the registers
  docked,  \* lifts with DOCKED on
  lift,    \* position in Lifts of the lift the monitor deals with
  stage,   \* and what it does next
  hpc,     \* hpc[h]: what the handler of a request does next
  list,    \* list[h]: the numbers it reports
  rest,    \* the rest of an answer is still on the connection
  stuck    \* a recv that misread a length holds the lock and waits

monitorVars == <<lift, stage>>
requestVars == <<hpc, list>>
vars == <<reg, docked, monitorVars, requestVars, rest, stuck>>

Init ==
  /\ reg = [r \in Registers |-> 0]
  /\ docked \in SUBSET LiftSet
  /\ lift = 1
  /\ stage = "docked"
  /\ hpc = [h \in Handlers |-> "idle"]
  /\ list = [h \in Handlers |-> <<>>]
  /\ rest = FALSE
  /\ stuck = FALSE

--------------------------------------------------------------------------------
(* The PLC gets a list.                                                     *)

Zeros == [i \in 1..Length |-> 0]

\* the lists it takes, and what it makes of their numbers
Shown ==
  [values \in {v \in Lists \cup {Zeros} : Accepts(v)} |->
     [r \in DOMAIN values |-> Taken(values, r)]]

Stored(values) ==
  [r \in Registers |-> IF r \in DOMAIN values THEN Shown[values][r] ELSE reg[r]]

\* a refusal is 18 characters longer than what is read of an answer
Send(values) ==
  /\ ~ stuck
  /\ \/ values \in DOMAIN Shown /\ reg' = Stored(values) /\ UNCHANGED rest
     \/ values \notin DOMAIN Shown /\ rest' = TRUE /\ UNCHANGED reg

--------------------------------------------------------------------------------
(* report_agv_reverse_car_number: a list that is too long is logged.        *)

Report(h, values) ==
  /\ hpc[h] = "idle"
  /\ hpc' = [hpc EXCEPT ![h] = "send"]
  /\ list' = [list EXCEPT ![h] = values]
  /\ UNCHANGED <<reg, docked, monitorVars, rest, stuck>>

\* for the first time or again
ApplyReport(h) ==
  /\ hpc[h] \in {"send", "sent"}
  /\ Send(list[h])
  /\ hpc' = [hpc EXCEPT ![h] = "sent"]
  /\ UNCHANGED <<docked, monitorVars, list, stuck>>

ReportReturns(h) ==
  /\ hpc[h] = "sent"
  /\ hpc' = [hpc EXCEPT ![h] = "idle"]
  /\ list' = [list EXCEPT ![h] = <<>>]
  /\ UNCHANGED <<reg, docked, monitorVars, rest, stuck>>

--------------------------------------------------------------------------------
(* monitor_clear_signal, as far as it is about the list.                    *)

\* mutant: the round goes on after the last lift
NextLiftBeyond ==
  /\ stage' = "docked"
  /\ lift' = lift + 1

NextLift ==
  /\ stage' = "docked"
  /\ lift' = IF lift < Len(Lifts) THEN lift + 1 ELSE 1

\* an answer cut short, or one behind the rest of another, may be read as anything
Misread ==
  \/ ~ rest /\ Segments /\ rest' = TRUE
  \/ rest /\ rest' \in BOOLEAN

ReadyDocking ==
  /\ stage = "docked"
  /\ ~ stuck
  /\ \E at \in BOOLEAN :
       /\ \/ ~ rest /\ UNCHANGED rest /\ at = (Lifts[lift] \in docked)
          \/ Misread
       /\ IF at THEN NextLift ELSE stage' = "read" /\ UNCHANGED lift
  /\ UNCHANGED <<reg, docked, requestVars, stuck>>

\* mutant: only the first number is looked at
AnyOfFirst(n) == n >= 1 /\ reg[1] # 0

\* any(rr) of the first n registers
AnyOf(n) == \E r \in 1..n : reg[r] # 0

RequireResetIs(b) == IF b THEN stage' = "wait" /\ UNCHANGED lift ELSE NextLift

\* of an answer in segments the numbers that have arrived whole are used
RequireReset ==
  /\ stage = "read"
  /\ ~ stuck
  /\ \/ ~ rest /\ RequireResetIs(AnyOf(Length)) /\ UNCHANGED rest
     \/ ~ rest /\ Misread /\ \E n \in 0..Length - 1 : RequireResetIs(AnyOf(n))
     \/ rest /\ Misread /\ \E b \in BOOLEAN : RequireResetIs(b)
  /\ UNCHANGED <<reg, docked, requestVars, stuck>>

\* asyncio.sleep(3)
Awake ==
  /\ stage = "wait"
  /\ stage' = "send"
  /\ UNCHANGED <<reg, docked, lift, requestVars, rest, stuck>>

ApplyReset ==
  /\ stage \in {"send", "sent"}
  /\ Send(Zeros)
  /\ stage' = "sent"
  /\ UNCHANGED <<docked, lift, requestVars, stuck>>

ResetReturns ==
  /\ stage = "sent"
  /\ NextLift
  /\ UNCHANGED <<reg, docked, requestVars, rest, stuck>>

--------------------------------------------------------------------------------
(* A recv of any task, the monitor's included, that finds the rest of an    *)
(* answer: it raises and the connection is opened again, or its length asks *)
(* for reads no answer follows; then only the end of the connection frees   *)
(* the lock.  And the lifts.                                                *)

Reopen ==
  /\ rest
  /\ ~ stuck
  /\ rest' = FALSE
  /\ UNCHANGED <<reg, docked, monitorVars, requestVars, stuck>>

Stick ==
  /\ rest
  /\ stuck' = TRUE
  /\ UNCHANGED <<reg, docked, monitorVars, requestVars, rest>>

ConnectionEnds ==
  /\ stuck
  /\ stuck' = FALSE
  /\ UNCHANGED <<reg, docked, monitorVars, requestVars, rest>>

MoveLift(l) ==
  /\ docked' = IF l \in docked THEN docked \ {l} ELSE docked \cup {l}
  /\ UNCHANGED <<reg, monitorVars, requestVars, rest, stuck>>

--------------------------------------------------------------------------------
MonitorClearSignal == ReadyDocking \/ RequireReset \/ Awake \/ ApplyReset \/ ResetReturns

Request ==
  \E h \in Handlers :
    (\E values \in Lists : Report(h, values)) \/ ApplyReport(h) \/ ReportReturns(h)

Connection == Reopen \/ Stick \/ ConnectionEnds

Next == MonitorClearSignal \/ Request \/ Connection \/ \E l \in LiftSet : MoveLift(l)

Spec == Init /\ [][Next]_vars

(* The event loop repeats the monitor for ever, and a send returns. *)
Fairness == WF_vars(MonitorClearSignal) /\ WF_vars(ResetReturns)

FairSpec == Spec /\ Fairness

--------------------------------------------------------------------------------
(* Every variable has the shape its declaration says. *)
TypeOK ==
  /\ reg \in [Registers -> Word]
  /\ docked \subseteq LiftSet
  /\ lift \in DOMAIN Lifts
  /\ stage \in {"docked", "read", "wait", "send", "sent"}
  /\ hpc \in [Handlers -> {"idle", "send", "sent"}]
  /\ list \in [Handlers -> Lists \cup {<<>>}]
  /\ rest \in BOOLEAN
  /\ stuck \in BOOLEAN

(***************************************************************************)
(* A list is written as it is or not at all: when every number fits a      *)
(* register the registers it reaches show just these numbers, and when one *)
(* does not nothing changes; half a list or another number never appears.  *)
(***************************************************************************)
Fits(values) == \A i \in DOMAIN values : values[i] \in Word

WrittenAsIs(values) ==
  \/ Fits(values) /\ \A r \in Registers :
       reg'[r] = IF r <= Len(values) THEN values[r] ELSE reg[r]
  \/ ~ Fits(values) /\ reg' = reg

AsItIs == [][\A h \in Handlers : ApplyReport(h) => WrittenAsIs(list[h])]_vars

(***************************************************************************)
(* The PLC, which only counts the characters of a frame, takes it just     *)
(* when each number has four digits of its own: no two wrong widths make   *)
(* up for each other (aio_mc_client.py:117-129).                           *)
(***************************************************************************)
FrameLength ==
  \A h \in Handlers :
    hpc[h] \in {"send", "sent"} =>
      (list[h] \in DOMAIN Shown <=> \A i \in DOMAIN list[h] : FourDigits(Encode(list[h][i])))

(***************************************************************************)
(* Once a lift is away for good the list goes, and goes again whenever one *)
(* is reported, whatever the other lifts do, unless the connection keeps   *)
(* having something on it that is not the answer, or a recv that found it  *)
(* there waits for ever.                                                   *)
(***************************************************************************)
Cleared == \A r \in 1..Length : reg[r] = 0

ListCleared ==
  \A l \in LiftSet : <>[](l \notin docked) /\ <>[] ~ rest => []<>Cleared
================================================================================
