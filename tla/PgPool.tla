--------------------------------- MODULE PgPool ---------------------------------
(***************************************************************************)
(* AioPostgresql.get_connect_pool.  There is one AioPostgresql object; the *)
(* first query of every task finds connect_pool None and awaits the        *)
(* creation of a pool, so that several tasks may be creating one at the    *)
(* same time.  The last to finish is kept; nothing closes the others.      *)
(***************************************************************************)
EXTENDS Naturals

CONSTANTS
  Users,      \* tasks that query the database
  NoPool,     \* connect_pool before a pool was created
  FailBudget  \* how often the creation of a pool fails

VARIABLES
  pool,   \* connect_pool, named after the user that created it
  step,   \* step[u]: where u stands in get_connect_pool
  made,   \* history: how many pools u has created
  failed  \* creations that failed so far

Init ==
  /\ pool = NoPool
  /\ step = [u \in Users |-> "idle"]
  /\ made = [u \in Users |-> 0]
  /\ failed = 0

\* the condition of the loop
WhileNone(u) == step' = [step EXCEPT ![u] = IF pool = NoPool THEN "create" ELSE "got"]

GetConnectPool(u) ==
  /\ step[u] = "idle"
  /\ WhileNone(u)
  /\ UNCHANGED <<pool, made, failed>>

\* mutant: the pool is returned and not kept
CreatePoolNotKept(u) ==
  /\ step[u] = "create"
  /\ made' = [made EXCEPT ![u] = @ + 1]
  /\ step' = [step EXCEPT ![u] = "got"]
  /\ UNCHANGED <<pool, failed>>

CreatePool(u) ==
  /\ step[u] = "create"
  /\ pool' = u
  /\ made' = [made EXCEPT ![u] = @ + 1]
  /\ step' = [step EXCEPT ![u] = "got"]
  /\ UNCHANGED failed

CreatePoolRaises(u) ==
  /\ step[u] = "create"
  /\ failed < FailBudget
  /\ failed' = failed + 1
  /\ step' = [step EXCEPT ![u] = "sleep"]
  /\ UNCHANGED <<pool, made>>

\* three seconds later; another task may have created a pool by then
Retry(u) ==
  /\ step[u] = "sleep"
  /\ WhileNone(u)
  /\ UNCHANGED <<pool, made, failed>>

\* the query on the pool returns, or raises
Queried(u) ==
  /\ step[u] = "got"
  /\ step' = [step EXCEPT ![u] = "idle"]
  /\ UNCHANGED <<pool, made, failed>>

Obtain(u) == GetConnectPool(u) \/ CreatePool(u) \/ CreatePoolRaises(u) \/ Retry(u)

--------------------------------------------------------------------------------
(* Every variable has the shape its declaration says. *)
PoolTypeOK ==
  /\ pool \in Users \cup {NoPool}
  /\ step \in [Users -> {"idle", "create", "sleep", "got"}]
  /\ made \in [Users -> Nat]
  /\ failed \in 0..FailBudget

(***************************************************************************)
(* Pools are lost, but not again and again: however the first queries of   *)
(* the tasks and their retries interleave, a task creates at most one pool *)
(* in the life of the program, so that there are never more pools than     *)
(* tasks.                                                                  *)
(***************************************************************************)
OnePoolEach == \A u \in Users : made[u] <= 1
================================================================================
