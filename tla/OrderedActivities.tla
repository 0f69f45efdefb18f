--------------------------- MODULE OrderedActivities ---------------------------
(***************************************************************************)
(* What checkpointed runs promise.  The activities of a run take effect    *)
(* one after the other, each exactly once and only when all before it are  *)
(* checkpointed; a checkpoint follows its effect, and the last one         *)
(* completes the run.  A run may be given up at any time, which leaves at  *)
(* most the activity of that moment to a late worker.  Claims, leases,     *)
(* budgets, retries and crashes are below this level.                      *)
(***************************************************************************)
EXTENDS Naturals

CONSTANTS Runs, Last   \* the activities of a run are 1..Last

VARIABLES
  status,        \* where each run stands
  checkpointed,  \* how many of its activities are checkpointed
  effects        \* how often each activity took effect

vars == <<status, checkpointed, effects>>

Init ==
  /\ status       = [r \in Runs |-> "absent"]
  /\ checkpointed = [r \in Runs |-> 0]
  /\ effects      = [r \in Runs |-> [s \in 1..Last |-> 0]]

(* A run is made, once. *)
Make(r) ==
  /\ status[r] = "absent"
  /\ status' = [status EXCEPT ![r] = "open"]
  /\ UNCHANGED <<checkpointed, effects>>

(* The next activity takes effect, for the first and only time. *)
TakeEffect(r) ==
  LET s == checkpointed[r] + 1 IN
  /\ status[r] # "absent"
  /\ s <= Last
  /\ effects[r][s] = 0
  /\ effects' = [effects EXCEPT ![r][s] = 1]
  /\ UNCHANGED <<status, checkpointed>>

(* What took effect is checkpointed; the last checkpoint completes the run. *)
Checkpoint(r) ==
  LET s == checkpointed[r] + 1 IN
  /\ status[r] = "open"
  /\ s <= Last
  /\ effects[r][s] = 1
  /\ checkpointed' = [checkpointed EXCEPT ![r] = s]
  /\ status' = [status EXCEPT ![r] = IF s = Last THEN "completed" ELSE "open"]
  /\ UNCHANGED effects

(* An open run is given up. *)
GiveUp(r) ==
  /\ status[r] = "open"
  /\ \E end \in {"failed", "cancelled"} : status' = [status EXCEPT ![r] = end]
  /\ UNCHANGED <<checkpointed, effects>>

Next == \E r \in Runs : Make(r) \/ TakeEffect(r) \/ Checkpoint(r) \/ GiveUp(r)

Spec == Init /\ [][Next]_vars
===============================================================================
