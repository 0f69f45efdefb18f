--------------------------- MODULE PostCallWorkflow ---------------------------
(***************************************************************************)
(* Checkpointed post-call runs (packages/workflows/src/index.ts) and the   *)
(* workers that execute them (apps/workflow-worker/src/index.ts).  Each    *)
(* repository call is synchronous, hence one step.  runOnce makes its      *)
(* calls back to back, but the repository is driven by whoever holds an    *)
(* execution, so the steps of a worker interleave here with those of       *)
(* others, with cancellation, with the clock and with crashes.             *)
(*                                                                         *)
(* Steps are numbered in their order: generate_summary 1, evaluate 2,      *)
(* record_follow_up_guard 3, finalize 4.  `wait' is what is left until     *)
(* next_attempt_at and `lease' until expires_at, as in TransactionalOutbox.*)
(***************************************************************************)
EXTENDS Integers, Sequences, FiniteSets

CONSTANTS
  Runs,          \* workflow runs, one per completed session
  Workers,       \* callers of the repository
  Tokens,        \* claim tokens their factories may issue
  NoToken, NoRun,
  Budgets,       \* max_attempts a worker may be configured with
  DefaultBudget, \* max_attempts of a run that was never claimed
  Lease, RetryDelay,
  MaxRuns        \* maxRunsPerTenant

ASSUME WorkflowAssumption ==
  /\ NoToken \notin Tokens
  /\ NoRun \notin Runs
  /\ Budgets \subseteq Nat \ {0}
  /\ DefaultBudget \in Nat \ {0}
  /\ Lease \in Nat \ {0}
  /\ RetryDelay \in Nat \ {0}
  /\ MaxRuns \in Nat \ {0}

VARIABLES
  run,         \* stored state of each run
  receipts,    \* step receipts of each run, oldest first
  usedTokens,  \* claim tokens issued so far
  ledger,      \* steps whose activity result is recorded
  effects,     \* how often each activity took effect
  worker       \* the execution each worker holds

runVars  == <<run, receipts, usedTokens>>
vars     == <<run, receipts, usedTokens, ledger, effects, worker>>

Steps    == 1..4
Finalize == 4

Terminals == {"completed", "failed", "cancelled"}
Statuses  == {"absent", "queued", "running", "waiting"} \cup Terminals

Claim == [token : Tokens \cup {NoToken}, attempt : Nat, lease : 0..Lease]
NoClaim == [token |-> NoToken, attempt |-> 0, lease |-> 0]

RunState ==
  [status : Statuses, step : Steps, attempts : [Steps -> Nat], budget : Nat,
   pinned : BOOLEAN, wait : 0..RetryDelay, claim : Claim,
   artifacts : SUBSET Steps]

AbsentRun ==
  [status |-> "absent", step |-> 1, attempts |-> [s \in Steps |-> 0],
   budget |-> DefaultBudget, pinned |-> FALSE, wait |-> 0, claim |-> NoClaim,
   artifacts |-> {}]

Receipt ==
  [step : Steps, attempt : Nat,
   outcome : {"checkpointed", "retry_scheduled"} \cup Terminals]

Phases == {"idle", "claimed", "artifact", "retryable", "rejected"}

Execution ==
  [phase : Phases, run : Runs \cup {NoRun}, token : Tokens \cup {NoToken},
   step : Steps, attempt : Nat, artifacts : SUBSET Steps]

Idle ==
  [phase |-> "idle", run |-> NoRun, token |-> NoToken, step |-> 1,
   attempt |-> 0, artifacts |-> {}]

Existing == {r \in Runs : run[r].status # "absent"}

Init ==
  /\ run        = [r \in Runs |-> AbsentRun]
  /\ receipts   = [r \in Runs |-> <<>>]
  /\ usedTokens = {}
  /\ ledger     = [r \in Runs |-> {}]
  /\ effects    = [r \in Runs |-> [s \in Steps |-> 0]]
  /\ worker     = [w \in Workers |-> Idle]

-------------------------------------------------------------------------------
(* enqueueSessionCompletion; a repeated one is answered from the first.     *)
EnqueueSessionCompletion(r) ==
  /\ run[r].status = "absent"
  /\ Cardinality(Existing) < MaxRuns
  /\ run' = [run EXCEPT ![r].status = "queued"]
  /\ UNCHANGED <<receipts, usedTokens, ledger, effects, worker>>

Log(r, step, attempt, outcome) ==
  receipts' = [receipts EXCEPT
    ![r] = Append(@, [step |-> step, attempt |-> attempt, outcome |-> outcome])]

-------------------------------------------------------------------------------
(* claimStep *)

(* Neither terminal, idle (waiting for a retry) nor busy (claimed).         *)
ClaimableRun(r) ==
  \/ run[r].status = "queued"
  \/ run[r].status = "waiting" /\ run[r].wait = 0
  \/ run[r].status = "running" /\ run[r].claim.lease = 0

PinnedBudget(r, offered) ==
  IF run[r].pinned THEN run[r].budget ELSE offered

Spent(r, offered) ==
  run[r].attempts[run[r].step] >= PinnedBudget(r, offered)

ClaimStep(w, r, t, offered) ==
  LET step    == run[r].step
      attempt == run[r].attempts[step] + 1
  IN  /\ worker[w].phase = "idle"
      /\ ClaimableRun(r)
      /\ ~Spent(r, offered)
      /\ t \notin usedTokens
      /\ run' = [run EXCEPT
           ![r].status = "running", ![r].wait = 0,
           ![r].budget = PinnedBudget(r, offered), ![r].pinned = TRUE,
           ![r].attempts[step] = attempt,
           ![r].claim = [token |-> t, attempt |-> attempt, lease |-> Lease]]
      /\ usedTokens' = usedTokens \cup {t}
      /\ worker' = [worker EXCEPT
           ![w] = [phase |-> "claimed", run |-> r, token |-> t, step |-> step,
                   attempt |-> attempt, artifacts |-> run[r].artifacts]]
      /\ UNCHANGED <<receipts, ledger, effects>>

(* A token factory that fails, or hands out a used token, makes the claim   *)
(* throw after it pinned the budget.                                        *)
RejectClaim(r, offered) ==
  /\ ClaimableRun(r)
  /\ ~Spent(r, offered)
  /\ ~run[r].pinned
  /\ run' = [run EXCEPT ![r].budget = offered, ![r].pinned = TRUE]
  /\ UNCHANGED <<receipts, usedTokens, ledger, effects, worker>>

(* Mutation: the expired claim that spent the budget leaves no receipt. *)
ExhaustRun_NoReceipt(r, offered) ==
  /\ ClaimableRun(r)
  /\ Spent(r, offered)
  /\ run' = [run EXCEPT ![r].status = "failed", ![r].wait = 0,
                        ![r].claim = NoClaim]
  /\ UNCHANGED <<receipts, usedTokens, ledger, effects, worker>>

(* A run whose step has no attempt left fails; the expired claim that spent *)
(* the last one gets its receipt.                                           *)
ExhaustRun(r, offered) ==
  /\ ClaimableRun(r)
  /\ Spent(r, offered)
  /\ run' = [run EXCEPT
       ![r].status = "failed", ![r].wait = 0, ![r].claim = NoClaim,
       ![r].budget = PinnedBudget(r, offered), ![r].pinned = TRUE]
  /\ IF run[r].claim = NoClaim
       THEN UNCHANGED receipts
       ELSE Log(r, run[r].step, run[r].claim.attempt, "failed")
  /\ UNCHANGED <<usedTokens, ledger, effects, worker>>

-------------------------------------------------------------------------------
(* runStep of the activities.  A recorded result is returned again; one     *)
(* that is not may fail, or take effect and be recorded.                    *)

(* Mutation: the ledger is not consulted. *)
RunStep_Unrecorded(w) ==
  LET r == worker[w].run
      s == worker[w].step
  IN  /\ worker[w].phase = "claimed"
      /\ ledger' = [ledger EXCEPT ![r] = @ \cup {s}]
      /\ effects' = [effects EXCEPT ![r][s] = @ + 1]
      /\ worker' = [worker EXCEPT ![w].phase = "artifact"]
      /\ UNCHANGED runVars

RunStep(w) ==
  LET r == worker[w].run
      s == worker[w].step
  IN  /\ worker[w].phase = "claimed"
      /\ \/ /\ s \in ledger[r]
            /\ worker' = [worker EXCEPT ![w].phase = "artifact"]
            /\ UNCHANGED <<ledger, effects>>
         \/ /\ s \notin ledger[r]
            /\ 1..(s - 1) \subseteq worker[w].artifacts
            /\ ledger' = [ledger EXCEPT ![r] = @ \cup {s}]
            /\ effects' = [effects EXCEPT ![r][s] = @ + 1]
            /\ worker' = [worker EXCEPT ![w].phase = "artifact"]
         \/ /\ s \notin ledger[r]
            /\ \E failure \in {"retryable", "rejected"} :
                 worker' = [worker EXCEPT ![w].phase = failure]
            /\ UNCHANGED <<ledger, effects>>
      /\ UNCHANGED runVars

-------------------------------------------------------------------------------
(* checkpointStep and failStep: only the active claim, before its deadline. *)

(* Mutation: any execution of a running run passes for the active one. *)
HoldsActiveClaim_AnyAttempt(w) ==
  run[worker[w].run].status = "running"

HoldsActiveClaim(w) ==
  LET c == run[worker[w].run].claim IN
  /\ run[worker[w].run].status = "running"
  /\ c.token = worker[w].token
  /\ run[worker[w].run].step = worker[w].step
  /\ c.attempt = worker[w].attempt
  /\ c.lease > 0

Following(s) == IF s = Finalize THEN s ELSE s + 1

CheckpointStep(w) ==
  LET r == worker[w].run
      s == worker[w].step
  IN  /\ worker[w].phase = "artifact"
      /\ HoldsActiveClaim(w)
      /\ 1..(s - 1) \subseteq run[r].artifacts
      /\ run' = [run EXCEPT
           ![r].status = IF s = Finalize THEN "completed" ELSE "queued",
           ![r].step = Following(s),
           ![r].artifacts = @ \cup ({s} \ {Finalize}),
           ![r].claim = NoClaim]
      /\ Log(r, s, worker[w].attempt,
             IF s = Finalize THEN "completed" ELSE "checkpointed")
      /\ worker' = [worker EXCEPT ![w] = Idle]
      /\ UNCHANGED <<usedTokens, ledger, effects>>

FailStep(w) ==
  LET r        == worker[w].run
      terminal == \/ worker[w].phase = "rejected"
                  \/ worker[w].attempt >= run[r].budget
  IN  /\ worker[w].phase \in {"retryable", "rejected"}
      /\ HoldsActiveClaim(w)
      /\ run' = [run EXCEPT
           ![r].status = IF terminal THEN "failed" ELSE "waiting",
           ![r].wait = IF terminal THEN 0 ELSE RetryDelay,
           ![r].claim = NoClaim]
      /\ Log(r, worker[w].step, worker[w].attempt,
             IF terminal THEN "failed" ELSE "retry_scheduled")
      /\ worker' = [worker EXCEPT ![w] = Idle]
      /\ UNCHANGED <<usedTokens, ledger, effects>>

(* A late report conflicts and changes nothing; a crash loses the execution.*)
LoseExecution(w) ==
  /\ worker[w].phase # "idle"
  /\ worker' = [worker EXCEPT ![w] = Idle]
  /\ UNCHANGED <<runVars, ledger, effects>>

-------------------------------------------------------------------------------
(* cancel: an unclaimed run is charged an attempt for its receipt. *)
Cancel(r) ==
  LET step    == run[r].step
      attempt == IF run[r].claim = NoClaim THEN run[r].attempts[step] + 1
                                           ELSE run[r].claim.attempt
  IN  /\ run[r].status \in {"queued", "running", "waiting"}
      /\ run' = [run EXCEPT
           ![r].status = "cancelled", ![r].wait = 0, ![r].claim = NoClaim,
           ![r].attempts[step] = attempt]
      /\ Log(r, step, attempt, "cancelled")
      /\ UNCHANGED <<usedTokens, ledger, effects, worker>>

Countdown(n) == IF n > 0 THEN n - 1 ELSE 0

Tick ==
  /\ \E r \in Runs : run[r].wait > 0 \/ run[r].claim.lease > 0
  /\ run' = [r \in Runs |->
       [run[r] EXCEPT !.wait = Countdown(@), !.claim.lease = Countdown(@)]]
  /\ UNCHANGED <<receipts, usedTokens, ledger, effects, worker>>

WorkerStep(w) ==
  RunStep(w) \/ CheckpointStep(w) \/ FailStep(w) \/ LoseExecution(w)

(* runOnce of a worker as far as the claim. *)
Poll(r) ==
  \E offered \in Budgets :
    \/ \E w \in Workers, t \in Tokens : ClaimStep(w, r, t, offered)
    \/ ExhaustRun(r, offered)

Next ==
  \/ \E r \in Runs : \/ EnqueueSessionCompletion(r)
                     \/ Poll(r)
                     \/ \E offered \in Budgets : RejectClaim(r, offered)
                     \/ Cancel(r)
  \/ \E w \in Workers : \/ RunStep(w)
                        \/ CheckpointStep(w)
                        \/ FailStep(w)
                        \/ LoseExecution(w)
  \/ Tick

Spec == Init /\ [][Next]_vars

(* Every run is polled for ever, a worker that holds an execution goes on   *)
(* or crashes, and the clock advances.                                      *)
Fairness ==
  /\ \A r \in Runs : WF_vars(Poll(r))
  /\ \A w \in Workers : WF_vars(WorkerStep(w))
  /\ WF_vars(Tick)

FairSpec == Spec /\ Fairness

-------------------------------------------------------------------------------
(* Every reachable state is well typed. *)
TypeOK ==
  /\ run \in [Runs -> RunState]
  /\ receipts \in [Runs -> Seq(Receipt)]
  /\ usedTokens \subseteq Tokens
  /\ ledger \in [Runs -> SUBSET Steps]
  /\ effects \in [Runs -> [Steps -> Nat]]
  /\ worker \in [Workers -> Execution]

(* Each activity takes effect at most once and never ahead of its turn,     *)
(* whatever crashes, expired leases, stale workers and retries there were;  *)
(* and what is checkpointed took effect.                                    *)
EffectsHappenOnceInOrder ==
  \A r \in Runs :
    /\ \A s \in Steps : effects[r][s] <= 1
    /\ \A s \in Steps : effects[r][s] > 0 => 1..(s - 1) \subseteq run[r].artifacts
    /\ \A s \in run[r].artifacts : effects[r][s] = 1
    /\ run[r].status = "completed" => \A s \in Steps : effects[r][s] = 1

(* One worker at a time can settle a step: a running run has one claim,     *)
(* drawn from the consumed tokens, no other run has it, and every stale     *)
(* execution is fenced off.                                                 *)
OneActiveClaim ==
  /\ \A r \in Runs :
       IF run[r].status = "running"
         THEN run[r].claim.token \in usedTokens
         ELSE run[r].claim = NoClaim
  /\ \A w, v \in Workers :
       /\ worker[w].phase # "idle" /\ HoldsActiveClaim(w)
       /\ worker[v].phase # "idle" /\ HoldsActiveClaim(v)
       /\ worker[w].run = worker[v].run
       => w = v

(* The receipts of a run tell its story: one per step and attempt, in       *)
(* order, nothing after a terminal one, and a terminal run ends with the    *)
(* receipt of its own outcome.                                              *)
Before(a, b) == a.step < b.step \/ (a.step = b.step /\ a.attempt < b.attempt)

ReceiptsTellTheRun ==
  \A r \in Runs :
    LET log == receipts[r] IN
    /\ \A i, j \in DOMAIN log : i < j =>
         Before(log[i], log[j]) /\ log[i].outcome \notin Terminals
    /\ run[r].status \in Terminals =>
         log # <<>> /\ log[Len(log)].outcome = run[r].status
    /\ run[r].status \notin Terminals =>
         \A i \in DOMAIN log : log[i].outcome \notin Terminals

(* No step is ever attempted more often than the pinned budget allows. *)
AttemptsWithinBudget ==
  \A r \in Runs, s \in Steps :
    run[r].attempts[s] <= run[r].budget

(* Claims and budgets tell one story, whatever expires, dies or is retried: *)
(* every run is well formed, one claim at a time may settle its step, and   *)
(* no step is attempted beyond the budget (requireActiveClaim, claimStep).  *)
ClaimsAreSound == TypeOK /\ OneActiveClaim /\ AttemptsWithinBudget

RunsKept ==
  \A r \in Runs :
    /\ run[r].status \in Terminals
       => run'[r] = run[r] /\ receipts'[r] = receipts[r]
    /\ run[r].pinned => run'[r].budget = run[r].budget
    /\ run[r].status # "absent" => run'[r].step \in {run[r].step, run[r].step + 1}
    /\ run[r].artifacts \subseteq run'[r].artifacts

(* A finished run is final (a cancellation cannot be undone by the worker   *)
(* it overtook), a pinned budget never moves and no checkpoint is lost.     *)
TerminalIsFinal == [][RunsKept]_vars

(* Every enqueued run finishes, however many of its attempts crash. *)
EveryRunFinishes ==
  \A r \in Runs : run[r].status = "queued" ~> run[r].status \in Terminals
-------------------------------------------------------------------------------
(* Claimed, leased and retried steps implement the abstract activities. *)

Stands(r) ==
  IF run[r].status \in {"queued", "running", "waiting"} THEN "open" ELSE run[r].status

CheckpointedSteps(r) ==
  IF run[r].status = "completed" THEN Finalize ELSE run[r].step - 1

Abstract == INSTANCE OrderedActivities WITH
  Last         <- Finalize,
  status       <- [r \in Runs |-> Stands(r)],
  checkpointed <- [r \in Runs |-> CheckpointedSteps(r)]

(* Expired leases, stale and crashed workers, retries and cancellations     *)
(* still run the activities of a session exactly once and in their order,   *)
(* checkpoint only what took effect, and complete a run only with the last. *)
ImplementsOrderedActivities == Abstract!Spec
===============================================================================
