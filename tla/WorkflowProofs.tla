----------------------------- MODULE WorkflowProofs -----------------------------
(***************************************************************************)
(* Machine-checked proofs about the post-call runs and the disposition     *)
(* requests of packages/workflows: activities and irreversible effects     *)
(* happen once and in order, claims are fenced, receipts tell the story,   *)
(* holds protect, whatever leases expire and whichever workers die, for    *)
(* any runs, workers, tokens, items, holds and budgets.                    *)
(***************************************************************************)
EXTENDS MCWorkflow, TLAPS

(* A stored run: its claim, its budget and its artifacts fit its status.   *)
RunShaped(r) ==
  LET q == run[r] IN
  /\ q.status # "running" => q.claim = NoClaim
  /\ q.status = "running" => /\ q.claim.token \in usedTokens
                             /\ q.claim.attempt = q.attempts[q.step]
                             /\ q.claim.attempt >= 1
  /\ q.status # "waiting" => q.wait = 0
  /\ q.status = "completed" => q.step = Finalize
  /\ q.artifacts = 1..(q.step - 1)
  /\ q.budget >= 1
  /\ ~q.pinned => q.status \in {"absent", "queued", "cancelled"}
  /\ ~q.pinned /\ q.status # "cancelled" => \A s \in Steps : q.attempts[s] = 0
  /\ \A s \in Steps : q.attempts[s] <= q.budget
  /\ \A s \in Steps : s > q.step => q.attempts[s] = 0
  /\ q.status \in {"absent", "queued", "waiting"} => q.attempts[q.step] < q.budget

(* The ledger of the activities holds what took effect, in its turn.       *)
LedgerTells(r) ==
  /\ \A s \in Steps : effects[r][s] = IF s \in ledger[r] THEN 1 ELSE 0
  /\ \A s \in ledger[r] : 1..(s - 1) \subseteq run[r].artifacts
  /\ run[r].artifacts \subseteq ledger[r]
  /\ run[r].status = "completed" => Finalize \in ledger[r]

(* Where the next receipt of a run will stand: after all it has.           *)
Ahead(r, e) ==
  LET q == run[r] IN
  /\ e.outcome \notin Terminals
  /\ \/ e.step < q.step
     \/ e.step = q.step /\ e.attempt < q.attempts[q.step]
     \/ e.step = q.step /\ e.attempt = q.attempts[q.step] /\ q.status # "running"

ReceiptsTell(r) ==
  LET log == receipts[r] IN
  /\ \A i, j \in DOMAIN log : i < j => Before(log[i], log[j]) /\ log[i].outcome \notin Terminals
  /\ run[r].status \in Terminals => log # <<>> /\ log[Len(log)].outcome = run[r].status
  /\ run[r].status \notin Terminals => \A i \in DOMAIN log : Ahead(r, log[i])

(* Every execution was claimed with a token of its own, and knows nothing  *)
(* that is not stored.                                                     *)
WorkersFenced ==
  /\ \A w \in Workers : worker[w].phase # "idle" =>
       /\ worker[w].run \in Runs
       /\ worker[w].token \in usedTokens
       /\ worker[w].artifacts \subseteq run[worker[w].run].artifacts
       /\ worker[w].phase = "artifact" => worker[w].step \in ledger[worker[w].run]
  /\ \A w, v \in Workers :
       /\ worker[w].phase # "idle" /\ worker[v].phase # "idle"
       /\ worker[w].token = worker[v].token
       => w = v

WorkflowInv ==
  /\ TypeOK
  /\ \A r \in Runs : RunShaped(r) /\ LedgerTells(r) /\ ReceiptsTell(r)
  /\ WorkersFenced

LEMMA WorkflowInvImplies ==
  WorkflowInv => EffectsHappenOnceInOrder /\ ClaimsAreSound /\ ReceiptsTellTheRun
<1> SUFFICES ASSUME WorkflowInv
             PROVE  EffectsHappenOnceInOrder /\ ClaimsAreSound /\ ReceiptsTellTheRun
  OBVIOUS
<1>1. EffectsHappenOnceInOrder
  <2> SUFFICES ASSUME NEW r \in Runs
               PROVE  /\ \A s \in Steps : effects[r][s] <= 1
                      /\ \A s \in Steps : effects[r][s] > 0 => 1..(s - 1) \subseteq run[r].artifacts
                      /\ \A s \in run[r].artifacts : effects[r][s] = 1
                      /\ run[r].status = "completed" => \A s \in Steps : effects[r][s] = 1
    BY DEF EffectsHappenOnceInOrder
  <2>1. LedgerTells(r) /\ RunShaped(r) /\ ledger[r] \subseteq Steps /\ run[r] \in RunState
    BY DEF WorkflowInv, TypeOK
  <2>2. \A s \in Steps : effects[r][s] = IF s \in ledger[r] THEN 1 ELSE 0
    BY <2>1 DEF LedgerTells
  <2>3. run[r].status = "completed" => ledger[r] = Steps
    BY <2>1 DEF LedgerTells, RunShaped, Steps, Finalize
  <2> QED
    BY <2>1, <2>2, <2>3 DEF LedgerTells
<1>2. OneActiveClaim
  BY DEF WorkflowInv, OneActiveClaim, RunShaped, WorkersFenced, HoldsActiveClaim
<1>3. AttemptsWithinBudget
  BY DEF WorkflowInv, AttemptsWithinBudget, RunShaped
<1>4. ReceiptsTellTheRun
  BY DEF WorkflowInv, ReceiptsTellTheRun, ReceiptsTell, Ahead
<1> QED
  BY <1>1, <1>2, <1>3, <1>4 DEF WorkflowInv, ClaimsAreSound

-------------------------------------------------------------------------------
(* An operation moves one run and leaves the others as they were.          *)
LEMMA OneRunMoves ==
  ASSUME WorkflowInv, TypeOK', NEW r \in Runs,
         \A q \in Runs \ {r} : /\ run'[q] = run[q] /\ receipts'[q] = receipts[q]
                               /\ ledger'[q] = ledger[q] /\ effects'[q] = effects[q],
         usedTokens \subseteq usedTokens',
         RunShaped(r)', LedgerTells(r)', ReceiptsTell(r)', WorkersFenced'
  PROVE  WorkflowInv'
<1> SUFFICES ASSUME NEW q \in Runs \ {r}
             PROVE  RunShaped(q)' /\ LedgerTells(q)' /\ ReceiptsTell(q)'
  BY DEF WorkflowInv
<1>1. RunShaped(q) /\ LedgerTells(q) /\ ReceiptsTell(q)
  BY DEF WorkflowInv
<1>2. RunShaped(q)'
  <2>1. run'[q].claim.token \in usedTokens => run'[q].claim.token \in usedTokens'
    OBVIOUS
  <2> QED
    BY <1>1, <2>1 DEF RunShaped
<1>3. LedgerTells(q)'
  BY <1>1 DEF LedgerTells
<1>4. ReceiptsTell(q)'
  BY <1>1 DEF ReceiptsTell, Ahead
<1> QED
  BY <1>2, <1>3, <1>4

(* A run that is not over goes on, with its budget and its checkpoints.    *)
LEMMA RunGoesOn ==
  ASSUME NEW r \in Runs,
         \A q \in Runs \ {r} : run'[q] = run[q] /\ receipts'[q] = receipts[q],
         run[r].status \notin Terminals,
         run[r].pinned => run'[r].budget = run[r].budget,
         run'[r].step \in {run[r].step, run[r].step + 1},
         run[r].artifacts \subseteq run'[r].artifacts
  PROVE  RunsKept
  BY DEF RunsKept

(* Workers that go on or give up keep their fence while what is stored     *)
(* only grows.                                                             *)
LEMMA WorkersKeep ==
  ASSUME WorkflowInv,
         \A q \in Runs : run[q].artifacts \subseteq run'[q].artifacts /\ ledger[q] \subseteq ledger'[q],
         usedTokens \subseteq usedTokens',
         \A v \in Workers : worker'[v] = worker[v] \/ worker'[v] = Idle
  PROVE  WorkersFenced'
<1>1. Idle.phase = "idle"
  BY DEF Idle
<1> QED
  BY <1>1 DEF WorkflowInv, WorkersFenced

(* A receipt that stands ahead of a log extends it.                        *)
LEMMA ReceiptAppended ==
  ASSUME NEW log \in Seq(Receipt), NEW new \in Receipt,
         \A i, j \in DOMAIN log : i < j => Before(log[i], log[j]),
         \A i \in DOMAIN log : Before(log[i], new) /\ log[i].outcome \notin Terminals
  PROVE  LET longer == Append(log, new) IN
         /\ longer \in Seq(Receipt) /\ longer # <<>>
         /\ longer[Len(longer)] = new
         /\ \A i \in DOMAIN longer : longer[i] = new \/ \E j \in DOMAIN log : longer[i] = log[j]
         /\ \A i, j \in DOMAIN longer :
              i < j => Before(longer[i], longer[j]) /\ longer[i].outcome \notin Terminals
<1> DEFINE longer == Append(log, new)
<1>1. /\ Len(log) \in Nat /\ DOMAIN log = 1..Len(log)
      /\ longer \in Seq(Receipt) /\ Len(longer) = Len(log) + 1
      /\ DOMAIN longer = 1..(Len(log) + 1)
      /\ \A i \in 1..Len(log) : longer[i] = log[i]
      /\ longer[Len(log) + 1] = new
  OBVIOUS
<1> HIDE DEF longer
<1>2. \A i \in DOMAIN longer : i \in DOMAIN log \/ i = Len(log) + 1
  BY <1>1
<1>3. longer # <<>>
  BY <1>1
<1>4. ASSUME NEW i \in DOMAIN longer, NEW j \in DOMAIN longer, i < j
      PROVE  Before(longer[i], longer[j]) /\ longer[i].outcome \notin Terminals
  <2>1. i \in DOMAIN log /\ longer[i] = log[i]
    BY <1>1, <1>4
  <2>2. CASE j \in DOMAIN log
    BY <1>1, <1>4, <2>1, <2>2
  <2>3. CASE j = Len(log) + 1
    BY <1>1, <2>1, <2>3
  <2> QED
    BY <1>2, <2>2, <2>3
<1>5. \A i \in DOMAIN longer : longer[i] = new \/ \E j \in DOMAIN log : longer[i] = log[j]
  BY <1>1, <1>2
<1>6. longer[Len(longer)] = new
  BY <1>1
<1> QED
  BY <1>1, <1>3, <1>4, <1>5, <1>6 DEF longer

(* The stored state of a run, field by field.                              *)
LEMMA RunFields ==
  ASSUME WorkflowInv, NEW r \in Runs
  PROVE  /\ run \in [Runs -> RunState] /\ run[r] \in RunState
         /\ run[r].status \in Statuses /\ run[r].step \in Steps
         /\ run[r].attempts \in [Steps -> Nat] /\ run[r].budget \in Nat
         /\ run[r].pinned \in BOOLEAN /\ run[r].claim \in Claim
         /\ run[r].artifacts \subseteq Steps
         /\ receipts \in [Runs -> Seq(Receipt)] /\ receipts[r] \in Seq(Receipt)
         /\ RunShaped(r) /\ LedgerTells(r) /\ ReceiptsTell(r)
  BY DEF WorkflowInv, TypeOK, RunState

(* A run that moves without a receipt, forwards in its own step.           *)
LEMMA QuietMove ==
  ASSUME WorkflowInv, NEW r \in Runs, receipts'[r] = receipts[r],
         run[r].status \notin Terminals, run'[r].status \notin Terminals,
         run'[r].step = run[r].step, run[r].step \in Steps,
         run[r].attempts[run[r].step] \in Nat, run'[r].attempts[run[r].step] \in Nat,
         \/ run'[r].attempts[run[r].step] > run[r].attempts[run[r].step]
         \/ /\ run'[r].attempts[run[r].step] = run[r].attempts[run[r].step]
            /\ run'[r].status = "running" => run[r].status = "running"
  PROVE  ReceiptsTell(r)'
<1>1. ReceiptsTell(r) /\ receipts[r] \in Seq(Receipt)
  BY DEF WorkflowInv, TypeOK
<1>2. ASSUME NEW i \in DOMAIN receipts[r]
      PROVE  Ahead(r, receipts[r][i])'
  <2>1. Ahead(r, receipts[r][i])
    BY <1>1 DEF ReceiptsTell
  <2>2. receipts[r][i].attempt \in Nat
    <3>1. receipts[r][i] \in Receipt
      BY <1>1
    <3> QED
      BY <3>1 DEF Receipt
  <2>3. PICK e : e = receipts[r][i]
    OBVIOUS
  <2>4. Ahead(r, e)'
    BY <2>1, <2>2, <2>3 DEF Ahead
  <2> QED
    BY <2>3, <2>4
<1> QED
  BY <1>1, <1>2 DEF ReceiptsTell

(* A receipt of the current step, at an attempt its log has not reached.   *)
LEMMA NewReceipt ==
  ASSUME WorkflowInv, NEW r \in Runs, run[r].status \notin Terminals,
         NEW new \in Receipt, new.step = run[r].step,
         \/ new.attempt = run[r].attempts[run[r].step] + 1
         \/ run[r].status = "running" /\ new.attempt = run[r].attempts[run[r].step],
         receipts' = [receipts EXCEPT ![r] = Append(@, new)],
         \/ new.outcome = run'[r].status /\ run'[r].status \in Terminals
         \/ /\ new.outcome \notin Terminals /\ run'[r].status \notin Terminals
            /\ \/ run'[r].step = run[r].step + 1
               \/ /\ run'[r].step = run[r].step /\ run'[r].status # "running"
                  /\ run'[r].attempts[run[r].step] = new.attempt
  PROVE  ReceiptsTell(r)' /\ receipts' \in [Runs -> Seq(Receipt)]
<1> DEFINE step == run[r].step
<1>1. /\ receipts \in [Runs -> Seq(Receipt)] /\ receipts[r] \in Seq(Receipt)
      /\ step \in Steps /\ run[r].attempts[step] \in Nat /\ ReceiptsTell(r)
  BY RunFields
<1>2. ASSUME NEW i \in DOMAIN receipts[r]
      PROVE  /\ Before(receipts[r][i], new) /\ receipts[r][i].outcome \notin Terminals
             /\ receipts[r][i].step \in Steps /\ receipts[r][i].attempt \in Nat
             /\ \/ receipts[r][i].step < step
                \/ receipts[r][i].step = step /\ receipts[r][i].attempt < new.attempt
  <2>1. Ahead(r, receipts[r][i]) /\ receipts[r][i] \in Receipt
    BY <1>1 DEF ReceiptsTell
  <2>2. receipts[r][i].step \in Steps /\ receipts[r][i].attempt \in Nat
    BY <2>1 DEF Receipt
  <2> QED
    BY <1>1, <2>1, <2>2 DEF Ahead, Before
<1>3. PICK longer : longer = Append(receipts[r], new)
  OBVIOUS
<1>4. \A i, j \in DOMAIN receipts[r] : i < j => Before(receipts[r][i], receipts[r][j])
  BY <1>1 DEF ReceiptsTell
<1>5. /\ longer \in Seq(Receipt) /\ longer # <<>> /\ longer[Len(longer)] = new
      /\ \A i \in DOMAIN longer :
           longer[i] = new \/ \E j \in DOMAIN receipts[r] : longer[i] = receipts[r][j]
      /\ \A i, j \in DOMAIN longer :
           i < j => Before(longer[i], longer[j]) /\ longer[i].outcome \notin Terminals
  BY <1>1, <1>2, <1>4, <1>3, ReceiptAppended
<1>6. receipts'[r] = longer /\ receipts' \in [Runs -> Seq(Receipt)]
  BY <1>1, <1>5, <1>3
<1>7. run'[r].status \notin Terminals => \A i \in DOMAIN longer : Ahead(r, longer[i])'
  <2> SUFFICES ASSUME run'[r].status \notin Terminals, NEW i \in DOMAIN longer
               PROVE  Ahead(r, longer[i])'
    OBVIOUS
  <2>1. PICK e : e = longer[i]
    OBVIOUS
  <2> SUFFICES Ahead(r, e)'
    BY <2>1
  <2>2. e.outcome \notin Terminals
    BY <1>2, <1>5, <2>1
  <2>3. e.step < step \/ (e.step = step /\ (e.attempt < new.attempt \/ e = new))
    BY <1>2, <1>5, <2>1
  <2>4. e.step \in Steps
    BY <1>1, <1>2, <1>5, <2>1
  <2>5. CASE run'[r].step = run[r].step + 1
    BY <1>1, <1>6, <2>1, <2>2, <2>3, <2>4, <2>5 DEF Ahead, Steps
  <2>6. CASE /\ run'[r].step = run[r].step /\ run'[r].status # "running"
             /\ run'[r].attempts[run[r].step] = new.attempt
    BY <1>1, <1>6, <2>1, <2>2, <2>3, <2>6 DEF Ahead
  <2> QED
    BY <2>5, <2>6
<1> QED
  BY <1>5, <1>6, <1>7 DEF ReceiptsTell

-------------------------------------------------------------------------------
LEMMA EnqueueKeeps ==
  ASSUME WorkflowInv, NEW r \in Runs, EnqueueSessionCompletion(r)
  PROVE  WorkflowInv' /\ RunsKept
<1>1. /\ run \in [Runs -> RunState] /\ run[r] \in RunState /\ run[r].status = "absent"
      /\ RunShaped(r) /\ LedgerTells(r) /\ run[r].attempts \in [Steps -> Nat] /\ run[r].step \in Steps
  BY RunFields DEF EnqueueSessionCompletion
<1>2. /\ run' = [run EXCEPT ![r].status = "queued"]
      /\ UNCHANGED <<receipts, usedTokens, ledger, effects, worker>>
  BY DEF EnqueueSessionCompletion
<1>3. /\ run' \in [Runs -> RunState] /\ \A q \in Runs \ {r} : run'[q] = run[q]
      /\ run'[r].status = "queued" /\ run'[r].step = run[r].step
      /\ run'[r].attempts = run[r].attempts /\ run'[r].budget = run[r].budget
      /\ run'[r].pinned = run[r].pinned /\ run'[r].wait = run[r].wait
      /\ run'[r].claim = run[r].claim /\ run'[r].artifacts = run[r].artifacts
  BY <1>1, <1>2 DEF RunState, Statuses
<1>4. TypeOK'
  BY <1>2, <1>3 DEF WorkflowInv, TypeOK
<1>5. RunShaped(r)'
  BY <1>1, <1>3 DEF RunShaped
<1>6. LedgerTells(r)'
  BY <1>1, <1>2, <1>3 DEF LedgerTells
<1>7. ReceiptsTell(r)'
  BY <1>1, <1>2, <1>3, QuietMove DEF Terminals
<1>8. WorkersFenced'
  <2>1. \A q \in Runs : run[q].artifacts \subseteq run'[q].artifacts
    BY <1>3
  <2> QED
    BY <1>2, <2>1, WorkersKeep
<1>9. RunsKept
  BY <1>1, <1>2, <1>3, RunGoesOn DEF Terminals
<1> QED
  BY <1>9, <1>2, <1>3, <1>4, <1>5, <1>6, <1>7, <1>8, OneRunMoves

(* A run that may be claimed has an attempt left, unless it ran out under  *)
(* a claim that expired.                                                   *)
LEMMA ClaimableHasBudget ==
  ASSUME WorkflowInv, NEW r \in Runs, NEW offered \in Budgets, ClaimableRun(r)
  PROVE  /\ PinnedBudget(r, offered) \in Nat /\ PinnedBudget(r, offered) >= 1
         /\ run[r].status \in {"queued", "waiting", "running"}
         /\ ~run[r].pinned => run[r].status = "queued"
         /\ \A s \in Steps : run[r].attempts[s] <= PinnedBudget(r, offered)
         /\ Spent(r, offered) => run[r].status = "running"
<1>1. /\ RunShaped(r) /\ run[r].attempts \in [Steps -> Nat] /\ run[r].step \in Steps
      /\ run[r].budget \in Nat /\ run[r].pinned \in BOOLEAN
  BY RunFields
<1>2. offered \in Nat /\ offered >= 1
  BY WorkflowAssumption
<1>3. run[r].status \in {"queued", "waiting", "running"}
  BY DEF ClaimableRun
<1>4. CASE run[r].pinned
  BY <1>1, <1>3, <1>4 DEF RunShaped, PinnedBudget, Spent
<1>5. CASE ~run[r].pinned
  BY SMTT(60), <1>1, <1>2, <1>3, <1>5 DEF RunShaped, PinnedBudget, Spent
<1> QED
  BY <1>1, <1>3, <1>4, <1>5

(* A claim takes a token nobody had and the next attempt of the step.      *)
LEMMA ClaimStepKeeps ==
  ASSUME WorkflowInv, NEW w \in Workers, NEW r \in Runs, NEW t \in Tokens,
         NEW offered \in Budgets, ClaimStep(w, r, t, offered)
  PROVE  WorkflowInv' /\ RunsKept
<1> DEFINE step == run[r].step
           attempt == run[r].attempts[step] + 1
           budget == PinnedBudget(r, offered)
           claim == [token |-> t, attempt |-> attempt, lease |-> Lease]
<1>1. /\ run \in [Runs -> RunState] /\ run[r] \in RunState
      /\ RunShaped(r) /\ LedgerTells(r) /\ run[r].attempts \in [Steps -> Nat] /\ step \in Steps
      /\ run[r].artifacts \subseteq Steps
  BY RunFields
<1>2. /\ budget \in Nat /\ budget >= 1
      /\ run[r].status \in {"queued", "waiting", "running"}
      /\ \A s \in Steps : run[r].attempts[s] <= budget
      /\ attempt \in Nat /\ attempt >= 1 /\ attempt <= budget
  BY <1>1, ClaimableHasBudget DEF ClaimStep, Spent
<1>3. claim \in Claim
  BY <1>2, WorkflowAssumption DEF Claim
<1>4. /\ run' = [run EXCEPT
           ![r].status = "running", ![r].wait = 0, ![r].budget = budget, ![r].pinned = TRUE,
           ![r].attempts[step] = attempt, ![r].claim = claim]
      /\ usedTokens' = usedTokens \cup {t} /\ t \notin usedTokens
      /\ worker' = [worker EXCEPT
           ![w] = [phase |-> "claimed", run |-> r, token |-> t, step |-> step,
                   attempt |-> attempt, artifacts |-> run[r].artifacts]]
      /\ UNCHANGED <<receipts, ledger, effects>>
  BY SMTT(60) DEF ClaimStep
<1> HIDE DEF claim, budget
<1>5. /\ \A q \in Runs \ {r} : run'[q] = run[q]
      /\ run'[r] \in RunState
      /\ run'[r].status = "running" /\ run'[r].step = step
      /\ run'[r].attempts = [run[r].attempts EXCEPT ![step] = attempt]
      /\ run'[r].budget = budget /\ run'[r].pinned = TRUE /\ run'[r].wait = 0
      /\ run'[r].claim = claim /\ run'[r].artifacts = run[r].artifacts
  <2>1. [run[r].attempts EXCEPT ![step] = attempt] \in [Steps -> Nat]
    BY <1>1, <1>2
  <2>2. 0 \in 0..RetryDelay
    BY WorkflowAssumption
  <2>3. PICK old : old = run[r]
    OBVIOUS
  <2>4. PICK tried : tried = [run[r].attempts EXCEPT ![step] = attempt]
    OBVIOUS
  <2>5. run'[r] = [old EXCEPT !.status = "running", !.wait = 0, !.budget = budget,
                              !.pinned = TRUE, !.attempts = tried, !.claim = claim]
    BY <1>1, <1>4, <2>3, <2>4
  <2>6. \A q \in Runs \ {r} : run'[q] = run[q]
    BY <1>1, <1>4
  <2>7. old \in RunState /\ tried \in [Steps -> Nat]
    BY <1>1, <2>1, <2>3, <2>4
  <2> HIDE DEF step, attempt
  <2>8. run'[r] \in RunState
    BY <1>2, <1>3, <2>2, <2>5, <2>7 DEF RunState, Statuses
  <2>9. /\ run'[r].status = "running" /\ run'[r].step = old.step
        /\ run'[r].attempts = tried
        /\ run'[r].budget = budget /\ run'[r].pinned = TRUE /\ run'[r].wait = 0
        /\ run'[r].claim = claim /\ run'[r].artifacts = old.artifacts
    BY <2>5, <2>7 DEF RunState
  <2> QED
    BY <2>3, <2>4, <2>6, <2>8, <2>9 DEF step
<1>6. run' \in [Runs -> RunState]
  BY <1>1, <1>4, <1>5
<1>7. TypeOK'
  <2>1. worker' \in [Workers -> Execution]
    BY SMTT(60), <1>1, <1>2, <1>4 DEF WorkflowInv, TypeOK, Execution, Phases
  <2> QED
    BY <1>4, <1>6, <2>1 DEF WorkflowInv, TypeOK
<1>8. RunShaped(r)'
  <2>1. claim.token = t /\ claim.attempt = attempt
    BY DEF claim
  <2>2. /\ run'[r].attempts[step] = attempt
        /\ \A s \in Steps \ {step} : run'[r].attempts[s] = run[r].attempts[s]
    BY <1>1, <1>5
  <2>3. \A s \in Steps : run'[r].attempts[s] <= run'[r].budget
    BY <1>2, <1>5, <2>2
  <2>4. \A s \in Steps : s > step => run'[r].attempts[s] = 0
    BY SMTT(60), <1>1, <2>2 DEF RunShaped, Steps
  <2>5. claim.token \in usedTokens' /\ run[r].artifacts = 1..(step - 1)
    BY <1>1, <1>4, <2>1 DEF RunShaped
  <2> QED
    BY <1>2, <1>5, <2>1, <2>2, <2>3, <2>4, <2>5 DEF RunShaped
<1>9. LedgerTells(r)'
  BY <1>1, <1>4, <1>5 DEF LedgerTells
<1>10. ReceiptsTell(r)'
  <2>1. run'[r].attempts[step] = attempt /\ attempt > run[r].attempts[step]
    BY <1>1, <1>5
  <2>2. run[r].status \notin Terminals /\ run'[r].status \notin Terminals
    BY SMTT(60), <1>2, <1>5 DEF Terminals
  <2>3. receipts'[r] = receipts[r] /\ run'[r].step = run[r].step /\ run[r].step \in Steps
    BY <1>1, <1>4, <1>5
  <2>4. run[r].attempts[run[r].step] \in Nat /\ run'[r].attempts[run[r].step] \in Nat
    BY <1>1, <1>2, <2>1
  <2> HIDE DEF step
  <2> QED
    BY <2>1, <2>2, <2>3, <2>4, QuietMove DEF step
<1>11. WorkersFenced'
  <2>1. \A q \in Runs : run'[q].artifacts = run[q].artifacts
    BY <1>5
  <2>2. /\ worker \in [Workers -> Execution]
        /\ \A v \in Workers \ {w} : worker'[v] = worker[v]
        /\ worker'[w].run = r /\ worker'[w].token = t /\ worker'[w].phase = "claimed"
        /\ worker'[w].artifacts = run[r].artifacts
    BY <1>4 DEF WorkflowInv, TypeOK
  <2>3. \A v \in Workers \ {w} : worker[v].phase # "idle" => worker[v].token # t
    BY <1>4 DEF WorkflowInv, WorkersFenced
  <2>4. ASSUME NEW v \in Workers, worker'[v].phase # "idle"
        PROVE  /\ worker'[v].run \in Runs
               /\ worker'[v].token \in usedTokens'
               /\ worker'[v].artifacts \subseteq run'[worker'[v].run].artifacts
               /\ worker'[v].phase = "artifact" =>
                    worker'[v].step \in ledger'[worker'[v].run]
    <3>1. CASE v = w
      BY ZenonT(60), <1>4, <2>1, <2>2, <3>1
    <3>2. CASE v # w
      <4>1. worker'[v] = worker[v] /\ worker[v].phase # "idle"
        BY <2>2, <2>4, <3>2
      <4>2. /\ worker[v].run \in Runs
            /\ worker[v].token \in usedTokens
            /\ worker[v].artifacts \subseteq run[worker[v].run].artifacts
            /\ worker[v].phase = "artifact" => worker[v].step \in ledger[worker[v].run]
        BY <4>1 DEF WorkflowInv, WorkersFenced
      <4>3. run'[worker[v].run].artifacts = run[worker[v].run].artifacts
        BY <2>1, <4>2
      <4>4. ledger' = ledger /\ worker[v].token \in usedTokens'
        BY <1>4, <4>2
      <4> QED
        BY <4>1, <4>2, <4>3, <4>4
    <3> QED
      BY SMTT(60), <3>1, <3>2
  <2>5. ASSUME NEW v \in Workers, NEW x \in Workers, worker'[v].phase # "idle",
               worker'[x].phase # "idle", worker'[v].token = worker'[x].token
        PROVE  v = x
    <3>1. CASE v # w /\ x # w
      BY <2>2, <2>5, <3>1 DEF WorkflowInv, WorkersFenced
    <3>2. CASE v = w \/ x = w
      BY SMTT(60), <2>2, <2>3, <2>5, <3>2
    <3> QED
      BY <3>1, <3>2
  <2> QED
    BY <2>4, <2>5 DEF WorkersFenced
<1>12. RunsKept
  <2>1. run[r].status \notin Terminals
    BY <1>2 DEF Terminals
  <2>2. run[r].pinned => budget = run[r].budget
    BY DEF budget, PinnedBudget
  <2> QED
    BY ZenonT(60), <1>4, <1>5, <2>1, <2>2, RunGoesOn
<1> QED
  BY <1>12, <1>4, <1>5, <1>7, <1>8, <1>9, <1>10, <1>11, OneRunMoves

LEMMA RejectClaimKeeps ==
  ASSUME WorkflowInv, NEW r \in Runs, NEW offered \in Budgets, RejectClaim(r, offered)
  PROVE  WorkflowInv' /\ RunsKept
<1>1. /\ run \in [Runs -> RunState] /\ run[r] \in RunState /\ run[r].status = "queued"
      /\ RunShaped(r) /\ LedgerTells(r) /\ run[r].attempts \in [Steps -> Nat] /\ run[r].step \in Steps
      /\ offered \in Nat /\ offered >= 1 /\ ~run[r].pinned
  BY RunFields, ClaimableHasBudget, WorkflowAssumption DEF RejectClaim
<1>2. /\ run' = [run EXCEPT ![r].budget = offered, ![r].pinned = TRUE]
      /\ UNCHANGED <<receipts, usedTokens, ledger, effects, worker>>
  BY DEF RejectClaim
<1>3. /\ run' \in [Runs -> RunState] /\ \A q \in Runs \ {r} : run'[q] = run[q]
      /\ run'[r].status = "queued" /\ run'[r].step = run[r].step
      /\ run'[r].attempts = run[r].attempts /\ run'[r].budget = offered
      /\ run'[r].pinned = TRUE /\ run'[r].wait = run[r].wait
      /\ run'[r].claim = run[r].claim /\ run'[r].artifacts = run[r].artifacts
  BY <1>1, <1>2 DEF RunState
<1>4. TypeOK'
  BY <1>2, <1>3 DEF WorkflowInv, TypeOK
<1>5. \A s \in Steps : run[r].attempts[s] = 0
  BY <1>1 DEF RunShaped
<1>6. RunShaped(r)'
  BY <1>1, <1>3, <1>5 DEF RunShaped
<1>7. LedgerTells(r)'
  BY <1>1, <1>2, <1>3 DEF LedgerTells
<1>8. ReceiptsTell(r)'
  BY <1>1, <1>2, <1>3, QuietMove DEF Terminals
<1>9. WorkersFenced'
  <2>1. \A q \in Runs : run[q].artifacts \subseteq run'[q].artifacts
    BY <1>3
  <2> QED
    BY <1>2, <2>1, WorkersKeep
<1>10. RunsKept
  BY <1>1, <1>2, <1>3, RunGoesOn DEF Terminals
<1> QED
  BY <1>10, <1>2, <1>3, <1>4, <1>6, <1>7, <1>8, <1>9, OneRunMoves

(* How a receipt settles the attempt of a run: it ends the run, puts it    *)
(* off, or moves it on to its next step or to completion.                  *)
Settles(r, q, new) ==
  /\ run[r].status \in {"queued", "running", "waiting"}
  /\ new.step = run[r].step
  /\ new.attempt = IF run[r].status = "running" THEN run[r].attempts[run[r].step]
                                               ELSE run[r].attempts[run[r].step] + 1
  /\ q.claim = NoClaim /\ (q.wait > 0 => q.status = "waiting")
  /\ q.budget = run[r].budget
  /\ q.attempts = [run[r].attempts EXCEPT ![run[r].step] = new.attempt]
  /\ \/ /\ q.status = "failed" /\ new.outcome = "failed" /\ q.pinned
        /\ q.step = run[r].step /\ q.artifacts = run[r].artifacts
     \/ /\ q.status = "cancelled" /\ new.outcome = "cancelled"
        /\ q.step = run[r].step /\ q.artifacts = run[r].artifacts
     \/ /\ q.status = "waiting" /\ new.outcome = "retry_scheduled"
        /\ q.step = run[r].step /\ q.artifacts = run[r].artifacts
        /\ q.pinned /\ new.attempt < q.budget
     \/ /\ q.status = "queued" /\ new.outcome = "checkpointed" /\ q.pinned
        /\ run[r].step # Finalize /\ q.step = run[r].step + 1
        /\ q.artifacts = run[r].artifacts \cup {run[r].step}
        /\ run[r].step \in ledger[r]
     \/ /\ q.status = "completed" /\ new.outcome = "completed" /\ q.pinned
        /\ run[r].step = Finalize /\ q.step = Finalize
        /\ q.artifacts = run[r].artifacts /\ Finalize \in ledger[r]

(* A run that ends, or moves on, with a receipt of its current step.       *)
LEMMA ReceiptMove ==
  ASSUME WorkflowInv, NEW r \in Runs, NEW q \in RunState, NEW new \in Receipt,
         run' = [run EXCEPT ![r] = q],
         receipts' = [receipts EXCEPT ![r] = Append(@, new)],
         UNCHANGED <<usedTokens, ledger, effects>>,
         worker' \in [Workers -> Execution],
         \A v \in Workers : worker'[v] = worker[v] \/ worker'[v] = Idle,
         Settles(r, q, new)
  PROVE  WorkflowInv' /\ RunsKept
<1> DEFINE step == run[r].step
<1> USE DEF Settles
<1>1. /\ run \in [Runs -> RunState] /\ run[r] \in RunState
      /\ RunShaped(r) /\ LedgerTells(r) /\ run[r].attempts \in [Steps -> Nat] /\ step \in Steps
      /\ run[r].artifacts = 1..(step - 1) /\ run[r].budget \in Nat
      /\ ledger[r] \subseteq Steps
      /\ receipts \in [Runs -> Seq(Receipt)] /\ run[r].pinned \in BOOLEAN
  BY RunFields DEF RunShaped, WorkflowInv, TypeOK
<1>2. run' \in [Runs -> RunState] /\ run'[r] = q /\ \A p \in Runs \ {r} : run'[p] = run[p]
  BY <1>1
<1>3. new.attempt \in Nat /\ new.attempt <= run[r].budget
  BY <1>1 DEF RunShaped, Receipt
<1>4. /\ q.attempts[step] = new.attempt
      /\ \A s \in Steps \ {step} : q.attempts[s] = run[r].attempts[s]
      /\ q.attempts \in [Steps -> Nat] /\ q.step \in Steps /\ q.wait \in Nat
  BY SMTT(30), <1>1, <1>3, WorkflowAssumption DEF RunState
<1>5. q.step \in {step, step + 1} /\ run[r].artifacts \subseteq q.artifacts
      /\ q.artifacts = 1..(q.step - 1) /\ q.artifacts \subseteq ledger[r]
  <2>1. run[r].artifacts \subseteq ledger[r]
    BY <1>1 DEF LedgerTells
  <2>2. 1..(step - 1) \cup {step} = 1..((step + 1) - 1)
    <3>1. step \in Nat /\ step >= 1
      BY <1>1 DEF Steps
    <3> HIDE DEF step
    <3> QED
      BY <3>1
  <2> QED
    BY ZenonT(60), <1>1, <2>1, <2>2
<1>6. RunShaped(r)'
  <2>1. \A s \in Steps : q.attempts[s] <= q.budget
    <3>1. q.budget = run[r].budget
      OBVIOUS
    <3>2. \A s \in Steps : run[r].attempts[s] <= run[r].budget
      BY <1>1 DEF RunShaped
    <3> QED
      BY <1>3, <1>4, <3>1, <3>2
  <2>2. \A s \in Steps : s > q.step => q.attempts[s] = 0
    <3> SUFFICES ASSUME NEW s \in Steps, s > q.step
                 PROVE  q.attempts[s] = 0
      OBVIOUS
    <3>1. s > step /\ s # step
      BY SMTT(60), <1>1, <1>5 DEF Steps
    <3>2. run[r].attempts[s] = 0
      BY <1>1, <3>1 DEF RunShaped
    <3> QED
      BY <1>4, <3>1, <3>2
  <2>3. q.status \in {"absent", "queued", "waiting"} => q.attempts[q.step] < q.budget
    <3>1. CASE q.status = "waiting"
      BY <1>4, <3>1
    <3>2. CASE q.status = "queued"
      <4>1. q.step = step + 1
        BY <3>2
      <4>2. q.step \in Steps /\ q.step > step /\ q.step # step
        BY SMTT(60), <1>1, <1>4, <4>1 DEF Steps
      <4>3. q.attempts[q.step] = 0
        BY SMTT(60), <1>1, <1>4, <4>2 DEF RunShaped
      <4> QED
        BY <1>1, <4>3 DEF RunShaped
    <3> QED
      BY <3>1, <3>2
  <2>4. q.status \notin {"running", "absent"}
    OBVIOUS
  <2>5. ~q.pinned => q.status = "cancelled"
    BY SMTT(60)
  <2>6. q.status # "waiting" => q.wait = 0
    BY SMTT(60), <1>4
  <2>7. q.budget >= 1 /\ (q.status = "completed" => q.step = Finalize)
    BY <1>1 DEF RunShaped
  <2> QED
    BY <1>2, <1>5, <2>1, <2>2, <2>3, <2>4, <2>5, <2>6, <2>7 DEF RunShaped
<1>7. LedgerTells(r)'
  <2>1. \A s \in ledger[r] : 1..(s - 1) \subseteq q.artifacts
    BY <1>1, <1>5 DEF LedgerTells
  <2> QED
    BY <1>1, <1>2, <1>5, <2>1 DEF LedgerTells
<1>8. ReceiptsTell(r)' /\ receipts' \in [Runs -> Seq(Receipt)]
  <2>1. run[r].status \notin Terminals
    BY DEF Terminals
  <2>2. \/ new.outcome = run'[r].status /\ run'[r].status \in Terminals
        \/ /\ new.outcome \notin Terminals /\ run'[r].status \notin Terminals
           /\ \/ run'[r].step = run[r].step + 1
              \/ /\ run'[r].step = run[r].step /\ run'[r].status # "running"
                 /\ run'[r].attempts[run[r].step] = new.attempt
    BY <1>2, <1>4 DEF Terminals
  <2> QED
    BY <2>1, <2>2, NewReceipt
<1>9. TypeOK'
  BY <1>2, <1>8 DEF WorkflowInv, TypeOK
<1>10. WorkersFenced'
  <2>1. \A p \in Runs : run[p].artifacts \subseteq run'[p].artifacts
    BY <1>2, <1>5
  <2> QED
    BY <2>1, WorkersKeep
<1>11. \A p \in Runs \ {r} : receipts'[p] = receipts[p]
  BY <1>1
<1>12. RunsKept
  <2>1. run[r].status \notin Terminals
    BY DEF Terminals
  <2> QED
    BY ZenonT(60), <1>2, <1>5, <1>11, <2>1, RunGoesOn
<1> QED
  BY SMTT(60), <1>12, <1>2, <1>6, <1>7, <1>8, <1>9, <1>10, <1>11, OneRunMoves

(* A step of a run is settled under the claim its attempt was counted for. *)
LEMMA HolderCurrent ==
  ASSUME WorkflowInv, NEW w \in Workers, worker[w].phase # "idle", HoldsActiveClaim(w),
         NEW r, r = worker[w].run
  PROVE  /\ r \in Runs /\ run[r].status = "running" /\ run[r].pinned
         /\ worker[w].step = run[r].step /\ run[r].step \in Steps
         /\ worker[w].attempt = run[r].attempts[run[r].step]
         /\ worker[w].attempt \in Nat /\ worker[w].attempt <= run[r].budget
         /\ worker[w].phase = "artifact" => run[r].step \in ledger[r]
<1>1. r \in Runs
  BY DEF WorkflowInv, WorkersFenced
<1>2. RunShaped(r) /\ run[r].step \in Steps /\ run[r].attempts \in [Steps -> Nat]
      /\ run[r].pinned \in BOOLEAN
  BY SMTT(60), <1>1, RunFields
<1>3. /\ run[r].status = "running" /\ worker[w].step = run[r].step
      /\ worker[w].attempt = run[r].attempts[run[r].step]
  BY SMTT(60), <1>2 DEF HoldsActiveClaim, RunShaped
<1>4. run[r].pinned /\ worker[w].attempt <= run[r].budget /\ worker[w].attempt \in Nat
  BY <1>2, <1>3 DEF RunShaped
<1>5. worker[w].phase = "artifact" => run[r].step \in ledger[r]
  BY <1>3 DEF WorkflowInv, WorkersFenced
<1> QED
  BY <1>1, <1>2, <1>3, <1>4, <1>5

(* The last attempt of a step ran out under a claim that expired.          *)
LEMMA ExhaustRunKeeps ==
  ASSUME WorkflowInv, NEW r \in Runs, NEW offered \in Budgets, ExhaustRun(r, offered)
  PROVE  WorkflowInv' /\ RunsKept
<1>1. run[r].status = "running"
  BY ClaimableHasBudget DEF ExhaustRun
<1>2. /\ run \in [Runs -> RunState] /\ run[r] \in RunState /\ run[r].pinned
      /\ run[r].attempts \in [Steps -> Nat] /\ run[r].step \in Steps
      /\ run[r].claim.attempt = run[r].attempts[run[r].step] /\ run[r].claim.attempt >= 1
      /\ run[r].budget \in Nat
  BY <1>1, RunFields DEF RunShaped
<1>3. run[r].claim # NoClaim
  BY <1>2 DEF NoClaim
<1> DEFINE q == [run[r] EXCEPT !.status = "failed", !.wait = 0, !.claim = NoClaim,
                               !.budget = run[r].budget, !.pinned = TRUE]
           new == [step |-> run[r].step, attempt |-> run[r].claim.attempt, outcome |-> "failed"]
<1>4. PinnedBudget(r, offered) = run[r].budget
  BY <1>2 DEF PinnedBudget
<1>5. /\ run' = [run EXCEPT ![r] = q]
      /\ receipts' = [receipts EXCEPT ![r] = Append(@, new)]
      /\ UNCHANGED <<usedTokens, ledger, effects, worker>>
  BY <1>2, <1>3, <1>4 DEF ExhaustRun, Log
<1>6. /\ q \in RunState /\ q.status = "failed" /\ q.wait = 0 /\ q.claim = NoClaim
      /\ q.budget = run[r].budget /\ q.pinned = TRUE /\ q.step = run[r].step
      /\ q.attempts = run[r].attempts /\ q.artifacts = run[r].artifacts
  <2>1. NoClaim \in Claim /\ 0 \in 0..RetryDelay
    BY WorkflowAssumption DEF NoClaim, Claim
  <2> QED
    BY <1>2, <2>1 DEF RunState, Statuses, Terminals
<1>7. /\ new \in Receipt /\ new.step = run[r].step /\ new.outcome = "failed"
      /\ new.attempt = run[r].attempts[run[r].step]
  BY <1>2 DEF Receipt, Terminals
<1>8. worker \in [Workers -> Execution]
  BY DEF WorkflowInv, TypeOK
<1>9. q.attempts = [run[r].attempts EXCEPT ![run[r].step] = new.attempt]
  BY <1>2, <1>6, <1>7
<1> HIDE DEF q, new
<1>10. PICK p, e : p = q /\ e = new
  OBVIOUS
<1>11. /\ p \in RunState /\ p.status = "failed" /\ p.wait = 0 /\ p.claim = NoClaim
       /\ p.budget = run[r].budget /\ p.pinned = TRUE /\ p.step = run[r].step
       /\ p.artifacts = run[r].artifacts
       /\ p.attempts = [run[r].attempts EXCEPT ![run[r].step] = e.attempt]
       /\ e \in Receipt /\ e.step = run[r].step /\ e.outcome = "failed"
       /\ e.attempt = run[r].attempts[run[r].step]
       /\ run' = [run EXCEPT ![r] = p] /\ receipts' = [receipts EXCEPT ![r] = Append(@, e)]
  BY <1>5, <1>6, <1>7, <1>9, <1>10
<1>12. Settles(r, p, e)
  BY <1>1, <1>2, <1>11 DEF Settles
<1>13. /\ worker' \in [Workers -> Execution]
       /\ \A v \in Workers : worker'[v] = worker[v] \/ worker'[v] = Idle
  BY <1>5, <1>8
<1> QED
  BY <1>5, <1>11, <1>12, <1>13, ReceiptMove

(* What a step is checkpointed with, or reported failed, is its claim's.   *)
LEMMA HolderSettles ==
  ASSUME WorkflowInv, NEW w \in Workers, worker[w].phase # "idle", HoldsActiveClaim(w),
         NEW r, r = worker[w].run, NEW q \in RunState, NEW e \in Receipt,
         run' = [run EXCEPT ![r] = q],
         receipts' = [receipts EXCEPT ![r] = Append(@, e)],
         worker' = [worker EXCEPT ![w] = Idle],
         UNCHANGED <<usedTokens, ledger, effects>>,
         Settles(r, q, e)
  PROVE  WorkflowInv' /\ RunsKept
<1>1. r \in Runs
  BY HolderCurrent
<1>2. worker \in [Workers -> Execution] /\ Idle \in Execution
  BY DEF WorkflowInv, TypeOK, Idle, Execution, Phases, Steps
<1>3. /\ worker' \in [Workers -> Execution]
      /\ \A v \in Workers : worker'[v] = worker[v] \/ worker'[v] = Idle
  BY <1>2
<1> QED
  BY <1>1, <1>3, ReceiptMove

LEMMA CheckpointStepKeeps ==
  ASSUME WorkflowInv, NEW w \in Workers, CheckpointStep(w)
  PROVE  WorkflowInv' /\ RunsKept
<1>1. PICK r, s : r = worker[w].run /\ s = worker[w].step
  OBVIOUS
<1>2. worker[w].phase = "artifact" /\ HoldsActiveClaim(w)
  BY DEF CheckpointStep
<1>3. /\ r \in Runs /\ run[r].status = "running" /\ run[r].pinned
      /\ s = run[r].step /\ s \in Steps /\ worker[w].attempt = run[r].attempts[s]
      /\ worker[w].attempt \in Nat /\ s \in ledger[r]
  BY <1>1, <1>2, HolderCurrent
<1>4. /\ run \in [Runs -> RunState] /\ run[r] \in RunState /\ run[r].artifacts \subseteq Steps
      /\ run[r].attempts \in [Steps -> Nat] /\ run[r].wait = 0 /\ run[r].pinned = TRUE
  BY SMTT(60), <1>3, RunFields DEF RunShaped
<1> DEFINE q == [run[r] EXCEPT !.status = IF s = Finalize THEN "completed" ELSE "queued",
                               !.step = Following(s),
                               !.artifacts = @ \cup ({s} \ {Finalize}),
                               !.claim = NoClaim]
           new == [step |-> s, attempt |-> worker[w].attempt,
                   outcome |-> IF s = Finalize THEN "completed" ELSE "checkpointed"]
<1>5. /\ run' = [run EXCEPT ![r] = q]
      /\ receipts' = [receipts EXCEPT ![r] = Append(@, new)]
      /\ worker' = [worker EXCEPT ![w] = Idle]
      /\ UNCHANGED <<usedTokens, ledger, effects>>
  BY <1>1, <1>3, <1>4 DEF CheckpointStep, Log
<1>6. /\ q.status = IF s = Finalize THEN "completed" ELSE "queued"
      /\ q.wait = 0 /\ q.claim = NoClaim /\ q.step = Following(s)
      /\ q.budget = run[r].budget /\ q.pinned = TRUE
      /\ q.attempts = run[r].attempts
      /\ q.artifacts = run[r].artifacts \cup ({s} \ {Finalize})
  BY <1>4 DEF RunState
<1>7. q \in RunState
  <2>1. NoClaim \in Claim
    BY WorkflowAssumption DEF NoClaim, Claim
  <2>2. Following(s) \in Steps /\ {s} \ {Finalize} \subseteq Steps
    BY <1>3 DEF Following, Steps, Finalize
  <2> QED
    BY ZenonT(60), <1>3, <1>4, <2>1, <2>2 DEF RunState, Statuses, Terminals
<1>8. /\ new \in Receipt /\ new.step = s /\ new.attempt = run[r].attempts[s]
      /\ new.outcome = IF s = Finalize THEN "completed" ELSE "checkpointed"
  BY <1>3 DEF Receipt, Terminals
<1>9. q.attempts = [run[r].attempts EXCEPT ![s] = new.attempt]
  BY <1>3, <1>4, <1>6, <1>8
<1> HIDE DEF q, new
<1>10. Settles(r, q, new)
  <2>1. CASE s = Finalize
    <3>1. /\ q.status = "completed" /\ new.outcome = "completed"
          /\ q.step = Finalize /\ q.artifacts = run[r].artifacts
      BY <1>6, <1>8, <2>1 DEF Following
    <3> QED
      BY <1>3, <1>6, <1>8, <1>9, <2>1, <3>1 DEF Settles
  <2>2. CASE s # Finalize
    <3>1. /\ q.status = "queued" /\ new.outcome = "checkpointed"
          /\ q.step = s + 1 /\ q.artifacts = run[r].artifacts \cup {s}
      BY <1>6, <1>8, <2>2 DEF Following
    <3> QED
      BY <1>3, <1>6, <1>8, <1>9, <2>2, <3>1 DEF Settles
  <2> QED
    BY <2>1, <2>2
<1>11. PICK p, e : p = q /\ e = new
  OBVIOUS
<1>12. /\ p \in RunState /\ e \in Receipt /\ Settles(r, p, e) /\ worker[w].phase # "idle"
       /\ run' = [run EXCEPT ![r] = p] /\ receipts' = [receipts EXCEPT ![r] = Append(@, e)]
  BY <1>2, <1>5, <1>7, <1>8, <1>10, <1>11
<1> QED
  BY <1>1, <1>2, <1>5, <1>12, HolderSettles

LEMMA FailStepKeeps ==
  ASSUME WorkflowInv, NEW w \in Workers, FailStep(w)
  PROVE  WorkflowInv' /\ RunsKept
<1>1. PICK r, s : r = worker[w].run /\ s = worker[w].step
  OBVIOUS
<1>2. worker[w].phase \in {"retryable", "rejected"} /\ HoldsActiveClaim(w)
  BY DEF FailStep
<1>3. /\ r \in Runs /\ run[r].status = "running" /\ run[r].pinned
      /\ s = run[r].step /\ s \in Steps /\ worker[w].attempt = run[r].attempts[s]
      /\ worker[w].attempt \in Nat
  BY <1>1, <1>2, HolderCurrent
<1>4. /\ run \in [Runs -> RunState] /\ run[r] \in RunState /\ run[r].artifacts \subseteq Steps
      /\ run[r].attempts \in [Steps -> Nat] /\ run[r].pinned = TRUE /\ run[r].budget \in Nat
  BY <1>3, RunFields
<1>5. PICK ending \in {"failed", "waiting"} :
         /\ ending = "waiting" => worker[w].attempt < run[r].budget
         /\ run' = [run EXCEPT ![r].status = ending,
                               ![r].wait = IF ending = "failed" THEN 0 ELSE RetryDelay,
                               ![r].claim = NoClaim]
         /\ Log(r, s, worker[w].attempt, IF ending = "failed" THEN "failed" ELSE "retry_scheduled")
  <2>1. CASE worker[w].phase = "rejected" \/ worker[w].attempt >= run[r].budget
    <3>1. /\ run' = [run EXCEPT ![r].status = "failed", ![r].wait = 0, ![r].claim = NoClaim]
          /\ Log(r, s, worker[w].attempt, "failed")
      BY <1>1, <2>1 DEF FailStep
    <3> QED
      BY <3>1
  <2>2. CASE ~(worker[w].phase = "rejected" \/ worker[w].attempt >= run[r].budget)
    <3>1. /\ run' = [run EXCEPT ![r].status = "waiting", ![r].wait = RetryDelay,
                                ![r].claim = NoClaim]
          /\ Log(r, s, worker[w].attempt, "retry_scheduled")
      BY <1>1, <2>2 DEF FailStep
    <3>2. worker[w].attempt < run[r].budget
      BY SMTT(60), <1>3, <1>4, <2>2
    <3> QED
      BY SMTT(60), <3>1, <3>2
  <2> QED
    BY SMTT(60), <2>1, <2>2
<1> DEFINE q == [run[r] EXCEPT !.status = ending,
                               !.wait = IF ending = "failed" THEN 0 ELSE RetryDelay,
                               !.claim = NoClaim]
           new == [step |-> s, attempt |-> worker[w].attempt,
                   outcome |-> IF ending = "failed" THEN "failed" ELSE "retry_scheduled"]
<1>6. /\ run' = [run EXCEPT ![r] = q]
      /\ receipts' = [receipts EXCEPT ![r] = Append(@, new)]
      /\ worker' = [worker EXCEPT ![w] = Idle]
      /\ UNCHANGED <<usedTokens, ledger, effects>>
  BY <1>3, <1>4, <1>5 DEF FailStep, Log
<1>7. /\ q.status = ending /\ (q.wait > 0 => ending = "waiting")
      /\ q.claim = NoClaim /\ q.step = s /\ q.budget = run[r].budget /\ q.pinned = TRUE
      /\ q.attempts = run[r].attempts /\ q.artifacts = run[r].artifacts
  BY <1>3, <1>4 DEF RunState
<1>8. q \in RunState
  <2>1. NoClaim \in Claim /\ 0 \in 0..RetryDelay /\ RetryDelay \in 0..RetryDelay
    BY WorkflowAssumption DEF NoClaim, Claim
  <2>2. ending \in Statuses
    BY DEF Statuses, Terminals
  <2> QED
    BY <1>4, <2>1, <2>2 DEF RunState
<1>9. /\ new \in Receipt /\ new.step = s /\ new.attempt = run[r].attempts[s]
      /\ new.outcome = IF ending = "failed" THEN "failed" ELSE "retry_scheduled"
  BY <1>3 DEF Receipt, Terminals
<1>10. q.attempts = [run[r].attempts EXCEPT ![s] = new.attempt]
  BY <1>3, <1>4, <1>7, <1>9
<1> HIDE DEF q, new
<1>11. Settles(r, q, new)
  <2>1. CASE ending = "failed"
    BY <1>3, <1>7, <1>9, <1>10, <2>1 DEF Settles
  <2>2. CASE ending = "waiting"
    BY <1>3, <1>5, <1>7, <1>9, <1>10, <2>2 DEF Settles
  <2> QED
    BY <2>1, <2>2
<1>12. PICK p, e : p = q /\ e = new
  OBVIOUS
<1>13. /\ p \in RunState /\ e \in Receipt /\ Settles(r, p, e) /\ worker[w].phase # "idle"
       /\ run' = [run EXCEPT ![r] = p] /\ receipts' = [receipts EXCEPT ![r] = Append(@, e)]
  BY <1>2, <1>6, <1>8, <1>9, <1>11, <1>12
<1> QED
  BY <1>1, <1>2, <1>6, <1>13, HolderSettles

LEMMA CancelKeeps ==
  ASSUME WorkflowInv, NEW r \in Runs, Cancel(r)
  PROVE  WorkflowInv' /\ RunsKept
<1>1. /\ run \in [Runs -> RunState] /\ run[r] \in RunState /\ RunShaped(r)
      /\ run[r].attempts \in [Steps -> Nat] /\ run[r].step \in Steps
      /\ run[r].status \in {"queued", "running", "waiting"}
  BY RunFields DEF Cancel
<1>2. PICK s, attempt : /\ s = run[r].step
                        /\ attempt = IF run[r].status = "running" THEN run[r].attempts[s]
                                                                 ELSE run[r].attempts[s] + 1
  OBVIOUS
<1>3. attempt = IF run[r].claim = NoClaim THEN run[r].attempts[s] + 1
                                          ELSE run[r].claim.attempt
  <2>1. CASE run[r].status = "running"
    <3>1. run[r].claim.attempt = run[r].attempts[s] /\ run[r].claim.attempt >= 1
      BY <1>1, <1>2, <2>1 DEF RunShaped
    <3>2. run[r].claim # NoClaim
      BY <3>1 DEF NoClaim
    <3> QED
      BY <1>2, <2>1, <3>1, <3>2
  <2>2. CASE run[r].status # "running"
    BY <1>1, <1>2, <2>2 DEF RunShaped
  <2> QED
    BY <2>1, <2>2
<1>4. attempt \in Nat
  BY <1>1, <1>2
<1> DEFINE q == [run[r] EXCEPT !.status = "cancelled", !.wait = 0, !.claim = NoClaim,
                               !.attempts[s] = attempt]
           new == [step |-> s, attempt |-> attempt, outcome |-> "cancelled"]
<1>5. /\ run' = [run EXCEPT ![r] = q]
      /\ receipts' = [receipts EXCEPT ![r] = Append(@, new)]
      /\ UNCHANGED <<usedTokens, ledger, effects, worker>>
  <2>1. /\ run' = [run EXCEPT ![r].status = "cancelled", ![r].wait = 0, ![r].claim = NoClaim,
                              ![r].attempts[s] = attempt]
        /\ Log(r, s, attempt, "cancelled")
        /\ UNCHANGED <<usedTokens, ledger, effects, worker>>
    BY <1>2, <1>3 DEF Cancel
  <2>2. run' = [run EXCEPT ![r] = q]
    BY ZenonT(60), <1>1, <2>1
  <2> QED
    BY <2>1, <2>2 DEF Log
<1>6. /\ q.status = "cancelled" /\ q.wait = 0
      /\ q.claim = NoClaim /\ q.step = s /\ q.budget = run[r].budget
      /\ q.attempts = [run[r].attempts EXCEPT ![s] = attempt]
      /\ q.artifacts = run[r].artifacts
  BY <1>1, <1>2 DEF RunState
<1>7. q \in RunState
  <2>1. NoClaim \in Claim /\ 0 \in 0..RetryDelay
    BY WorkflowAssumption DEF NoClaim, Claim
  <2>2. [run[r].attempts EXCEPT ![s] = attempt] \in [Steps -> Nat]
    BY <1>1, <1>4
  <2>3. "cancelled" \in Statuses
    BY DEF Statuses, Terminals
  <2> QED
    BY <1>1, <2>1, <2>2, <2>3 DEF RunState
<1>8. new \in Receipt /\ new.step = s /\ new.attempt = attempt /\ new.outcome = "cancelled"
  BY <1>1, <1>2, <1>4 DEF Receipt, Terminals
<1> HIDE DEF q, new
<1>9. Settles(r, q, new)
  BY <1>1, <1>2, <1>6, <1>8 DEF Settles
<1>10. PICK p, e : p = q /\ e = new
  OBVIOUS
<1>11. /\ p \in RunState /\ e \in Receipt /\ Settles(r, p, e)
       /\ run' = [run EXCEPT ![r] = p] /\ receipts' = [receipts EXCEPT ![r] = Append(@, e)]
  BY <1>5, <1>7, <1>8, <1>9, <1>10
<1>12. /\ worker' \in [Workers -> Execution]
       /\ \A v \in Workers : worker'[v] = worker[v] \/ worker'[v] = Idle
  BY <1>5 DEF WorkflowInv, TypeOK
<1> QED
  BY <1>5, <1>11, <1>12, ReceiptMove

(* An activity is answered from the ledger, takes effect once, or fails.   *)
LEMMA RunStepKeeps ==
  ASSUME WorkflowInv, NEW w \in Workers, RunStep(w)
  PROVE  WorkflowInv' /\ RunsKept
<1>1. PICK r, s : r = worker[w].run /\ s = worker[w].step
  OBVIOUS
<1>2. /\ worker \in [Workers -> Execution] /\ worker[w] \in Execution
      /\ worker[w].phase = "claimed" /\ r \in Runs /\ s \in Steps
      /\ worker[w].artifacts \subseteq run[r].artifacts
      /\ UNCHANGED <<run, receipts, usedTokens>>
  BY <1>1 DEF RunStep, runVars, WorkflowInv, TypeOK, WorkersFenced, Execution
<1>3. PICK phase \in {"artifact", "retryable", "rejected"} :
         /\ worker' = [worker EXCEPT ![w].phase = phase]
         /\ \/ UNCHANGED <<ledger, effects>> /\ (phase = "artifact" => s \in ledger[r])
            \/ /\ s \notin ledger[r] /\ 1..(s - 1) \subseteq worker[w].artifacts
               /\ ledger' = [ledger EXCEPT ![r] = @ \cup {s}]
               /\ effects' = [effects EXCEPT ![r][s] = @ + 1]
  <2>1. CASE /\ s \in ledger[r]
             /\ worker' = [worker EXCEPT ![w].phase = "artifact"]
             /\ UNCHANGED <<ledger, effects>>
    BY <2>1
  <2>2. CASE /\ s \notin ledger[r]
             /\ 1..(s - 1) \subseteq worker[w].artifacts
             /\ ledger' = [ledger EXCEPT ![r] = @ \cup {s}]
             /\ effects' = [effects EXCEPT ![r][s] = @ + 1]
             /\ worker' = [worker EXCEPT ![w].phase = "artifact"]
    BY <2>2
  <2>3. CASE /\ s \notin ledger[r]
             /\ \E failure \in {"retryable", "rejected"} :
                  worker' = [worker EXCEPT ![w].phase = failure]
             /\ UNCHANGED <<ledger, effects>>
    BY <2>3
  <2> QED
    BY <1>1, <2>1, <2>2, <2>3 DEF RunStep
<1>4. /\ ledger \in [Runs -> SUBSET Steps] /\ effects \in [Runs -> [Steps -> Nat]]
      /\ effects[r] \in [Steps -> Nat] /\ LedgerTells(r) /\ RunShaped(r) /\ ReceiptsTell(r)
      /\ run[r].artifacts \subseteq Steps
  BY <1>2, RunFields DEF WorkflowInv, TypeOK
<1>5. /\ ledger' \in [Runs -> SUBSET Steps] /\ effects' \in [Runs -> [Steps -> Nat]]
      /\ \A q \in Runs \ {r} : ledger'[q] = ledger[q] /\ effects'[q] = effects[q]
      /\ \A q \in Runs : ledger[q] \subseteq ledger'[q]
      /\ phase = "artifact" => s \in ledger'[r]
  <2>1. CASE UNCHANGED <<ledger, effects>>
    BY <1>2, <1>3, <1>4, <2>1
  <2>2. CASE /\ ledger' = [ledger EXCEPT ![r] = @ \cup {s}]
             /\ effects' = [effects EXCEPT ![r][s] = @ + 1]
    <3>1. [effects[r] EXCEPT ![s] = @ + 1] \in [Steps -> Nat] /\ ledger[r] \cup {s} \subseteq Steps
      BY <1>2, <1>4
    <3>2. effects' = [effects EXCEPT ![r] = [effects[r] EXCEPT ![s] = @ + 1]]
      BY <1>2, <1>4, <2>2
    <3> QED
      BY <1>2, <1>4, <2>2, <3>1, <3>2
  <2> QED
    BY <1>3, <2>1, <2>2
<1>6. worker' \in [Workers -> Execution]
  BY <1>2, <1>3 DEF Execution, Phases
<1>7. TypeOK'
  BY <1>2, <1>5, <1>6 DEF WorkflowInv, TypeOK
<1>8. LedgerTells(r)'
  <2>1. CASE UNCHANGED <<ledger, effects>>
    BY <1>2, <1>4, <2>1 DEF LedgerTells
  <2>2. CASE /\ s \notin ledger[r] /\ 1..(s - 1) \subseteq worker[w].artifacts
             /\ ledger' = [ledger EXCEPT ![r] = @ \cup {s}]
             /\ effects' = [effects EXCEPT ![r][s] = @ + 1]
    <3>1. ledger'[r] = ledger[r] \cup {s} /\ effects'[r] = [effects[r] EXCEPT ![s] = @ + 1]
      BY <1>2, <1>4, <2>2
    <3>2. \A z \in Steps : effects'[r][z] = IF z \in ledger'[r] THEN 1 ELSE 0
      <4> TAKE z \in Steps
      <4>1. effects[r][z] = IF z \in ledger[r] THEN 1 ELSE 0
        BY <1>4 DEF LedgerTells
      <4> QED
        BY <1>2, <1>4, <2>2, <3>1, <4>1
    <3>3. 1..(s - 1) \subseteq run[r].artifacts
      BY <1>2, <2>2
    <3> QED
      BY <1>2, <1>4, <3>1, <3>2, <3>3 DEF LedgerTells
  <2> QED
    BY <1>3, <2>1, <2>2
<1>9. RunShaped(r)' /\ ReceiptsTell(r)'
  <2>1. RunShaped(r)'
    BY <1>2, <1>4 DEF RunShaped
  <2>2. ReceiptsTell(r)'
    BY <1>2, <1>4 DEF ReceiptsTell, Ahead
  <2> QED
    BY <2>1, <2>2
<1>10. WorkersFenced'
  <2>1. \A v \in Workers : /\ worker'[v].run = worker[v].run /\ worker'[v].token = worker[v].token
                           /\ worker'[v].step = worker[v].step
                           /\ worker'[v].artifacts = worker[v].artifacts
                           /\ worker'[v].phase # "idle" => worker[v].phase # "idle"
                           /\ worker'[v].phase = "artifact" /\ v # w => worker[v].phase = "artifact"
    BY <1>2, <1>3 DEF Execution
  <2>2. worker'[w].phase = phase
    BY <1>2, <1>3 DEF Execution
  <2>3. ASSUME NEW v \in Workers, worker'[v].phase # "idle"
        PROVE  /\ worker'[v].run \in Runs
               /\ worker'[v].token \in usedTokens'
               /\ worker'[v].artifacts \subseteq run'[worker'[v].run].artifacts
               /\ worker'[v].phase = "artifact" =>
                    worker'[v].step \in ledger'[worker'[v].run]
    <3>1. /\ worker[v].run \in Runs /\ worker[v].token \in usedTokens
          /\ worker[v].artifacts \subseteq run[worker[v].run].artifacts
          /\ worker[v].phase = "artifact" => worker[v].step \in ledger[worker[v].run]
      BY <2>1, <2>3 DEF WorkflowInv, WorkersFenced
    <3>2. run' = run /\ usedTokens' = usedTokens
      BY <1>2
    <3> QED
      BY <1>1, <1>5, <2>1, <2>2, <3>1, <3>2
  <2>4. ASSUME NEW v \in Workers, NEW x \in Workers, worker'[v].phase # "idle",
               worker'[x].phase # "idle", worker'[v].token = worker'[x].token
        PROVE  v = x
    BY <2>1, <2>4 DEF WorkflowInv, WorkersFenced
  <2> QED
    BY <2>3, <2>4 DEF WorkersFenced
<1>11. RunsKept
  BY <1>2 DEF RunsKept
<1> QED
  BY <1>11, <1>2, <1>5, <1>7, <1>8, <1>9, <1>10, OneRunMoves

LEMMA LoseExecutionKeeps ==
  ASSUME WorkflowInv, NEW w \in Workers, LoseExecution(w)
  PROVE  WorkflowInv' /\ RunsKept
<1>1. /\ worker' = [worker EXCEPT ![w] = Idle] /\ worker \in [Workers -> Execution]
      /\ UNCHANGED <<run, receipts, usedTokens, ledger, effects>>
  BY DEF LoseExecution, runVars, WorkflowInv, TypeOK
<1>2. Idle \in Execution
  BY DEF Idle, Execution, Phases, Steps
<1>3. TypeOK'
  BY <1>1, <1>2 DEF WorkflowInv, TypeOK
<1>4. WorkersFenced'
  BY <1>1, WorkersKeep
<1>5. ASSUME NEW r \in Runs
      PROVE  RunShaped(r)' /\ LedgerTells(r)' /\ ReceiptsTell(r)'
  BY <1>1 DEF WorkflowInv, RunShaped, LedgerTells, ReceiptsTell, Ahead
<1>6. RunsKept
  BY <1>1 DEF RunsKept
<1> QED
  BY <1>6, <1>3, <1>4, <1>5 DEF WorkflowInv

(* Time takes nothing from a run but its waiting and its lease.            *)
LEMMA TickFields ==
  ASSUME WorkflowInv, Tick, NEW r \in Runs
  PROVE  /\ run'[r] \in RunState
         /\ run'[r].status = run[r].status /\ run'[r].step = run[r].step
         /\ run'[r].attempts = run[r].attempts /\ run'[r].budget = run[r].budget
         /\ run'[r].pinned = run[r].pinned /\ run'[r].artifacts = run[r].artifacts
         /\ run'[r].claim.token = run[r].claim.token
         /\ run'[r].claim.attempt = run[r].claim.attempt
         /\ run[r].wait = 0 => run'[r].wait = 0
         /\ run[r].claim = NoClaim => run'[r].claim = NoClaim
         /\ run[r].wait = 0 /\ run[r].claim = NoClaim => run'[r] = run[r]
<1>1. /\ run[r] \in RunState /\ run[r].claim \in Claim /\ run[r].wait \in 0..RetryDelay
      /\ run[r].claim.lease \in 0..Lease
  BY RunFields DEF RunState, Claim
<1>2. run'[r] = [run[r] EXCEPT !.wait = Countdown(@), !.claim.lease = Countdown(@)]
  BY DEF Tick
<1>3. PICK claim : claim = [run[r].claim EXCEPT !.lease = Countdown(@)]
  OBVIOUS
<1>4. Countdown(run[r].wait) \in 0..RetryDelay /\ Countdown(run[r].claim.lease) \in 0..Lease
  BY <1>1, WorkflowAssumption DEF Countdown
<1>5. claim \in Claim /\ claim.token = run[r].claim.token /\ claim.attempt = run[r].claim.attempt
  BY <1>1, <1>3, <1>4 DEF Claim
<1>6. run'[r] = [run[r] EXCEPT !.wait = Countdown(@), !.claim = claim]
  BY <1>1, <1>2, <1>3 DEF RunState
<1>7. run[r].claim = NoClaim => claim = run[r].claim
  BY <1>1, <1>3 DEF NoClaim, Claim, Countdown
<1>8. run[r].wait = 0 => Countdown(run[r].wait) = run[r].wait
  BY DEF Countdown
<1>9. run'[r] \in RunState
  BY <1>1, <1>4, <1>5, <1>6 DEF RunState
<1>10. /\ run'[r].status = run[r].status /\ run'[r].step = run[r].step
       /\ run'[r].attempts = run[r].attempts /\ run'[r].budget = run[r].budget
       /\ run'[r].pinned = run[r].pinned /\ run'[r].artifacts = run[r].artifacts
       /\ run'[r].claim = claim /\ run'[r].wait = Countdown(run[r].wait)
  BY <1>1, <1>6 DEF RunState
<1>11. run[r].wait = 0 /\ run[r].claim = NoClaim => run'[r] = run[r]
  BY ZenonT(60), <1>1, <1>6, <1>7, <1>8 DEF RunState
<1> QED
  BY <1>5, <1>7, <1>8, <1>9, <1>10, <1>11

LEMMA TickKeeps ==
  ASSUME WorkflowInv, Tick
  PROVE  WorkflowInv' /\ RunsKept
<1>1. run' \in [Runs -> RunState] /\ UNCHANGED <<receipts, usedTokens, ledger, effects, worker>>
  BY TickFields DEF Tick
<1>2. TypeOK'
  BY <1>1 DEF WorkflowInv, TypeOK
<1>3. ASSUME NEW r \in Runs
      PROVE  RunShaped(r)' /\ LedgerTells(r)' /\ ReceiptsTell(r)'
  <2>1. RunShaped(r) /\ LedgerTells(r) /\ ReceiptsTell(r)
    BY DEF WorkflowInv
  <2>2. RunShaped(r)'
    BY <1>1, <2>1, TickFields DEF RunShaped
  <2>3. LedgerTells(r)'
    BY <1>1, <2>1, TickFields DEF LedgerTells
  <2>4. ReceiptsTell(r)'
    BY <1>1, <2>1, TickFields DEF ReceiptsTell, Ahead
  <2> QED
    BY <2>2, <2>3, <2>4
<1>4. WorkersFenced'
  BY <1>1, TickFields, WorkersKeep
<1>5. RunsKept
  <2>1. \A r \in Runs : run[r].status \in Terminals => run'[r] = run[r]
    BY TickFields DEF WorkflowInv, RunShaped, Terminals
  <2> QED
    BY <1>1, <2>1, TickFields DEF RunsKept
<1> QED
  BY SMTT(60), <1>5, <1>2, <1>3, <1>4 DEF WorkflowInv

-------------------------------------------------------------------------------
LEMMA WorkflowInvHolds == Init => WorkflowInv
<1> SUFFICES ASSUME Init
             PROVE  WorkflowInv
  OBVIOUS
<1>1. /\ AbsentRun.status = "absent" /\ AbsentRun.step = 1 /\ AbsentRun.budget = DefaultBudget
      /\ AbsentRun.attempts = [s \in Steps |-> 0] /\ AbsentRun.pinned = FALSE
      /\ AbsentRun.wait = 0 /\ AbsentRun.claim = NoClaim /\ AbsentRun.artifacts = {}
  BY DEF AbsentRun
<1>2. AbsentRun \in RunState
  <2>1. NoClaim \in Claim /\ 0 \in 0..RetryDelay /\ DefaultBudget \in Nat /\ 1 \in Steps
    BY WorkflowAssumption DEF NoClaim, Claim, Steps
  <2>2. [s \in Steps |-> 0] \in [Steps -> Nat]
    OBVIOUS
  <2> QED
    BY <2>1, <2>2 DEF AbsentRun, RunState, Statuses
<1>3. Idle \in Execution /\ Idle.phase = "idle"
  BY DEF Idle, Execution, Phases, Steps
<1>4. TypeOK
  BY <1>2, <1>3 DEF Init, TypeOK
<1>5. ASSUME NEW r \in Runs
      PROVE  RunShaped(r) /\ LedgerTells(r) /\ ReceiptsTell(r)
  <2>1. run[r] = AbsentRun /\ receipts[r] = <<>> /\ ledger[r] = {}
        /\ effects[r] = [s \in Steps |-> 0]
    BY DEF Init
  <2>2. RunShaped(r)
    <3>1. 1..(1 - 1) = {} /\ DefaultBudget >= 1
      BY WorkflowAssumption
    <3>2. \A s \in Steps : run[r].attempts[s] = 0
      BY <1>1, <2>1
    <3>3. 1 \in Steps /\ DefaultBudget \in Nat
      BY WorkflowAssumption DEF Steps
    <3>4. /\ run[r].status = "absent" /\ run[r].step = 1 /\ run[r].budget = DefaultBudget
          /\ run[r].wait = 0 /\ run[r].claim = NoClaim /\ run[r].artifacts = {}
      BY <1>1, <2>1
    <3>5. run[r].artifacts = 1..(run[r].step - 1)
      BY <3>1, <3>4
    <3>6. run[r].attempts[run[r].step] < run[r].budget
      BY <3>1, <3>2, <3>3, <3>4
    <3>7. \A s \in Steps : run[r].attempts[s] <= run[r].budget
      BY <3>2, <3>3, <3>4
    <3> QED
      BY <3>1, <3>2, <3>4, <3>5, <3>6, <3>7 DEF RunShaped
  <2>3. LedgerTells(r)
    BY <1>1, <2>1 DEF LedgerTells
  <2>4. ReceiptsTell(r)
    BY <1>1, <2>1 DEF ReceiptsTell, Terminals
  <2> QED
    BY <2>2, <2>3, <2>4
<1>6. WorkersFenced
  BY <1>3 DEF Init, WorkersFenced
<1> QED
  BY <1>4, <1>5, <1>6 DEF WorkflowInv

LEMMA WorkflowInvKept == WorkflowInv /\ [Next]_vars => WorkflowInv' /\ RunsKept
<1> SUFFICES ASSUME WorkflowInv, [Next]_vars
             PROVE  WorkflowInv' /\ RunsKept
  OBVIOUS
<1>1. CASE \E r \in Runs : EnqueueSessionCompletion(r)
  BY <1>1, EnqueueKeeps
<1>2. CASE \E r \in Runs : Poll(r)
  BY <1>2, ClaimStepKeeps, ExhaustRunKeeps DEF Poll
<1>3. CASE \E r \in Runs : \E offered \in Budgets : RejectClaim(r, offered)
  BY <1>3, RejectClaimKeeps
<1>4. CASE \E r \in Runs : Cancel(r)
  BY <1>4, CancelKeeps
<1>5. CASE \E w \in Workers : RunStep(w)
  BY <1>5, RunStepKeeps
<1>6. CASE \E w \in Workers : CheckpointStep(w)
  BY <1>6, CheckpointStepKeeps
<1>7. CASE \E w \in Workers : FailStep(w)
  BY <1>7, FailStepKeeps
<1>8. CASE \E w \in Workers : LoseExecution(w)
  BY <1>8, LoseExecutionKeeps
<1>9. CASE Tick
  BY <1>9, TickKeeps
<1>10. CASE UNCHANGED vars
  BY <1>10 DEF vars, WorkflowInv, TypeOK, RunShaped, LedgerTells, ReceiptsTell, Ahead, WorkersFenced,
                 RunsKept
<1> QED
  BY <1>1, <1>2, <1>3, <1>4, <1>5, <1>6, <1>7, <1>8, <1>9, <1>10 DEF Next

LEMMA WorkflowInductive == Spec => []WorkflowInv
  BY WorkflowInvHolds, WorkflowInvKept, PTL DEF Spec

(* Each activity of a post-call run takes effect at most once, in its turn *)
(* and before its checkpoint, for any number of runs, workers and tokens.  *)
THEOREM ActivitiesHappenOnce == Spec => []EffectsHappenOnceInOrder
  BY WorkflowInductive, WorkflowInvImplies, PTL

(* One claim at a time may settle a step of a run, no stale execution      *)
(* passes for it, and no step is attempted beyond the pinned budget.       *)
THEOREM ClaimsStaySound == Spec => []ClaimsAreSound
  BY WorkflowInductive, WorkflowInvImplies, PTL

(* The receipts of every run are in the order of its attempts, and only a  *)
(* finished run ends with the receipt of an outcome: its own.              *)
THEOREM ReceiptsStayTrue == Spec => []ReceiptsTellTheRun
  BY WorkflowInductive, WorkflowInvImplies, PTL

(* A finished run is final, whatever its late workers report, a pinned     *)
(* budget never moves, a run only moves on by one step, and no checkpoint  *)
(* is lost.                                                                *)
THEOREM FinishedRunsStay == Spec => TerminalIsFinal
<1>1. Spec => [][WorkflowInv /\ WorkflowInv' /\ [Next]_vars]_vars
  BY WorkflowInductive, PTL DEF Spec
<1>2. WorkflowInv /\ [Next]_vars => [RunsKept]_vars
  BY WorkflowInvKept
<1> QED
  BY <1>1, <1>2, PTL DEF TerminalIsFinal

-------------------------------------------------------------------------------
(* The runs implement the abstract ordered activities.                     *)
AbstractStatus       == [r \in Runs |-> Stands(r)]
AbstractCheckpointed == [r \in Runs |-> CheckpointedSteps(r)]

Unfinished == {"queued", "running", "waiting"}

(* An execution is one of a run that was enqueued. *)
ExecutionsHaveRuns ==
  \A w \in Workers : worker[w].phase # "idle" => run[worker[w].run].status # "absent"

(* Where a step leaves one run, the others staying where they were. *)
Leaves(r, status, step) ==
  /\ run' \in [Runs -> RunState]
  /\ \A q \in Runs \ {r} : run'[q] = run[q]
  /\ run'[r].status = status
  /\ run'[r].step = step

(* A run that is claimed goes on where it was.                             *)
LEMMA ClaimLeaves ==
  ASSUME WorkflowInv, NEW w \in Workers, NEW r \in Runs, NEW t \in Tokens,
         NEW offered \in Budgets, ClaimStep(w, r, t, offered)
  PROVE  run[r].status \in Unfinished /\ Leaves(r, "running", run[r].step)
<1>1. run[r].status \in Unfinished
  BY ClaimableHasBudget DEF ClaimStep, Unfinished
<1>2. run \in [Runs -> RunState] /\ run[r] \in RunState /\ run' \in [Runs -> RunState]
  BY ClaimStepKeeps, RunFields DEF WorkflowInv, TypeOK
<1>3. PICK tried, claim, budget :
        run' = [run EXCEPT ![r].status = "running", ![r].wait = 0, ![r].budget = budget,
                           ![r].pinned = TRUE, ![r].attempts = tried, ![r].claim = claim]
  <2>1. PICK attempt, claim, budget :
          run' = [run EXCEPT ![r].status = "running", ![r].wait = 0, ![r].budget = budget,
                             ![r].pinned = TRUE, ![r].attempts[run[r].step] = attempt,
                             ![r].claim = claim]
    BY DEF ClaimStep
  <2>2. run' = [run EXCEPT ![r].status = "running", ![r].wait = 0, ![r].budget = budget,
                           ![r].pinned = TRUE,
                           ![r].attempts = [run[r].attempts EXCEPT ![run[r].step] = attempt],
                           ![r].claim = claim]
    BY ZenonT(60), <1>2, <2>1 DEF RunState
  <2> QED
    BY <2>2
<1> QED
  BY <1>1, <1>2, <1>3 DEF Leaves, RunState

(* A run whose claim is refused, and one that waits, stay where they are.  *)
LEMMA RejectLeaves ==
  ASSUME WorkflowInv, NEW r \in Runs, NEW offered \in Budgets, RejectClaim(r, offered)
  PROVE  Leaves(r, run[r].status, run[r].step)
<1>1. run \in [Runs -> RunState] /\ run[r] \in RunState /\ run' \in [Runs -> RunState]
  BY RejectClaimKeeps, RunFields DEF WorkflowInv, TypeOK
<1>2. run' = [run EXCEPT ![r].budget = offered, ![r].pinned = TRUE]
  BY DEF RejectClaim
<1> QED
  BY <1>1, <1>2 DEF Leaves, RunState

LEMMA EnqueueLeaves ==
  ASSUME WorkflowInv, NEW r \in Runs, EnqueueSessionCompletion(r)
  PROVE  run[r].status = "absent" /\ Leaves(r, "queued", run[r].step)
<1>1. run \in [Runs -> RunState] /\ run[r] \in RunState /\ run' \in [Runs -> RunState]
  BY EnqueueKeeps, RunFields DEF WorkflowInv, TypeOK
<1>2. run[r].status = "absent" /\ run' = [run EXCEPT ![r].status = "queued"]
  BY DEF EnqueueSessionCompletion
<1> QED
  BY <1>1, <1>2 DEF Leaves, RunState

LEMMA ExhaustLeaves ==
  ASSUME WorkflowInv, NEW r \in Runs, NEW offered \in Budgets, ExhaustRun(r, offered)
  PROVE  run[r].status \in Unfinished /\ Leaves(r, "failed", run[r].step)
<1>1. run \in [Runs -> RunState] /\ run[r] \in RunState /\ run' \in [Runs -> RunState]
  BY ExhaustRunKeeps, RunFields DEF WorkflowInv, TypeOK
<1>2. run[r].status \in Unfinished
  BY ClaimableHasBudget DEF ExhaustRun, Unfinished
<1>3. PICK budget : run' = [run EXCEPT ![r].status = "failed", ![r].wait = 0, ![r].claim = NoClaim,
                                       ![r].budget = budget, ![r].pinned = TRUE]
  BY DEF ExhaustRun
<1> QED
  BY <1>1, <1>2, <1>3 DEF Leaves, RunState

LEMMA CancelLeaves ==
  ASSUME WorkflowInv, NEW r \in Runs, Cancel(r)
  PROVE  run[r].status \in Unfinished /\ Leaves(r, "cancelled", run[r].step)
<1>1. run \in [Runs -> RunState] /\ run[r] \in RunState /\ run' \in [Runs -> RunState]
  BY CancelKeeps, RunFields DEF WorkflowInv, TypeOK
<1>2. PICK attempt :
        run' = [run EXCEPT ![r].status = "cancelled", ![r].wait = 0, ![r].claim = NoClaim,
                           ![r].attempts[run[r].step] = attempt]
  BY DEF Cancel
<1>3. PICK tried : tried = [run[r].attempts EXCEPT ![run[r].step] = attempt]
  OBVIOUS
<1>4. run' = [run EXCEPT ![r].status = "cancelled", ![r].wait = 0, ![r].claim = NoClaim,
                         ![r].attempts = tried]
  BY ZenonT(60), <1>1, <1>2, <1>3 DEF RunState
<1>5. run[r].status \in Unfinished
  BY DEF Cancel, Unfinished
<1> QED
  BY <1>1, <1>4, <1>5 DEF Leaves, RunState

LEMMA FailLeaves ==
  ASSUME WorkflowInv, NEW w \in Workers, FailStep(w), NEW r, r = worker[w].run
  PROVE  /\ r \in Runs /\ run[r].status \in Unfinished
         /\ Leaves(r, "failed", run[r].step) \/ Leaves(r, "waiting", run[r].step)
<1>1. worker[w].phase # "idle" /\ HoldsActiveClaim(w)
  BY DEF FailStep
<1>2. r \in Runs /\ run[r].status \in Unfinished
  BY <1>1, HolderCurrent DEF Unfinished
<1>3. run \in [Runs -> RunState] /\ run[r] \in RunState /\ run' \in [Runs -> RunState]
  BY <1>2, FailStepKeeps, RunFields DEF WorkflowInv, TypeOK
<1>4. PICK ending \in {"failed", "waiting"} : \E wait :
        run' = [run EXCEPT ![r].status = ending, ![r].wait = wait, ![r].claim = NoClaim]
  BY DEF FailStep
<1>5. run'[r].status = ending /\ run'[r].step = run[r].step
  BY <1>2, <1>3, <1>4 DEF RunState
<1>6. \A q \in Runs \ {r} : run'[q] = run[q]
  BY <1>3, <1>4
<1> QED
  BY <1>2, <1>3, <1>5, <1>6 DEF Leaves

LEMMA CheckpointLeaves ==
  ASSUME WorkflowInv, NEW w \in Workers, CheckpointStep(w), NEW r, r = worker[w].run
  PROVE  /\ r \in Runs /\ run[r].status \in Unfinished
         /\ run[r].step \in ledger[r]
         /\ IF run[r].step = Finalize THEN Leaves(r, "completed", Finalize)
                                      ELSE Leaves(r, "queued", run[r].step + 1)
<1>1. worker[w].phase = "artifact" /\ HoldsActiveClaim(w)
  BY DEF CheckpointStep
<1>2. /\ r \in Runs /\ run[r].status \in Unfinished
      /\ worker[w].step = run[r].step /\ run[r].step \in ledger[r]
  BY <1>1, HolderCurrent DEF Unfinished
<1>3. run \in [Runs -> RunState] /\ run[r] \in RunState /\ run' \in [Runs -> RunState]
  BY <1>2, CheckpointStepKeeps, RunFields DEF WorkflowInv, TypeOK
<1>4. PICK status, step, artifacts :
        /\ status = IF run[r].step = Finalize THEN "completed" ELSE "queued"
        /\ step = Following(run[r].step)
        /\ run' = [run EXCEPT ![r].status = status, ![r].step = step,
                              ![r].artifacts = artifacts, ![r].claim = NoClaim]
  BY <1>2 DEF CheckpointStep
<1>5. run'[r].status = status /\ run'[r].step = step /\ \A q \in Runs \ {r} : run'[q] = run[q]
  BY <1>2, <1>3, <1>4 DEF RunState
<1> QED
  BY <1>2, <1>3, <1>4, <1>5 DEF Leaves, Following

(* What is left of a step at the abstract level.                           *)
LEMMA AbstractMoves ==
  ASSUME NEW r \in Runs, NEW status, NEW step, Leaves(r, status, step)
  PROVE  /\ AbstractStatus' = [AbstractStatus EXCEPT
              ![r] = IF status \in Unfinished THEN "open" ELSE status]
         /\ AbstractCheckpointed' = [AbstractCheckpointed EXCEPT
              ![r] = IF status = "completed" THEN Finalize ELSE step - 1]
<1>1. Stands(r)' = IF status \in Unfinished THEN "open" ELSE status
  BY DEF Leaves, Stands, Unfinished
<1>2. CheckpointedSteps(r)' = IF status = "completed" THEN Finalize ELSE step - 1
  BY DEF Leaves, CheckpointedSteps
<1>3. \A q \in Runs \ {r} : Stands(q)' = Stands(q) /\ CheckpointedSteps(q)' = CheckpointedSteps(q)
  BY DEF Leaves, Stands, CheckpointedSteps
<1> QED
  BY <1>1, <1>2, <1>3 DEF AbstractStatus, AbstractCheckpointed

(* A run that is not over has checkpointed what precedes its step.         *)
LEMMA AbstractStanding ==
  ASSUME WorkflowInv, NEW r \in Runs
  PROVE  /\ AbstractStatus[r] = IF run[r].status \in Unfinished THEN "open" ELSE run[r].status
         /\ run[r].status # "completed" => AbstractCheckpointed[r] = run[r].step - 1
         /\ run[r].status = "completed" => AbstractCheckpointed[r] = Finalize
         /\ run[r].step \in Nat
  BY RunFields DEF AbstractStatus, AbstractCheckpointed, Stands, CheckpointedSteps, Unfinished, Steps

LEMMA StaysPut ==
  ASSUME WorkflowInv, NEW r \in Runs, NEW status, Leaves(r, status, run[r].step),
         effects' = effects,
         status = run[r].status \/ (status \in Unfinished /\ run[r].status \in Unfinished)
  PROVE  UNCHANGED Abstract!vars
<1>1. AbstractStatus' = AbstractStatus /\ AbstractCheckpointed' = AbstractCheckpointed
  <2>1. \A q \in Runs : Stands(q)' = Stands(q) /\ CheckpointedSteps(q)' = CheckpointedSteps(q)
    BY DEF Leaves, Stands, CheckpointedSteps, Unfinished
  <2> QED
    BY <2>1 DEF AbstractStatus, AbstractCheckpointed
<1> QED
  BY <1>1 DEF Abstract!vars, AbstractStatus, AbstractCheckpointed

(* A run that is given up leaves its checkpoints.                          *)
LEMMA GivenUp ==
  ASSUME WorkflowInv, NEW r \in Runs, NEW status \in {"failed", "cancelled"},
         run[r].status \in Unfinished, Leaves(r, status, run[r].step), effects' = effects
  PROVE  Abstract!GiveUp(r)
<1>1. AbstractStatus[r] = "open" /\ AbstractCheckpointed[r] = run[r].step - 1
  BY AbstractStanding DEF Unfinished
<1>2. AbstractStatus' = [AbstractStatus EXCEPT ![r] = status]
  BY AbstractMoves DEF Unfinished
<1>3. AbstractCheckpointed' = AbstractCheckpointed
  <2>1. AbstractCheckpointed' = [AbstractCheckpointed EXCEPT ![r] = run[r].step - 1]
    BY AbstractMoves
  <2> QED
    BY <1>1, <2>1 DEF AbstractCheckpointed
<1> QED
  BY <1>1, <1>2, <1>3 DEF Abstract!GiveUp, AbstractStatus, AbstractCheckpointed

LEMMA MadeOnce ==
  ASSUME WorkflowInv, NEW r \in Runs, EnqueueSessionCompletion(r)
  PROVE  Abstract!Make(r)
<1>1. run[r].status = "absent" /\ Leaves(r, "queued", run[r].step) /\ effects' = effects
  BY EnqueueLeaves DEF EnqueueSessionCompletion
<1>2. AbstractStatus[r] = "absent" /\ AbstractCheckpointed[r] = run[r].step - 1
  BY <1>1, AbstractStanding DEF Unfinished
<1>3. /\ AbstractStatus' = [AbstractStatus EXCEPT ![r] = "open"]
      /\ AbstractCheckpointed' = [AbstractCheckpointed EXCEPT ![r] = run[r].step - 1]
  BY <1>1, AbstractMoves DEF Unfinished
<1>4. AbstractCheckpointed' = AbstractCheckpointed
  BY <1>2, <1>3 DEF AbstractCheckpointed
<1> QED
  BY <1>1, <1>2, <1>3, <1>4 DEF Abstract!Make, AbstractStatus, AbstractCheckpointed

(* What is checkpointed took effect, and the last step completes the run.  *)
LEMMA CheckpointFollowsEffect ==
  ASSUME WorkflowInv, NEW w \in Workers, CheckpointStep(w), NEW r, r = worker[w].run
  PROVE  r \in Runs /\ Abstract!Checkpoint(r)
<1>1. /\ r \in Runs /\ run[r].status \in Unfinished /\ run[r].step \in ledger[r]
      /\ IF run[r].step = Finalize THEN Leaves(r, "completed", Finalize)
                                   ELSE Leaves(r, "queued", run[r].step + 1)
  BY CheckpointLeaves
<1>2. effects' = effects
  BY DEF CheckpointStep
<1>3. PICK s : s = run[r].step
  OBVIOUS
<1>4. s \in Steps /\ LedgerTells(r)
  BY <1>1, <1>3, RunFields
<1>5. effects[r][s] = 1 /\ s \in 1..Finalize
  BY <1>1, <1>3, <1>4 DEF LedgerTells, Steps, Finalize
<1>6. AbstractStatus[r] = "open" /\ AbstractCheckpointed[r] = s - 1
  BY <1>1, <1>3, AbstractStanding DEF Unfinished
<1>7. AbstractCheckpointed[r] + 1 = s /\ s <= Finalize
  BY <1>5, <1>6 DEF Finalize
<1>8. /\ AbstractStatus' = [AbstractStatus EXCEPT
           ![r] = IF s = Finalize THEN "completed" ELSE "open"]
      /\ AbstractCheckpointed' = [AbstractCheckpointed EXCEPT ![r] = s]
  <2>1. CASE s = Finalize
    BY <1>1, <1>3, <2>1, AbstractMoves DEF Unfinished
  <2>2. CASE s # Finalize
    <3>1. AbstractStatus' = [AbstractStatus EXCEPT ![r] = "open"]
      BY <1>1, <1>3, <2>2, AbstractMoves DEF Unfinished
    <3>2. AbstractCheckpointed' = [AbstractCheckpointed EXCEPT ![r] = (s + 1) - 1]
      BY <1>1, <1>3, <2>2, AbstractMoves
    <3>3. (s + 1) - 1 = s
      BY <1>4 DEF Steps
    <3> QED
      BY <2>2, <3>1, <3>2, <3>3
  <2> QED
    BY <2>1, <2>2
<1>9. Abstract!Checkpoint(r)
  BY <1>2, <1>5, <1>6, <1>7, <1>8 DEF Abstract!Checkpoint, AbstractStatus, AbstractCheckpointed
<1> QED
  BY <1>1, <1>9

(* Only the step after the last checkpoint can take effect, once.          *)
LEMMA EffectInTurn ==
  ASSUME WorkflowInv, ExecutionsHaveRuns, NEW w \in Workers, RunStep(w)
  PROVE  (\E r \in Runs : Abstract!TakeEffect(r)) \/ UNCHANGED Abstract!vars
<1>1. PICK r, s : r = worker[w].run /\ s = worker[w].step
  OBVIOUS
<1>2. /\ worker[w].phase = "claimed" /\ r \in Runs /\ s \in Steps
      /\ worker[w].artifacts \subseteq run[r].artifacts /\ run[r].status # "absent"
      /\ run' = run
  BY <1>1 DEF RunStep, runVars, WorkflowInv, TypeOK, WorkersFenced, Execution, ExecutionsHaveRuns
<1>3. AbstractStatus' = AbstractStatus /\ AbstractCheckpointed' = AbstractCheckpointed
  BY <1>2 DEF AbstractStatus, AbstractCheckpointed, Stands, CheckpointedSteps
<1>4. CASE effects' = effects
  BY <1>3, <1>4 DEF Abstract!vars, AbstractStatus, AbstractCheckpointed
<1>5. CASE /\ s \notin ledger[r] /\ 1..(s - 1) \subseteq worker[w].artifacts
           /\ effects' = [effects EXCEPT ![r][s] = @ + 1]
  <2>1. /\ effects \in [Runs -> [Steps -> Nat]] /\ ledger[r] \subseteq Steps
        /\ LedgerTells(r) /\ RunShaped(r) /\ run[r].step \in Steps
    BY <1>2, RunFields DEF WorkflowInv, TypeOK
  <2>2. 1..(s - 1) \subseteq 1..(run[r].step - 1) /\ 1..(run[r].step - 1) \subseteq ledger[r]
    BY <1>2, <1>5, <2>1 DEF RunShaped, LedgerTells
  <2>3. s = run[r].step
    <3>1. ~(s < run[r].step)
      BY <1>2, <1>5, <2>1, <2>2 DEF Steps
    <3>2. ~(run[r].step < s)
      <4> SUFFICES ASSUME run[r].step < s
                   PROVE  FALSE
        OBVIOUS
      <4>1. run[r].step \in 1..(s - 1) /\ run[r].step \notin 1..(run[r].step - 1)
        BY <1>2, <2>1 DEF Steps
      <4> QED
        BY <2>2, <4>1
    <3> QED
      BY <1>2, <2>1, <3>1, <3>2 DEF Steps
  <2>4. run[r].status # "completed"
    BY <1>5, <2>1, <2>3 DEF RunShaped, LedgerTells
  <2>5. AbstractStatus[r] # "absent" /\ AbstractCheckpointed[r] = s - 1
    BY <1>2, <2>3, <2>4, AbstractStanding DEF Unfinished
  <2>6. AbstractCheckpointed[r] + 1 = s /\ s <= Finalize
    BY <1>2, <2>5 DEF Steps, Finalize
  <2>7. effects[r][s] = 0 /\ effects' = [effects EXCEPT ![r][s] = 1]
    <3>1. effects[r][s] = 0
      BY <1>2, <1>5, <2>1 DEF LedgerTells
    <3>2. effects[r][s] + 1 = 1
      BY <3>1
    <3>3. effects' = [effects EXCEPT ![r] = [effects[r] EXCEPT ![s] = effects[r][s] + 1]]
      BY <1>2, <1>5, <2>1
    <3> QED
      BY <1>2, <2>1, <3>1, <3>2, <3>3
  <2>8. Abstract!TakeEffect(r)
    BY <1>3, <2>5, <2>6, <2>7 DEF Abstract!TakeEffect, AbstractStatus, AbstractCheckpointed
  <2> QED
    BY <1>2, <2>8
<1> QED
  BY <1>1, <1>4, <1>5 DEF RunStep

(* Time moves no run.                                                      *)
LEMMA TickStaysPut ==
  ASSUME WorkflowInv, Tick
  PROVE  UNCHANGED Abstract!vars
<1>1. \A r \in Runs : Stands(r)' = Stands(r) /\ CheckpointedSteps(r)' = CheckpointedSteps(r)
  BY TickFields DEF Stands, CheckpointedSteps
<1>2. effects' = effects
  BY DEF Tick
<1> QED
  BY <1>1, <1>2 DEF Abstract!vars

(* No run is ever unmade, so an execution keeps its run.                   *)
LEMMA ExecutionsKeepRuns ==
  ASSUME WorkflowInv, ExecutionsHaveRuns, [Next]_vars
  PROVE  ExecutionsHaveRuns'
<1>1. Idle.phase = "idle"
  BY DEF Idle
<1>2. worker \in [Workers -> Execution] /\ \A w \in Workers : worker[w].phase # "idle" => worker[w].run \in Runs
  BY DEF WorkflowInv, TypeOK, WorkersFenced
<1>3. ASSUME \A r \in Runs : run[r].status # "absent" => run'[r].status # "absent",
             \A w \in Workers : worker'[w] = Idle \/ /\ worker[w].phase # "idle"
                                                     /\ worker'[w].run = worker[w].run
                                \/ worker'[w] = worker[w]
      PROVE  ExecutionsHaveRuns'
  BY <1>1, <1>2, <1>3 DEF ExecutionsHaveRuns
<1>4. ASSUME NEW r \in Runs, NEW status, Leaves(r, status, run[r].step) \/ Leaves(r, status, run[r].step + 1),
             status # "absent"
      PROVE  \A q \in Runs : run[q].status # "absent" => run'[q].status # "absent"
  BY <1>4 DEF Leaves
<1>5. ASSUME NEW r \in Runs, EnqueueSessionCompletion(r)
      PROVE  ExecutionsHaveRuns'
  BY <1>3, <1>4, <1>5, EnqueueLeaves DEF EnqueueSessionCompletion
<1>6. ASSUME NEW r \in Runs, NEW offered \in Budgets, ExhaustRun(r, offered)
      PROVE  ExecutionsHaveRuns'
  BY <1>3, <1>4, <1>6, ExhaustLeaves DEF ExhaustRun
<1>7. ASSUME NEW r \in Runs, NEW offered \in Budgets, RejectClaim(r, offered)
      PROVE  ExecutionsHaveRuns'
  <2>1. run[r].status # "absent" /\ worker' = worker
    BY <1>7 DEF RejectClaim, ClaimableRun
  <2> QED
    BY <1>3, <1>4, <1>7, <2>1, RejectLeaves
<1>8. ASSUME NEW r \in Runs, Cancel(r)
      PROVE  ExecutionsHaveRuns'
  BY <1>3, <1>4, <1>8, CancelLeaves DEF Cancel
<1>9. ASSUME NEW r \in Runs, NEW w \in Workers, NEW t \in Tokens, NEW offered \in Budgets,
             ClaimStep(w, r, t, offered)
      PROVE  ExecutionsHaveRuns'
  <2>1. Leaves(r, "running", run[r].step)
    BY <1>9, ClaimLeaves
  <2>2. \A q \in Runs : run[q].status # "absent" => run'[q].status # "absent"
    BY <1>4, <2>1
  <2>3. worker'[w].run = r /\ \A v \in Workers \ {w} : worker'[v] = worker[v]
    BY <1>2, <1>9 DEF ClaimStep
  <2>4. ASSUME NEW v \in Workers, worker'[v].phase # "idle"
        PROVE  run'[worker'[v].run].status # "absent"
    <3>1. CASE v = w
      BY <2>1, <2>3, <3>1 DEF Leaves
    <3>2. CASE v # w
      BY <1>2, <2>2, <2>3, <2>4, <3>2 DEF ExecutionsHaveRuns
    <3> QED
      BY <3>1, <3>2
  <2> QED
    BY <2>4 DEF ExecutionsHaveRuns
<1>10. ASSUME NEW w \in Workers, RunStep(w)
       PROVE  ExecutionsHaveRuns'
  <2>1. run' = run /\ worker[w].phase # "idle"
    BY <1>10 DEF RunStep, runVars
  <2>2. \E phase : worker' = [worker EXCEPT ![w].phase = phase]
    BY <1>10 DEF RunStep
  <2>3. worker'[w].run = worker[w].run /\ \A v \in Workers \ {w} : worker'[v] = worker[v]
    BY <1>2, <2>2 DEF Execution
  <2> QED
    BY <1>3, <2>1, <2>3
<1>11. ASSUME NEW w \in Workers, CheckpointStep(w)
       PROVE  ExecutionsHaveRuns'
  <2>1. PICK r : r = worker[w].run
    OBVIOUS
  <2>2. \A q \in Runs : run[q].status # "absent" => run'[q].status # "absent"
    BY <1>11, <2>1, CheckpointLeaves DEF Leaves
  <2>3. worker' = [worker EXCEPT ![w] = Idle]
    BY <1>11 DEF CheckpointStep
  <2> QED
    BY <1>2, <1>3, <2>2, <2>3
<1>12. ASSUME NEW w \in Workers, FailStep(w)
       PROVE  ExecutionsHaveRuns'
  <2>1. PICK r : r = worker[w].run
    OBVIOUS
  <2>2. \A q \in Runs : run[q].status # "absent" => run'[q].status # "absent"
    BY <1>12, <2>1, FailLeaves DEF Leaves
  <2>3. worker' = [worker EXCEPT ![w] = Idle]
    BY <1>12 DEF FailStep
  <2> QED
    BY <1>2, <1>3, <2>2, <2>3
<1>13. ASSUME NEW w \in Workers, LoseExecution(w)
       PROVE  ExecutionsHaveRuns'
  BY <1>2, <1>3, <1>13 DEF LoseExecution, runVars
<1>14. CASE Tick
  BY <1>3, <1>14, TickFields DEF Tick
<1>15. CASE UNCHANGED vars
  BY <1>15 DEF vars, ExecutionsHaveRuns
<1> QED
  BY <1>5, <1>6, <1>7, <1>8, <1>9, <1>10, <1>11, <1>12, <1>13, <1>14, <1>15 DEF Next, Poll

LEMMA StepImplements ==
  WorkflowInv /\ ExecutionsHaveRuns /\ [Next]_vars => [Abstract!Next]_(Abstract!vars)
<1> SUFFICES ASSUME WorkflowInv, ExecutionsHaveRuns, [Next]_vars
             PROVE  Abstract!Next \/ UNCHANGED Abstract!vars
  OBVIOUS
<1>1. ASSUME NEW r \in Runs, EnqueueSessionCompletion(r)
      PROVE  Abstract!Next
  BY <1>1, MadeOnce DEF Abstract!Next
<1>2. ASSUME NEW r \in Runs, NEW offered \in Budgets, ExhaustRun(r, offered)
      PROVE  Abstract!Next
  <2>1. effects' = effects
    BY <1>2 DEF ExhaustRun
  <2>2. Abstract!GiveUp(r)
    BY <1>2, <2>1, ExhaustLeaves, GivenUp
  <2> QED
    BY <2>2 DEF Abstract!Next
<1>3. ASSUME NEW r \in Runs, NEW offered \in Budgets, RejectClaim(r, offered)
      PROVE  UNCHANGED Abstract!vars
  <2>1. effects' = effects
    BY <1>3 DEF RejectClaim
  <2> QED
    BY <1>3, <2>1, RejectLeaves, StaysPut
<1>4. ASSUME NEW r \in Runs, Cancel(r)
      PROVE  Abstract!Next
  <2>1. effects' = effects
    BY <1>4 DEF Cancel
  <2>2. Abstract!GiveUp(r)
    BY <1>4, <2>1, CancelLeaves, GivenUp
  <2> QED
    BY <2>2 DEF Abstract!Next
<1>5. ASSUME NEW r \in Runs, NEW w \in Workers, NEW t \in Tokens, NEW offered \in Budgets,
             ClaimStep(w, r, t, offered)
      PROVE  UNCHANGED Abstract!vars
  <2>1. effects' = effects
    BY <1>5 DEF ClaimStep
  <2>2. "running" \in Unfinished
    BY DEF Unfinished
  <2> QED
    BY <1>5, <2>1, <2>2, ClaimLeaves, StaysPut
<1>6. ASSUME NEW w \in Workers, RunStep(w)
      PROVE  Abstract!Next \/ UNCHANGED Abstract!vars
  BY <1>6, EffectInTurn DEF Abstract!Next
<1>7. ASSUME NEW w \in Workers, CheckpointStep(w)
      PROVE  Abstract!Next
  BY <1>7, CheckpointFollowsEffect DEF Abstract!Next
<1>8. ASSUME NEW w \in Workers, FailStep(w)
      PROVE  Abstract!Next \/ UNCHANGED Abstract!vars
  <2>1. PICK r : r = worker[w].run
    OBVIOUS
  <2>2. /\ r \in Runs /\ run[r].status \in Unfinished /\ effects' = effects
        /\ Leaves(r, "failed", run[r].step) \/ Leaves(r, "waiting", run[r].step)
    BY <1>8, <2>1, FailLeaves DEF FailStep
  <2>3. CASE Leaves(r, "failed", run[r].step)
    <3>1. Abstract!GiveUp(r)
      BY <2>2, <2>3, GivenUp
    <3> QED
      BY <2>2, <3>1 DEF Abstract!Next
  <2>4. CASE Leaves(r, "waiting", run[r].step)
    <3>1. "waiting" \in Unfinished
      BY DEF Unfinished
    <3> QED
      BY <2>2, <2>4, <3>1, StaysPut
  <2> QED
    BY <2>2, <2>3, <2>4
<1>9. ASSUME NEW w \in Workers, LoseExecution(w)
      PROVE  UNCHANGED Abstract!vars
  BY <1>9 DEF LoseExecution, runVars, Abstract!vars, Stands, CheckpointedSteps
<1>10. CASE Tick
  BY <1>10, TickStaysPut
<1>11. CASE UNCHANGED vars
  BY <1>11 DEF vars, Abstract!vars, Stands, CheckpointedSteps
<1> QED
  BY <1>1, <1>2, <1>3, <1>4, <1>5, <1>6, <1>7, <1>8, <1>9, <1>10, <1>11 DEF Next, Poll

LEMMA StartImplements == Init => Abstract!Init /\ ExecutionsHaveRuns
<1> SUFFICES ASSUME Init
             PROVE  Abstract!Init /\ ExecutionsHaveRuns
  OBVIOUS
<1>1. AbsentRun.status = "absent" /\ AbsentRun.step = 1 /\ Idle.phase = "idle"
  BY DEF AbsentRun, Idle
<1>2. \A r \in Runs : Stands(r) = "absent" /\ CheckpointedSteps(r) = 0
  BY <1>1 DEF Init, Stands, CheckpointedSteps
<1>3. effects = [r \in Runs |-> [s \in 1..Finalize |-> 0]]
  BY DEF Init, Steps, Finalize
<1>4. ExecutionsHaveRuns
  BY <1>1 DEF Init, ExecutionsHaveRuns
<1> QED
  BY <1>2, <1>3, <1>4 DEF Abstract!Init

(* The activities of every run take effect one after the other, each once, *)
(* and only what took effect is checkpointed: what claims, leases, budgets *)
(* and late workers do beneath never shows (claimStep, checkpointStep).    *)
THEOREM ActivitiesRunInOrder == Spec => ImplementsOrderedActivities
<1>1. Init => Abstract!Init /\ ExecutionsHaveRuns
  BY StartImplements
<1>2. WorkflowInv /\ ExecutionsHaveRuns /\ [Next]_vars => ExecutionsHaveRuns'
  BY ExecutionsKeepRuns
<1>3. WorkflowInv /\ ExecutionsHaveRuns /\ [Next]_vars => [Abstract!Next]_(Abstract!vars)
  BY StepImplements
<1> QED
  BY <1>1, <1>2, <1>3, WorkflowInductive, PTL DEF Spec, ImplementsOrderedActivities, Abstract!Spec

-------------------------------------------------------------------------------
(* Data governance disposition (DataGovernance).                           *)
ItemStates == {"absent", "pending", "held", "leased", "retry_wait", "effect_unknown",
               "verification_pending", "verified", "operator_required"}
Operations == {"apply", "reconcile", "verify"}
RequestStates == {"requested", "approval_pending", "authorized", "inventorying"}
                   \cup Runnable \cup Ends

Item == [state : ItemStates, operation : Operations, attempt : Nat, elapsed : BOOLEAN]
Job  == [doing : {"claimed", "calling", "reached"}, item : Items,
         operation : Operations, attempt : Nat]

GovernanceTypeOK ==
  /\ request \in RequestStates
  /\ started \in BOOLEAN /\ inventoried \in BOOLEAN
  /\ hold \in [LegalHolds -> {"absent", "active", "ended"}]
  /\ item \in [Items -> Item]
  /\ disposer \in [GovernanceWorkers -> Job \cup {Resting}]
  /\ reached \in [Items -> Nat]

(* The worker may still bring the effect to its target.                    *)
Applying(w, i) ==
  /\ disposer[w].doing \in {"claimed", "calling"}
  /\ disposer[w].item = i
  /\ disposer[w].operation = "apply"

(* The item may be given to a worker to apply: nothing happened to it yet. *)
Unapplied(i) ==
  \/ item[i].state \in {"absent", "pending", "held"}
  \/ item[i].state = "retry_wait" /\ item[i].operation = "apply"

(* One worker at most can still reach a target, and only for the first     *)
(* time; none can while the item waits to be applied.                      *)
OneApplier ==
  /\ \A w \in GovernanceWorkers, i \in Items : Applying(w, i) => reached[i] = 0
  /\ \A w, x \in GovernanceWorkers, i \in Items :
       Applying(w, i) /\ Applying(x, i) => w = x
  /\ \A i \in Items : Unapplied(i) =>
       reached[i] = 0 /\ \A w \in GovernanceWorkers : ~Applying(w, i)
  /\ \A w \in GovernanceWorkers :
       disposer[w].doing = "reached" /\ disposer[w].operation = "apply" =>
         reached[disposer[w].item] = 1

(* The operation of an item tells how far its effect got.                  *)
OperationsTell ==
  \A i \in Items :
    /\ item[i].state \in {"absent", "pending", "held"} => item[i].operation = "apply"
    /\ item[i].state = "effect_unknown" => item[i].operation = "reconcile"
    /\ item[i].state \in {"verification_pending", "verified"} => item[i].operation = "verify"
    /\ i \in DatabaseItems => item[i].operation # "reconcile"
    /\ item[i].operation = "verify" => reached[i] = 1

(* Before the first apply is leased nothing was given to any worker.       *)
NothingStarted ==
  /\ request \in {"requested", "approval_pending", "authorized", "inventorying"} => ~started
  /\ ~started => /\ \A i \in Items : /\ item[i].state \in {"absent", "pending", "held"}
                                     /\ item[i].attempt = 0
                 /\ \A w \in GovernanceWorkers : disposer[w] = Resting

HeldItemsRest == \A i \in Items : Held(i, hold) => item[i].state \in {"absent", "held"}

CompletedIsVerified == request = "completed" => \A i \in Items : item[i].state = "verified"

GovernanceInv ==
  /\ GovernanceTypeOK
  /\ EffectsReachTargetsOnce
  /\ OneApplier
  /\ OperationsTell
  /\ NothingStarted
  /\ HeldItemsRest
  /\ CompletedIsVerified

(* The conjuncts relate an item to the workers given it; these are what    *)
(* the properties need of it.                                              *)
LEMMA InvImplies == GovernanceInv => EffectsReachTargetsOnce /\ HoldsProtect /\ CompletedMeansErased
<1> SUFFICES ASSUME GovernanceInv
             PROVE  HoldsProtect /\ CompletedMeansErased
  BY DEF GovernanceInv
<1>1. \A i \in Items : item[i].state \in {"absent", "held"} => reached[i] = 0
  BY DEF GovernanceInv, OneApplier, Unapplied
<1>2. HoldsProtect
  BY <1>1 DEF GovernanceInv, HoldsProtect, HeldItemsRest, NothingStarted, OneApplier, Unapplied
<1>3. CompletedMeansErased
  BY DEF GovernanceInv, CompletedMeansErased, CompletedIsVerified, OperationsTell
<1> QED
  BY <1>2, <1>3

-------------------------------------------------------------------------------
Waiting == {"absent", "pending", "held"}
Admission == {"requested", "approval_pending", "authorized", "inventorying"}

(* Refreshing the held items moves an item only between pending and held.  *)
LEMMA RefreshedItems ==
  ASSUME NEW items \in [Items -> Item], NEW holds
  PROVE  /\ Refreshed(items, holds) \in [Items -> Item]
         /\ \A i \in Items :
              /\ Refreshed(items, holds)[i].operation = items[i].operation
              /\ Refreshed(items, holds)[i].attempt = items[i].attempt
              /\ items[i].state \notin {"pending", "held"} =>
                   Refreshed(items, holds)[i] = items[i]
              /\ items[i].state \in {"pending", "held"} =>
                   Refreshed(items, holds)[i].state =
                     IF Held(i, holds) THEN "held" ELSE "pending"
BY DEF Refreshed, Item, ItemStates

(* What a request's items make of it.                                      *)
LEMMA AggregateOf ==
  ASSUME NEW items
  PROVE  /\ Aggregate(items) \in RequestStates \ Admission
         /\ Aggregate(items) = "completed" => \A i \in Items : items[i].state = "verified"
BY DEF Aggregate, ItemsAt, RequestStates, Runnable, Ends, Admission

(* Commands of the admission change the request and nothing that a worker  *)
(* could see.                                                              *)
LEMMA AdmissionKeeps ==
  ASSUME GovernanceInv, UNCHANGED <<started, inventoried, hold, item, disposer, reached>>,
         request' \in RequestStates, request' \in Admission => request \in Admission,
         request' = "completed" => request = "completed"
  PROVE  GovernanceInv'
<1>1. GovernanceTypeOK' /\ EffectsReachTargetsOnce'
  BY DEF GovernanceInv, GovernanceTypeOK, EffectsReachTargetsOnce
<1>2. OneApplier' /\ OperationsTell'
  BY DEF GovernanceInv, OneApplier, OperationsTell, Applying, Unapplied
<1>3. NothingStarted' /\ HeldItemsRest' /\ CompletedIsVerified'
  BY DEF GovernanceInv, NothingStarted, HeldItemsRest, CompletedIsVerified, Held, Admission
<1> QED
  BY <1>1, <1>2, <1>3 DEF GovernanceInv

(* Inventory and holds move items between the states in which they wait.   *)
LEMMA RefreshKeeps ==
  ASSUME GovernanceInv, NEW items \in [Items -> Item],
         \A i \in Items : /\ items[i].operation = item[i].operation
                          /\ items[i].attempt = item[i].attempt
                          /\ \/ items[i].state = item[i].state
                             \/ items[i].state \in Waiting /\ item[i].state \in Waiting,
         hold' \in [LegalHolds -> {"absent", "active", "ended"}],
         \A i \in Items : Held(i, hold') => items[i].state \in Waiting,
         item' = Refreshed(items, hold'), UNCHANGED <<started, disposer, reached>>,
         inventoried' \in BOOLEAN, request' \in RequestStates \ {"completed"},
         request' \in Admission => ~started
  PROVE  GovernanceInv'
<1>1. /\ item' \in [Items -> Item]
      /\ \A i \in Items : /\ item'[i].operation = item[i].operation
                          /\ item'[i].attempt = item[i].attempt
                          /\ \/ item'[i].state = item[i].state
                             \/ item'[i].state \in Waiting /\ item[i].state \in Waiting
                          /\ Held(i, hold') => item'[i].state \in {"absent", "held"}
  BY RefreshedItems DEF Waiting
<1>2. GovernanceTypeOK' /\ EffectsReachTargetsOnce'
  BY <1>1 DEF GovernanceInv, GovernanceTypeOK, EffectsReachTargetsOnce
<1>3. /\ \A w, i : Applying(w, i)' = Applying(w, i)
      /\ \A i \in Items : Unapplied(i)' => Unapplied(i)
  BY <1>1 DEF Applying, Unapplied, Waiting
<1>4. OneApplier'
  BY <1>3 DEF GovernanceInv, OneApplier
<1>5. OperationsTell'
  BY <1>1 DEF GovernanceInv, OperationsTell, Waiting
<1>6. NothingStarted' /\ HeldItemsRest' /\ CompletedIsVerified'
  BY <1>1 DEF GovernanceInv, NothingStarted, HeldItemsRest, CompletedIsVerified, Waiting,
     Admission
<1> QED
  BY <1>2, <1>4, <1>5, <1>6 DEF GovernanceInv

LEMMA CompleteInventoryKeeps ==
  ASSUME GovernanceInv, CompleteInventory
  PROVE  GovernanceInv'
<1> DEFINE items == [i \in Items |-> [item[i] EXCEPT !.state = "pending"]]
<1>1. item \in [Items -> Item] /\ ~started
      /\ hold \in [LegalHolds -> {"absent", "active", "ended"}]
      /\ \A i \in Items : item[i].state \in Waiting
  BY DEF CompleteInventory, GovernanceInv, GovernanceTypeOK, NothingStarted, Waiting
<1>2. items \in [Items -> Item]
  BY <1>1 DEF Item, ItemStates
<1>3. \A i \in Items : /\ items[i].operation = item[i].operation
                       /\ items[i].attempt = item[i].attempt
                       /\ items[i].state = "pending"
  BY <1>1 DEF Item
<1>4. item' = Refreshed(items, hold') /\ UNCHANGED <<started, disposer, reached, hold>>
      /\ inventoried' \in BOOLEAN /\ request' \in RequestStates \ {"completed"}
  BY DEF CompleteInventory, RequestStates, Runnable
<1> HIDE DEF items
<1>5. \A i \in Items : /\ items[i].operation = item[i].operation
                       /\ items[i].attempt = item[i].attempt
                       /\ \/ items[i].state = item[i].state
                          \/ items[i].state \in Waiting /\ item[i].state \in Waiting
  BY <1>1, <1>3 DEF Waiting
<1>6. \A i \in Items : Held(i, hold') => items[i].state \in Waiting
  BY <1>3 DEF Waiting
<1>7. hold' \in [LegalHolds -> {"absent", "active", "ended"}]
  BY <1>1, <1>4
<1> QED
  BY <1>1, <1>2, <1>4, <1>5, <1>6, <1>7, RefreshKeeps

(* A hold is placed before anything started and, once it ended, protects   *)
(* nothing it did not protect before.                                      *)
LEMMA HoldsKeep ==
  ASSUME GovernanceInv, NEW h \in LegalHolds, PlaceLegalHold(h) \/ EndLegalHold(h)
  PROVE  GovernanceInv'
<1>1. /\ item \in [Items -> Item] /\ inventoried \in BOOLEAN /\ request \in RequestStates
      /\ hold \in [LegalHolds -> {"absent", "active", "ended"}]
  BY DEF GovernanceInv, GovernanceTypeOK
<1>2. /\ item' = Refreshed(item, hold') /\ UNCHANGED <<started, disposer, reached, inventoried>>
      /\ hold' \in [LegalHolds -> {"absent", "active", "ended"}]
  BY <1>1 DEF PlaceLegalHold, EndLegalHold
<1>3. ASSUME NEW i \in Items, Held(i, hold')
      PROVE  item[i].state \in Waiting
  <2>1. CASE PlaceLegalHold(h)
    BY <2>1 DEF PlaceLegalHold, GovernanceInv, NothingStarted, Waiting
  <2>2. CASE EndLegalHold(h)
    <3>1. Held(i, hold)
      BY <1>1, <1>3, <2>2 DEF EndLegalHold, Held
    <3> QED
      BY <3>1 DEF GovernanceInv, HeldItemsRest, Waiting
  <2> QED
    BY <2>1, <2>2
<1>4. request' \in RequestStates \ {"completed"} /\ (request' \in Admission => ~started)
  BY <1>1 DEF PlaceLegalHold, EndLegalHold, RequestStates, Runnable, Admission
<1> QED
  BY <1>1, <1>2, <1>3, <1>4, RefreshKeeps

-------------------------------------------------------------------------------
(* A claim that gives up takes the item away from every worker to come.    *)
LEMMA GiveUpKeeps ==
  ASSUME GovernanceInv, NEW i \in Items, Eligible(i, Refreshed(item, hold)), GiveUp(i),
         \/ item[i].state = "leased"
         \/ item[i].attempt >= MaxItemAttempts,
         UNCHANGED <<inventoried, hold, reached>>
  PROVE  GovernanceInv'
<1>1. item \in [Items -> Item]
  BY DEF GovernanceInv, GovernanceTypeOK
<1>2. /\ item' \in [Items -> Item]
      /\ \A j \in Items : /\ item'[j].operation = item[j].operation
                          /\ item'[j].attempt = item[j].attempt
                          /\ \/ item'[j].state = "operator_required" /\ j = i
                             \/ item'[j].state = item[j].state /\ item'[j] = item[j]
                             \/ item'[j].state \in Waiting /\ item[j].state \in Waiting
                          /\ Held(j, hold) /\ j # i /\ item[j].state \in Waiting =>
                               item'[j].state \in {"absent", "held"}
  <2>1. PICK fresh : fresh = Refreshed(item, hold)
    OBVIOUS
  <2>2. /\ fresh \in [Items -> Item]
        /\ \A j \in Items :
              /\ fresh[j].operation = item[j].operation
              /\ fresh[j].attempt = item[j].attempt
              /\ item[j].state \notin {"pending", "held"} => fresh[j] = item[j]
              /\ item[j].state \in {"pending", "held"} =>
                   fresh[j].state = IF Held(j, hold) THEN "held" ELSE "pending"
    BY <1>1, <2>1, RefreshedItems
  <2>3. item' = [fresh EXCEPT ![i].state = "operator_required"]
    BY <2>1 DEF GiveUp
  <2> QED
    BY <2>2, <2>3 DEF Item, ItemStates, Waiting
<1>3. ~Held(i, hold) /\ UNCHANGED <<started, disposer, hold, reached, inventoried>>
      /\ request' = "operator_required"
  BY DEF Eligible, GiveUp
<1>4. started
  <2>1. item[i].state = "leased" \/ item[i].attempt # 0
    BY <1>1, GovernanceAssumption DEF Item
  <2> QED
    BY <2>1 DEF GovernanceInv, NothingStarted, GovernanceTypeOK
<1>5. GovernanceTypeOK' /\ EffectsReachTargetsOnce'
  BY <1>2, <1>3 DEF GovernanceInv, GovernanceTypeOK, EffectsReachTargetsOnce, RequestStates, Ends
<1>6. /\ \A w, j : Applying(w, j)' = Applying(w, j)
      /\ \A j \in Items : Unapplied(j)' => Unapplied(j)
  BY <1>2, <1>3 DEF Applying, Unapplied, Waiting
<1>7. OneApplier'
  BY <1>3, <1>6 DEF GovernanceInv, OneApplier
<1>8. OperationsTell'
  BY <1>2, <1>3 DEF GovernanceInv, OperationsTell, Waiting
<1>9. HeldItemsRest'
  <2> SUFFICES ASSUME NEW j \in Items, Held(j, hold)
               PROVE  item'[j].state \in {"absent", "held"}
    BY <1>3 DEF HeldItemsRest, Held
  <2>1. j # i /\ item[j].state \in {"absent", "held"}
    BY <1>3 DEF GovernanceInv, HeldItemsRest
  <2> QED
    BY <1>2, <2>1 DEF Waiting
<1>10. NothingStarted' /\ CompletedIsVerified'
  BY <1>3, <1>4 DEF NothingStarted, CompletedIsVerified
<1> QED
  BY <1>5, <1>7, <1>8, <1>9, <1>10 DEF GovernanceInv

(* A lease to apply is given only on an item nothing happened to.          *)
LEMMA LeaseKeeps ==
  ASSUME GovernanceInv, NEW w \in GovernanceWorkers, NEW i \in Items,
         disposer[w].doing = "nothing", Eligible(i, Refreshed(item, hold)),
         ~(item[i].state = "leased" /\ item[i].operation = "apply" /\ i \in DatabaseItems),
         LeaseItem(w, i, OperationOf(i)), UNCHANGED <<inventoried, hold, reached>>
  PROVE  GovernanceInv'
<1> DEFINE op == OperationOf(i)
           job == [doing |-> "claimed", item |-> i, operation |-> op,
                   attempt |-> item[i].attempt + 1]
<1>1. item \in [Items -> Item] /\ disposer \in [GovernanceWorkers -> Job \cup {Resting}]
      /\ request \in RequestStates /\ started \in BOOLEAN
  BY DEF GovernanceInv, GovernanceTypeOK
<1>2. PICK fresh : fresh = Refreshed(item, hold)
  OBVIOUS
<1>3. /\ fresh \in [Items -> Item]
      /\ \A j \in Items :
            /\ fresh[j].operation = item[j].operation
            /\ fresh[j].attempt = item[j].attempt
            /\ item[j].state \notin {"pending", "held"} => fresh[j] = item[j]
            /\ item[j].state \in {"pending", "held"} =>
                 fresh[j].state = IF Held(j, hold) THEN "held" ELSE "pending"
  BY <1>1, <1>2, RefreshedItems
<1>4. /\ ~Held(i, hold)
      /\ item[i].state \in {"pending", "held", "effect_unknown", "verification_pending",
                            "retry_wait", "leased"}
  BY <1>2, <1>3 DEF Eligible
<1>5. /\ op \in Operations
      /\ op = "apply" => Unapplied(i)
      /\ op = "verify" => item[i].operation = "verify"
      /\ i \in DatabaseItems => op # "reconcile"
      /\ op # "apply" => item[i].state \notin {"pending", "held"}
  BY <1>1, <1>4 DEF OperationOf, GovernanceInv, OperationsTell, Unapplied, Item, Operations
<1>6. /\ item' = [fresh EXCEPT ![i] = [state |-> "leased", operation |-> op,
                          attempt |-> item[i].attempt + 1, elapsed |-> FALSE]]
      /\ disposer' = [disposer EXCEPT ![w] = job]
      /\ UNCHANGED <<hold, reached, inventoried>>
      /\ started' = (started \/ op = "apply")
      /\ request' \in {"verifying", "effect_unknown", "executing"}
  BY <1>2, <1>5 DEF LeaseItem, Operations
<1> HIDE DEF op
<1>7. job \in Job
  BY <1>1, <1>5 DEF Job, Item
<1>8. GovernanceTypeOK' /\ EffectsReachTargetsOnce'
  <2>1. item' \in [Items -> Item]
    BY <1>1, <1>3, <1>5, <1>6 DEF Item, ItemStates
  <2>2. disposer' \in [GovernanceWorkers -> Job \cup {Resting}]
    BY <1>1, <1>6, <1>7
  <2> QED
    BY <1>6, <2>1, <2>2 DEF GovernanceInv, GovernanceTypeOK, EffectsReachTargetsOnce,
       RequestStates, Runnable
<1>9. \A j \in Items \ {i} : /\ item'[j].operation = item[j].operation
                             /\ item'[j].attempt = item[j].attempt
                             /\ \/ item'[j].state = item[j].state
                                \/ item'[j].state \in Waiting /\ item[j].state \in Waiting
                             /\ item[j].state \in {"absent", "held"} /\ Held(j, hold) =>
                                  item'[j].state \in {"absent", "held"}
  BY <1>3, <1>6 DEF Waiting
<1>10. item'[i].state = "leased" /\ item'[i].operation = op
  BY <1>3, <1>6
<1>11. /\ \A x \in GovernanceWorkers \ {w} : disposer'[x] = disposer[x]
       /\ disposer'[w] = job
  BY <1>1, <1>6
<1>12. OneApplier'
  <2>1. \A x \in GovernanceWorkers, j \in Items :
          Applying(x, j)' => \/ x # w /\ Applying(x, j)
                             \/ x = w /\ j = i /\ Unapplied(i)
    BY <1>5, <1>11 DEF Applying
  <2>2. \A j \in Items : Unapplied(j)' => Unapplied(j) /\ j # i
    BY <1>9, <1>10 DEF Unapplied, Waiting
  <2>3. disposer'[w].doing # "reached"
    BY <1>11
  <2>4. \A x \in GovernanceWorkers, j \in Items : Applying(x, j)' => reached'[j] = 0
    BY <1>6, <2>1 DEF GovernanceInv, OneApplier
  <2>5. \A x, y \in GovernanceWorkers, j \in Items :
          Applying(x, j)' /\ Applying(y, j)' => x = y
    BY <2>1 DEF GovernanceInv, OneApplier
  <2>6. \A j \in Items : Unapplied(j)' =>
          reached'[j] = 0 /\ \A x \in GovernanceWorkers : ~Applying(x, j)'
    BY <1>6, <2>1, <2>2 DEF GovernanceInv, OneApplier
  <2>7. \A x \in GovernanceWorkers :
          disposer'[x].doing = "reached" /\ disposer'[x].operation = "apply" =>
            reached'[disposer'[x].item] = 1
    BY <1>6, <1>11, <2>3 DEF GovernanceInv, OneApplier
  <2> QED
    BY <2>4, <2>5, <2>6, <2>7 DEF OneApplier
<1>13. OperationsTell'
  BY <1>5, <1>6, <1>9, <1>10 DEF GovernanceInv, OperationsTell, Waiting
<1>14. HeldItemsRest'
  <2> SUFFICES ASSUME NEW j \in Items, Held(j, hold)
               PROVE  item'[j].state \in {"absent", "held"}
    BY <1>6 DEF HeldItemsRest, Held
  <2> QED
    BY <1>4, <1>9 DEF GovernanceInv, HeldItemsRest
<1>15. started'
  BY <1>1, <1>4, <1>5, <1>6 DEF GovernanceInv, NothingStarted, Unapplied
<1>16. NothingStarted' /\ CompletedIsVerified'
  BY <1>6, <1>15 DEF NothingStarted, CompletedIsVerified
<1> QED
  BY <1>8, <1>12, <1>13, <1>14, <1>16 DEF GovernanceInv

LEMMA ClaimNextKeeps ==
  ASSUME GovernanceInv, NEW w \in GovernanceWorkers, ClaimNext(w)
  PROVE  GovernanceInv'
<1>1. PICK i \in Items :
        /\ Eligible(i, Refreshed(item, hold))
        /\ IF \/ item[i].state = "leased" /\ item[i].operation = "apply" /\ i \in DatabaseItems
              \/ item[i].attempt >= MaxItemAttempts
             THEN GiveUp(i)
             ELSE LeaseItem(w, i, OperationOf(i))
  BY DEF ClaimNext
<1>2. disposer[w].doing = "nothing" /\ UNCHANGED <<inventoried, hold, reached>>
  BY DEF ClaimNext
<1> QED
  BY <1>1, <1>2, GiveUpKeeps, LeaseKeeps

-------------------------------------------------------------------------------
(* A worker that begins its call or stops changes nothing others rely on.  *)
LEMMA WorkerKeeps ==
  ASSUME GovernanceInv, NEW w \in GovernanceWorkers, disposer[w].doing # "nothing",
         disposer' \in [GovernanceWorkers -> Job \cup {Resting}],
         \A x \in GovernanceWorkers \ {w} : disposer'[x] = disposer[x],
         \/ disposer'[w] = Resting
         \/ /\ disposer[w].doing = "claimed" /\ disposer'[w].doing = "calling"
            /\ disposer'[w].item = disposer[w].item
            /\ disposer'[w].operation = disposer[w].operation,
         UNCHANGED <<request, started, inventoried, hold, item, reached>>
  PROVE  GovernanceInv'
<1>1. GovernanceTypeOK' /\ EffectsReachTargetsOnce'
  BY DEF GovernanceInv, GovernanceTypeOK, EffectsReachTargetsOnce
<1>2. \A x \in GovernanceWorkers, j \in Items : Applying(x, j)' => Applying(x, j)
  BY DEF Applying, Resting
<1>3. OneApplier'
  <2>1. \A j \in Items : Unapplied(j)' = Unapplied(j)
    BY DEF Unapplied
  <2>2. \A x \in GovernanceWorkers :
          disposer'[x].doing = "reached" => disposer'[x] = disposer[x]
    BY DEF Resting
  <2> QED
    BY <1>2, <2>1, <2>2 DEF GovernanceInv, OneApplier
<1>4. OperationsTell' /\ HeldItemsRest' /\ CompletedIsVerified'
  BY DEF GovernanceInv, OperationsTell, HeldItemsRest, CompletedIsVerified, Held
<1>5. NothingStarted'
  BY DEF GovernanceInv, NothingStarted, Resting
<1> QED
  BY <1>1, <1>3, <1>4, <1>5 DEF GovernanceInv

(* An effect that arrives arrives for the first time: its worker was the   *)
(* one that could still bring it.                                          *)
LEMMA ReachTargetKeeps ==
  ASSUME GovernanceInv, NEW w \in GovernanceWorkers, ReachTarget(w)
  PROVE  GovernanceInv'
<1>1. PICK i : i = disposer[w].item
  OBVIOUS
<1>2. /\ disposer \in [GovernanceWorkers -> Job \cup {Resting}]
      /\ reached \in [Items -> Nat]
      /\ disposer[w] \in Job /\ i \in Items
      /\ disposer[w].doing = "calling"
  BY <1>1 DEF GovernanceInv, GovernanceTypeOK, ReachTarget, Resting, Job
<1>3. /\ disposer' = [disposer EXCEPT ![w].doing = "reached"]
      /\ reached' = [reached EXCEPT ![i] = IF disposer[w].operation = "apply" THEN @ + 1 ELSE @]
      /\ UNCHANGED <<request, started, inventoried, hold, item>>
  BY <1>1 DEF ReachTarget
<1>4. /\ \A x \in GovernanceWorkers \ {w} : disposer'[x] = disposer[x]
      /\ disposer'[w] \in Job /\ disposer'[w].doing = "reached"
      /\ disposer'[w].item = i /\ disposer'[w].operation = disposer[w].operation
  BY <1>1, <1>2, <1>3 DEF Job
<1>5. disposer[w].operation = "apply" => Applying(w, i)
  BY <1>1, <1>2 DEF Applying
<1>6. /\ \A j \in Items \ {i} : reached'[j] = reached[j]
      /\ IF disposer[w].operation = "apply" THEN reached[i] = 0 /\ reached'[i] = 1
                                            ELSE reached'[i] = reached[i]
  BY <1>2, <1>3, <1>5 DEF GovernanceInv, OneApplier
<1>7. GovernanceTypeOK' /\ EffectsReachTargetsOnce'
  <2>1. disposer' \in [GovernanceWorkers -> Job \cup {Resting}] /\ reached' \in [Items -> Nat]
    BY <1>2, <1>3, <1>4
  <2> QED
    BY <1>3, <1>6, <2>1 DEF GovernanceInv, GovernanceTypeOK, EffectsReachTargetsOnce
<1>8. \A x \in GovernanceWorkers, j \in Items : Applying(x, j)' => Applying(x, j) /\ x # w
  BY <1>4 DEF Applying
<1>9. \A j \in Items : Unapplied(j)' = Unapplied(j)
  BY <1>3 DEF Unapplied
<1>10. OneApplier'
  <2>1. \A x \in GovernanceWorkers, j \in Items : Applying(x, j)' => reached'[j] = 0
    BY <1>5, <1>6, <1>8 DEF GovernanceInv, OneApplier
  <2>2. \A x, y \in GovernanceWorkers, j \in Items :
          Applying(x, j)' /\ Applying(y, j)' => x = y
    BY <1>8 DEF GovernanceInv, OneApplier
  <2>3. \A j \in Items : Unapplied(j)' =>
          reached'[j] = 0 /\ \A x \in GovernanceWorkers : ~Applying(x, j)'
    BY <1>5, <1>6, <1>8, <1>9 DEF GovernanceInv, OneApplier
  <2>4. ASSUME NEW x \in GovernanceWorkers, disposer'[x].doing = "reached",
               disposer'[x].operation = "apply"
        PROVE  reached'[disposer'[x].item] = 1
    <3>1. CASE x = w
      BY <1>4, <1>6, <2>4, <3>1
    <3>2. CASE x # w
      <4>1. PICK j : j = disposer[x].item
        OBVIOUS
      <4>2. j \in Items /\ reached[j] = 1 /\ disposer'[x].item = j
        BY <1>2, <1>4, <2>4, <3>2, <4>1 DEF GovernanceInv, OneApplier, Job, Resting
      <4> QED
        BY <1>6, <4>2
    <3> QED
      BY <3>1, <3>2
  <2> QED
    BY <2>1, <2>2, <2>3, <2>4 DEF OneApplier
<1>11. OperationsTell'
  BY <1>3, <1>6 DEF GovernanceInv, OperationsTell
<1>12. HeldItemsRest' /\ CompletedIsVerified' /\ NothingStarted'
  BY <1>2, <1>3 DEF GovernanceInv, HeldItemsRest, CompletedIsVerified, Held, NothingStarted, Resting
<1> QED
  BY <1>7, <1>10, <1>11, <1>12 DEF GovernanceInv

(* What an answer makes of an item, as far as the invariant sees it.       *)
LEMMA SettledItem ==
  ASSUME GovernanceInv, NEW w \in GovernanceWorkers, NEW answer \in Answers(w),
         NEW i \in Items, i = disposer[w].item, HoldsLease(w)
  PROVE  /\ Settled(w, answer) \in Item
         /\ Settled(w, answer).state \in {"verified", "verification_pending",
              "operator_required", "retry_wait", "effect_unknown"}
         /\ Settled(w, answer).state \in {"verified", "verification_pending"} =>
              Settled(w, answer).operation = "verify" /\ answer = "succeeded"
         /\ Settled(w, answer).state = "effect_unknown" =>
              Settled(w, answer).operation = "reconcile" /\ i \notin DatabaseItems
         /\ Settled(w, answer).state \in {"operator_required", "retry_wait"} =>
              Settled(w, answer).operation = item[i].operation
         /\ Settled(w, answer).state = "retry_wait" /\ item[i].operation = "apply" =>
              answer = "retryable"
<1>1. /\ item[i] \in Item /\ item[i].operation = disposer[w].operation
      /\ disposer[w].operation \in Operations
      /\ i \in DatabaseItems => disposer[w].operation # "reconcile"
  BY DEF GovernanceInv, GovernanceTypeOK, HoldsLease, OperationsTell, Item
<1>2. answer \in {"succeeded", "retryable", "unknown", "denied"}
  BY DEF Answers
<1>3. AfterRetry(i) \in {"operator_required", "retry_wait"}
  BY SMTT(60) DEF AfterRetry
<1> DEFINE op == disposer[w].operation
           After(state, o) == [item[i] EXCEPT !.state = state, !.operation = o, !.elapsed = FALSE]
           Fits(state, o) ==
             \/ state \in {"verified", "verification_pending"} /\ o = "verify" /\ answer = "succeeded"
             \/ state = "effect_unknown" /\ o = "reconcile" /\ i \notin DatabaseItems
             \/ state = "operator_required" /\ o = op
             \/ state = "retry_wait" /\ o = op /\ (op = "apply" => answer = "retryable")
<1>4. \E state \in ItemStates, o \in Operations :
        Settled(w, answer) = After(state, o) /\ Fits(state, o)
  <2>1. CASE answer = "succeeded" /\ op = "verify"
    <3>1. Settled(w, answer) = After("verified", "verify")
      BY <2>1 DEF Settled
    <3> QED
      BY <2>1, <3>1 DEF ItemStates, Operations
  <2>2. CASE answer = "succeeded" /\ op # "verify"
    <3>1. Settled(w, answer) = After("verification_pending", "verify")
      BY SMTT(60), <2>2 DEF Settled
    <3> QED
      BY <2>2, <3>1 DEF ItemStates, Operations
  <2>3. CASE answer = "retryable"
    <3>1. Settled(w, answer) = After(AfterRetry(i), op)
      BY SMTT(60), <2>3 DEF Settled
    <3> QED
      BY <1>1, <1>3, <2>3, <3>1 DEF ItemStates
  <2>4. CASE answer = "unknown" /\ op = "verify"
    <3>1. Settled(w, answer) = After(AfterRetry(i), "verify")
      BY <2>4 DEF Settled
    <3> QED
      BY <1>1, <1>3, <2>4, <3>1 DEF ItemStates
  <2>5. CASE answer = "unknown" /\ op = "apply" /\ i \in DatabaseItems
    <3>1. Settled(w, answer) = After("operator_required", op)
      BY <2>5 DEF Settled
    <3> QED
      BY <1>1, <2>5, <3>1 DEF ItemStates
  <2>6. CASE answer = "unknown" /\ op # "verify" /\ ~(op = "apply" /\ i \in DatabaseItems)
    <3>1. Settled(w, answer) = After("effect_unknown", "reconcile")
      BY <2>6 DEF Settled
    <3>2. i \notin DatabaseItems
      BY SMTT(60), <1>1, <2>6 DEF Operations
    <3> QED
      BY <2>6, <3>1, <3>2 DEF ItemStates, Operations
  <2>7. CASE answer = "denied"
    <3>1. Settled(w, answer) = After("operator_required", op)
      BY <2>7 DEF Settled
    <3> QED
      BY <1>1, <2>7, <3>1 DEF ItemStates
  <2> QED
    BY <1>2, <2>1, <2>2, <2>3, <2>4, <2>5, <2>6, <2>7
<1>5. PICK state \in ItemStates, o \in Operations :
        Settled(w, answer) = After(state, o) /\ Fits(state, o)
  BY <1>4
<1>6. After(state, o) \in Item /\ After(state, o).state = state /\ After(state, o).operation = o
  BY <1>1 DEF Item
<1> HIDE DEF After
<1> QED
  BY <1>1, <1>5, <1>6

(* An answer checkpointed under its lease: success means the effect is     *)
(* there, a retry that it never was.                                       *)
LEMMA CheckpointKeeps ==
  ASSUME GovernanceInv, NEW w \in GovernanceWorkers, NEW answer, Checkpoint(w, answer)
  PROVE  GovernanceInv'
<1>1. PICK i : i = disposer[w].item
  OBVIOUS
<1>2. /\ disposer \in [GovernanceWorkers -> Job \cup {Resting}]
      /\ disposer' = [disposer EXCEPT ![w] = Resting]
      /\ answer \in Answers(w)
      /\ UNCHANGED <<started, inventoried, hold>>
  BY DEF GovernanceInv, GovernanceTypeOK, Checkpoint, Rest
<1>3. disposer[w].doing # "nothing" /\ disposer[w] \in Job /\ i \in Items
  <2>1. disposer[w].doing # "nothing"
    BY <1>2 DEF Answers
  <2> QED
    BY <1>1, <1>2, <2>1 DEF Job, Resting
<1>4. /\ disposer' \in [GovernanceWorkers -> Job \cup {Resting}]
      /\ disposer'[w] = Resting
      /\ \A x \in GovernanceWorkers \ {w} : disposer'[x] = disposer[x]
  BY <1>2
<1>5. CASE ~HoldsLease(w)
  <2>1. UNCHANGED <<request, item, reached>>
    BY <1>5 DEF Checkpoint
  <2> QED
    BY <1>2, <1>3, <1>4, <2>1, WorkerKeeps
<1>6. CASE HoldsLease(w)
  <2>1. PICK new : new = Settled(w, answer)
    OBVIOUS
  <2>2. /\ new \in Item
        /\ new.state \in {"verified", "verification_pending",
             "operator_required", "retry_wait", "effect_unknown"}
        /\ new.state \in {"verified", "verification_pending"} =>
             new.operation = "verify" /\ answer = "succeeded"
        /\ new.state = "effect_unknown" =>
             new.operation = "reconcile" /\ i \notin DatabaseItems
        /\ new.state \in {"operator_required", "retry_wait"} =>
             new.operation = item[i].operation
        /\ new.state = "retry_wait" /\ item[i].operation = "apply" => answer = "retryable"
    BY <1>1, <1>2, <1>3, <1>6, <2>1, SettledItem
  <2>3. /\ item \in [Items -> Item] /\ reached \in [Items -> Nat]
        /\ item[i].state = "leased" /\ item[i].operation = disposer[w].operation
        /\ reached[i] <= 1
    BY <1>1, <1>3, <1>6 DEF GovernanceInv, GovernanceTypeOK, HoldsLease, EffectsReachTargetsOnce
  <2>4. /\ item' = [item EXCEPT ![i] = new]
        /\ request' = Aggregate(item')
        /\ reached' = IF disposer[w].doing = "claimed" /\ disposer[w].operation = "apply"
                         /\ answer = "succeeded"
                        THEN [reached EXCEPT ![i] = @ + 1] ELSE reached
    BY <1>1, <1>6, <2>1 DEF Checkpoint
  <2>5. item'[i] = new /\ \A j \in Items \ {i} : item'[j] = item[j]
    BY <1>3, <2>3, <2>4
  <2>6. disposer[w].doing \in {"claimed", "calling"} /\ disposer[w].operation = "apply" =>
          Applying(w, i)
    BY <1>1 DEF Applying
  <2>7. /\ \A j \in Items \ {i} : reached'[j] = reached[j]
        /\ reached'[i] \in {0, 1} /\ reached'[i] >= reached[i]
        /\ reached'[i] # reached[i] => Applying(w, i)
    BY <1>3, <2>3, <2>4, <2>6 DEF GovernanceInv, OneApplier
  <2>8. answer = "succeeded" => reached'[i] = 1
    <3>1. CASE disposer[w].operation = "apply" /\ disposer[w].doing = "claimed"
      <4>1. reached[i] = 0
        BY <1>3, <2>6, <3>1 DEF GovernanceInv, OneApplier
      <4> QED
        BY <1>3, <2>3, <2>4, <3>1, <4>1
    <3>2. CASE disposer[w].operation = "apply" /\ disposer[w].doing = "reached"
      BY <1>1, <1>3, <2>4, <3>2 DEF GovernanceInv, OneApplier
    <3>3. CASE disposer[w].operation # "apply" /\ disposer[w].doing = "reached"
      <4>1. answer = "succeeded" => reached[i] > 0
        BY <1>1, <1>2, <3>3 DEF Answers
      <4>2. reached' = reached /\ reached[i] \in Nat
        BY <1>3, <2>3, <2>4, <3>3
      <4> QED
        BY <2>3, <4>1, <4>2
    <3>4. CASE disposer[w].operation # "apply" /\ disposer[w].doing = "claimed"
      <4>1. i \in DatabaseItems
        BY <1>1, <1>2, <3>4 DEF Answers
      <4>2. item[i].operation = "verify"
        BY <1>3, <2>3, <3>4, <4>1 DEF GovernanceInv, OperationsTell, Item, Operations
      <4>3. reached[i] = 1
        BY <1>3, <4>2 DEF GovernanceInv, OperationsTell
      <4> QED
        BY <2>4, <3>4, <4>3
    <3>5. CASE disposer[w].doing = "calling"
      BY <1>2, <3>5 DEF Answers
    <3> QED
      BY <1>3, <3>1, <3>2, <3>3, <3>4, <3>5 DEF Job
  <2>9. answer = "retryable" /\ disposer[w].operation = "apply" =>
          Applying(w, i) /\ reached'[i] = reached[i]
    BY <1>1, <1>2, <1>3, <2>4, <2>6 DEF Answers, Job
  <2>10. \A x \in GovernanceWorkers, j \in Items : Applying(x, j)' => Applying(x, j) /\ x # w
    BY <1>4 DEF Applying, Resting
  <2>11. \A j \in Items : Unapplied(j)' =>
           \/ j # i /\ Unapplied(j)
           \/ j = i /\ Applying(w, i) /\ reached'[i] = reached[i]
    BY <2>2, <2>3, <2>5, <2>9 DEF Unapplied
  <2>12. OneApplier'
    <3>1. \A x \in GovernanceWorkers, j \in Items : Applying(x, j)' => reached'[j] = 0
      BY <2>7, <2>10 DEF GovernanceInv, OneApplier
    <3>2. \A x, y \in GovernanceWorkers, j \in Items :
            Applying(x, j)' /\ Applying(y, j)' => x = y
      BY <2>10 DEF GovernanceInv, OneApplier
    <3>3. \A j \in Items : Unapplied(j)' =>
            reached'[j] = 0 /\ \A x \in GovernanceWorkers : ~Applying(x, j)'
      BY <2>7, <2>10, <2>11 DEF GovernanceInv, OneApplier
    <3>4. ASSUME NEW x \in GovernanceWorkers, disposer'[x].doing = "reached",
                 disposer'[x].operation = "apply"
          PROVE  reached'[disposer'[x].item] = 1
      <4>1. x # w
        BY <1>4, <3>4 DEF Resting
      <4>2. PICK j : j = disposer[x].item
        OBVIOUS
      <4>3. j \in Items /\ reached[j] = 1 /\ disposer'[x].item = j
        BY <1>2, <1>4, <3>4, <4>1, <4>2 DEF GovernanceInv, OneApplier, Job, Resting
      <4> QED
        BY <2>7, <4>3
    <3> QED
      BY <3>1, <3>2, <3>3, <3>4 DEF OneApplier
  <2>13. OperationsTell'
    <3>1. ASSUME NEW j \in Items \ {i}
          PROVE  item'[j] = item[j] /\ reached'[j] = reached[j]
      BY <2>5, <2>7
    <3>2. item'[i].operation = "verify" => reached'[i] = 1
      BY <1>3, <2>2, <2>3, <2>5, <2>7, <2>8 DEF GovernanceInv, OperationsTell
    <3>3. i \in DatabaseItems => item'[i].operation # "reconcile"
      BY <1>3, <2>2, <2>5 DEF GovernanceInv, OperationsTell
    <3> QED
      BY <2>2, <2>5, <3>1, <3>2, <3>3 DEF GovernanceInv, OperationsTell
  <2>14. GovernanceTypeOK' /\ EffectsReachTargetsOnce'
    <3>1. item' \in [Items -> Item]
      BY <2>2, <2>3, <2>4
    <3>4. reached' \in [Items -> Nat]
      <4>1. [reached EXCEPT ![i] = @ + 1] \in [Items -> Nat]
        BY <1>3, <2>3
      <4> QED
        BY <2>3, <2>4, <4>1
    <3>2. request' \in RequestStates
      BY <2>4, AggregateOf
    <3>3. \A j \in Items : reached'[j] <= 1
      BY <2>7 DEF GovernanceInv, EffectsReachTargetsOnce
    <3> QED
      BY <1>2, <1>4, <3>1, <3>2, <3>3, <3>4 DEF GovernanceInv, GovernanceTypeOK, EffectsReachTargetsOnce
  <2>15. HeldItemsRest'
    <3> SUFFICES ASSUME NEW j \in Items, Held(j, hold)
                 PROVE  item'[j].state \in {"absent", "held"}
      BY <1>2 DEF HeldItemsRest, Held
    <3> QED
      BY <2>3, <2>5 DEF GovernanceInv, HeldItemsRest
  <2>16. NothingStarted'
    <3>1. started
      BY <1>3 DEF GovernanceInv, GovernanceTypeOK, NothingStarted, Resting
    <3>2. PICK items : items = item'
      OBVIOUS
    <3>3. Aggregate(items) \notin Admission
      BY AggregateOf
    <3> QED
      BY <1>2, <2>4, <3>1, <3>2, <3>3 DEF NothingStarted, Admission
  <2>17. CompletedIsVerified'
    <3>1. PICK items : items = item'
      OBVIOUS
    <3>2. Aggregate(items) = "completed" => \A j \in Items : items[j].state = "verified"
      BY AggregateOf
    <3> QED
      BY <2>4, <3>1, <3>2 DEF CompletedIsVerified
  <2> QED
    BY <2>12, <2>13, <2>14, <2>15, <2>16, <2>17 DEF GovernanceInv
<1> QED
  BY <1>5, <1>6

(* A lease that expires, or a delay that ends, moves nothing.              *)
LEMMA TimePassesKeeps ==
  ASSUME GovernanceInv, NEW i \in Items, TimePasses(i)
  PROVE  GovernanceInv'
<1>1. /\ item' \in [Items -> Item]
      /\ \A j \in Items : /\ item'[j].state = item[j].state
                          /\ item'[j].operation = item[j].operation
                          /\ item'[j].attempt = item[j].attempt
      /\ UNCHANGED <<request, started, inventoried, hold, disposer, reached>>
  BY ZenonT(60) DEF TimePasses, GovernanceInv, GovernanceTypeOK, Item
<1>2. GovernanceTypeOK' /\ EffectsReachTargetsOnce'
  BY <1>1 DEF GovernanceInv, GovernanceTypeOK, EffectsReachTargetsOnce
<1>3. /\ \A w, j : Applying(w, j)' = Applying(w, j)
      /\ \A j \in Items : Unapplied(j)' => Unapplied(j)
  BY <1>1 DEF Applying, Unapplied
<1>4. OneApplier'
  BY <1>1, <1>3 DEF GovernanceInv, OneApplier
<1>5. OperationsTell' /\ NothingStarted' /\ HeldItemsRest' /\ CompletedIsVerified'
  BY <1>1 DEF GovernanceInv, OperationsTell, NothingStarted, HeldItemsRest,
     CompletedIsVerified, Held
<1> QED
  BY <1>2, <1>4, <1>5 DEF GovernanceInv

-------------------------------------------------------------------------------
LEMMA GovernanceInvInit == GovernanceInit => GovernanceInv
<1> SUFFICES ASSUME GovernanceInit PROVE GovernanceInv
  OBVIOUS
<1>1. GovernanceTypeOK /\ EffectsReachTargetsOnce
  <2>1. item \in [Items -> Item]
    BY DEF GovernanceInit, Item, ItemStates, Operations
  <2>2. /\ disposer \in [GovernanceWorkers -> Job \cup {Resting}]
        /\ reached \in [Items -> Nat] /\ \A i \in Items : reached[i] <= 1
    BY DEF GovernanceInit
  <2>3. /\ request \in RequestStates /\ started \in BOOLEAN /\ inventoried \in BOOLEAN
        /\ hold \in [LegalHolds -> {"absent", "active", "ended"}]
    BY DEF GovernanceInit, RequestStates
  <2> QED
    BY <2>1, <2>2, <2>3 DEF GovernanceTypeOK, EffectsReachTargetsOnce
<1>2. \A w, i : w \in GovernanceWorkers => ~Applying(w, i)
  BY DEF GovernanceInit, Applying, Resting
<1>3. OneApplier /\ OperationsTell
  BY <1>2 DEF GovernanceInit, OneApplier, OperationsTell, Unapplied, Resting
<1>4. NothingStarted /\ HeldItemsRest /\ CompletedIsVerified
  BY DEF GovernanceInit, NothingStarted, HeldItemsRest, CompletedIsVerified
<1> QED
  BY <1>1, <1>3, <1>4 DEF GovernanceInv

LEMMA GovernanceInvStep ==
  ASSUME GovernanceInv, [GovernanceNext]_governanceVars
  PROVE  GovernanceInv'
<1>1. request \in RequestStates /\ disposer \in [GovernanceWorkers -> Job \cup {Resting}]
  BY DEF GovernanceInv, GovernanceTypeOK
<1>2. CASE \/ RequestApproval \/ Deny \/ BeginInventory
           \/ \E a \in Authorizations : Authorize(a)
           \/ \E x \in Cancellations : CancelRequest(x)
           \/ UNCHANGED governanceVars
  <2>1. UNCHANGED <<started, inventoried, hold, item, disposer, reached>>
    BY <1>2 DEF RequestApproval, Deny, BeginInventory, Authorize, CancelRequest, governanceVars
  <2>2. /\ request' \in RequestStates
        /\ request' \in Admission => request \in Admission
        /\ request' = "completed" => request = "completed"
    BY <1>1, <1>2 DEF RequestApproval, Deny, BeginInventory, Authorize, CancelRequest,
       governanceVars, RequestStates, Ends, Admission
  <2> QED
    BY <2>1, <2>2, AdmissionKeeps
<1>3. ASSUME NEW w \in GovernanceWorkers, CallTarget(w) \/ DisposerStops(w)
      PROVE  GovernanceInv'
  <2>1. /\ disposer[w] \in Job
        /\ disposer[w].doing # "nothing"
        /\ UNCHANGED <<request, started, inventoried, hold, item, reached>>
    BY <1>1, <1>3 DEF CallTarget, DisposerStops, Resting
  <2>2. \/ disposer' = [disposer EXCEPT ![w] = Resting]
        \/ /\ disposer[w].doing = "claimed"
           /\ disposer' = [disposer EXCEPT ![w].doing = "calling"]
    BY <1>3 DEF CallTarget, DisposerStops, Rest
  <2>3. /\ disposer' \in [GovernanceWorkers -> Job \cup {Resting}]
        /\ \A x \in GovernanceWorkers \ {w} : disposer'[x] = disposer[x]
        /\ \/ disposer'[w] = Resting
           \/ /\ disposer[w].doing = "claimed" /\ disposer'[w].doing = "calling"
              /\ disposer'[w].item = disposer[w].item
              /\ disposer'[w].operation = disposer[w].operation
    BY <1>1, <2>1, <2>2 DEF Job
  <2> QED
    BY <2>1, <2>3, WorkerKeeps
<1>4. ASSUME NEW w \in GovernanceWorkers, DisposerStep(w)
      PROVE  GovernanceInv'
  BY <1>3, <1>4, ClaimNextKeeps, ReachTargetKeeps, CheckpointKeeps DEF DisposerStep
<1> QED
  BY <1>2, <1>4, CompleteInventoryKeeps, HoldsKeep, TimePassesKeeps DEF GovernanceNext

LEMMA GovernanceInductive == GovernanceSpec => []GovernanceInv
  BY GovernanceInvInit, GovernanceInvStep, PTL DEF GovernanceSpec

(* Whatever leases expire, workers die or answers are lost, the effect of  *)
(* an item reaches its target at most once: what may have happened is      *)
(* reconciled, never applied again (claimNext, checkpoint).                *)
THEOREM EffectsAreNotRepeated == GovernanceSpec => []EffectsReachTargetsOnce
  BY InvImplies, GovernanceInductive, PTL

(* While a legal hold covers an item no worker has it and nothing reaches  *)
(* its target; before the first apply is leased nothing was given out      *)
(* (placeLegalHold, refreshHeldItems, claimNext).                          *)
THEOREM HoldsAreKept == GovernanceSpec => []HoldsProtect
  BY InvImplies, GovernanceInductive, PTL

(* A request is completed only when the effect of every item reached its   *)
(* target once and was verified (updateAggregate).                         *)
THEOREM CompletionIsErasure == GovernanceSpec => []CompletedMeansErased
  BY InvImplies, GovernanceInductive, PTL

(* Run next to the disposition requests, the runs of a session and the     *)
(* requests each behave as they do alone, so that every theorem above and  *)
(* below is one of the composed system too.                                *)
THEOREM WorkPartsRunAlone == MCSpec => Spec /\ GovernanceSpec
<1>1. MCInit => Init /\ GovernanceInit
  BY DEF MCInit
<1>2. [MCNext]_<<vars, governanceVars, part>> => [Next]_vars /\ [GovernanceNext]_governanceVars
  BY DEF MCNext, vars, governanceVars
<1> QED
  BY <1>1, <1>2, PTL DEF MCSpec, Spec, GovernanceSpec
===============================================================================
