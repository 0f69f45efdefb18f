---- MODULE ActionRuntime ----
(* The governed action runtime (packages/tool-runtime) with the policy engine it asks     *)
(* (packages/policy).  A submission registers a promise in four maps; the promise runs in *)
(* a later microtask and its reactions clean the maps in one more.  A refused submission  *)
(* throws and changes nothing, so it is no step.                                          *)
EXTENDS Naturals, FiniteSets

CONSTANTS Intents,        \* records [tenant, key, id, session, plan, actor], their own fingerprints
          NoIntent,
          ListedPlans,    \* plans that resolve to the read-only catalog operation
          UnknownPlans,   \* listed plans whose effect stays unknown
          AllowedActors,
          MaxLedger,      \* ledger entries a tenant may hold
          MaxTimeouts     \* tenants that may be given a forced timeout (4096 in the code)

ASSUME RuntimeAssumption ==
    /\ NoIntent \notin Intents
    /\ UnknownPlans \subseteq ListedPlans
    /\ MaxLedger \in Nat \ {0} /\ MaxTimeouts \in Nat \ {0}

VARIABLES profile,              \* composition options; never changes
          executions,           \* by idempotency key
          executionsByIntent,   \* by intent identifier
          operationsInFlight,   \* by operation
          unknownOperations,    \* by operation: the barrier
          ledgerCount,          \* per tenant
          timedOut,             \* tenants whose forced timeout was spent
          job,                  \* what the promise of an intent has come to
          settling,             \* settled promises whose reactions have not run
          invocations           \* history: how often each operation reached the fixture

runtimeVars == <<profile, executions, executionsByIntent, operationsInFlight,
                 unknownOperations, ledgerCount, timedOut, job, settling, invocations>>

Key(i) == <<i.tenant, i.key>>
Identifier(i) == <<i.tenant, i.id>>
Operation(i) == <<i.tenant, i.plan>>
Keys == {Key(i) : i \in Intents}
Identifiers == {Identifier(i) : i \in Intents}
Operations == {Operation(i) : i \in Intents}
ToolTenants == {i.tenant : i \in Intents}
Outcomes == {"succeeded", "failed", "pending", "unknown", "rejected"}

RuntimeInit ==
    /\ profile \in [approval : BOOLEAN, timeoutOnce : BOOLEAN]
    /\ profile.timeoutOnce => ~profile.approval
    /\ executions = [k \in Keys |-> NoIntent]
    /\ executionsByIntent = [k \in Identifiers |-> NoIntent]
    /\ operationsInFlight = [o \in Operations |-> NoIntent]
    /\ unknownOperations = [o \in Operations |-> NoIntent]
    /\ ledgerCount = [t \in ToolTenants |-> 0]
    /\ timedOut = {}
    /\ job = [i \in Intents |-> "none"]
    /\ settling = {}
    /\ invocations = [o \in Operations |-> 0]

(* The decision of the policy engine on an authenticated, active intent. *)
Evaluate(i) ==
    CASE i.plan \notin ListedPlans \/ i.actor \notin AllowedActors -> "deny"
      [] profile.approval -> "require_approval"
      [] OTHER -> "allow"

(* A known key or identifier is answered from the ledger, or refused as a conflict. *)
Known(i) ==
    \/ executions[Key(i)] # NoIntent
    \/ executionsByIntent[Identifier(i)] # NoIntent

Accepts_NoBarrier(i) ==
    /\ ~Known(i)
    /\ ledgerCount[i.tenant] < MaxLedger
    /\ operationsInFlight[Operation(i)] = NoIntent

Accepts(i) ==
    /\ ~Known(i)
    /\ ledgerCount[i.tenant] < MaxLedger
    /\ unknownOperations[Operation(i)] = NoIntent
    /\ operationsInFlight[Operation(i)] = NoIntent

SubmitActionIntent(i) ==
    /\ Accepts(i)
    /\ executions' = [executions EXCEPT ![Key(i)] = i]
    /\ executionsByIntent' = [executionsByIntent EXCEPT ![Identifier(i)] = i]
    /\ operationsInFlight' = [operationsInFlight EXCEPT ![Operation(i)] = i]
    /\ ledgerCount' = [ledgerCount EXCEPT ![i.tenant] = @ + 1]
    /\ job' = [job EXCEPT ![i] = "queued"]
    /\ UNCHANGED <<profile, unknownOperations, timedOut, settling, invocations>>

ForcesTimeout(i) == profile.timeoutOnce /\ i.tenant \notin timedOut

GovernedOutcome(i) ==
    CASE Evaluate(i) = "deny" -> "failed"
      [] Evaluate(i) = "require_approval" -> "pending"
      [] ForcesTimeout(i) /\ Cardinality(timedOut) >= MaxTimeouts -> "rejected"
      [] ForcesTimeout(i) \/ i.plan \in UnknownPlans -> "unknown"
      [] OTHER -> "succeeded"

(* The body of the promise: policy, fixture, receipt. *)
ExecuteGovernedDecision(i) ==
    /\ job[i] = "queued"
    /\ LET outcome == GovernedOutcome(i) IN
         /\ job' = [job EXCEPT ![i] = outcome]
         /\ invocations' = IF Evaluate(i) = "allow"
                             THEN [invocations EXCEPT ![Operation(i)] = @ + 1] ELSE invocations
         /\ timedOut' = IF outcome = "unknown" /\ ForcesTimeout(i)
                          THEN timedOut \cup {i.tenant} ELSE timedOut
         /\ unknownOperations' = IF outcome = "unknown"
                                   THEN [unknownOperations EXCEPT ![Operation(i)] = i]
                                   ELSE unknownOperations
    /\ settling' = settling \cup {i}
    /\ UNCHANGED <<profile, executions, executionsByIntent, operationsInFlight, ledgerCount>>

Release(map, k, entry, none) == IF map[k] = entry THEN [map EXCEPT ![k] = none] ELSE map

(* A rejected execution leaves no trace in the ledger. *)
Forget(i) ==
    /\ executions' = Release(executions, Key(i), i, NoIntent)
    /\ executionsByIntent' = Release(executionsByIntent, Identifier(i), i, NoIntent)
    /\ job' = [job EXCEPT ![i] = "none"]
    /\ ledgerCount' = [ledgerCount EXCEPT ![i.tenant] = @ - 1]

(* The reactions of the settled promise. *)
SettleExecution(i) ==
    /\ i \in settling
    /\ settling' = settling \ {i}
    /\ operationsInFlight' = Release(operationsInFlight, Operation(i), i, NoIntent)
    /\ IF job[i] = "rejected" THEN Forget(i)
         ELSE UNCHANGED <<executions, executionsByIntent, ledgerCount, job>>
    /\ UNCHANGED <<profile, unknownOperations, timedOut, invocations>>

(* Only a coordinator in the same module may lift a barrier, and only its own. *)
ReconcilePrivateUnknown_Kept(i) ==
    /\ unknownOperations[Operation(i)] = i
    /\ UNCHANGED unknownOperations

ReconcilePrivateUnknown(i) ==
    /\ unknownOperations[Operation(i)] = i
    /\ unknownOperations' = [unknownOperations EXCEPT ![Operation(i)] = NoIntent]

RuntimeSteps(i) == ExecuteGovernedDecision(i) \/ SettleExecution(i)

(* The public runtime: no forced timeouts and no reconciliation. *)
DirectInit == RuntimeInit /\ ~profile.timeoutOnce
DirectNext == \E i \in Intents : SubmitActionIntent(i) \/ RuntimeSteps(i)
DirectSpec == DirectInit /\ [][DirectNext]_runtimeVars

----
(* Every map holds what it may hold. *)
RuntimeTypeOK ==
    /\ profile \in [approval : BOOLEAN, timeoutOnce : BOOLEAN]
    /\ executions \in [Keys -> Intents \cup {NoIntent}]
    /\ executionsByIntent \in [Identifiers -> Intents \cup {NoIntent}]
    /\ operationsInFlight \in [Operations -> Intents \cup {NoIntent}]
    /\ unknownOperations \in [Operations -> Intents \cup {NoIntent}]
    /\ ledgerCount \in [ToolTenants -> Nat]
    /\ timedOut \subseteq ToolTenants
    /\ job \in [Intents -> Outcomes \cup {"none", "queued"}]
    /\ settling \subseteq Intents
    /\ invocations \in [Operations -> Nat]

Registered(t) == {k \in Keys : k[1] = t /\ executions[k] # NoIntent}

(* The two indexes and the count of a tenant tell the same executions, whatever was       *)
(* rejected and retried: a leak would exhaust the tenant's ledger, an entry missing from  *)
(* one index would let a second intent through.                                           *)
LedgersBalance ==
    /\ \A t \in ToolTenants : /\ ledgerCount[t] = Cardinality(Registered(t))
                              /\ ledgerCount[t] <= MaxLedger
    /\ \A i \in Intents : LET busy == job[i] # "none" IN
         /\ busy <=> executions[Key(i)] = i
         /\ busy <=> executionsByIntent[Identifier(i)] = i

(* An operation in flight is one promise, and an operation whose effect is unknown is not *)
(* attempted again before it was reconciled, though it may have been queued long before.  *)
NoBlindRetry ==
    [][\A o \in Operations : invocations'[o] # invocations[o] =>
          /\ unknownOperations[o] = NoIntent
          /\ \A i \in Intents : Operation(i) = o /\ job[i] = "queued" => operationsInFlight[o] = i]_runtimeVars
====
