---- MODULE DataGovernance ----
(* One data disposition request (packages/workflows/src/data-governance.ts) and the       *)
(* workers that carry it out (apps/workflow-worker/src/data-governance.ts): admission,    *)
(* inventory, legal holds, leased work items, and the external effects they apply,        *)
(* reconcile and verify.  Time is the expiry of a lease and the end of a retry delay.     *)
EXTENDS Naturals, FiniteSets

CONSTANTS Items,           \* work items, numbered in the order of the inventory
          DatabaseItems,   \* those whose surface is the database
          LegalHolds, Covered,   \* holds, and the items each covers
          Authorizations, Cancellations,   \* commands
          GovernanceWorkers,
          MaxItemAttempts

ASSUME GovernanceAssumption ==
    /\ Items \subseteq Nat \ {0} /\ DatabaseItems \subseteq Items
    /\ Covered \in [LegalHolds -> (SUBSET Items) \ {{}}]
    /\ MaxItemAttempts \in Nat \ {0}

VARIABLES request,         \* the state of the request
          started,         \* irreversibleEffectStarted
          inventoried,     \* the request has work items
          hold,            \* each legal hold
          item,            \* each work item and its lease
          recorded,        \* commands written down
          disposer,        \* what each worker is doing
          reached          \* history: how often an effect reached each target

governanceVars == <<request, started, inventoried, hold, item, recorded, disposer, reached>>

Ends == {"completed", "denied", "expired", "cancelled", "operator_required"}
Runnable == {"ready", "blocked_by_legal_hold", "executing", "retry_wait", "effect_unknown", "verifying"}
ItemEnds == {"verified", "operator_required"}
Resting == [doing |-> "nothing"]

GovernanceInit ==
    /\ request = "requested" /\ started = FALSE /\ inventoried = FALSE
    /\ hold = [h \in LegalHolds |-> "absent"]
    /\ item = [i \in Items |-> [state |-> "absent", operation |-> "apply", attempt |-> 0, elapsed |-> FALSE]]
    /\ recorded = {}
    /\ disposer = [w \in GovernanceWorkers |-> Resting]
    /\ reached = [i \in Items |-> 0]

Held(i, holds) == \E h \in LegalHolds : holds[h] = "active" /\ i \in Covered[h]

(* refreshHeldItems *)
Refreshed(items, holds) ==
    [i \in Items |-> IF items[i].state \in {"pending", "held"}
                       THEN [items[i] EXCEPT !.state = IF Held(i, holds) THEN "held" ELSE "pending"]
                       ELSE items[i]]

HasActionableUnheld(items, holds) ==
    inventoried /\ \E i \in Items : items[i].state \notin ItemEnds /\ ~Held(i, holds)

ItemsAt(state, items) == {i \in Items : items[i].state = state}

(* Mutation: a request is done when nothing is left that no hold covers. *)
Aggregate_HeldAside(items) ==
    CASE ItemsAt("operator_required", items) # {} -> "operator_required"
      [] OTHER -> IF HasActionableUnheld(items, hold) THEN "executing" ELSE "completed"

(* updateAggregate *)
Aggregate(items) ==
    CASE ItemsAt("operator_required", items) # {} -> "operator_required"
      [] OTHER ->
    CASE ItemsAt("effect_unknown", items) # {} -> "effect_unknown"
      [] OTHER ->
    CASE ItemsAt("retry_wait", items) # {} -> "retry_wait"
      [] OTHER ->
    CASE ItemsAt("verified", items) = Items -> "completed"
      [] ItemsAt("verified", items) # Items /\ ~HasActionableUnheld(items, hold) -> "blocked_by_legal_hold"
      [] OTHER -> IF ItemsAt("verification_pending", items) # {} THEN "verifying" ELSE "executing"

----
(* Admission.  A command is written down before the state it needs is checked, so the     *)
(* same command sent again is answered and does nothing, even if it was refused.          *)
RequestApproval ==
    /\ request = "requested" /\ request' = "approval_pending"
    /\ UNCHANGED <<started, inventoried, hold, item, recorded, disposer, reached>>

Authorize(a) ==
    /\ a \notin recorded /\ recorded' = recorded \cup {a}
    /\ request' \in IF request = "approval_pending" THEN {"authorized", "expired"} ELSE {request}
    /\ UNCHANGED <<started, inventoried, hold, item, disposer, reached>>

Deny ==
    /\ request \in {"requested", "approval_pending"}
    /\ request' \in {"denied", "expired"}
    /\ UNCHANGED <<started, inventoried, hold, item, recorded, disposer, reached>>

Cancellable == {"requested", "approval_pending", "authorized", "inventorying", "ready", "blocked_by_legal_hold"}
CancelRequest(x) ==
    /\ x \notin recorded /\ recorded' = recorded \cup {x}
    /\ request' = IF ~started /\ request \in Cancellable THEN "cancelled" ELSE request
    /\ UNCHANGED <<started, inventoried, hold, item, disposer, reached>>

BeginInventory ==
    /\ request = "authorized" /\ request' = "inventorying"
    /\ UNCHANGED <<started, inventoried, hold, item, recorded, disposer, reached>>

CompleteInventory ==
    /\ request = "inventorying"
    /\ inventoried' = TRUE
    /\ item' = Refreshed([i \in Items |-> [item[i] EXCEPT !.state = "pending"]], hold)
    /\ request' = IF ItemsAt("held", item') # {} THEN "blocked_by_legal_hold" ELSE "ready"
    /\ UNCHANGED <<started, hold, recorded, disposer, reached>>

----
PlaceLegalHold(h) ==
    /\ ~started
    /\ request \in {"authorized", "inventorying", "ready", "blocked_by_legal_hold"}
    /\ hold[h] = "absent"
    /\ hold' = [hold EXCEPT ![h] = "active"]
    /\ item' = Refreshed(item, hold')
    /\ request' = IF inventoried THEN "blocked_by_legal_hold" ELSE request
    /\ UNCHANGED <<started, inventoried, recorded, disposer, reached>>

(* releaseLegalHold and expireLegalHold, which ask nothing of the request's state. *)
EndLegalHold(h) ==
    /\ hold[h] = "active"
    /\ hold' = [hold EXCEPT ![h] = "ended"]
    /\ item' = Refreshed(item, hold')
    /\ request' = IF HasActionableUnheld(item', hold') THEN "ready" ELSE "blocked_by_legal_hold"
    /\ UNCHANGED <<started, inventoried, recorded, disposer, reached>>

----
(* Mutation: a lease that ran out is left to its worker. *)
Eligible_NoTakeover(i, items) ==
    /\ ~Held(i, hold)
    /\ \/ items[i].state \in {"pending", "effect_unknown", "verification_pending"}
       \/ items[i].state = "retry_wait" /\ items[i].elapsed

(* Mutation: a legal hold keeps nobody from an item. *)
Eligible_EvenHeld(i, items) ==
    \/ items[i].state \in {"pending", "held", "effect_unknown", "verification_pending"}
    \/ items[i].state \in {"retry_wait", "leased"} /\ items[i].elapsed

(* claimNext: what may be claimed, and for what. *)
Eligible(i, items) ==
    /\ ~Held(i, hold)
    /\ \/ items[i].state \in {"pending", "effect_unknown", "verification_pending"}
       \/ items[i].state \in {"retry_wait", "leased"} /\ items[i].elapsed

(* Mutation: an apply whose lease expired is applied again. *)
OperationOf_Again(i) ==
    CASE item[i].state = "effect_unknown" -> "reconcile"
      [] item[i].state = "verification_pending" -> "verify"
      [] OTHER -> item[i].operation

(* An apply whose lease expired may have reached its target: it is not applied again. *)
OperationOf(i) ==
    CASE item[i].state = "effect_unknown" -> "reconcile"
      [] item[i].state = "verification_pending" -> "verify"
      [] item[i].state = "leased" /\ item[i].operation = "apply" -> "reconcile"
      [] OTHER -> item[i].operation

GiveUp(i) ==
    /\ item' = [Refreshed(item, hold) EXCEPT ![i].state = "operator_required"]
    /\ request' = "operator_required"
    /\ UNCHANGED <<started, disposer>>

LeaseItem(w, i, operation) ==
    /\ item' = [Refreshed(item, hold) EXCEPT
                  ![i] = [state |-> "leased", operation |-> operation,
                          attempt |-> item[i].attempt + 1, elapsed |-> FALSE]]
    /\ started' = (started \/ operation = "apply")
    /\ request' = CASE operation = "verify" -> "verifying"
                    [] operation = "reconcile" -> "effect_unknown"
                    [] operation = "apply" -> "executing"
    /\ disposer' = [disposer EXCEPT ![w] = [doing |-> "claimed", item |-> i, operation |-> operation,
                                        attempt |-> item[i].attempt + 1]]

ClaimNext(w) ==
    /\ disposer[w].doing = "nothing"
    /\ request \in Runnable
    /\ \E i \in Items :
          /\ Eligible(i, Refreshed(item, hold))
          /\ \A j \in Items : j < i => ~Eligible(j, Refreshed(item, hold))
          /\ IF \/ item[i].state = "leased" /\ item[i].operation = "apply" /\ i \in DatabaseItems
                \/ item[i].attempt >= MaxItemAttempts
               THEN GiveUp(i)
               ELSE LeaseItem(w, i, OperationOf(i))
    /\ UNCHANGED <<inventoried, hold, recorded, reached>>

----
(* The worker.  It may die at any time; an external call ends at its deadline at the      *)
(* latest, and its effect may have reached the target either way.                         *)
Rest(w) == disposer' = [disposer EXCEPT ![w] = Resting]

CallTarget(w) ==
    /\ disposer[w].doing = "claimed" /\ disposer[w].item \notin DatabaseItems
    /\ disposer' = [disposer EXCEPT ![w].doing = "calling"]
    /\ UNCHANGED <<request, started, inventoried, hold, item, recorded, reached>>

ReachTarget(w) ==
    /\ disposer[w].doing = "calling"
    /\ disposer' = [disposer EXCEPT ![w].doing = "reached"]
    /\ reached' = [reached EXCEPT ![disposer[w].item] = IF disposer[w].operation = "apply" THEN @ + 1 ELSE @]
    /\ UNCHANGED <<request, started, inventoried, hold, item, recorded>>

(* What a target may truthfully answer. *)
Answers(w) ==
    LET i == disposer[w].item IN
    CASE disposer[w].doing = "calling" -> {"retryable", "unknown", "denied"}
      [] disposer[w].doing = "reached" /\ disposer[w].operation = "apply" -> {"succeeded", "unknown"}
      [] disposer[w].doing = "reached" /\ disposer[w].operation # "apply" ->
           {"retryable", "unknown", "denied"} \cup (IF reached[i] > 0 THEN {"succeeded"} ELSE {})
      [] disposer[w].doing = "claimed" /\ i \in DatabaseItems -> {"succeeded", "retryable", "unknown", "denied"}
      [] OTHER -> {}

AfterRetry(i) == IF item[i].attempt >= MaxItemAttempts THEN "operator_required" ELSE "retry_wait"

(* checkpoint: what an answer makes of its item. *)
Settled(w, answer) ==
    LET i == disposer[w].item
        operation == disposer[w].operation
        next(state, op) == [item[i] EXCEPT !.state = state, !.operation = op, !.elapsed = FALSE]
    IN CASE answer = "succeeded" /\ operation = "verify" -> next("verified", "verify")
         [] answer = "succeeded" /\ operation # "verify" -> next("verification_pending", "verify")
         [] answer = "retryable" -> next(AfterRetry(i), operation)
         [] answer = "unknown" /\ operation = "verify" -> next(AfterRetry(i), "verify")
         [] answer = "unknown" /\ operation = "apply" /\ i \in DatabaseItems -> next("operator_required", operation)
         [] answer = "unknown" /\ operation # "verify" /\ ~(operation = "apply" /\ i \in DatabaseItems) ->
              next("effect_unknown", "reconcile")
         [] answer = "denied" -> next("operator_required", operation)

HoldsLease(w) ==
    LET i == disposer[w].item IN
    /\ item[i].state = "leased" /\ ~item[i].elapsed
    /\ item[i].attempt = disposer[w].attempt /\ item[i].operation = disposer[w].operation

Checkpoint(w, answer) ==
    /\ answer \in Answers(w)
    /\ IF HoldsLease(w)
         THEN /\ item' = [item EXCEPT ![disposer[w].item] = Settled(w, answer)]
              /\ request' = Aggregate(item')
              /\ reached' = IF disposer[w].doing = "claimed" /\ disposer[w].operation = "apply" /\ answer = "succeeded"
                              THEN [reached EXCEPT ![disposer[w].item] = @ + 1] ELSE reached
         ELSE UNCHANGED <<item, request, reached>>
    /\ Rest(w)
    /\ UNCHANGED <<started, inventoried, hold, recorded>>

DisposerStops(w) ==
    /\ disposer[w].doing # "nothing"
    /\ Rest(w)
    /\ UNCHANGED <<request, started, inventoried, hold, item, recorded, reached>>

TimePasses(i) ==
    /\ item[i].state \in {"leased", "retry_wait"} /\ ~item[i].elapsed
    /\ item' = [item EXCEPT ![i].elapsed = TRUE]
    /\ UNCHANGED <<request, started, inventoried, hold, recorded, disposer, reached>>

----
DisposerStep(w) ==
    \/ ClaimNext(w) \/ CallTarget(w) \/ ReachTarget(w) \/ DisposerStops(w)
    \/ \E answer \in {"succeeded", "retryable", "unknown", "denied"} : Checkpoint(w, answer)

GovernanceNext ==
    \/ RequestApproval \/ Deny \/ BeginInventory \/ CompleteInventory
    \/ \E a \in Authorizations : Authorize(a)
    \/ \E x \in Cancellations : CancelRequest(x)
    \/ \E h \in LegalHolds : PlaceLegalHold(h) \/ EndLegalHold(h)
    \/ \E w \in GovernanceWorkers : DisposerStep(w)
    \/ \E i \in Items : TimePasses(i)

(* Workers poll, every call has a deadline, and time passes. *)
GovernanceFairness ==
    /\ WF_governanceVars(\E w \in GovernanceWorkers : DisposerStep(w))
    /\ \A i \in Items : WF_governanceVars(TimePasses(i))
GovernanceSpec == GovernanceInit /\ [][GovernanceNext]_governanceVars /\ GovernanceFairness

----
(* An irreversible effect reaches its target once, whatever leases expire, workers die or *)
(* answers are lost: what may have happened is reconciled, never applied again.           *)
EffectsReachTargetsOnce == \A i \in Items : reached[i] <= 1

(* A request is completed only when every effect reached its target and was verified.     *)
CompletedMeansErased ==
    request = "completed" => \A i \in Items : item[i].state = "verified" /\ reached[i] = 1

(* While a legal hold covers an item no worker is given it and nothing reaches its        *)
(* target; and until something may have reached a target nothing has been started.        *)
HoldsProtect ==
    /\ \A i \in Items : Held(i, hold) => item[i].state \in {"absent", "held"} /\ reached[i] = 0
    /\ ~started => \A i \in Items : item[i].attempt = 0 /\ reached[i] = 0

(* A request that has ended never is carried out: ADR-046 has no step out of cancelled.   *)
EndedStaysEnded == [][(request \in Ends) => (request' = request)]_governanceVars

(* A started request is carried through: it ends, or is left to a legal hold.             *)
StartedRequestsConverge ==
    started ~> (request \in Ends \/ \E h \in LegalHolds : hold[h] = "active")
====
