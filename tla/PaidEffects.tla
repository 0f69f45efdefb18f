---------------------------- MODULE PaidEffects ----------------------------
(* The portal's paid Tavus rooms: one durable reservation per intention, the *)
(* request that opens the room, its two compensations, the provider's        *)
(* webhook, the cleanup job, the Stripe usage job, the operator's stop and   *)
(* the operator's reconciliation.                                            *)
(* Every RPC is one transaction of the database; a request, a job or an      *)
(* answer may be lost between any two of them.                               *)
EXTENDS Naturals, FiniteSets

CONSTANTS
    Intentions,    \* intentions of one tenant and agent
    Callers,     \* requests of startVideoConversation that may run at once
    Cap,         \* undelivered rooms a billing period may hold (the code: 3)
    MaxAttempts, \* attempts of a cleanup, a usage report, a stop (the code: 8)
    MaxCalls     \* bound: requests a behaviour makes

ASSUME PaidEffectsAssumption ==
    /\ Cap \in Nat \ {0} /\ MaxAttempts \in Nat \ {0} /\ MaxCalls \in Nat

VARIABLES
    effect,      \* provider_effect_reservations, by row
    cleanup,     \* the reconciliation columns of the row
    joined,      \* tavus_customer_delivery_receipts: none, delivered, never_joined
    transcript,  \* whether the room's transcript placeholder is stored
    usage,       \* billing_usage_outbox: the row's status and attempts
    room,        \* at the provider: none, running, ended
    charged,     \* at Stripe: whether a meter event of the row was accepted
    activated,   \* history: whether the customer's delivery was ever activated
    vouched,     \* provider_effect_reconciliation_receipts: released on an operator's evidence
    caller,      \* the requests
    calls,       \* how many requests were made
    cleaner,     \* the cleanup job
    biller,      \* the usage job
    stop         \* the operator's stop and its receipts

requestVars == <<caller, calls>>
jobVars == <<cleaner, biller, stop>>
paidVars == <<effect, cleanup, joined, transcript, usage, room, charged,
              activated, vouched, caller, calls, cleaner, biller, stop>>

\* An intention's first row, and the one its released first row is retried under.
Rows == Intentions \X {"base", "retry"}
Base(c) == <<c, "base">>
Barrier == {"provider_in_flight", "unknown", "cleanup_pending"}

NoEffect == [state |-> "none", delivery |-> "held", dispatched |-> FALSE, ref |-> FALSE]
NoCleanup == [attempts |-> 0, leased |-> FALSE, dead |-> FALSE]
NoUsage == [status |-> "none", attempts |-> 0]
AtRest == [pc |-> "idle"]

PaidInit ==
    /\ effect = [r \in Rows |-> NoEffect] /\ cleanup = [r \in Rows |-> NoCleanup]
    /\ joined = [r \in Rows |-> "none"] /\ transcript = [r \in Rows |-> FALSE]
    /\ usage = [r \in Rows |-> NoUsage] /\ room = [r \in Rows |-> "none"]
    /\ charged = [r \in Rows |-> FALSE] /\ activated = [r \in Rows |-> FALSE]
    /\ vouched = [r \in Rows |-> FALSE]
    /\ caller = [k \in Callers |-> AtRest] /\ calls = 0
    /\ cleaner = AtRest /\ biller = AtRest
    /\ stop = [at |-> AtRest,
               receipt |-> [r \in Rows |-> [state |-> "none", attempts |-> 0]]]

SetState(r, s) == effect' = [effect EXCEPT ![r].state = s]
GoTo(k, pc) == caller' = [caller EXCEPT ![k].pc = pc]
LeaveRequest(k) == caller' = [caller EXCEPT ![k] = AtRest]

------------------------------------------------------------------------------
(* Reservation. *)

PendingDelivery == {r \in Rows : /\ effect[r].delivery = "held"
                         /\ effect[r].state \notin {"none", "released"}}
NoDelivery_VoidedOnly ==
    {r \in Rows : effect[r].dispatched /\ effect[r].delivery = "voided"}
NoDelivery ==
    {r \in Rows : /\ effect[r].dispatched
                  /\ \/ effect[r].delivery = "voided"
                     \/ effect[r].state = "released" /\ effect[r].delivery # "activated"}

Blocked(r) == \/ effect[r].state \in Barrier
              \/ effect[r].state = "none" /\ \E q \in Rows : effect[q].state \in Barrier

Undelivered == Cardinality(PendingDelivery) + Cardinality(NoDelivery)
UndeliveredCapReached == Undelivered >= Cap

\* portal_begin_provider_effect_service, and what the request makes of the answer.
BeginEffect(k, r) ==
    \/ /\ Blocked(r)
       /\ LeaveRequest(k) /\ UNCHANGED effect
    \/ /\ ~Blocked(r) /\ effect[r].state = "none" /\ UndeliveredCapReached
       /\ LeaveRequest(k) /\ UNCHANGED effect
    \/ /\ ~Blocked(r) /\ effect[r].state = "none" /\ ~UndeliveredCapReached
       /\ SetState(r, "reserved")
       /\ caller' = [caller EXCEPT ![k] = [pc |-> "claim", row |-> r, seen |-> "held", sound |-> TRUE]]
    \/ /\ ~Blocked(r) /\ effect[r].state # "none"
       /\ caller' = [caller EXCEPT ![k] =
            [pc |-> CASE effect[r].state = "committed" -> "bind"
                      [] effect[r].state = "released" /\ r[2] = "base" -> "retry"
                      [] OTHER -> "claim",
             row |-> r, seen |-> effect[r].delivery, sound |-> TRUE]]
       /\ UNCHANGED effect

StartVideoConversation(k, c) ==
    /\ caller[k].pc = "idle" /\ calls < MaxCalls
    /\ BeginEffect(k, Base(c)) /\ calls' = calls + 1
    /\ UNCHANGED <<cleanup, joined, transcript, usage, room, charged, activated, vouched, jobVars>>

RetryReleased(k) ==
    /\ caller[k].pc = "retry"
    /\ BeginEffect(k, <<caller[k].row[1], "retry">>)
    /\ UNCHANGED <<cleanup, joined, transcript, usage, room, charged, activated, vouched, calls, jobVars>>

ClaimDispatch_ReleasesAnyState(k) ==
    /\ caller[k].pc = "claim"
    /\ \/ GoTo(k, "dispatch") /\ UNCHANGED effect
       \/ LeaveRequest(k) /\ SetState(caller[k].row, "released")
    /\ UNCHANGED <<cleanup, joined, transcript, usage, room, charged, activated, vouched, calls, jobVars>>

\* The session's grant is checked; without it an undispatched row is released.
ClaimDispatch(k) ==
    /\ caller[k].pc = "claim"
    /\ \/ GoTo(k, "dispatch") /\ UNCHANGED effect
       \/ /\ LeaveRequest(k)
          /\ IF effect[caller[k].row].state = "reserved"
             THEN SetState(caller[k].row, "released") ELSE UNCHANGED effect
    /\ UNCHANGED <<cleanup, joined, transcript, usage, room, charged, activated, vouched, calls, jobVars>>

\* Binding the webhook capability is the dispatch fence.
BindWebhookCapability(k) ==
    /\ caller[k].pc = "dispatch"
    /\ LET r == caller[k].row IN
       IF effect[r].state = "reserved"
       THEN /\ effect' = [effect EXCEPT ![r].state = "provider_in_flight", ![r].dispatched = TRUE]
            /\ GoTo(k, "create")
       ELSE LeaveRequest(k) /\ UNCHANGED effect
    /\ UNCHANGED <<cleanup, joined, transcript, usage, room, charged, activated, vouched, calls, jobVars>>

------------------------------------------------------------------------------
(* The provider call, its commit, and the compensation of an uncommitted room. *)

\* The provider opens the room and answers, opens it and the answer is lost, or refuses.
CreateConversation(k) ==
    /\ caller[k].pc = "create"
    /\ \/ /\ room' = [room EXCEPT ![caller[k].row] = "running"]
          /\ \E pc \in {"commit", "give_up"} : GoTo(k, pc)
       \/ GoTo(k, "give_up") /\ UNCHANGED room
    /\ UNCHANGED <<effect, cleanup, joined, transcript, usage, charged, activated, vouched, calls, jobVars>>

CommitEffect(k) ==
    /\ caller[k].pc = "commit"
    /\ \/ /\ effect[caller[k].row].state = "provider_in_flight"
          /\ effect' = [effect EXCEPT ![caller[k].row].state = "committed", ![caller[k].row].ref = TRUE]
          /\ \E pc \in {"bind", "uncommitted_fence"} : GoTo(k, pc)
       \/ GoTo(k, "uncommitted_fence") /\ UNCHANGED effect
    /\ UNCHANGED <<cleanup, joined, transcript, usage, room, charged, activated, vouched, calls, jobVars>>

\* portal_mark_provider_effect_cleanup_pending_service
FenceHolds(r) == effect[r].state \in Barrier \cup {"committed"}
Fence(r) == IF FenceHolds(r)
            THEN effect' = [effect EXCEPT ![r].state = "cleanup_pending", ![r].ref = TRUE]
            ELSE UNCHANGED effect

\* portal_reconcile_provider_effect_service, on evidence compensation_confirmed
Reconcile(r) == IF effect[r].state \in Barrier
                THEN /\ SetState(r, "released")
                     /\ cleanup' = [cleanup EXCEPT ![r].leased = FALSE]
                ELSE UNCHANGED <<effect, cleanup>>

EndRoom(r) == room' = [room EXCEPT ![r] = IF @ = "running" THEN "ended" ELSE @]

\* Each call of commitProviderEffectOrCompensate may fail on its own.
CompensateUncommitted(k) ==
    LET r == caller[k].row IN
    /\ \/ /\ caller[k].pc = "uncommitted_fence"
          /\ (Fence(r) \/ UNCHANGED effect)
          /\ GoTo(k, "uncommitted_end") /\ UNCHANGED <<cleanup, room>>
       \/ /\ caller[k].pc = "uncommitted_end"
          /\ \/ EndRoom(r) /\ GoTo(k, "uncommitted_reconcile")
             \/ GoTo(k, "give_up") /\ UNCHANGED room
          /\ UNCHANGED <<effect, cleanup>>
       \/ /\ caller[k].pc = "uncommitted_reconcile"
          /\ (Reconcile(r) \/ UNCHANGED <<effect, cleanup>>)
          /\ GoTo(k, "give_up") /\ UNCHANGED room
    /\ UNCHANGED <<joined, transcript, usage, charged, activated, vouched, calls, jobVars>>

\* fenceProviderFailure: only a row still in flight becomes unknown.
FenceProviderFailure(k) ==
    /\ caller[k].pc = "give_up"
    /\ LeaveRequest(k)
    /\ IF effect[caller[k].row].state = "provider_in_flight"
       THEN SetState(caller[k].row, "unknown") ELSE UNCHANGED effect
    /\ UNCHANGED <<cleanup, joined, transcript, usage, room, charged, activated, vouched, calls, jobVars>>

------------------------------------------------------------------------------
(* Delivery to the browser, and the compensation of a committed room. *)

BindChannel(k) ==
    /\ caller[k].pc = "bind"
    /\ \/ IF caller[k].seen = "activated" THEN LeaveRequest(k) ELSE GoTo(k, "transcript")
       \/ GoTo(k, "fence")
    /\ UNCHANGED <<effect, cleanup, joined, transcript, usage, room, charged, activated, vouched, calls, jobVars>>

RegisterTranscript(k) ==
    /\ caller[k].pc = "transcript"
    /\ \/ transcript' = [transcript EXCEPT ![caller[k].row] = TRUE] /\ LeaveRequest(k)
       \/ GoTo(k, "fence") /\ UNCHANGED transcript
    /\ UNCHANGED <<effect, cleanup, joined, usage, room, charged, activated, vouched, calls, jobVars>>

\* portal_void_unleased_billing_usage_service
VoidHolds(r) ==
    \/ effect[r].delivery = "voided"
    \/ /\ effect[r].state \in {"committed", "completed", "cleanup_pending"}
       /\ usage[r].status \in {"none", "pending", "failed"}
Void(r) ==
    IF VoidHolds(r)
    THEN /\ effect' = [effect EXCEPT ![r].delivery = "voided"]
         /\ usage' = [usage EXCEPT ![r].status = IF @ = "none" THEN @ ELSE "voided"]
    ELSE UNCHANGED <<effect, usage>>

\* compensateCommittedProviderEffect: three independent attempts, and the
\* reservation is released only when all of them were confirmed.
Then(k, pc, holds) ==
    caller' = [caller EXCEPT ![k].pc = pc, ![k].sound = @ /\ holds]

CompensateUndelivered(k) ==
    LET r == caller[k].row IN
    /\ \/ /\ caller[k].pc = "fence"
          /\ \/ Fence(r) /\ Then(k, "void", FenceHolds(r))
             \/ UNCHANGED effect /\ Then(k, "void", FALSE)
          /\ UNCHANGED <<cleanup, usage, room>>
       \/ /\ caller[k].pc = "void"
          /\ \/ Void(r) /\ Then(k, "end", VoidHolds(r))
             \/ UNCHANGED <<effect, usage>> /\ Then(k, "end", FALSE)
          /\ UNCHANGED <<cleanup, room>>
       \/ /\ caller[k].pc = "end"
          /\ \/ EndRoom(r) /\ (IF caller[k].sound THEN GoTo(k, "reconcile") ELSE LeaveRequest(k))
             \/ UNCHANGED room /\ LeaveRequest(k)
          /\ UNCHANGED <<effect, cleanup, usage>>
       \/ /\ caller[k].pc = "reconcile"
          /\ Reconcile(r) /\ LeaveRequest(k) /\ UNCHANGED <<usage, room>>
    /\ UNCHANGED <<joined, transcript, charged, activated, vouched, calls, jobVars>>

\* The request's process dies, or the answer it waits for never comes.
CallerLost(k) ==
    /\ caller[k].pc # "idle" /\ LeaveRequest(k)
    /\ UNCHANGED <<effect, cleanup, joined, transcript, usage, room, charged, activated, vouched, calls, jobVars>>

------------------------------------------------------------------------------
(* The provider and its webhook. *)

\* The customer leaves, nobody joins, or the maximum duration passes.
RoomEnds(r) ==
    /\ room[r] = "running" /\ EndRoom(r)
    /\ UNCHANGED <<effect, cleanup, joined, transcript, usage, charged, activated, vouched, requestVars, jobVars>>

\* The capability is revoked by the fence, by a void and by a reconciliation.
WebhookIsTrusted(r) == /\ effect[r].state \in {"committed", "completed"}
                       /\ effect[r].delivery # "voided"

RecordDelivery(r) ==
    /\ room[r] = "ended" /\ transcript[r] /\ joined[r] = "none" /\ WebhookIsTrusted(r)
    /\ joined' = [joined EXCEPT ![r] = "delivered"]
    /\ UNCHANGED <<effect, cleanup, transcript, usage, room, charged, activated, vouched, requestVars, jobVars>>

RecordNoDelivery(r) ==
    /\ room[r] = "ended" /\ joined[r] = "none" /\ WebhookIsTrusted(r)
    /\ effect[r].delivery # "activated" /\ usage[r].status \in {"none", "pending", "failed"}
    /\ joined' = [joined EXCEPT ![r] = "never_joined"]
    /\ effect' = [effect EXCEPT ![r].delivery = "voided"]
    /\ usage' = [usage EXCEPT ![r].status = IF @ = "none" THEN @ ELSE "voided"]
    /\ UNCHANGED <<cleanup, transcript, room, charged, activated, vouched, requestVars, jobVars>>

ActivateBilling_AtPlaceholder(r) ==
    /\ transcript[r] /\ effect[r].delivery = "held"
    /\ effect[r].state \in {"committed", "completed"}
    /\ effect' = [effect EXCEPT ![r].delivery = "activated"]
    /\ activated' = [activated EXCEPT ![r] = TRUE]
    /\ \E status \in {"none", "pending"} : usage' = [usage EXCEPT ![r].status = status]
    /\ UNCHANGED <<cleanup, joined, transcript, room, charged, vouched, requestVars, jobVars>>

\* portal_activate_provider_effect_billing_service; the ordinal decides
\* whether the delivery is an overage to be charged.
ActivateBilling(r) ==
    /\ joined[r] = "delivered" /\ effect[r].delivery = "held"
    /\ effect[r].state \in {"committed", "completed"}
    /\ effect' = [effect EXCEPT ![r].delivery = "activated"]
    /\ activated' = [activated EXCEPT ![r] = TRUE]
    /\ \E status \in {"none", "pending"} : usage' = [usage EXCEPT ![r].status = status]
    /\ UNCHANGED <<cleanup, joined, transcript, room, charged, vouched, requestVars, jobVars>>

------------------------------------------------------------------------------
(* reconcilePendingProviderEffects, one leased row at a time. *)

\* Bound: an attempt beyond the last one is counted once; no guard tells more apart.
Attempted(attempts) == IF attempts <= MaxAttempts THEN attempts + 1 ELSE attempts

LeaseCleanup_KnownRoomsOnly(r) ==
    /\ cleaner.pc = "idle"
    /\ effect[r].state = "cleanup_pending" /\ ~cleanup[r].dead /\ ~cleanup[r].leased
    /\ cleanup' = [cleanup EXCEPT ![r].leased = TRUE, ![r].attempts = Attempted(@)]
    /\ cleaner' = [pc |-> "clean", row |-> r, todo |-> {"void", "end"}, sound |-> TRUE]
    /\ UNCHANGED <<effect, joined, transcript, usage, room, charged, activated, vouched, requestVars, biller, stop>>

\* The lease first gives back reservations nobody dispatched for ten minutes.
\* It does not look at the attempts: the row of a job that died is leased again.
LeaseCleanup(r) ==
    /\ cleaner.pc = "idle"
    /\ effect[r].state \in Barrier /\ ~cleanup[r].dead /\ ~cleanup[r].leased
    /\ \E stale \in SUBSET {q \in Rows : effect[q].state = "reserved"} :
         effect' = [q \in Rows |-> IF q \in stale THEN [effect[q] EXCEPT !.state = "released"]
                                   ELSE effect[q]]
    /\ cleanup' = [cleanup EXCEPT ![r].leased = TRUE, ![r].attempts = Attempted(@)]
    /\ cleaner' = IF effect[r].state = "cleanup_pending" /\ effect[r].ref
                  THEN [pc |-> "clean", row |-> r, todo |-> {"void", "end"}, sound |-> TRUE]
                  ELSE [pc |-> "clean", row |-> r, todo |-> {}, sound |-> FALSE]
    /\ UNCHANGED <<joined, transcript, usage, room, charged, activated, vouched, requestVars, biller, stop>>

SweepStale(r) ==
    /\ cleaner.pc = "idle" /\ effect[r].state = "reserved"
    /\ \A q \in Rows : effect[q].state \in Barrier => cleanup[q].dead \/ cleanup[q].leased
    /\ SetState(r, "released")
    /\ UNCHANGED <<cleanup, joined, transcript, usage, room, charged, activated, vouched, requestVars, jobVars>>

\* The void and the termination run side by side, and neither waits for the other.
CleanerDone(what, holds) == cleaner' = [cleaner EXCEPT !.todo = @ \ {what}, !.sound = @ /\ holds]

CleanerVoids ==
    /\ cleaner.pc = "clean" /\ "void" \in cleaner.todo
    /\ \/ Void(cleaner.row) /\ CleanerDone("void", VoidHolds(cleaner.row))
       \/ UNCHANGED <<effect, usage>> /\ CleanerDone("void", FALSE)
    /\ UNCHANGED <<cleanup, joined, transcript, room, charged, activated, vouched, requestVars, biller, stop>>

CleanerEnds ==
    /\ cleaner.pc = "clean" /\ "end" \in cleaner.todo
    /\ \/ EndRoom(cleaner.row) /\ CleanerDone("end", TRUE)
       \/ UNCHANGED room /\ CleanerDone("end", FALSE)
    /\ UNCHANGED <<effect, cleanup, joined, transcript, usage, charged, activated, vouched, requestVars, biller, stop>>

\* Acknowledge or report the failure; both need the lease and the barrier.
CleanerSettles ==
    /\ cleaner.pc = "clean" /\ cleaner.todo = {}
    /\ LET r == cleaner.row IN
       IF effect[r].state \in Barrier /\ cleanup[r].leased
       THEN IF cleaner.sound
            THEN Reconcile(r)
            ELSE /\ cleanup' = [cleanup EXCEPT ![r].leased = FALSE,
                                  ![r].dead = cleanup[r].attempts >= MaxAttempts]
                 /\ UNCHANGED effect
       ELSE UNCHANGED <<effect, cleanup>>
    /\ cleaner' = AtRest
    /\ UNCHANGED <<joined, transcript, usage, room, charged, activated, vouched, requestVars, biller, stop>>

\* The job dies in any lease of a row, or what it reports is not written down.
CleanerLost ==
    /\ cleaner.pc = "clean" /\ cleaner' = AtRest
    /\ UNCHANGED <<effect, cleanup, joined, transcript, usage, room, charged, activated, vouched, requestVars, biller, stop>>

\* A lease of 60 s covers the 25 s a provider call may take: only the lease of
\* a job that died expires.
CleanupLeaseExpires(r) ==
    /\ cleanup[r].leased /\ cleaner.pc = "idle"
    /\ cleanup' = [cleanup EXCEPT ![r].leased = FALSE]
    /\ UNCHANGED <<effect, joined, transcript, usage, room, charged, activated, vouched, requestVars, jobVars>>

------------------------------------------------------------------------------
(* dispatchBillingUsageOutbox, one leased row at a time. *)

\* A row still delivering while the job is idle is one whose job died; it is
\* taken over when its lease has passed, or given up with its last attempt.
LeaseUsage(r) ==
    /\ biller.pc = "idle"
    /\ \/ /\ usage[r].status \in {"pending", "failed", "delivering"} /\ usage[r].attempts < MaxAttempts
          /\ usage' = [usage EXCEPT ![r] = [status |-> "delivering", attempts |-> @.attempts + 1]]
          /\ biller' = [pc |-> "send", row |-> r]
       \/ /\ usage[r].status = "delivering" /\ usage[r].attempts >= MaxAttempts
          /\ usage' = [usage EXCEPT ![r].status = "dead_letter"]
          /\ UNCHANGED biller
    /\ UNCHANGED <<effect, cleanup, joined, transcript, room, charged, activated, vouched, requestVars, cleaner, stop>>

\* Stripe accepts and answers, accepts and the answer is lost, or does not
\* accept; the job writes down the answer, or dies before it does. Nothing
\* else touches a row that is delivering.
ReportUsage ==
    /\ biller.pc = "send"
    /\ LET r == biller.row
           unacknowledged == {"delivering", "dead_letter"} \cup
                             IF usage[r].attempts >= MaxAttempts THEN {} ELSE {"failed"} IN
       \/ /\ charged' = [charged EXCEPT ![r] = TRUE]
          /\ \E status \in unacknowledged \cup {"delivered"} : usage' = [usage EXCEPT ![r].status = status]
       \/ /\ UNCHANGED charged
          /\ \E status \in unacknowledged : usage' = [usage EXCEPT ![r].status = status]
    /\ biller' = AtRest
    /\ UNCHANGED <<effect, cleanup, joined, transcript, room, activated, vouched, requestVars, cleaner, stop>>

------------------------------------------------------------------------------
(* terminateProviderEffectForOperator: the stop is looked up under the
   intention's first key. *)

StopRow(c) == Base(c)
Stoppable(c) == /\ effect[StopRow(c)].ref /\ effect[StopRow(c)].state = "committed"
                /\ stop.receipt[StopRow(c)].state \in {"none", "dispatching", "retryable"}

\* A receipt still dispatching is retried when its lease has passed.
BeginStop(c) ==
    LET r == StopRow(c) IN
    /\ stop.at.pc = "idle" /\ effect[r].ref
    /\ stop.receipt[r].state \in {"none", "dispatching", "retryable"}
    /\ IF stop.receipt[r].attempts >= MaxAttempts
       THEN stop' = [stop EXCEPT !.receipt[r].state = "operator_required"]
       ELSE /\ Stoppable(c)
            /\ stop' = [at |-> [pc |-> "end", row |-> r],
                        receipt |-> [stop.receipt EXCEPT ![r] =
                          [state |-> "dispatching", attempts |-> @.attempts + 1]]]
    /\ UNCHANGED <<effect, cleanup, joined, transcript, usage, room, charged, activated, vouched, requestVars, cleaner, biller>>

StopEndsRoom ==
    /\ stop.at.pc = "end"
    /\ \/ EndRoom(stop.at.row) /\ stop' = [stop EXCEPT !.at.pc = "accepted"]
       \/ UNCHANGED room /\ stop' = [stop EXCEPT !.at.pc = "failed"]
    /\ UNCHANGED <<effect, cleanup, joined, transcript, usage, charged, activated, vouched, requestVars, cleaner, biller>>

\* An acceptance also completes the reservation; on any other row it is stale.
SettleStop ==
    LET r == stop.at.row IN
    /\ \/ /\ stop.at.pc = "accepted"
          /\ IF effect[r].state \in {"committed", "completed"}
             THEN SetState(r, "completed") /\ stop' = [stop EXCEPT !.at = AtRest, !.receipt[r].state = "accepted"]
             ELSE stop' = [stop EXCEPT !.at = AtRest] /\ UNCHANGED effect
       \/ /\ stop.at.pc = "failed"
          /\ stop' = [stop EXCEPT !.at = AtRest, !.receipt[r].state =
                        IF stop.receipt[r].attempts >= MaxAttempts THEN "operator_required" ELSE "retryable"]
          /\ UNCHANGED effect
    /\ UNCHANGED <<cleanup, joined, transcript, usage, room, charged, activated, vouched, requestVars, cleaner, biller>>

StopLost ==
    /\ stop.at.pc # "idle" /\ stop' = [stop EXCEPT !.at = AtRest]
    /\ UNCHANGED <<effect, cleanup, joined, transcript, usage, room, charged, activated, vouched, requestVars, cleaner, biller>>

------------------------------------------------------------------------------
(* manuallyReconcileProviderEffect: an operator reconciles a reservation on a
   receipt of his own. What he believes of the room, the database cannot check. *)

ManuallyReconcile(r) ==
    /\ effect[r].state \in Barrier
    /\ Reconcile(r) /\ vouched' = [vouched EXCEPT ![r] = TRUE]
    /\ UNCHANGED <<joined, transcript, usage, room, charged, activated, requestVars, jobVars>>

------------------------------------------------------------------------------
CallerNext(k) ==
    \/ \E c \in Intentions : StartVideoConversation(k, c)
    \/ RetryReleased(k) \/ ClaimDispatch(k) \/ BindWebhookCapability(k)
    \/ CreateConversation(k) \/ CommitEffect(k) \/ CompensateUncommitted(k)
    \/ FenceProviderFailure(k) \/ BindChannel(k) \/ RegisterTranscript(k)
    \/ CompensateUndelivered(k) \/ CallerLost(k)

PaidNext ==
    \/ \E k \in Callers : CallerNext(k)
    \/ \E r \in Rows : \/ RoomEnds(r) \/ RecordDelivery(r) \/ RecordNoDelivery(r) \/ ActivateBilling(r)
                       \/ LeaseCleanup(r) \/ SweepStale(r) \/ CleanupLeaseExpires(r) \/ LeaseUsage(r)
                       \/ ManuallyReconcile(r)
    \/ CleanerVoids \/ CleanerEnds \/ CleanerSettles \/ CleanerLost
    \/ ReportUsage
    \/ \E c \in Intentions : BeginStop(c)
    \/ StopEndsRoom \/ SettleStop \/ StopLost

CleanerNext ==
    \/ \E r \in Rows : LeaseCleanup(r) \/ CleanupLeaseExpires(r)
    \/ CleanerVoids \/ CleanerEnds \/ CleanerSettles

\* A scheduler calls the cleanup job again and again, and a job that was
\* called goes on until it is done or dies.
PaidFairness == WF_paidVars(CleanerNext)

PaidSpec == PaidInit /\ [][PaidNext]_paidVars /\ PaidFairness

------------------------------------------------------------------------------
(* What the component promises. *)

\* A room runs only under a reservation that still counts it, or one that an
\* operator's own evidence released: no request, job or answer that is lost or
\* late makes the database forget a room. And an intention never has two rows
\* that may hold a room (retryReleasedProviderEffect).
RoomsFollowReservations ==
    /\ \A r \in Rows : room[r] = "running" =>
         /\ effect[r].dispatched
         /\ effect[r].state \notin {"none", "reserved", "released"} \/ vouched[r]
    /\ \A c \in Intentions :
         Cardinality({r \in Rows : r[1] = c /\ effect[r].state \notin {"none", "released"}}) <= 1

\* Rooms that may have cost money and were never delivered stay within the
\* budget of the period, whichever way they end (portal_begin_provider_effect_service).
NeverDelivered == {r \in Rows : ~activated[r] /\
                     (effect[r].dispatched \/ effect[r].state \notin {"none", "released"})}
ExposureIsBounded == Cardinality(NeverDelivered) <= Cap

\* Stripe hears only of rooms that are over and in which a customer was heard.
BillingFollowsDelivery ==
    \A r \in Rows : charged[r] => joined[r] = "delivered" /\ activated[r] /\ room[r] = "ended"

\* A reservation behind the barrier is resolved, or handed to an operator by
\* the dead letter, whichever requests die and whichever calls fail, unless the
\* job itself is lost again and again for ever: a lost job reports no failure,
\* and only a reported one gives a row up (reconcilePendingProviderEffects).
NoBarrierIsForgotten ==
    <>[][~CleanerLost]_paidVars =>
      \A r \in Rows : effect[r].state \in Barrier ~> effect[r].state \notin Barrier \/ cleanup[r].dead

\* The cleanup tries a reservation MaxAttempts times and no more: "Eight
\* unsuccessful attempts move the work item to the reconciliation dead letter"
\* (docs/operations/PROVIDER_EFFECT_RECONCILIATION.md:46-48).
AttemptsAreLimited == \A r \in Rows : cleanup[r].attempts <= MaxAttempts

=============================================================================
