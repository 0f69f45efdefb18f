-------------------------- MODULE TransactionalOutbox --------------------------
(***************************************************************************)
(* The transactional outbox of one tenant (packages/events/src/outbox.ts): *)
(* interaction aggregates, the outbox records their events leave, and the  *)
(* claim protocol that delivers them.  Every operation of the repository   *)
(* runs inside one synchronous transaction, so it is one step here; a call *)
(* that throws rolls back and is no step.                                  *)
(*                                                                         *)
(* Time is kept as countdowns: `wait' is what is left before available_at, *)
(* `lease' what is left of the active claim.  Tick is the trusted clock    *)
(* advancing one unit; a countdown at 0 has been reached.                  *)
(***************************************************************************)
EXTENDS Sequences, FiniteSets, EventEnvelope

CONSTANTS
  Inputs,        \* canonical events a caller may commit
  Tokens,        \* claim tokens a relay may draw
  NoToken,       \* no active claim
  Budgets,       \* max_attempts a relay may be configured with
  Lease,         \* lease duration of a claim
  RetryDelay,    \* delay before a retryable failure is available again
  MaxRecords,    \* maxRecordsPerTenant
  MaxBatch       \* MAX_BATCH_EVENTS

ASSUME OutboxAssumption ==
  /\ Inputs \subseteq Event
  /\ NoToken \notin Tokens
  /\ Budgets \subseteq Nat \ {0}
  /\ Lease \in Nat \ {0}
  /\ RetryDelay \in Nat
  /\ MaxRecords \in Nat
  /\ MaxBatch \in Nat \ {0}

VARIABLES
  aggregate,     \* state of each session
  outbox,        \* record of each event
  delivery,      \* delivery state of each event
  usedTokens     \* claim tokens consumed so far

outboxVars == <<aggregate, outbox, delivery, usedTokens>>

NoSession == 0
NoEvent   == [type |-> "none"]

RecordStatuses ==
  {"absent", "pending", "publishing", "published", "failed", "dead_letter"}

Record ==
  [status : RecordStatuses, session : Sessions \cup {NoSession},
   version : Nat, event : Inputs \cup {NoEvent}, attempts : Nat]

AbsentRecord ==
  [status |-> "absent", session |-> NoSession, version |-> 0,
   event |-> NoEvent, attempts |-> 0]

Receipts == {"none", "retry_scheduled", "published", "dead_letter"}

Delivery ==
  [budget  : Budgets \cup {0},          \* pinned max_attempts, 0 before a claim
   wait    : 0..RetryDelay,
   token   : Tokens \cup {NoToken},
   lease   : 0..Lease,
   receipt : Receipts]                  \* status of the latest receipt

EmptyDelivery ==
  [budget |-> 0, wait |-> 0, token |-> NoToken, lease |-> 0,
   receipt |-> "none"]

Committed    == {e \in EventIds : outbox[e].status # "absent"}
OfSession(s) == {e \in Committed : outbox[e].session = s}

OutboxInit ==
  /\ aggregate  = [s \in Sessions |-> AbsentAggregate]
  /\ outbox     = [e \in EventIds |-> AbsentRecord]
  /\ delivery   = [e \in EventIds |-> EmptyDelivery]
  /\ usedTokens = {}

-------------------------------------------------------------------------------
(* commitInteractionEvents: reduce a batch of one session's events and     *)
(* leave one pending record each, or nothing at all.                       *)

(* The states a batch goes through, from the aggregate it starts at. *)
Replay(st, events) ==
  LET path[i \in 0..Len(events)] ==
        IF i = 0 THEN st ELSE Reduce(path[i - 1], events[i], st.version + i)
  IN  path

(* Every event is accepted where the one before it left the aggregate. *)
ReplaysFrom(path, st, events) ==
  /\ path[0] = st
  /\ \A i \in 1..Len(events) :
       /\ Accepts(path[i - 1], events[i], st.version + i)
       /\ path[i] = Reduce(path[i - 1], events[i], st.version + i)

Injective(ids) == \A i, j \in DOMAIN ids : ids[i] = ids[j] => i = j

(* Mutation: the first record of a batch repeats the aggregate's version. *)
NewRecord_OffByOne(s, first, i, event) ==
  [status |-> "pending", session |-> s, version |-> first + i - 1,
   event |-> event, attempts |-> 0]

NewRecord(s, first, i, event) ==
  [status |-> "pending", session |-> s, version |-> first + i,
   event |-> event, attempts |-> 0]

CommitInteractionEvents(s, ids, events) ==
  LET n    == Len(events)
      path == Replay(aggregate[s], events)
      new  == {ids[i] : i \in 1..n}
      Position(e) == CHOOSE i \in 1..n : ids[i] = e
  IN  /\ Injective(ids)
      /\ new \cap Committed = {}
      /\ Cardinality(Committed) + n <= MaxRecords
      /\ ReplaysFrom(path, aggregate[s], events)
      /\ aggregate' = [aggregate EXCEPT ![s] = path[n]]
      /\ outbox' = [e \in EventIds |->
           IF e \in new
             THEN NewRecord(s, aggregate[s].version, Position(e),
                            events[Position(e)])
             ELSE outbox[e]]
      /\ delivery' = [e \in EventIds |->
           IF e \in new THEN EmptyDelivery ELSE delivery[e]]
      /\ UNCHANGED usedTokens

Commit ==
  \E s \in Sessions, n \in 1..MaxBatch :
    \E ids \in [1..n -> EventIds], events \in [1..n -> Inputs] :
      CommitInteractionEvents(s, ids, events)

-------------------------------------------------------------------------------
(* claimNextDelivery *)

(* Mutation: an expired claim is never taken over. *)
IsDeliveryCandidate_NoTakeover(e) ==
  outbox[e].status \in {"pending", "failed"} /\ delivery[e].wait = 0

IsDeliveryCandidate(e) ==
  \/ outbox[e].status \in {"pending", "failed"} /\ delivery[e].wait = 0
  \/ outbox[e].status = "publishing" /\ delivery[e].lease = 0

(* Mutation: a dead letter no longer blocks its successors. *)
HasUnpublishedPredecessor_DeadLetterSkipped(e) ==
  \E f \in Committed :
    /\ outbox[f].session = outbox[e].session
    /\ outbox[f].version < outbox[e].version
    /\ outbox[f].status \notin {"published", "dead_letter"}

HasUnpublishedPredecessor(e) ==
  \E f \in Committed :
    /\ outbox[f].session = outbox[e].session
    /\ outbox[f].version < outbox[e].version
    /\ outbox[f].status # "published"

Claimable(e) == IsDeliveryCandidate(e) /\ ~HasUnpublishedPredecessor(e)

(* The record the sorted scan stops at: lowest session, lowest version. *)
NextDelivery(e) ==
  /\ Claimable(e)
  /\ \A f \in EventIds :
       Claimable(f) =>
         \/ outbox[e].session < outbox[f].session
         \/ /\ outbox[e].session = outbox[f].session
            /\ outbox[e].version <= outbox[f].version

(* Mutation: every relay's own budget is added to the pinned one. *)
Budget_Accumulated(e, offered) == delivery[e].budget + offered

(* The first claim pins the budget; a later relay's own does not count.    *)
Budget(e, offered) ==
  IF delivery[e].budget = 0 THEN offered ELSE delivery[e].budget

(* A claim with budget left fences the record with its token and a lease.  *)
(* An expired claim it takes over leaves its lease_expired receipt.        *)
ClaimDelivery(e, t, offered) ==
  /\ t \notin usedTokens
  /\ NextDelivery(e)
  /\ outbox[e].attempts < Budget(e, offered)
  /\ outbox' = [outbox EXCEPT ![e].status = "publishing",
                              ![e].attempts = @ + 1]
  /\ delivery' = [delivery EXCEPT
       ![e] = [budget  |-> Budget(e, offered),
               wait    |-> 0,
               token   |-> t,
               lease   |-> Lease,
               receipt |-> IF outbox[e].status = "publishing"
                             THEN "retry_scheduled" ELSE @.receipt]]
  /\ usedTokens' = usedTokens \cup {t}
  /\ UNCHANGED aggregate

(* A claim with no budget left dead-letters the record; the token that was *)
(* presented must be unused and stays so.                                  *)
ExhaustDelivery(e, offered) ==
  /\ Tokens \ usedTokens # {}
  /\ NextDelivery(e)
  /\ outbox[e].attempts >= Budget(e, offered)
  /\ outbox' = [outbox EXCEPT ![e].status = "dead_letter"]
  /\ delivery' = [delivery EXCEPT
       ![e] = [budget |-> Budget(e, offered), wait |-> 0, token |-> NoToken,
               lease |-> 0, receipt |-> "dead_letter"]]
  /\ UNCHANGED <<aggregate, usedTokens>>

-------------------------------------------------------------------------------
(* acknowledgeDelivery and failDelivery: only the active claim, before its *)
(* lease deadline.                                                         *)

HoldsClaim(e, t) ==
  /\ outbox[e].status = "publishing"
  /\ delivery[e].token = t
  /\ delivery[e].lease > 0

(* Mutation: the claim is left as it was. *)
Released_ClaimKept(d, wait, receipt) ==
  [d EXCEPT !.wait = wait, !.receipt = receipt]

Released(d, wait, receipt) ==
  [d EXCEPT !.wait = wait, !.token = NoToken, !.lease = 0, !.receipt = receipt]

AcknowledgeDelivery(e, t) ==
  /\ HoldsClaim(e, t)
  /\ outbox' = [outbox EXCEPT ![e].status = "published"]
  /\ delivery' = [delivery EXCEPT
       ![e] = Released(@, @.wait, "published")]
  /\ UNCHANGED <<aggregate, usedTokens>>

MayRetry(e, retryable) == retryable /\ outbox[e].attempts < delivery[e].budget

FailDelivery(e, t, retryable) ==
  /\ HoldsClaim(e, t)
  /\ IF MayRetry(e, retryable)
       THEN /\ outbox' = [outbox EXCEPT ![e].status = "failed"]
            /\ delivery' = [delivery EXCEPT
                 ![e] = Released(@, RetryDelay, "retry_scheduled")]
       ELSE /\ outbox' = [outbox EXCEPT ![e].status = "dead_letter"]
            /\ delivery' = [delivery EXCEPT
                 ![e] = Released(@, 0, "dead_letter")]
  /\ UNCHANGED <<aggregate, usedTokens>>

Countdown(n) == IF n > 0 THEN n - 1 ELSE 0

(* The trusted clock advances while some deadline is still ahead. *)
Tick ==
  /\ \E e \in EventIds : delivery[e].wait > 0 \/ delivery[e].lease > 0
  /\ delivery' = [e \in EventIds |->
       [delivery[e] EXCEPT !.wait = Countdown(@), !.lease = Countdown(@)]]
  /\ UNCHANGED <<aggregate, outbox, usedTokens>>

-------------------------------------------------------------------------------
(* The repository on its own, under callers that may present any token for *)
(* any event at any time: stale relays, duplicated calls, changed budgets. *)

OutboxNext ==
  \/ Commit
  \/ \E e \in EventIds, offered \in Budgets :
       \/ \E t \in Tokens : ClaimDelivery(e, t, offered)
       \/ ExhaustDelivery(e, offered)
  \/ \E e \in EventIds, t \in Tokens :
       \/ AcknowledgeDelivery(e, t)
       \/ \E retryable \in BOOLEAN : FailDelivery(e, t, retryable)
  \/ Tick

OutboxSpec == OutboxInit /\ [][OutboxNext]_outboxVars

-------------------------------------------------------------------------------
(* Every reachable repository state is well typed. *)
OutboxTypeOK ==
  /\ aggregate \in [Sessions -> AggregateState]
  /\ outbox \in [EventIds -> Record]
  /\ delivery \in [EventIds -> Delivery]
  /\ usedTokens \subseteq Tokens

(* The aggregate and its records commit together: whatever batches were     *)
(* committed, the records of a session carry exactly the versions 1 to the  *)
(* aggregate's own, each once.  No version is skipped, repeated or ahead.   *)
RecordsMatchAggregate ==
  \A s \in Sessions :
    /\ \A e \in OfSession(s) : outbox[e].version \in 1..aggregate[s].version
    /\ \A v \in 1..aggregate[s].version :
         \E e \in OfSession(s) : outbox[e].version = v
    /\ \A e, f \in OfSession(s) : outbox[e].version = outbox[f].version => e = f

(* Delivery is in order per session: a record leaves `pending' only once    *)
(* every earlier version of its session is published.  In particular        *)
(* nothing behind a dead letter is ever claimed (no silent gap), whatever   *)
(* the interleaving of claims, expiries, retries and new commits.           *)
InOrderDelivery ==
  \A e, f \in Committed :
    /\ outbox[e].session = outbox[f].session
    /\ outbox[f].version < outbox[e].version
    /\ outbox[e].status # "pending"
    => outbox[f].status = "published"

(* Fencing: an active claim holds a token that was consumed, no two claims  *)
(* hold the same one, and a record that is not being published keeps        *)
(* neither token nor lease.  So a relay whose claim was taken over, failed  *)
(* or settled holds nothing.                                                *)
ClaimsAreFenced ==
  /\ \A e \in EventIds :
       IF outbox[e].status = "publishing"
         THEN delivery[e].token \in usedTokens
         ELSE delivery[e].token = NoToken /\ delivery[e].lease = 0
  /\ \A e, f \in EventIds :
       /\ outbox[e].status = "publishing"
       /\ delivery[e].token = delivery[f].token
       => e = f

(* The attempts of a record stay within the budget its first claim pinned,  *)
(* whichever relays, with whatever budgets, claim it afterwards; a record   *)
(* is unpinned exactly until that first claim.                              *)
AttemptsWithinBudget ==
  \A e \in EventIds :
    /\ outbox[e].attempts <= delivery[e].budget
    /\ (delivery[e].budget = 0) <=> (outbox[e].status \in {"absent", "pending"})

(* What an operator reads from the latest receipt is the record's own fate: *)
(* published and dead-lettered records have that receipt and no other does, *)
(* and only a record whose retry is scheduled is still held back by a delay.*)
ReceiptTellsStatus ==
  \A e \in EventIds :
    /\ \A final \in {"published", "dead_letter"} :
         (outbox[e].status = final) <=> (delivery[e].receipt = final)
    /\ outbox[e].status = "failed" => delivery[e].receipt = "retry_scheduled"
    /\ delivery[e].wait > 0 => outbox[e].status = "failed"

SettledRecordsStay ==
  \A e \in EventIds :
    /\ outbox[e].status \in {"published", "dead_letter"}
       => outbox'[e] = outbox[e] /\ delivery'[e] = delivery[e]
    /\ delivery[e].budget # 0 => delivery'[e].budget = delivery[e].budget

(* A settled record stays settled: neither a late acknowledgement, a late   *)
(* failure nor a new claim touches it, and a pinned budget never moves.     *)
SettlementIsFinal == [][SettledRecordsStay]_outboxVars
===============================================================================
