------------------------------- MODULE EventRelay -------------------------------
(***************************************************************************)
(* Relays deliver the outbox to the session timeline                       *)
(* (apps/event-relay/src/index.ts).  One runOnce claims one record, hands  *)
(* its envelope to the consumer and reports the outcome; between the three *)
(* awaits other relays, commits and the clock interleave, and a relay may  *)
(* crash.  The consumer appends to the timeline and, for a completed       *)
(* session, enqueues its post-call workflow run.                           *)
(***************************************************************************)
EXTENDS TransactionalOutbox, SessionTimeline

CONSTANTS
  Relays,          \* relay instances sharing the repositories
  MaxAttempts,     \* max_attempts each relay is configured with
  Dispatchers,     \* relays with a workflow sink and the workflow:dispatch scope
  NoId             \* no event

ASSUME RelayAssumption ==
  /\ MaxAttempts \in [Relays -> Budgets]
  /\ Dispatchers \subseteq Relays
  /\ NoId \notin EventIds

VARIABLES
  runs,      \* source event of the post-call run enqueued for each session
  relay      \* what each relay is in the middle of

relayVars == <<aggregate, outbox, delivery, usedTokens, timeline, projected,
               runs, relay>>

Outcomes == {"none", "succeeded", "retryable", "terminal"}

RelayState ==
  [pc : {"idle", "claimed", "consumed"}, event : EventIds \cup {NoId},
   token : Tokens \cup {NoToken}, outcome : Outcomes]

IdleRelay ==
  [pc |-> "idle", event |-> NoId, token |-> NoToken, outcome |-> "none"]

RelayInit ==
  /\ OutboxInit
  /\ TimelineInit
  /\ runs  = [s \in Sessions |-> NoId]
  /\ relay = [r \in Relays |-> IdleRelay]

CommitEvents == Commit /\ UNCHANGED <<timelineVars, runs, relay>>

(* runOnce up to its first await: claim, or dead-letter an exhausted record *)
Claim(r) ==
  /\ relay[r].pc = "idle"
  /\ \E e \in EventIds :
       \/ \E t \in Tokens :
            /\ ClaimDelivery(e, t, MaxAttempts[r])
            /\ relay' = [relay EXCEPT
                 ![r] = [pc |-> "claimed", event |-> e, token |-> t,
                         outcome |-> "none"]]
       \/ /\ ExhaustDelivery(e, MaxAttempts[r])
          /\ UNCHANGED relay
  /\ UNCHANGED <<timelineVars, runs>>

ClaimedEnvelope(e) ==
  [id |-> e, session |-> outbox[e].session, version |-> outbox[e].version,
   event |-> outbox[e].event]

(* The timeline alone ends exactly at this completion. *)
CompletionEvidence(s, e) ==
  /\ timeline'[s] # <<>>
  /\ timeline'[s][Len(timeline'[s])].id = e
  /\ projected'[s].status = "completed"
  /\ projected'[s].version = Len(timeline'[s])

(* Mutation: a failed enqueue is reported as a success. *)
EnqueueSessionCompletion_FailureIgnored(s, e, outcome) ==
  /\ outcome = "succeeded"
  /\ runs' \in {runs, [runs EXCEPT ![s] = e]}

(* enqueueSessionCompletion, right after the append: idempotent by event,   *)
(* one run per session, and it may fail retryably before it commits.        *)
EnqueueSessionCompletion(s, e, outcome) ==
  \/ /\ runs[s] = e
     /\ outcome = "succeeded"
     /\ UNCHANGED runs
  \/ /\ runs[s] = NoId
     /\ CompletionEvidence(s, e)
     /\ outcome = "succeeded"
     /\ runs' = [runs EXCEPT ![s] = e]
  \/ /\ runs[s] # e
     /\ runs[s] # NoId \/ ~CompletionEvidence(s, e)
     /\ outcome = "terminal"
     /\ UNCHANGED runs
  \/ /\ runs[s] = NoId
     /\ outcome = "retryable"
     /\ UNCHANGED runs

(* Mutation: a full timeline counts as applied. *)
ConsumeEnvelope_CapacityIgnored(r, env, outcome) ==
  /\ AppendCanonicalEvent(env)
  /\ outcome = "succeeded"
  /\ UNCHANGED runs

(* The consumer.  A completion no workflow sink would take is rejected      *)
(* before it touches the timeline.                                          *)
ConsumeEnvelope(r, env, outcome) ==
  IF env.event.type = "session.completed" /\ r \notin Dispatchers
    THEN outcome = "terminal" /\ UNCHANGED <<timelineVars, runs>>
    ELSE /\ AppendCanonicalEvent(env)
         /\ \/ /\ AppendOutcome(env) \in {"appended", "recorded"}
               /\ IF env.event.type = "session.completed"
                    THEN EnqueueSessionCompletion(env.session, env.id, outcome)
                    ELSE outcome = "succeeded" /\ UNCHANGED runs
            \/ /\ AppendOutcome(env) \in {"capacity", "fault"}
               /\ outcome = "retryable"
               /\ UNCHANGED runs
            \/ /\ AppendOutcome(env) = "conflict"
               /\ outcome = "terminal"
               /\ UNCHANGED runs

Consume(r) ==
  /\ relay[r].pc = "claimed"
  /\ \E outcome \in Outcomes \ {"none"} :
       /\ ConsumeEnvelope(r, ClaimedEnvelope(relay[r].event), outcome)
       /\ relay' = [relay EXCEPT ![r].pc = "consumed", ![r].outcome = outcome]
  /\ UNCHANGED outboxVars

(* acknowledgeDelivery or failDelivery under the claim's own token; a claim *)
(* that expired or was taken over makes runOnce throw and changes nothing.  *)
Report(r) ==
  LET e == relay[r].event
      t == relay[r].token
  IN  \/ /\ relay[r].outcome = "succeeded"
         /\ AcknowledgeDelivery(e, t)
      \/ /\ relay[r].outcome # "succeeded"
         /\ FailDelivery(e, t, relay[r].outcome = "retryable")
      \/ /\ ~HoldsClaim(e, t)
         /\ UNCHANGED outboxVars

Complete(r) ==
  /\ relay[r].pc = "consumed"
  /\ Report(r)
  /\ relay' = [relay EXCEPT ![r] = IdleRelay]
  /\ UNCHANGED <<timelineVars, runs>>

(* A crash after the claim or after the effect, or a report refused because *)
(* another transaction of the repository was still open: the claim is left  *)
(* behind for its lease to expire.                                          *)
Abandon(r) ==
  /\ relay[r].pc # "idle"
  /\ relay' = [relay EXCEPT ![r] = IdleRelay]
  /\ UNCHANGED <<outboxVars, timelineVars, runs>>

ClockTick == Tick /\ UNCHANGED <<timelineVars, runs, relay>>

RelayStep(r) == Consume(r) \/ Complete(r) \/ Abandon(r)

RelayNext ==
  \/ CommitEvents
  \/ \E r \in Relays : Claim(r) \/ Consume(r) \/ Complete(r) \/ Abandon(r)
  \/ ClockTick

RelaySpec == RelayInit /\ [][RelayNext]_relayVars

(* runOnce is polled for ever by some relay, one that started ends or       *)
(* crashes, and the clock advances.                                         *)
Fairness ==
  /\ WF_relayVars(\E r \in Relays : Claim(r))
  /\ \A r \in Relays : WF_relayVars(RelayStep(r))
  /\ WF_relayVars(ClockTick)

FairSpec == RelaySpec /\ Fairness

-------------------------------------------------------------------------------
(* Relays, timeline and runs are well typed, on top of the repository.      *)
RelayTypeOK ==
  /\ OutboxTypeOK
  /\ timeline \in [Sessions -> Seq(Envelope)]
  /\ projected \in [Sessions -> AggregateState]
  /\ runs \in [Sessions -> EventIds \cup {NoId}]
  /\ relay \in [Relays -> RelayState]

(* A published record took effect: its envelope is in the timeline at its   *)
(* own version, and a published completion has its post-call run.           *)
PublishedIsApplied ==
  \A e \in Committed :
    outbox[e].status = "published" =>
      LET s == outbox[e].session IN
      /\ outbox[e].version \in DOMAIN timeline[s]
      /\ timeline[s][outbox[e].version] = ClaimedEnvelope(e)
      /\ outbox[e].event.type = "session.completed" => runs[s] = e

(* A run exists only for a session whose timeline reached its completion.   *)
RunFollowsCompletion ==
  \A s \in Sessions :
    runs[s] # NoId =>
      /\ Terminal(projected[s])
      /\ \E i \in DOMAIN timeline[s] :
           /\ timeline[s][i].id = runs[s]
           /\ timeline[s][i].event.type = "session.completed"

(* The timeline's projection is always a state the reducer would start      *)
(* from, at the version of the last stored event and never ahead of the     *)
(* aggregate, even when the outbox aggregate itself is not such a state.    *)
ProjectionIsSound ==
  \A s \in Sessions :
    /\ projected[s].version = Len(timeline[s])
    /\ Len(timeline[s]) <= aggregate[s].version
    /\ timeline[s] # <<>> => Consistent(projected[s])
    /\ Len(timeline[s]) = aggregate[s].version => projected[s] = aggregate[s]

(* The repositories a relay writes agree, whatever crashed between two of   *)
(* its writes and was delivered again (createEventRelay, runOnce).          *)
RepositoriesAgree ==
  PublishedIsApplied /\ RunFollowsCompletion /\ ProjectionIsSound

-------------------------------------------------------------------------------
(* Delivery implements the abstract ordered, exactly-once application. *)

EventAt(s, v) ==
  CHOOSE e \in Committed : outbox[e].session = s /\ outbox[e].version = v

LogOf(s)       == [v \in 1..aggregate[s].version |-> EventAt(s, v)]
DeliveredTo(s) == [i \in DOMAIN timeline[s] |-> timeline[s][i].id]
PublishedOf(s) ==
  {e \in Committed : outbox[e].session = s /\ outbox[e].status = "published"}

Abstract == INSTANCE OrderedDelivery WITH
  log       <- [s \in Sessions |-> LogOf(s)],
  delivered <- [s \in Sessions |-> DeliveredTo(s)],
  settled   <- [s \in Sessions |-> Cardinality(PublishedOf(s))]

(* At-least-once claims with crashes, expired leases, stale relays and      *)
(* retries still apply every event exactly once, in order, and settle it    *)
(* only after it was applied.                                               *)
ImplementsOrderedDelivery == Abstract!Spec

(* Every committed event is published in the end, unless its lane stopped   *)
(* at a dead letter at or before it.                                        *)
EveryEventSettles ==
  \A e \in EventIds :
    outbox[e].status # "absent" ~>
      \/ outbox[e].status = "published"
      \/ \E f \in EventIds : /\ outbox[f].session = outbox[e].session
                             /\ outbox[f].version <= outbox[e].version
                             /\ outbox[f].status = "dead_letter"

(* A session whose consent was withdrawn while it was on stage (a state the *)
(* reducer returns but would not start from) ends with a dead letter: the   *)
(* withdrawal is committed, never delivered, and blocks its session.        *)
InconsistentSessionDeadLetters ==
  \A s \in Sessions :
    (aggregate[s].status # "absent" /\ ~Consistent(aggregate[s])) ~>
      \E e \in EventIds : outbox[e].session = s /\ outbox[e].status = "dead_letter"
===============================================================================
