------------------------------ MODULE RelayProofs ------------------------------
(***************************************************************************)
(* Machine-checked proofs about the transactional outbox, the relays that  *)
(* read it and the timeline they write: the outbox keeps its lanes, claims *)
(* and budgets, the repositories agree whatever crashes between two        *)
(* writes, and delivery implements ordered, exactly-once application, for  *)
(* every set of sessions, events, relays and budgets.                      *)
(***************************************************************************)
EXTENDS EventRelay, ReducerProofs, FiniteSetTheorems, SequenceTheorems

-------------------------------------------------------------------------------
(* The transactional outbox by itself.                                     *)

(* What a committed batch leaves: n new records with the n versions that   *)
(* follow the aggregate's, and the aggregate moved by n.                   *)
BatchCommitted(s, n, new, pos) ==
  /\ new \cap Committed = {}
  /\ aggregate'[s] \in AggregateState
  /\ aggregate'[s].version = aggregate[s].version + n
  /\ aggregate' = [aggregate EXCEPT ![s] = aggregate'[s]]
  /\ \A e \in new : \E ev \in Inputs :
       outbox'[e] = NewRecord(s, aggregate[s].version, pos[e], ev)
  /\ outbox' = [e \in EventIds |-> IF e \in new THEN outbox'[e] ELSE outbox[e]]
  /\ delivery' = [e \in EventIds |->
                    IF e \in new THEN EmptyDelivery ELSE delivery[e]]
  /\ \A e, f \in new : pos[e] = pos[f] => e = f
  /\ \A i \in 1..n : \E e \in new : pos[e] = i
  /\ UNCHANGED usedTokens

(* A commit is one batch for one session, given by its positions. *)
LEMMA CommitEffect ==
  ASSUME OutboxTypeOK, Commit
  PROVE  \E s \in Sessions, n \in 1..MaxBatch, new \in SUBSET EventIds :
           \E pos \in [new -> 1..n] : BatchCommitted(s, n, new, pos)
<1>1. PICK s \in Sessions, n \in 1..MaxBatch :
        \E ids \in [1..n -> EventIds], events \in [1..n -> Inputs] :
          CommitInteractionEvents(s, ids, events)
  BY DEF Commit
<1>2. PICK ids \in [1..n -> EventIds], events \in [1..n -> Inputs] :
        CommitInteractionEvents(s, ids, events)
  BY <1>1
<1>3. n \in Nat /\ n >= 1 /\ Len(events) = n
  BY OutboxAssumption
<1> DEFINE path == Replay(aggregate[s], events)
           new  == {ids[i] : i \in 1..n}
           Position(e) == CHOOSE i \in 1..n : ids[i] = e
           pos  == [e \in new |-> Position(e)]
<1>4. /\ Injective(ids)
      /\ new \cap Committed = {}
      /\ ReplaysFrom(path, aggregate[s], events)
      /\ aggregate' = [aggregate EXCEPT ![s] = path[n]]
      /\ outbox' = [e \in EventIds |->
           IF e \in new
             THEN NewRecord(s, aggregate[s].version, Position(e),
                            events[Position(e)])
             ELSE outbox[e]]
      /\ delivery' = [e \in EventIds |->
           IF e \in new THEN EmptyDelivery ELSE delivery[e]]
      /\ UNCHANGED usedTokens
  BY <1>2, <1>3 DEF CommitInteractionEvents
<1> HIDE DEF path
<1>5. new \in SUBSET EventIds
  OBVIOUS
<1>6. \A e \in new : Position(e) \in 1..n /\ ids[Position(e)] = e
  OBVIOUS
<1>7. pos \in [new -> 1..n]
  BY <1>6
<1>8. aggregate[s] \in AggregateState /\ aggregate[s].version \in Nat
  BY DEF OutboxTypeOK, AggregateState
<1>9. /\ Accepts(path[n - 1], events[n], aggregate[s].version + n)
      /\ path[n] = Reduce(path[n - 1], events[n], aggregate[s].version + n)
  BY <1>3, <1>4 DEF ReplaysFrom
<1>10. events[n] \in Event /\ aggregate[s].version + n \in Nat
  BY <1>3, <1>8, OutboxAssumption
<1>11. /\ path[n] \in AggregateState
       /\ path[n].version = aggregate[s].version + n
  BY <1>9, <1>10, AcceptedType
<1>12. aggregate'[s] = path[n]
  BY <1>4 DEF OutboxTypeOK
<1>13. \A e \in new : \E ev \in Inputs :
         outbox'[e] = NewRecord(s, aggregate[s].version, pos[e], ev)
  BY <1>4, <1>5, <1>6
<1>14. \A e, f \in new : pos[e] = pos[f] => e = f
  BY <1>6
<1>15. ASSUME NEW i \in 1..n
       PROVE  \E e \in new : pos[e] = i
  <2>1. ids[i] \in new /\ Position(ids[i]) \in 1..n
    BY <1>6
  <2>2. ids[Position(ids[i])] = ids[i]
    BY <1>6, <2>1
  <2>3. Position(ids[i]) = i
    BY <1>4, <2>1, <2>2 DEF Injective
  <2>4. QED
    BY <2>1, <2>3
<1>16. BatchCommitted(s, n, new, pos)
  <2>1. aggregate' = [aggregate EXCEPT ![s] = aggregate'[s]]
    BY <1>4, <1>12
  <2>2. outbox' = [e \in EventIds |-> IF e \in new THEN outbox'[e] ELSE outbox[e]]
    BY <1>4
  <2>3. aggregate'[s] \in AggregateState
    BY <1>11, <1>12
  <2>4. aggregate'[s].version = aggregate[s].version + n
    BY <1>11, <1>12
  <2> HIDE DEF new, pos, Position
  <2>5. QED
    BY <1>4, <1>13, <1>14, <1>15, <2>1, <2>2, <2>3, <2>4 DEF BatchCommitted
<1>17. QED
  BY <1>5, <1>7, <1>16

-------------------------------------------------------------------------------
(* The repository is initially well typed, and stays so. *)
LEMMA TypeInit == OutboxInit => OutboxTypeOK
<1> SUFFICES ASSUME OutboxInit PROVE OutboxTypeOK
  OBVIOUS
<1>1. AbsentAggregate \in AggregateState
  BY PresentersAssumption DEF AbsentAggregate, AggregateState, Statuses,
     Consents, Disclosures, Degradations
<1>2. AbsentRecord \in Record
  BY DEF AbsentRecord, Record, RecordStatuses
<1>3. EmptyDelivery \in Delivery
  BY OutboxAssumption DEF EmptyDelivery, Delivery, Receipts
<1>4. QED
  BY <1>1, <1>2, <1>3 DEF OutboxInit, OutboxTypeOK

(* Settling, retrying and waiting keep a delivery state well typed. *)
LEMMA ReleasedType ==
  ASSUME NEW d \in Delivery, NEW w \in 0..RetryDelay, NEW r \in Receipts
  PROVE  Released(d, w, r) \in Delivery
<1>1. 0 \in 0..Lease
  BY OutboxAssumption
<1>2. QED
  BY <1>1 DEF Released, Delivery

(* Counting down stays within the range of the counter. *)
LEMMA CountdownType ==
  ASSUME NEW n \in Nat, NEW k \in 0..n
  PROVE  Countdown(k) \in 0..n
BY DEF Countdown

(* Changing a record's status keeps the store well typed. *)
LEMMA StatusType ==
  ASSUME OutboxTypeOK, NEW e \in EventIds, NEW status \in RecordStatuses,
         outbox' = [outbox EXCEPT ![e].status = status]
  PROVE  outbox' \in [EventIds -> Record]
<1>1. outbox \in [EventIds -> Record] /\ outbox[e] \in Record
  BY DEF OutboxTypeOK
<1>2. [outbox[e] EXCEPT !.status = status] \in Record
  BY <1>1 DEF Record
<1>3. QED
  BY <1>1, <1>2

(* Every step of the repository preserves the types. *)
LEMMA TypeStep ==
  ASSUME OutboxTypeOK, [OutboxNext]_outboxVars
  PROVE  OutboxTypeOK'
<1>1. CASE Commit
  <2>1. PICK s \in Sessions, n \in 1..MaxBatch, new \in SUBSET EventIds :
          \E pos \in [new -> 1..n] : BatchCommitted(s, n, new, pos)
    BY <1>1, CommitEffect
  <2>2. PICK pos \in [new -> 1..n] : BatchCommitted(s, n, new, pos)
    BY <2>1
  <2>3. aggregate' \in [Sessions -> AggregateState]
    BY <2>2 DEF BatchCommitted, OutboxTypeOK
  <2>4. ASSUME NEW e \in new
        PROVE  outbox'[e] \in Record
    <3>1. aggregate[s] \in AggregateState
      BY DEF OutboxTypeOK
    <3>2. aggregate[s].version \in Nat
      BY <3>1 DEF AggregateState
    <3>3. aggregate[s].version + pos[e] \in Nat
      BY <3>2, OutboxAssumption
    <3>4. PICK ev \in Inputs :
            outbox'[e] = NewRecord(s, aggregate[s].version, pos[e], ev)
      BY <2>2 DEF BatchCommitted
    <3>5. QED
      BY <3>3, <3>4 DEF NewRecord, Record, RecordStatuses
  <2>5. outbox' \in [EventIds -> Record]
    BY <2>2, <2>4 DEF BatchCommitted, OutboxTypeOK
  <2>6. EmptyDelivery \in Delivery
    BY OutboxAssumption DEF EmptyDelivery, Delivery, Receipts
  <2>7. delivery' \in [EventIds -> Delivery]
    BY <2>2, <2>6 DEF BatchCommitted, OutboxTypeOK
  <2>8. QED
    BY <2>2, <2>3, <2>5, <2>7 DEF BatchCommitted, OutboxTypeOK
<1>2. ASSUME NEW e \in EventIds, NEW t \in Tokens, NEW offered \in Budgets,
             ClaimDelivery(e, t, offered)
      PROVE  OutboxTypeOK'
  <2>1. outbox' \in [EventIds -> Record]
    BY <1>2 DEF ClaimDelivery, OutboxTypeOK, Record, RecordStatuses
  <2>2. Budget(e, offered) \in Budgets \cup {0}
    BY DEF Budget, OutboxTypeOK, Delivery
  <2>3. delivery' \in [EventIds -> Delivery]
    BY <1>2, <2>2, OutboxAssumption
       DEF ClaimDelivery, OutboxTypeOK, Delivery, Receipts
  <2>4. QED
    BY <1>2, <2>1, <2>3 DEF ClaimDelivery, OutboxTypeOK
<1>3. ASSUME NEW e \in EventIds, NEW offered \in Budgets,
             ExhaustDelivery(e, offered)
      PROVE  OutboxTypeOK'
  <2>1. outbox' \in [EventIds -> Record]
    BY SMTT(60), <1>3 DEF ExhaustDelivery, OutboxTypeOK, Record, RecordStatuses
  <2>2. Budget(e, offered) \in Budgets \cup {0}
    BY DEF Budget, OutboxTypeOK, Delivery
  <2>3. delivery' \in [EventIds -> Delivery]
    BY <1>3, <2>2, OutboxAssumption
       DEF ExhaustDelivery, OutboxTypeOK, Delivery, Receipts
  <2>4. QED
    BY <1>3, <2>1, <2>3 DEF ExhaustDelivery, OutboxTypeOK
<1>4. ASSUME NEW e \in EventIds, NEW t \in Tokens, AcknowledgeDelivery(e, t)
      PROVE  OutboxTypeOK'
  <2>1. outbox' \in [EventIds -> Record]
    BY <1>4, StatusType DEF AcknowledgeDelivery, RecordStatuses
  <2>2. delivery \in [EventIds -> Delivery] /\ delivery[e] \in Delivery
    BY DEF OutboxTypeOK
  <2>3. Released(delivery[e], delivery[e].wait, "published") \in Delivery
    BY <2>2, ReleasedType DEF Delivery, Receipts
  <2>4. QED
    BY <1>4, <2>1, <2>2, <2>3 DEF AcknowledgeDelivery, OutboxTypeOK
<1>5. ASSUME NEW e \in EventIds, NEW t \in Tokens, NEW retryable \in BOOLEAN,
             FailDelivery(e, t, retryable)
      PROVE  OutboxTypeOK'
  <2>1. delivery \in [EventIds -> Delivery] /\ delivery[e] \in Delivery
    BY DEF OutboxTypeOK
  <2>2. 0 \in 0..RetryDelay /\ RetryDelay \in 0..RetryDelay
    BY OutboxAssumption
  <2>3. CASE MayRetry(e, retryable)
    <3>1. outbox' \in [EventIds -> Record]
      BY <1>5, <2>3, StatusType DEF FailDelivery, RecordStatuses
    <3>2. Released(delivery[e], RetryDelay, "retry_scheduled") \in Delivery
      BY <2>1, <2>2, ReleasedType DEF Receipts
    <3>3. QED
      BY <1>5, <2>1, <2>3, <3>1, <3>2 DEF FailDelivery, OutboxTypeOK
  <2>4. CASE ~MayRetry(e, retryable)
    <3>1. outbox' \in [EventIds -> Record]
      BY <1>5, <2>4, StatusType DEF FailDelivery, RecordStatuses
    <3>2. Released(delivery[e], 0, "dead_letter") \in Delivery
      BY <2>1, <2>2, ReleasedType DEF Receipts
    <3>3. QED
      BY <1>5, <2>1, <2>4, <3>1, <3>2 DEF FailDelivery, OutboxTypeOK
  <2>5. QED
    BY <2>3, <2>4
<1>6. CASE Tick
  <2>1. ASSUME NEW e \in EventIds
        PROVE  delivery'[e] \in Delivery
    <3>1. delivery[e] \in Delivery
      BY DEF OutboxTypeOK
    <3>2. /\ Countdown(delivery[e].wait) \in 0..RetryDelay
          /\ Countdown(delivery[e].lease) \in 0..Lease
      BY <3>1, CountdownType, OutboxAssumption DEF Delivery
    <3>3. delivery'[e] = [delivery[e] EXCEPT !.wait = Countdown(@),
                                             !.lease = Countdown(@)]
      BY <1>6 DEF Tick
    <3>4. QED
      BY <3>1, <3>2, <3>3 DEF Delivery
  <2>2. delivery' \in [EventIds -> Delivery]
    BY <1>6, <2>1 DEF Tick
  <2>3. QED
    BY <1>6, <2>2 DEF Tick, OutboxTypeOK
<1>7. CASE UNCHANGED outboxVars
  BY <1>7 DEF outboxVars, OutboxTypeOK
<1>8. QED
  BY <1>1, <1>2, <1>3, <1>4, <1>5, <1>6, <1>7 DEF OutboxNext

(* Every reachable repository state is well typed. *)
THEOREM OutboxTypeCorrect == OutboxSpec => []OutboxTypeOK
<1>1. OutboxInit => OutboxTypeOK
  BY TypeInit
<1>2. OutboxTypeOK /\ [OutboxNext]_outboxVars => OutboxTypeOK'
  BY TypeStep
<1>3. QED
  BY <1>1, <1>2, PTL DEF OutboxSpec

-------------------------------------------------------------------------------
(* The inductive invariant: every safety property the runs check, together. *)
(* None is inductive alone: in-order delivery needs the versions of a lane  *)
(* to be those of its aggregate, settlement needs the receipts and fences.  *)
OutboxInv ==
  /\ OutboxTypeOK
  /\ RecordsMatchAggregate
  /\ InOrderDelivery
  /\ ClaimsAreFenced
  /\ AttemptsWithinBudget
  /\ ReceiptTellsStatus

(* What every step of the claim protocol has in common: one record, next in *)
(* its lane, moves on; no record changes its place in a lane.               *)
Moved(e) ==
  /\ outbox[e].status \in {"pending", "failed", "publishing"}
  /\ outbox'[e].status \in {"publishing", "published", "failed", "dead_letter"}
  /\ ~HasUnpublishedPredecessor(e)
  /\ \A f \in EventIds :
       /\ outbox'[f].session = outbox[f].session
       /\ outbox'[f].version = outbox[f].version
       /\ f # e => outbox'[f] = outbox[f] /\ delivery'[f] = delivery[f]
  /\ UNCHANGED aggregate

(* A claim is made only of a record with no unpublished predecessor. *)
LEMMA ClaimMoves ==
  ASSUME OutboxTypeOK, NEW e \in EventIds, NEW t \in Tokens,
         NEW offered \in Budgets, ClaimDelivery(e, t, offered)
  PROVE  Moved(e)
BY DEF ClaimDelivery, NextDelivery, Claimable, IsDeliveryCandidate, Moved,
       OutboxTypeOK, Record

(* A record is given up only with no unpublished predecessor. *)
LEMMA ExhaustMoves ==
  ASSUME OutboxTypeOK, NEW e \in EventIds, NEW offered \in Budgets,
         ExhaustDelivery(e, offered)
  PROVE  Moved(e)
BY DEF ExhaustDelivery, NextDelivery, Claimable, IsDeliveryCandidate, Moved,
       OutboxTypeOK, Record

(* A claim is held only at the head of its lane. *)
LEMMA HolderLeads ==
  ASSUME InOrderDelivery, NEW e \in EventIds, outbox[e].status = "publishing"
  PROVE  ~HasUnpublishedPredecessor(e)
BY DEF InOrderDelivery, HasUnpublishedPredecessor, Committed

(* Only the head of a lane is acknowledged. *)
LEMMA AcknowledgeMoves ==
  ASSUME OutboxTypeOK, InOrderDelivery, NEW e \in EventIds, NEW t \in Tokens,
         AcknowledgeDelivery(e, t)
  PROVE  Moved(e)
BY HolderLeads DEF AcknowledgeDelivery, HoldsClaim, Moved, OutboxTypeOK, Record

(* Only the head of a lane is failed. *)
LEMMA FailMoves ==
  ASSUME OutboxTypeOK, InOrderDelivery, NEW e \in EventIds, NEW t \in Tokens,
         NEW retryable \in BOOLEAN, FailDelivery(e, t, retryable)
  PROVE  Moved(e)
<1>1. outbox[e].status = "publishing" /\ ~HasUnpublishedPredecessor(e)
  BY HolderLeads DEF FailDelivery, HoldsClaim
<1>2. PICK status \in {"failed", "dead_letter"}, d \in {delivery'[e]} :
        /\ outbox' = [outbox EXCEPT ![e].status = status]
        /\ delivery' = [delivery EXCEPT ![e] = d]
  BY DEF FailDelivery, OutboxTypeOK
<1>3. QED
  BY <1>1, <1>2 DEF FailDelivery, Moved, OutboxTypeOK, Record

-------------------------------------------------------------------------------
(* A moved record leaves the lanes as they were and in order. *)
LEMMA MovedKeepsLanes ==
  ASSUME RecordsMatchAggregate, InOrderDelivery, NEW e \in EventIds, Moved(e)
  PROVE  RecordsMatchAggregate' /\ InOrderDelivery'
<1>1. Committed' = Committed
  BY DEF Moved, Committed
<1>2. \A s \in Sessions : OfSession(s)' = OfSession(s)
  BY <1>1 DEF Moved, OfSession, Committed
<1>3. \A f \in EventIds : outbox'[f].version = outbox[f].version
  BY DEF Moved
<1>4. RecordsMatchAggregate'
  BY <1>2, <1>3 DEF RecordsMatchAggregate, OfSession, Committed, Moved
<1>5. InOrderDelivery'
  <2> SUFFICES ASSUME NEW g \in Committed, NEW f \in Committed,
                      outbox'[g].session = outbox'[f].session,
                      outbox'[f].version < outbox'[g].version,
                      outbox'[g].status # "pending"
               PROVE  outbox'[f].status = "published"
    BY <1>1 DEF InOrderDelivery
  <2>1. /\ g \in EventIds /\ f \in EventIds
        /\ outbox[g].session = outbox[f].session
        /\ outbox[f].version < outbox[g].version
    BY DEF Moved, Committed
  <2>2. outbox[f].status = "published"
    <3>1. CASE g = e
      BY <2>1, <3>1 DEF Moved, HasUnpublishedPredecessor
    <3>2. CASE g # e
      BY <2>1, <3>2 DEF Moved, InOrderDelivery
    <3>3. QED
      BY <3>1, <3>2
  <2>3. QED
    BY <2>1, <2>2 DEF Moved
<1>6. QED
  BY <1>4, <1>5

(* A committed batch extends its lane by the versions that follow. *)
LEMMA CommitKeepsLanes ==
  ASSUME OutboxInv, NEW s \in Sessions, NEW n \in 1..MaxBatch,
         NEW new \in SUBSET EventIds, NEW pos \in [new -> 1..n],
         BatchCommitted(s, n, new, pos)
  PROVE  RecordsMatchAggregate' /\ InOrderDelivery'
<1> DEFINE v == aggregate[s].version
<1>1. n \in Nat /\ v \in Nat /\ aggregate'[s].version = v + n
  BY OutboxAssumption DEF OutboxInv, OutboxTypeOK, AggregateState, BatchCommitted
<1>2. \A e \in new : /\ outbox'[e].status = "pending"
                     /\ outbox'[e].session = s
                     /\ outbox'[e].version = v + pos[e]
                     /\ pos[e] \in 1..n
  <2> SUFFICES ASSUME NEW e \in new
               PROVE  /\ outbox'[e].status = "pending"
                      /\ outbox'[e].session = s
                      /\ outbox'[e].version = v + pos[e]
                      /\ pos[e] \in 1..n
    OBVIOUS
  <2>1. PICK ev \in Inputs : outbox'[e] = NewRecord(s, v, pos[e], ev)
    BY DEF BatchCommitted
  <2>2. QED
    BY <2>1 DEF NewRecord
<1>3. \A e \in EventIds \ new : outbox'[e] = outbox[e]
  BY DEF BatchCommitted
<1>4. new \cap Committed = {}
  BY DEF BatchCommitted
<1>5. Committed' = Committed \cup new
  BY <1>2, <1>3 DEF Committed
<1>6. \A r \in Sessions : r # s =>
        OfSession(r)' = OfSession(r) /\ aggregate'[r] = aggregate[r]
  <2>1. \A r \in Sessions : r # s => aggregate'[r] = aggregate[r]
    BY DEF BatchCommitted, OutboxInv, OutboxTypeOK
  <2>2. \A r \in Sessions : r # s => OfSession(r)' = OfSession(r)
    BY <1>2, <1>3, <1>4, <1>5 DEF OfSession, Committed
  <2>3. QED
    BY <2>1, <2>2
<1>7. OfSession(s)' = OfSession(s) \cup new
  BY <1>2, <1>3, <1>4, <1>5 DEF OfSession, Committed
<1>8. /\ \A e \in OfSession(s) : outbox[e].version \in 1..v /\ e \notin new
      /\ \A i \in 1..v : \E e \in OfSession(s) : outbox[e].version = i
      /\ \A e, f \in OfSession(s) : outbox[e].version = outbox[f].version => e = f
  BY <1>4 DEF OutboxInv, RecordsMatchAggregate, OfSession
<1>9. \A e \in OfSession(s) : outbox'[e] = outbox[e]
  BY <1>3, <1>8 DEF OfSession, Committed
<1> HIDE DEF v
<1>10. RecordsMatchAggregate'
  <2>1. ASSUME NEW r \in Sessions, r # s
        PROVE  /\ \A e \in OfSession(r)' : outbox'[e].version \in 1..aggregate'[r].version
               /\ \A i \in 1..aggregate'[r].version :
                    \E e \in OfSession(r)' : outbox'[e].version = i
               /\ \A e, f \in OfSession(r)' :
                    outbox'[e].version = outbox'[f].version => e = f
    <3>1. \A e \in OfSession(r) : outbox'[e] = outbox[e]
      BY <1>3, <1>4 DEF OfSession, Committed
    <3>2. QED
      BY <1>6, <2>1, <3>1 DEF OutboxInv, RecordsMatchAggregate
  <2>2. \A e \in OfSession(s)' : outbox'[e].version \in 1..(v + n)
    BY <1>1, <1>2, <1>7, <1>8, <1>9
  <2>3. ASSUME NEW i \in 1..(v + n)
        PROVE  \E e \in OfSession(s)' : outbox'[e].version = i
    <3>1. CASE i <= v
      BY <1>1, <1>7, <1>8, <1>9, <3>1
    <3>2. CASE i > v
      <4>1. i - v \in 1..n
        BY <1>1, <3>2
      <4>2. PICK e \in new : pos[e] = i - v
        BY <4>1 DEF BatchCommitted
      <4>3. outbox'[e].version = i
        BY <1>1, <1>2, <4>2
      <4>4. QED
        BY <1>7, <4>3
    <3>3. QED
      BY <1>1, <3>1, <3>2
  <2>4. ASSUME NEW e \in OfSession(s)', NEW f \in OfSession(s)',
               outbox'[e].version = outbox'[f].version
        PROVE  e = f
    <3>1. CASE e \in new /\ f \in new
      <4>1. pos[e] = pos[f]
        BY <1>1, <1>2, <2>4, <3>1
      <4>2. QED
        BY <3>1, <4>1 DEF BatchCommitted
    <3>2. CASE e \notin new /\ f \notin new
      BY <1>7, <1>8, <1>9, <2>4, <3>2
    <3>3. CASE (e \in new) # (f \in new)
      BY <1>1, <1>2, <1>7, <1>8, <1>9, <2>4, <3>3
    <3>4. QED
      BY <3>1, <3>2, <3>3
  <2>5. QED
    BY <1>1, <2>1, <2>2, <2>3, <2>4 DEF RecordsMatchAggregate
<1>11. InOrderDelivery'
  <2> SUFFICES ASSUME NEW g \in Committed', NEW f \in Committed',
                      outbox'[g].session = outbox'[f].session,
                      outbox'[f].version < outbox'[g].version,
                      outbox'[g].status # "pending"
               PROVE  outbox'[f].status = "published"
    BY DEF InOrderDelivery
  <2>1. g \in Committed /\ outbox'[g] = outbox[g]
    BY <1>2, <1>3, <1>4, <1>5 DEF Committed
  <2>2. f \notin new
    <3> SUFFICES ASSUME f \in new PROVE FALSE
      OBVIOUS
    <3>1. g \in OfSession(s)
      BY <1>2, <2>1 DEF OfSession
    <3>2. outbox[g].version \in 1..v /\ outbox'[f].version = v + pos[f]
      BY <1>2, <1>8, <3>1
    <3>3. QED
      BY <1>1, <1>2, <2>1, <3>2
  <2>3. f \in Committed /\ outbox'[f] = outbox[f]
    BY <1>3, <1>5, <2>2 DEF Committed
  <2>4. QED
    BY <2>1, <2>3 DEF OutboxInv, InOrderDelivery
<1>12. QED
  BY <1>10, <1>11

-------------------------------------------------------------------------------
(* The facts about one record's claim, budget and receipt.                  *)
RecordInv ==
  ClaimsAreFenced /\ AttemptsWithinBudget /\ ReceiptTellsStatus

(* A commit leaves every record's own state consistent. *)
LEMMA CommitKeepsRecords ==
  ASSUME OutboxInv, NEW s \in Sessions, NEW n \in 1..MaxBatch,
         NEW new \in SUBSET EventIds, NEW pos \in [new -> 1..n],
         BatchCommitted(s, n, new, pos)
  PROVE  RecordInv'
<1>1. \A e \in new : /\ outbox'[e].status = "pending"
                     /\ outbox'[e].attempts = 0
                     /\ delivery'[e] = EmptyDelivery
  <2> SUFFICES ASSUME NEW e \in new
               PROVE  /\ outbox'[e].status = "pending"
                      /\ outbox'[e].attempts = 0
                      /\ delivery'[e] = EmptyDelivery
    OBVIOUS
  <2>1. PICK ev \in Inputs :
          outbox'[e] = NewRecord(s, aggregate[s].version, pos[e], ev)
    BY DEF BatchCommitted
  <2>2. QED
    BY <2>1 DEF NewRecord, BatchCommitted
<1>2. \A e \in EventIds \ new :
        outbox'[e] = outbox[e] /\ delivery'[e] = delivery[e]
  BY DEF BatchCommitted
<1>3. usedTokens' = usedTokens
  BY DEF BatchCommitted
<1>4. ClaimsAreFenced'
  BY <1>1, <1>2, <1>3, OutboxAssumption
     DEF OutboxInv, OutboxTypeOK, ClaimsAreFenced, EmptyDelivery
<1>5. AttemptsWithinBudget'
  BY <1>1, <1>2 DEF OutboxInv, AttemptsWithinBudget, EmptyDelivery
<1>6. ReceiptTellsStatus'
  BY <1>1, <1>2 DEF OutboxInv, ReceiptTellsStatus, EmptyDelivery
<1>7. QED
  BY <1>4, <1>5, <1>6 DEF RecordInv

(* A claim leaves every record's own state consistent. *)
LEMMA ClaimKeepsRecords ==
  ASSUME OutboxInv, NEW e \in EventIds, NEW t \in Tokens,
         NEW offered \in Budgets, ClaimDelivery(e, t, offered)
  PROVE  RecordInv'
<1>1. Moved(e)
  BY ClaimMoves DEF OutboxInv
<1>2. /\ outbox'[e].status = "publishing"
      /\ outbox'[e].attempts = outbox[e].attempts + 1
      /\ delivery'[e].budget = Budget(e, offered)
      /\ delivery'[e].wait = 0
      /\ delivery'[e].token = t
      /\ delivery'[e].receipt = IF outbox[e].status = "publishing"
                                  THEN "retry_scheduled"
                                  ELSE delivery[e].receipt
      /\ usedTokens' = usedTokens \cup {t}
      /\ t \notin usedTokens
      /\ outbox[e].attempts < Budget(e, offered)
  BY DEF ClaimDelivery, OutboxInv, OutboxTypeOK, Record
<1>3. \A f \in EventIds : f # e =>
        outbox'[f] = outbox[f] /\ delivery'[f] = delivery[f]
  BY <1>1 DEF Moved
<1>4. ClaimsAreFenced'
  BY <1>2, <1>3, OutboxAssumption DEF OutboxInv, ClaimsAreFenced
<1>5. AttemptsWithinBudget'
  <2>1. outbox[e].attempts \in Nat /\ Budget(e, offered) \in Nat \ {0}
    BY OutboxAssumption DEF OutboxInv, OutboxTypeOK, Record, Delivery, Budget
  <2>2. QED
    BY <1>2, <1>3, <2>1 DEF OutboxInv, AttemptsWithinBudget
<1>6. ReceiptTellsStatus'
  BY <1>1, <1>2, <1>3 DEF OutboxInv, ReceiptTellsStatus, Moved
<1>7. QED
  BY <1>4, <1>5, <1>6 DEF RecordInv

(* A record whose budget is spent keeps the budget it was pinned to. *)
LEMMA ExhaustKeepsBudget ==
  ASSUME OutboxInv, NEW e \in EventIds, NEW offered \in Budgets,
         ExhaustDelivery(e, offered)
  PROVE  Budget(e, offered) = delivery[e].budget /\ delivery[e].budget # 0
<1>1. /\ outbox[e].attempts \in Nat
      /\ delivery[e].budget \in Nat
      /\ offered \in Nat \ {0}
      /\ outbox[e].attempts <= delivery[e].budget
      /\ outbox[e].attempts >= Budget(e, offered)
  BY OutboxAssumption DEF OutboxInv, OutboxTypeOK, Record, Delivery,
     AttemptsWithinBudget, ExhaustDelivery
<1>2. QED
  BY <1>1 DEF Budget

(* Giving a record up leaves every record's state consistent. *)
LEMMA ExhaustKeepsRecords ==
  ASSUME OutboxInv, NEW e \in EventIds, NEW offered \in Budgets,
         ExhaustDelivery(e, offered)
  PROVE  RecordInv'
<1>1. Moved(e)
  BY ExhaustMoves DEF OutboxInv
<1>2. /\ outbox'[e].status = "dead_letter"
      /\ outbox'[e].attempts = outbox[e].attempts
      /\ delivery'[e] = [budget |-> delivery[e].budget, wait |-> 0,
                         token |-> NoToken, lease |-> 0,
                         receipt |-> "dead_letter"]
      /\ usedTokens' = usedTokens
  BY ExhaustKeepsBudget
     DEF ExhaustDelivery, OutboxInv, OutboxTypeOK, Record
<1>3. \A f \in EventIds : f # e =>
        outbox'[f] = outbox[f] /\ delivery'[f] = delivery[f]
  BY <1>1 DEF Moved
<1>4. ClaimsAreFenced'
  BY <1>2, <1>3, OutboxAssumption
     DEF OutboxInv, OutboxTypeOK, ClaimsAreFenced
<1>5. AttemptsWithinBudget'
  BY <1>2, <1>3, ExhaustKeepsBudget DEF OutboxInv, AttemptsWithinBudget
<1>6. ReceiptTellsStatus'
  BY <1>2, <1>3 DEF OutboxInv, ReceiptTellsStatus
<1>7. QED
  BY <1>4, <1>5, <1>6 DEF RecordInv

(* Releasing a claim with the receipt of the record's new status. *)
LEMMA ReleaseKeepsRecords ==
  ASSUME OutboxInv, NEW e \in EventIds, NEW status, NEW wait, NEW receipt,
         outbox[e].status = "publishing",
         outbox' = [outbox EXCEPT ![e].status = status],
         delivery' = [delivery EXCEPT ![e] = Released(@, wait, receipt)],
         usedTokens' = usedTokens,
         \/ status = "published" /\ wait = delivery[e].wait /\ receipt = "published"
         \/ status = "failed" /\ wait \in Nat /\ receipt = "retry_scheduled"
         \/ status = "dead_letter" /\ wait = 0 /\ receipt = "dead_letter"
  PROVE  RecordInv'
<1>1. /\ outbox'[e].status = status
      /\ outbox'[e].attempts = outbox[e].attempts
      /\ delivery'[e].budget = delivery[e].budget
      /\ delivery'[e].token = NoToken
      /\ delivery'[e].lease = 0
      /\ delivery'[e].wait = wait
      /\ delivery'[e].receipt = receipt
  BY DEF Released, OutboxInv, OutboxTypeOK, Record, Delivery
<1>2. \A f \in EventIds : f # e =>
        outbox'[f] = outbox[f] /\ delivery'[f] = delivery[f]
  BY DEF OutboxInv, OutboxTypeOK
<1>3. ClaimsAreFenced'
  BY <1>1, <1>2, OutboxAssumption DEF OutboxInv, OutboxTypeOK, ClaimsAreFenced
<1>4. AttemptsWithinBudget'
  BY <1>1, <1>2 DEF OutboxInv, AttemptsWithinBudget
<1>5. delivery[e].wait = 0 \/ delivery[e].wait > 0
  BY DEF OutboxInv, OutboxTypeOK, Delivery
<1>6. ReceiptTellsStatus'
  BY <1>1, <1>2, <1>5 DEF OutboxInv, ReceiptTellsStatus
<1>7. QED
  BY <1>3, <1>4, <1>6 DEF RecordInv

(* The clock leaves every record's own state consistent. *)
LEMMA TickKeepsRecords ==
  ASSUME OutboxInv, Tick
  PROVE  RecordInv'
<1>1. ASSUME NEW e \in EventIds
      PROVE  /\ delivery'[e].budget = delivery[e].budget
             /\ delivery'[e].token = delivery[e].token
             /\ delivery'[e].receipt = delivery[e].receipt
             /\ delivery[e].lease = 0 => delivery'[e].lease = 0
             /\ delivery'[e].wait > 0 => delivery[e].wait > 0
  <2>1. delivery[e] \in Delivery
    BY DEF OutboxInv, OutboxTypeOK
  <2>2. delivery'[e] = [delivery[e] EXCEPT !.wait = Countdown(@),
                                           !.lease = Countdown(@)]
    BY DEF Tick
  <2>3. QED
    BY <2>1, <2>2 DEF Delivery, Countdown
<1>2. outbox' = outbox /\ usedTokens' = usedTokens
  BY DEF Tick
<1>3. ClaimsAreFenced'
  BY <1>1, <1>2 DEF OutboxInv, ClaimsAreFenced
<1>4. AttemptsWithinBudget'
  BY <1>1, <1>2 DEF OutboxInv, AttemptsWithinBudget
<1>5. ReceiptTellsStatus'
  BY <1>1, <1>2 DEF OutboxInv, ReceiptTellsStatus
<1>6. QED
  BY <1>3, <1>4, <1>5 DEF RecordInv

-------------------------------------------------------------------------------
(* The invariant holds of the empty repository. *)
LEMMA InvInit == OutboxInit => OutboxInv
<1> SUFFICES ASSUME OutboxInit PROVE OutboxInv
  OBVIOUS
<1>1. Committed = {}
  BY DEF OutboxInit, Committed, AbsentRecord
<1>2. \A s \in Sessions : aggregate[s].version = 0 /\ OfSession(s) = {}
  BY <1>1 DEF OutboxInit, OfSession, AbsentAggregate
<1>3. RecordsMatchAggregate
  BY <1>2 DEF RecordsMatchAggregate
<1>4. InOrderDelivery
  BY <1>1 DEF InOrderDelivery
<1>5. ClaimsAreFenced
  BY DEF OutboxInit, ClaimsAreFenced, AbsentRecord, EmptyDelivery
<1>6. AttemptsWithinBudget /\ ReceiptTellsStatus
  BY DEF OutboxInit, AttemptsWithinBudget, ReceiptTellsStatus, AbsentRecord,
     EmptyDelivery
<1>7. QED
  BY <1>3, <1>4, <1>5, <1>6, TypeInit DEF OutboxInv

(* Every step of the repository preserves the invariant. *)
LEMMA InvStep ==
  ASSUME OutboxInv, [OutboxNext]_outboxVars
  PROVE  OutboxInv'
<1>1. OutboxTypeOK'
  BY TypeStep DEF OutboxInv
<1>2. RecordsMatchAggregate' /\ InOrderDelivery' /\ RecordInv'
  <2>1. CASE Commit
    <3>1. PICK s \in Sessions, n \in 1..MaxBatch, new \in SUBSET EventIds :
            \E pos \in [new -> 1..n] : BatchCommitted(s, n, new, pos)
      BY <2>1, CommitEffect DEF OutboxInv
    <3>2. PICK pos \in [new -> 1..n] : BatchCommitted(s, n, new, pos)
      BY <3>1
    <3>3. QED
      BY <3>2, CommitKeepsLanes, CommitKeepsRecords
  <2>2. ASSUME NEW e \in EventIds, NEW t \in Tokens, NEW offered \in Budgets,
               ClaimDelivery(e, t, offered)
        PROVE  RecordsMatchAggregate' /\ InOrderDelivery' /\ RecordInv'
    BY <2>2, ClaimMoves, MovedKeepsLanes, ClaimKeepsRecords DEF OutboxInv
  <2>3. ASSUME NEW e \in EventIds, NEW offered \in Budgets,
               ExhaustDelivery(e, offered)
        PROVE  RecordsMatchAggregate' /\ InOrderDelivery' /\ RecordInv'
    BY <2>3, ExhaustMoves, MovedKeepsLanes, ExhaustKeepsRecords DEF OutboxInv
  <2>4. ASSUME NEW e \in EventIds, NEW t \in Tokens, AcknowledgeDelivery(e, t)
        PROVE  RecordsMatchAggregate' /\ InOrderDelivery' /\ RecordInv'
    <3>1. RecordsMatchAggregate' /\ InOrderDelivery'
      BY <2>4, AcknowledgeMoves, MovedKeepsLanes DEF OutboxInv
    <3>2. RecordInv'
      BY <2>4, ReleaseKeepsRecords DEF AcknowledgeDelivery, HoldsClaim
    <3>3. QED
      BY <3>1, <3>2
  <2>5. ASSUME NEW e \in EventIds, NEW t \in Tokens, NEW retryable \in BOOLEAN,
               FailDelivery(e, t, retryable)
        PROVE  RecordsMatchAggregate' /\ InOrderDelivery' /\ RecordInv'
    <3>1. RecordsMatchAggregate' /\ InOrderDelivery'
      BY <2>5, FailMoves, MovedKeepsLanes DEF OutboxInv
    <3>2. outbox[e].status = "publishing" /\ usedTokens' = usedTokens
      BY <2>5 DEF FailDelivery, HoldsClaim
    <3>3. CASE MayRetry(e, retryable)
      BY <2>5, <3>1, <3>2, <3>3, ReleaseKeepsRecords, OutboxAssumption
         DEF FailDelivery
    <3>4. CASE ~MayRetry(e, retryable)
      BY <2>5, <3>1, <3>2, <3>4, ReleaseKeepsRecords DEF FailDelivery
    <3>5. QED
      BY <3>3, <3>4
  <2>6. CASE Tick
    <3>1. UNCHANGED <<aggregate, outbox>>
      BY <2>6 DEF Tick
    <3>2. Committed' = Committed /\ \A s \in Sessions : OfSession(s)' = OfSession(s)
      BY <3>1 DEF Committed, OfSession
    <3>3. RecordsMatchAggregate' /\ InOrderDelivery'
      BY <3>1, <3>2 DEF OutboxInv, RecordsMatchAggregate, InOrderDelivery
    <3>4. QED
      BY <2>6, <3>3, TickKeepsRecords
  <2>7. CASE UNCHANGED outboxVars
    BY <2>7 DEF outboxVars, OutboxInv, RecordInv, RecordsMatchAggregate,
       InOrderDelivery, ClaimsAreFenced, AttemptsWithinBudget,
       ReceiptTellsStatus, OfSession, Committed
  <2>8. QED
    BY <2>1, <2>2, <2>3, <2>4, <2>5, <2>6, <2>7 DEF OutboxNext
<1>3. QED
  BY <1>1, <1>2 DEF OutboxInv, RecordInv

(* The invariant holds of every reachable repository state. *)
THEOREM OutboxInvariant == OutboxSpec => []OutboxInv
<1>1. OutboxInit => OutboxInv
  BY InvInit
<1>2. OutboxInv /\ [OutboxNext]_outboxVars => OutboxInv'
  BY InvStep
<1>3. QED
  BY <1>1, <1>2, PTL DEF OutboxSpec

(* The records of every session are its aggregate's versions, gap-free. *)
THEOREM AggregateCorrect == OutboxSpec => []RecordsMatchAggregate
<1>1. OutboxInv => RecordsMatchAggregate
  BY DEF OutboxInv
<1>2. QED
  BY <1>1, OutboxInvariant, PTL

(* Delivery is in order per session and stops at a dead letter, whatever    *)
(* callers, tokens, budgets, batches and clock readings there are.          *)
THEOREM InOrderCorrect == OutboxSpec => []InOrderDelivery
<1>1. OutboxInv => InOrderDelivery
  BY DEF OutboxInv
<1>2. QED
  BY <1>1, OutboxInvariant, PTL

(* One consumed token fences each claim, and a released record holds none.  *)
THEOREM FencingCorrect == OutboxSpec => []ClaimsAreFenced
<1>1. OutboxInv => ClaimsAreFenced
  BY DEF OutboxInv
<1>2. QED
  BY <1>1, OutboxInvariant, PTL

(* Attempts never exceed the budget the first claim pinned. *)
THEOREM BudgetCorrect == OutboxSpec => []AttemptsWithinBudget
<1>1. OutboxInv => AttemptsWithinBudget
  BY DEF OutboxInv
<1>2. QED
  BY <1>1, OutboxInvariant, PTL

(* The latest receipt tells the fate of its record. *)
THEOREM ReceiptCorrect == OutboxSpec => []ReceiptTellsStatus
<1>1. OutboxInv => ReceiptTellsStatus
  BY DEF OutboxInv
<1>2. QED
  BY <1>1, OutboxInvariant, PTL

-------------------------------------------------------------------------------
(* A step that moves one record touches no settled one. *)
LEMMA MovedSparesSettled ==
  ASSUME OutboxInv, NEW e \in EventIds, Moved(e),
         delivery[e].budget # 0 => delivery'[e].budget = delivery[e].budget
  PROVE  SettledRecordsStay
BY DEF Moved, SettledRecordsStay

(* No step of the repository touches a settled record. *)
LEMMA SettledStep ==
  ASSUME OutboxInv, [OutboxNext]_outboxVars
  PROVE  SettledRecordsStay
<1>1. CASE Commit
  <2>1. PICK s \in Sessions, n \in 1..MaxBatch, new \in SUBSET EventIds :
          \E pos \in [new -> 1..n] : BatchCommitted(s, n, new, pos)
    BY <1>1, CommitEffect DEF OutboxInv
  <2>2. \A e \in Committed :
          outbox'[e] = outbox[e] /\ delivery'[e] = delivery[e]
    BY <2>1 DEF BatchCommitted, Committed
  <2>3. \A e \in EventIds \ Committed : delivery[e].budget = 0
    BY DEF OutboxInv, AttemptsWithinBudget, Committed
  <2>4. QED
    BY <2>2, <2>3 DEF SettledRecordsStay, Committed
<1>2. ASSUME NEW e \in EventIds, NEW t \in Tokens, NEW offered \in Budgets,
             ClaimDelivery(e, t, offered)
      PROVE  SettledRecordsStay
  <2>1. delivery'[e].budget = Budget(e, offered)
    BY <1>2 DEF ClaimDelivery, OutboxInv, OutboxTypeOK
  <2>2. QED
    BY <1>2, <2>1, ClaimMoves, MovedSparesSettled DEF OutboxInv, Budget
<1>3. ASSUME NEW e \in EventIds, NEW offered \in Budgets,
             ExhaustDelivery(e, offered)
      PROVE  SettledRecordsStay
  <2>1. delivery'[e].budget = Budget(e, offered)
    BY <1>3 DEF ExhaustDelivery, OutboxInv, OutboxTypeOK
  <2>2. QED
    BY <1>3, <2>1, ExhaustMoves, MovedSparesSettled DEF OutboxInv, Budget
<1>4. ASSUME NEW e \in EventIds, NEW t \in Tokens, AcknowledgeDelivery(e, t)
      PROVE  SettledRecordsStay
  <2>1. delivery'[e].budget = delivery[e].budget
    <3>1. delivery[e] \in Delivery
      BY DEF OutboxInv, OutboxTypeOK
    <3>2. delivery'[e] = Released(delivery[e], delivery[e].wait, "published")
      BY <1>4 DEF AcknowledgeDelivery, OutboxInv, OutboxTypeOK
    <3>3. QED
      BY <3>1, <3>2 DEF Released, Delivery
  <2>2. QED
    BY <1>4, <2>1, AcknowledgeMoves, MovedSparesSettled DEF OutboxInv
<1>5. ASSUME NEW e \in EventIds, NEW t \in Tokens, NEW retryable \in BOOLEAN,
             FailDelivery(e, t, retryable)
      PROVE  SettledRecordsStay
  <2>1. delivery'[e].budget = delivery[e].budget
    <3>1. delivery[e] \in Delivery
      BY DEF OutboxInv, OutboxTypeOK
    <3>2. \/ delivery'[e] = Released(delivery[e], RetryDelay, "retry_scheduled")
          \/ delivery'[e] = Released(delivery[e], 0, "dead_letter")
      BY <1>5 DEF FailDelivery, OutboxInv, OutboxTypeOK
    <3>3. QED
      BY <3>1, <3>2 DEF Released, Delivery
  <2>2. QED
    BY <1>5, <2>1, FailMoves, MovedSparesSettled DEF OutboxInv
<1>6. CASE Tick
  <2>1. ASSUME NEW e \in EventIds
        PROVE  /\ delivery'[e].budget = delivery[e].budget
               /\ outbox[e].status \in {"published", "dead_letter"}
                  => delivery'[e] = delivery[e]
    <3>1. delivery[e] \in Delivery
      BY DEF OutboxInv, OutboxTypeOK
    <3>2. delivery'[e] = [delivery[e] EXCEPT !.wait = Countdown(@),
                                             !.lease = Countdown(@)]
      BY <1>6 DEF Tick
    <3>3. delivery'[e].budget = delivery[e].budget
      BY <3>1, <3>2 DEF Delivery
    <3>4. ASSUME outbox[e].status \in {"published", "dead_letter"}
          PROVE  delivery'[e] = delivery[e]
      <4>1. delivery[e].wait \in Nat /\ delivery[e].lease \in Nat
        BY <3>1, OutboxAssumption DEF Delivery
      <4>2. delivery[e].lease = 0
        BY <3>4 DEF OutboxInv, ClaimsAreFenced
      <4>3. delivery[e].wait = 0
        BY <3>4, <4>1 DEF OutboxInv, ReceiptTellsStatus
      <4>4. Countdown(0) = 0
        BY DEF Countdown
      <4>5. delivery'[e] = [delivery[e] EXCEPT !.wait = delivery[e].wait,
                                               !.lease = delivery[e].lease]
        BY <3>2, <4>2, <4>3, <4>4, Zenon
      <4>6. QED
        BY <3>1, <4>5 DEF Delivery
    <3>5. QED
      BY <3>3, <3>4
  <2>2. QED
    BY <1>6, <2>1 DEF Tick, SettledRecordsStay
<1>7. CASE UNCHANGED outboxVars
  BY <1>7 DEF outboxVars, SettledRecordsStay
<1>8. QED
  BY <1>1, <1>2, <1>3, <1>4, <1>5, <1>6, <1>7 DEF OutboxNext

(* A settled record is never touched again and a pinned budget never moves. *)
THEOREM SettlementCorrect == OutboxSpec => SettlementIsFinal
<1>1. OutboxInv /\ [OutboxNext]_outboxVars => [SettledRecordsStay]_outboxVars
  BY SettledStep
<1>2. QED
  BY <1>1, OutboxInvariant, PTL DEF OutboxSpec, SettlementIsFinal

-------------------------------------------------------------------------------
(* The relays, the timeline and the outbox together.                       *)

(* A committed record belongs to a session and carries a canonical event.  *)
CommittedRecords ==
  \A e \in Committed : outbox[e].session \in Sessions /\ outbox[e].event \in Inputs

(* The timeline holds the log of its session, each envelope at its version.*)
TimelineMatchesLog ==
  \A s \in Sessions : \A i \in DOMAIN timeline[s] :
    LET e == timeline[s][i].id IN
    /\ e \in OfSession(s)
    /\ outbox[e].version = i
    /\ timeline[s][i] = ClaimedEnvelope(e)

(* The states the log of a session takes its aggregate through.            *)
IsReplay(path, s) ==
  /\ path[0] = AbsentAggregate
  /\ path[aggregate[s].version] = aggregate[s]
  /\ path[Len(timeline[s])] = projected[s]
  /\ \A e \in OfSession(s) :
       path[outbox[e].version] =
         Reduce(path[outbox[e].version - 1], outbox[e].event, outbox[e].version)

(* The aggregate and the projection are states of one replay of the log.   *)
OneReplay ==
  \A s \in Sessions :
    \E path \in [0..aggregate[s].version -> AggregateState] : IsReplay(path, s)

(* What a successful consumer leaves behind.                               *)
TookEffect(e) ==
  LET s == outbox[e].session IN
  /\ outbox[e].version \in DOMAIN timeline[s]
  /\ timeline[s][outbox[e].version] = ClaimedEnvelope(e)
  /\ outbox[e].event.type = "session.completed" => runs[s] = e

(* A relay works on a committed record; its success is never imagined.     *)
RelaysAreHonest ==
  \A r \in Relays :
    /\ relay[r].pc # "idle" => relay[r].event \in Committed
    /\ relay[r].pc = "consumed" /\ relay[r].outcome = "succeeded" =>
         TookEffect(relay[r].event)

(* The part of the projection's soundness that is inductive.               *)
ProjectionFollowsTimeline ==
  \A s \in Sessions :
    /\ projected[s].version = Len(timeline[s])
    /\ timeline[s] # <<>> => Consistent(projected[s])

RelayInv ==
  /\ OutboxInv
  /\ RelayTypeOK
  /\ CommittedRecords
  /\ TimelineMatchesLog
  /\ OneReplay
  /\ RelaysAreHonest
  /\ PublishedIsApplied
  /\ RunFollowsCompletion
  /\ ProjectionFollowsTimeline

-------------------------------------------------------------------------------
(* Nothing takes a session out of a terminal state.                        *)
LEMMA TerminalStays ==
  ASSUME NEW st, NEW ev \in Event, NEW v \in Nat, Accepts(st, ev, v), Terminal(st)
  PROVE  Terminal(Reduce(st, ev, v))
<1>1. st \in AggregateState /\ Permits(st, ev)
  BY DEF Accepts, Terminal, Consistent
<1>2. ev.type \in {"sales.installed", "sales.updated", "sales.uninstalled"}
  BY <1>1 DEF Permits, Terminal, OnStage, CommitsTurn, RecordsOutcome
<1>3. Changed(st, ev).status = st.status /\ Changed(st, ev) \in AggregateState
  BY ZenonT(60), <1>1, <1>2, ChangedType DEF Changed, AggregateState
<1> QED
  BY <1>3 DEF Reduce, Terminal, AggregateState

(* Committed envelopes never change, and are never taken back.             *)
EnvelopesStay ==
  \A e \in Committed :
    /\ e \in Committed'
    /\ outbox'[e].session = outbox[e].session
    /\ outbox'[e].version = outbox[e].version
    /\ outbox'[e].event = outbox[e].event

(* A step of the claim protocol touches no envelope, no aggregate and, but *)
(* for an acknowledgement, publishes nothing.                              *)
ClaimStep ==
  /\ EnvelopesStay
  /\ Committed' = Committed
  /\ UNCHANGED aggregate

PublishesOnly(S) ==
  \A e \in EventIds \ S : outbox'[e].status = "published" => outbox[e].status = "published"

LEMMA ClaimStepOf ==
  ASSUME OutboxInv, NEW e \in EventIds, NEW t, NEW offered
  PROVE  /\ ClaimDelivery(e, t, offered) => ClaimStep /\ PublishesOnly({})
         /\ ExhaustDelivery(e, offered) => ClaimStep /\ PublishesOnly({})
         /\ AcknowledgeDelivery(e, t) => ClaimStep /\ PublishesOnly({e})
         /\ \A retryable : FailDelivery(e, t, retryable) => ClaimStep /\ PublishesOnly({})
         /\ Tick => ClaimStep /\ PublishesOnly({})
         /\ UNCHANGED outboxVars => ClaimStep /\ PublishesOnly({})
<1>1. outbox \in [EventIds -> Record]
  BY DEF OutboxInv, OutboxTypeOK
<1>2. ASSUME NEW status \in RecordStatuses \ {"absent"}, outbox[e].status # "absent",
             outbox' = [outbox EXCEPT ![e].status = status], UNCHANGED aggregate
      PROVE  ClaimStep /\ PublishesOnly({e}) /\ (status # "published" => PublishesOnly({}))
  BY <1>1, <1>2 DEF ClaimStep, EnvelopesStay, Committed, PublishesOnly, Record
<1>3. IsDeliveryCandidate(e) => outbox[e].status # "absent"
  BY DEF IsDeliveryCandidate
<1>4. ClaimDelivery(e, t, offered) => ClaimStep /\ PublishesOnly({})
  BY <1>1, <1>3 DEF ClaimDelivery, NextDelivery, Claimable, ClaimStep, EnvelopesStay,
     Committed, PublishesOnly, Record
<1>5. ExhaustDelivery(e, offered) => ClaimStep /\ PublishesOnly({})
  BY <1>1, <1>3 DEF ExhaustDelivery, NextDelivery, Claimable, ClaimStep, EnvelopesStay,
     Committed, PublishesOnly, Record
<1>6. AcknowledgeDelivery(e, t) => ClaimStep /\ PublishesOnly({e})
  BY <1>2 DEF AcknowledgeDelivery, HoldsClaim, RecordStatuses
<1>7. \A retryable : FailDelivery(e, t, retryable) => ClaimStep /\ PublishesOnly({})
  BY <1>2 DEF FailDelivery, HoldsClaim, RecordStatuses
<1>8. outbox' = outbox /\ UNCHANGED aggregate => ClaimStep /\ PublishesOnly({})
  BY DEF ClaimStep, EnvelopesStay, Committed, PublishesOnly
<1> QED
  BY <1>4, <1>5, <1>6, <1>7, <1>8 DEF Tick, outboxVars

(* A batch adds the next envelopes of one session; the states it went      *)
(* through start at the old aggregate and end at the new one.              *)
BatchReplayed(s, n, new, pos, q) ==
  /\ BatchCommitted(s, n, new, pos)
  /\ q[0] = aggregate[s] /\ q[n] = aggregate'[s]
  /\ \A e \in new :
       /\ outbox'[e].status = "pending"
       /\ outbox'[e].session = s
       /\ outbox'[e].version = aggregate[s].version + pos[e]
       /\ outbox'[e].event \in Inputs
       /\ q[pos[e]] = Reduce(q[pos[e] - 1], outbox'[e].event, outbox'[e].version)

LEMMA CommitReplays ==
  ASSUME OutboxTypeOK, Commit
  PROVE  \E s \in Sessions, n \in 1..MaxBatch, new \in SUBSET EventIds :
           \E pos \in [new -> 1..n], q \in [0..n -> AggregateState] :
             BatchReplayed(s, n, new, pos, q)
<1>1. PICK s \in Sessions, n \in 1..MaxBatch :
        \E ids \in [1..n -> EventIds], events \in [1..n -> Inputs] :
          CommitInteractionEvents(s, ids, events)
  BY DEF Commit
<1>2. PICK ids \in [1..n -> EventIds], events \in [1..n -> Inputs] :
        CommitInteractionEvents(s, ids, events)
  BY <1>1
<1>3. n \in Nat /\ n >= 1 /\ Len(events) = n
  BY OutboxAssumption
<1>4. aggregate[s] \in AggregateState /\ aggregate[s].version \in Nat
  BY DEF OutboxTypeOK, AggregateState
<1> DEFINE path == Replay(aggregate[s], events)
           new  == {ids[i] : i \in 1..n}
           Position(e) == CHOOSE i \in 1..n : ids[i] = e
           pos  == [e \in new |-> Position(e)]
           q    == [i \in 0..n |-> path[i]]
<1>5. /\ Injective(ids)
      /\ new \cap Committed = {}
      /\ ReplaysFrom(path, aggregate[s], events)
      /\ aggregate' = [aggregate EXCEPT ![s] = path[n]]
      /\ outbox' = [e \in EventIds |->
           IF e \in new
             THEN NewRecord(s, aggregate[s].version, Position(e), events[Position(e)])
             ELSE outbox[e]]
      /\ delivery' = [e \in EventIds |-> IF e \in new THEN EmptyDelivery ELSE delivery[e]]
      /\ UNCHANGED usedTokens
  BY <1>2, <1>3 DEF CommitInteractionEvents
<1> HIDE DEF path
<1>6. \A i \in 1..n :
        /\ Accepts(path[i - 1], events[i], aggregate[s].version + i)
        /\ path[i] = Reduce(path[i - 1], events[i], aggregate[s].version + i)
        /\ path[i] \in AggregateState
        /\ path[i].version = aggregate[s].version + i
  <2> TAKE i \in 1..n
  <2>1. /\ Accepts(path[i - 1], events[i], aggregate[s].version + i)
        /\ path[i] = Reduce(path[i - 1], events[i], aggregate[s].version + i)
    BY <1>3, <1>5 DEF ReplaysFrom
  <2>2. events[i] \in Event /\ aggregate[s].version + i \in Nat
    BY <1>3, <1>4, OutboxAssumption
  <2> QED
    BY <2>1, <2>2, AcceptedType
<1>7. q \in [0..n -> AggregateState] /\ q[0] = aggregate[s] /\ q[n] = path[n]
  <2>1. path[0] = aggregate[s]
    BY <1>5 DEF ReplaysFrom
  <2>2. \A i \in 0..n : i = 0 \/ i \in 1..n
    BY <1>3
  <2>3. \A i \in 1..n : path[i] \in AggregateState
    BY <1>6
  <2>4. \A i \in 0..n : path[i] \in AggregateState
    BY <1>4, <2>1, <2>2, <2>3
  <2>5. q[0] = path[0] /\ q[n] = path[n]
    BY <1>3
  <2> QED
    BY <2>1, <2>4, <2>5
<1>8. \A e \in new : Position(e) \in 1..n /\ ids[Position(e)] = e
  OBVIOUS
<1>9. \A i \in 1..n : ids[i] \in new /\ Position(ids[i]) = i
  <2> TAKE i \in 1..n
  <2>1. ids[i] \in new
    OBVIOUS
  <2>2. Position(ids[i]) \in 1..n /\ ids[Position(ids[i])] = ids[i]
    BY <1>8, <2>1
  <2> QED
    BY <1>5, <2>1, <2>2 DEF Injective
<1>10. new \in SUBSET EventIds /\ pos \in [new -> 1..n]
  BY <1>8
<1>11. aggregate'[s] = path[n]
  BY <1>5 DEF OutboxTypeOK
<1>12. ASSUME NEW e \in new
       PROVE  /\ outbox'[e] = NewRecord(s, aggregate[s].version, pos[e], events[pos[e]])
              /\ pos[e] \in 1..n /\ pos[e] - 1 \in 0..n /\ pos[e] \in 0..n
              /\ events[pos[e]] \in Inputs
  BY <1>3, <1>5, <1>8, <1>10
<1> HIDE DEF new, Position, pos, q
<1>13. BatchCommitted(s, n, new, pos)
  <2>1. aggregate'[s] \in AggregateState /\ aggregate'[s].version = aggregate[s].version + n
    BY <1>3, <1>6, <1>11
  <2>2. \A e \in new : \E ev \in Inputs : outbox'[e] = NewRecord(s, aggregate[s].version, pos[e], ev)
    BY <1>12
  <2>3. \A e, f \in new : pos[e] = pos[f] => e = f
    BY <1>8 DEF pos
  <2>4. \A i \in 1..n : \E e \in new : pos[e] = i
    BY <1>9 DEF pos
  <2>5. /\ aggregate' = [aggregate EXCEPT ![s] = aggregate'[s]]
        /\ outbox' = [e \in EventIds |-> IF e \in new THEN outbox'[e] ELSE outbox[e]]
    BY <1>5, <1>11
  <2> QED
    BY <1>5, <2>1, <2>2, <2>3, <2>4, <2>5 DEF BatchCommitted
<1>14. ASSUME NEW e \in new
       PROVE  /\ outbox'[e].status = "pending"
              /\ outbox'[e].session = s
              /\ outbox'[e].version = aggregate[s].version + pos[e]
              /\ outbox'[e].event \in Inputs
              /\ q[pos[e]] = Reduce(q[pos[e] - 1], outbox'[e].event, outbox'[e].version)
  <2>1. /\ outbox'[e].status = "pending"
        /\ outbox'[e].session = s
        /\ outbox'[e].version = aggregate[s].version + pos[e]
        /\ outbox'[e].event = events[pos[e]]
    <3>1. outbox'[e] = NewRecord(s, aggregate[s].version, pos[e], events[pos[e]])
      BY <1>12
    <3> QED
      BY <3>1 DEF NewRecord
  <2>2. q[pos[e]] = path[pos[e]] /\ q[pos[e] - 1] = path[pos[e] - 1]
    BY <1>12 DEF q
  <2> QED
    BY <1>6, <1>12, <2>1, <2>2
<1>15. BatchReplayed(s, n, new, pos, q)
  BY <1>7, <1>11, <1>13, <1>14 DEF BatchReplayed
<1> QED
  BY <1>7, <1>10, <1>15

-------------------------------------------------------------------------------
(* Envelopes that stay keep what the timeline, the runs and the relays     *)
(* rest on.                                                                *)
LEMMA EffectsPersist ==
  ASSUME RelayInv, EnvelopesStay, UNCHANGED <<timelineVars, runs>>
  PROVE  /\ TimelineMatchesLog'
         /\ \A e \in Committed : TookEffect(e) => TookEffect(e)'
         /\ RunFollowsCompletion'
         /\ ProjectionFollowsTimeline'
<1>1. timeline' = timeline /\ projected' = projected /\ runs' = runs
  BY DEF timelineVars
<1>2. \A e \in Committed : ClaimedEnvelope(e)' = ClaimedEnvelope(e)
  BY DEF EnvelopesStay, ClaimedEnvelope
<1>3. TimelineMatchesLog'
  <2> SUFFICES ASSUME NEW s \in Sessions, NEW i \in DOMAIN timeline[s],
                      NEW e, e = timeline[s][i].id
               PROVE  /\ e \in OfSession(s)'
                      /\ outbox'[e].version = i
                      /\ timeline[s][i] = ClaimedEnvelope(e)'
    BY <1>1 DEF TimelineMatchesLog
  <2>1. e \in OfSession(s) /\ outbox[e].version = i /\ timeline[s][i] = ClaimedEnvelope(e)
    BY DEF RelayInv, TimelineMatchesLog
  <2>2. e \in Committed /\ outbox[e].session = s
    BY <2>1 DEF OfSession
  <2> QED
    BY <1>2, <2>1, <2>2 DEF EnvelopesStay, OfSession
<1>4. \A e \in Committed : TookEffect(e) => TookEffect(e)'
  BY <1>1, <1>2 DEF TookEffect, EnvelopesStay
<1>5. RunFollowsCompletion' /\ ProjectionFollowsTimeline'
  BY <1>1 DEF RelayInv, RunFollowsCompletion, ProjectionFollowsTimeline
<1> QED
  BY <1>3, <1>4, <1>5

(* Effects that persist keep every relay honest about them, whatever a     *)
(* relay that starts over, or takes a committed record, does.              *)
LEMMA HonestyPersists ==
  ASSUME RelayInv, EnvelopesStay, \A e \in Committed : TookEffect(e) => TookEffect(e)',
         \A r \in Relays : \/ relay'[r] = relay[r]
                           \/ relay'[r] = IdleRelay
                           \/ relay'[r].pc = "claimed" /\ relay'[r].event \in Committed
  PROVE  RelaysAreHonest'
<1> SUFFICES ASSUME NEW r \in Relays
             PROVE  /\ relay'[r].pc # "idle" => relay'[r].event \in Committed'
                    /\ relay'[r].pc = "consumed" /\ relay'[r].outcome = "succeeded" =>
                         TookEffect(relay[r].event)'
  BY DEF RelaysAreHonest
<1>1. CASE relay'[r] = relay[r]
  BY <1>1 DEF RelayInv, RelaysAreHonest, EnvelopesStay
<1>2. CASE relay'[r] = IdleRelay
  BY <1>2 DEF IdleRelay
<1>3. CASE relay'[r].pc = "claimed" /\ relay'[r].event \in Committed
  BY <1>3 DEF EnvelopesStay
<1> QED
  BY <1>1, <1>2, <1>3

(* Claims, reports, failures and the clock leave every envelope, and the   *)
(* replay of the log, as they were.                                        *)
LEMMA ClaimStepKeeps ==
  ASSUME RelayInv, ClaimStep, UNCHANGED <<timelineVars, runs>>
  PROVE  CommittedRecords' /\ OneReplay'
<1>1. CommittedRecords'
  BY DEF RelayInv, CommittedRecords, ClaimStep, EnvelopesStay
<1>2. \A s \in Sessions : OfSession(s)' = OfSession(s)
  BY DEF OfSession, ClaimStep, EnvelopesStay
<1>3. ASSUME NEW s \in Sessions
      PROVE  \E path \in [0..aggregate'[s].version -> AggregateState] : IsReplay(path, s)'
  <2>1. PICK path \in [0..aggregate[s].version -> AggregateState] : IsReplay(path, s)
    BY DEF RelayInv, OneReplay
  <2>2. IsReplay(path, s)'
    BY <1>2, <2>1 DEF IsReplay, ClaimStep, EnvelopesStay, OfSession, timelineVars
  <2> QED
    BY <2>1, <2>2 DEF ClaimStep
<1> QED
  BY <1>1, <1>3 DEF OneReplay

(* A step on the repository alone, seen from the whole: what it must not   *)
(* disturb, given what it publishes took effect.                           *)
LEMMA RepositoryStepKeeps ==
  ASSUME RelayInv, OutboxInv', RelayTypeOK', ClaimStep, UNCHANGED <<timelineVars, runs>>,
         NEW S, PublishesOnly(S), \A e \in S \cap Committed : TookEffect(e),
         \A r \in Relays : \/ relay'[r] = relay[r]
                           \/ relay'[r] = IdleRelay
                           \/ relay'[r].pc = "claimed" /\ relay'[r].event \in Committed
  PROVE  RelayInv'
<1>1. EnvelopesStay /\ Committed' = Committed
  BY DEF ClaimStep
<1>2. /\ TimelineMatchesLog' /\ RunFollowsCompletion' /\ ProjectionFollowsTimeline'
      /\ \A e \in Committed : TookEffect(e) => TookEffect(e)'
  BY <1>1, EffectsPersist
<1>3. RelaysAreHonest'
  BY <1>1, <1>2, HonestyPersists
<1>4. CommittedRecords' /\ OneReplay'
  BY ClaimStepKeeps
<1>5. PublishedIsApplied'
  <2> SUFFICES ASSUME NEW e \in Committed, outbox'[e].status = "published"
               PROVE  TookEffect(e)'
    BY <1>1 DEF PublishedIsApplied, TookEffect
  <2>1. TookEffect(e)
    BY DEF PublishesOnly, RelayInv, PublishedIsApplied, TookEffect, Committed
  <2> QED
    BY <1>2, <2>1
<1> QED
  BY <1>2, <1>3, <1>4, <1>5 DEF RelayInv

(* The timeline is never ahead of the log, so its projection is a state    *)
(* the aggregate was in.                                                   *)
LEMMA TimelineBehindLog ==
  ASSUME RelayInv, NEW s \in Sessions
  PROVE  /\ Len(timeline[s]) \in 0..aggregate[s].version
         /\ DOMAIN timeline[s] = 1..Len(timeline[s])
         /\ aggregate[s].version \in Nat
<1>1. timeline[s] \in Seq(Envelope) /\ aggregate[s] \in AggregateState
  BY DEF RelayInv, RelayTypeOK, OutboxInv, OutboxTypeOK
<1>2. /\ Len(timeline[s]) \in Nat /\ DOMAIN timeline[s] = 1..Len(timeline[s])
      /\ aggregate[s].version \in Nat
  BY <1>1 DEF AggregateState
<1>3. CASE Len(timeline[s]) = 0
  BY <1>2, <1>3
<1>4. CASE Len(timeline[s]) # 0
  <2>1. Len(timeline[s]) \in DOMAIN timeline[s]
    BY <1>2, <1>4
  <2>2. PICK e \in OfSession(s) : outbox[e].version = Len(timeline[s])
    BY <2>1 DEF RelayInv, TimelineMatchesLog
  <2>3. outbox[e].version \in 1..aggregate[s].version
    BY <2>2 DEF RelayInv, OutboxInv, RecordsMatchAggregate
  <2> QED
    BY <1>2, <2>2, <2>3
<1> QED
  BY <1>2, <1>3, <1>4

(* A commit extends the log, and the replay, of one session.               *)
LEMMA CommitKeeps ==
  ASSUME RelayInv, OutboxInv', RelayTypeOK', Commit, UNCHANGED <<timelineVars, runs, relay>>
  PROVE  RelayInv'
<1>1. PICK s \in Sessions, n \in 1..MaxBatch, new \in SUBSET EventIds :
        \E pos \in [new -> 1..n], q \in [0..n -> AggregateState] :
          BatchReplayed(s, n, new, pos, q)
  BY CommitReplays DEF RelayInv, OutboxInv
<1>2. PICK pos \in [new -> 1..n], q \in [0..n -> AggregateState] :
        BatchReplayed(s, n, new, pos, q)
  BY <1>1
<1> DEFINE v == aggregate[s].version
<1>3. /\ new \cap Committed = {}
      /\ aggregate' = [aggregate EXCEPT ![s] = aggregate'[s]]
      /\ aggregate'[s].version = v + n
      /\ \A e \in EventIds \ new : outbox'[e] = outbox[e]
      /\ n \in Nat /\ n >= 1
  BY <1>2, OutboxAssumption DEF BatchReplayed, BatchCommitted
<1>4. \A e \in new : /\ outbox'[e].status = "pending"
                     /\ outbox'[e].session = s
                     /\ outbox'[e].version = v + pos[e]
                     /\ outbox'[e].event \in Inputs
                     /\ q[pos[e]] = Reduce(q[pos[e] - 1], outbox'[e].event, outbox'[e].version)
                     /\ pos[e] \in 1..n
  BY <1>2 DEF BatchReplayed
<1>5. EnvelopesStay /\ Committed' = Committed \cup new
  BY <1>3, <1>4 DEF EnvelopesStay, Committed
<1>6. /\ TimelineMatchesLog' /\ RunFollowsCompletion' /\ ProjectionFollowsTimeline'
      /\ \A e \in Committed : TookEffect(e) => TookEffect(e)'
  BY <1>5, EffectsPersist
<1>7. RelaysAreHonest'
  BY <1>5, <1>6, HonestyPersists
<1>8. CommittedRecords'
  BY <1>4, <1>5 DEF RelayInv, CommittedRecords, EnvelopesStay
<1>9. PublishedIsApplied'
  <2> SUFFICES ASSUME NEW e \in Committed', outbox'[e].status = "published"
               PROVE  TookEffect(e)'
    BY DEF PublishedIsApplied, TookEffect
  <2>1. e \in Committed /\ outbox'[e] = outbox[e]
    BY <1>3, <1>4, <1>5 DEF Committed
  <2>2. TookEffect(e)
    BY <2>1 DEF RelayInv, PublishedIsApplied, TookEffect
  <2> QED
    BY <1>6, <2>1, <2>2
<1>10. ASSUME NEW r \in Sessions
       PROVE  \E path \in [0..aggregate'[r].version -> AggregateState] : IsReplay(path, r)'
  <2>1. PICK path \in [0..aggregate[r].version -> AggregateState] : IsReplay(path, r)
    BY DEF RelayInv, OneReplay
  <2>2. CASE r # s
    <3>1. OfSession(r)' = OfSession(r) /\ aggregate'[r] = aggregate[r]
      BY <1>3, <1>4, <1>5, <2>2 DEF OfSession, Committed, RelayInv, OutboxInv, OutboxTypeOK
    <3>2. \A e \in OfSession(r) : outbox'[e] = outbox[e]
      BY <1>3 DEF OfSession, Committed
    <3>3. IsReplay(path, r)'
      BY <2>1, <3>1, <3>2 DEF IsReplay, timelineVars
    <3> QED
      BY <2>1, <3>1, <3>3
  <2>3. CASE r = s
    <3>0. PICK longer : longer = [i \in 0..(v + n) |-> IF i <= v THEN path[i] ELSE q[i - v]]
      OBVIOUS
    <3>1. v \in Nat /\ Len(timeline[s]) \in 0..v
      BY TimelineBehindLog
    <3>2. longer \in [0..(v + n) -> AggregateState]
      BY <1>3, <2>1, <2>3, <3>0, <3>1
    <3>3. longer[0] = AbsentAggregate /\ longer[Len(timeline[s])] = projected[s]
      BY <1>3, <2>1, <2>3, <3>0, <3>1 DEF IsReplay
    <3>4. longer[v + n] = aggregate'[s]
      BY <1>2, <1>3, <3>0, <3>1 DEF BatchReplayed
    <3>5. ASSUME NEW e \in OfSession(s)'
          PROVE  longer[outbox'[e].version] =
                   Reduce(longer[outbox'[e].version - 1], outbox'[e].event, outbox'[e].version)
      <4>1. CASE e \in new
        <5>1. longer[v + pos[e]] = q[pos[e]]
          BY <1>3, <1>4, <3>0, <3>1, <4>1
        <5>2. longer[(v + pos[e]) - 1] = q[pos[e] - 1]
          <6>1. CASE pos[e] = 1
            <7>1. longer[v] = path[v]
              BY <1>3, <3>0, <3>1
            <7>2. path[v] = q[0]
              BY <1>2, <2>1, <2>3 DEF IsReplay, BatchReplayed
            <7> QED
              BY <3>1, <6>1, <7>1, <7>2
          <6>2. CASE pos[e] # 1
            BY SMTT(60), <1>3, <1>4, <3>0, <3>1, <4>1, <6>2
          <6> QED
            BY <6>1, <6>2
        <5>3. /\ outbox'[e].version = v + pos[e]
              /\ q[pos[e]] = Reduce(q[pos[e] - 1], outbox'[e].event, outbox'[e].version)
          BY <1>4, <4>1
        <5>4. outbox'[e].version - 1 = (v + pos[e]) - 1
          BY <1>3, <1>4, <3>1, <4>1, <5>3
        <5> HIDE DEF v
        <5> QED
          BY <5>1, <5>2, <5>3, <5>4
      <4>2. CASE e \notin new
        <5>1. e \in OfSession(s) /\ outbox'[e] = outbox[e]
          BY <1>3, <1>5, <4>2 DEF OfSession, Committed
        <5>2. outbox[e].version \in 1..v
          BY <5>1 DEF RelayInv, OutboxInv, RecordsMatchAggregate
        <5>3. /\ longer[outbox[e].version] = path[outbox[e].version]
              /\ longer[outbox[e].version - 1] = path[outbox[e].version - 1]
          BY SMTT(60), <1>3, <3>0, <3>1, <5>2
        <5> QED
          BY <2>1, <2>3, <5>1, <5>3 DEF IsReplay
      <4> QED
        BY <4>1, <4>2
    <3>6. IsReplay(longer, s)'
      BY <1>3, <3>3, <3>4, <3>5 DEF IsReplay, timelineVars
    <3> QED
      BY <1>3, <2>3, <3>2, <3>6
  <2> QED
    BY <2>2, <2>3
<1>11. OneReplay'
  BY <1>10 DEF OneReplay
<1> QED
  BY <1>6, <1>7, <1>8, <1>9, <1>11 DEF RelayInv

-------------------------------------------------------------------------------
(* What an append does with the envelope of a committed record: nothing,   *)
(* or the next state of the projection; and "appended" or "recorded" tell  *)
(* that the timeline has the envelope at its own version.                  *)
Appended(e) ==
  LET s == outbox[e].session
      v == outbox[e].version
  IN  /\ v = Len(timeline[s]) + 1
      /\ Accepts(projected[s], outbox[e].event, v)
      /\ Consistent(Reduce(projected[s], outbox[e].event, v))
      /\ timeline' = [timeline EXCEPT ![s] = Append(@, ClaimedEnvelope(e))]
      /\ projected' = [projected EXCEPT ![s] = Reduce(@, outbox[e].event, v)]

LEMMA EnvelopeFields ==
  ASSUME NEW e
  PROVE  /\ ClaimedEnvelope(e).id = e
         /\ ClaimedEnvelope(e).session = outbox[e].session
         /\ ClaimedEnvelope(e).version = outbox[e].version
         /\ ClaimedEnvelope(e).event = outbox[e].event
BY DEF ClaimedEnvelope

LEMMA AppendEffect ==
  ASSUME RelayInv, NEW e \in Committed, AppendCanonicalEvent(ClaimedEnvelope(e))
  PROVE  LET s == outbox[e].session
             v == outbox[e].version
         IN  /\ Appended(e) \/ UNCHANGED timelineVars
             /\ AppendOutcome(ClaimedEnvelope(e)) \in {"appended", "recorded"} =>
                  v \in DOMAIN timeline'[s] /\ timeline'[s][v] = ClaimedEnvelope(e)
<1> DEFINE env == ClaimedEnvelope(e)
           s == outbox[e].session
           v == outbox[e].version
<1>1. /\ env.id = e /\ env.session = s /\ env.version = v /\ env.event = outbox[e].event
      /\ s \in Sessions
  BY EnvelopeFields DEF RelayInv, CommittedRecords
<1>2. timeline \in [Sessions -> Seq(Envelope)]
  BY DEF RelayInv, RelayTypeOK
<1> HIDE DEF env
<1>3. CASE AppendOutcome(env) = "appended"
  <2>1. env \notin Stored
    BY <1>3 DEF AppendOutcome
  <2>2. /\ Applicable(env)
        /\ Consistent(Reduce(projected[env.session], env.event, env.version))
    BY <1>3 DEF AppendOutcome
  <2>3. Record1(env)
    BY <1>3 DEF AppendCanonicalEvent, env
  <2>4. Appended(e)
    BY <1>1, <2>2, <2>3 DEF Applicable, Record1, Appended, env
  <2>5. v \in DOMAIN timeline'[s] /\ timeline'[s][v] = env
    BY <1>1, <1>2, <2>4 DEF Appended, env
  <2> QED
    BY <2>4, <2>5 DEF env
<1>4. CASE AppendOutcome(env) # "appended"
  <2>1. UNCHANGED timelineVars
    BY <1>4 DEF AppendCanonicalEvent, env
  <2>2. ASSUME AppendOutcome(env) = "recorded"
        PROVE  v \in DOMAIN timeline[s] /\ timeline[s][v] = env
    <3>1. env \in Stored
      <4>1. CASE env \notin Stored /\ \E x \in Stored : x.id = env.id
        BY <2>2, <4>1 DEF AppendOutcome
      <4>2. CASE env \notin Stored /\ ~\E x \in Stored : x.id = env.id
        BY <2>2, <4>2 DEF AppendOutcome
      <4> QED
        BY <4>1, <4>2
    <3>2. PICK r \in Sessions : \E i \in DOMAIN timeline[r] : timeline[r][i] = env
      BY <3>1 DEF Stored
    <3>3. PICK i \in DOMAIN timeline[r] : timeline[r][i] = env
      BY <3>2
    <3>4. e \in OfSession(r) /\ outbox[e].version = i
      BY <1>1, <3>3 DEF RelayInv, TimelineMatchesLog
    <3> QED
      BY <3>3, <3>4 DEF OfSession
  <2> QED
    BY <1>4, <2>1, <2>2 DEF timelineVars, env
<1> QED
  BY <1>3, <1>4

(* A timeline that grows by the next envelope of the log keeps everything  *)
(* the repositories agree on.                                              *)
LEMMA AppendKeeps ==
  ASSUME RelayInv, NEW e \in Committed, Appended(e), UNCHANGED outboxVars
  PROVE  /\ TimelineMatchesLog'
         /\ OneReplay'
         /\ ProjectionFollowsTimeline'
         /\ \A s \in Sessions : Terminal(projected[s]) => Terminal(projected'[s])
         /\ \A s \in Sessions : \A i \in DOMAIN timeline[s] :
              i \in DOMAIN timeline'[s] /\ timeline'[s][i] = timeline[s][i]
         /\ timeline' \in [Sessions -> Seq(Envelope)]
         /\ projected' \in [Sessions -> AggregateState]
<1> DEFINE s == outbox[e].session
           v == outbox[e].version
           env == ClaimedEnvelope(e)
<1>1. /\ s \in Sessions /\ outbox[e].event \in Event /\ v \in Nat
      /\ timeline \in [Sessions -> Seq(Envelope)]
      /\ projected \in [Sessions -> AggregateState]
      /\ e \in EventIds
  BY OutboxAssumption DEF RelayInv, CommittedRecords, RelayTypeOK, OutboxInv, OutboxTypeOK,
     Record, Committed
<1>2. env \in Envelope /\ env.id = e
  BY <1>1 DEF ClaimedEnvelope, Envelope
<1> DEFINE next == Reduce(projected[s], outbox[e].event, v)
<1>3. /\ v = Len(timeline[s]) + 1
      /\ Accepts(projected[s], outbox[e].event, v) /\ Consistent(next)
      /\ timeline' = [timeline EXCEPT ![s] = Append(timeline[s], env)]
      /\ projected' = [projected EXCEPT ![s] = next]
  BY DEF Appended
<1>4. next \in AggregateState /\ next.version = v
  BY <1>1, <1>3, AcceptedType
<1> HIDE DEF env, next
<1>5. /\ timeline' \in [Sessions -> Seq(Envelope)]
      /\ projected' \in [Sessions -> AggregateState]
  BY <1>1, <1>2, <1>3, <1>4
<1>6. /\ timeline'[s] = Append(timeline[s], env) /\ projected'[s] = next
      /\ \A r \in Sessions \ {s} : timeline'[r] = timeline[r] /\ projected'[r] = projected[r]
  BY <1>1, <1>3
<1>7. /\ Len(timeline'[s]) = v /\ DOMAIN timeline'[s] = 1..v
      /\ DOMAIN timeline[s] = 1..(v - 1)
      /\ timeline'[s][v] = env
      /\ \A i \in 1..(v - 1) : timeline'[s][i] = timeline[s][i]
  <2>1. PICK old : old = timeline[s]
    OBVIOUS
  <2>2. old \in Seq(Envelope) /\ Len(old) = v - 1
    BY <1>1, <1>3, <2>1
  <2>3. PICK new : new = Append(old, env)
    OBVIOUS
  <2>4. /\ Len(new) = v /\ DOMAIN new = 1..v /\ DOMAIN old = 1..(v - 1)
        /\ new[v] = env /\ \A i \in 1..(v - 1) : new[i] = old[i]
    BY <1>1, <1>2, <2>2, <2>3
  <2> QED
    BY <1>6, <2>1, <2>3, <2>4
<1>8. \A r \in Sessions : \A i \in DOMAIN timeline[r] :
        i \in DOMAIN timeline'[r] /\ timeline'[r][i] = timeline[r][i]
  <2> TAKE r \in Sessions
  <2> TAKE i \in DOMAIN timeline[r]
  <2>1. CASE r = s
    <3>1. i \in 1..(v - 1)
      BY <1>7, <2>1
    <3>2. i \in 1..v
      BY <1>1, <3>1
    <3> QED
      BY <1>7, <2>1, <3>1, <3>2
  <2>2. CASE r # s
    BY <1>6, <2>2
  <2> QED
    BY <2>1, <2>2
<1>9. outbox' = outbox /\ aggregate' = aggregate /\ \A r : OfSession(r)' = OfSession(r)
  BY DEF outboxVars, OfSession, Committed
<1>10. TimelineMatchesLog'
  <2> SUFFICES ASSUME NEW r \in Sessions, NEW i \in DOMAIN timeline'[r],
                      NEW f, f = timeline'[r][i].id
               PROVE  /\ f \in OfSession(r) /\ outbox[f].version = i
                      /\ timeline'[r][i] = ClaimedEnvelope(f)
    BY SMTT(60), <1>9 DEF TimelineMatchesLog, ClaimedEnvelope
  <2>1. CASE r = s /\ i = v
    BY <1>2, <1>7, <2>1 DEF OfSession, env
  <2>2. CASE ~(r = s /\ i = v)
    <3>1. i \in DOMAIN timeline[r] /\ timeline'[r][i] = timeline[r][i]
      <4>1. CASE r # s
        BY <1>6, <4>1
      <4>2. CASE r = s
        <5>1. i \in 1..(v - 1)
          BY <1>1, <1>7, <2>2, <4>2
        <5> QED
          BY <1>7, <4>2, <5>1
      <4> QED
        BY <4>1, <4>2
    <3> QED
      BY <3>1 DEF RelayInv, TimelineMatchesLog
  <2> QED
    BY <2>1, <2>2
<1>11. OneReplay'
  <2> SUFFICES ASSUME NEW r \in Sessions
               PROVE  \E path \in [0..aggregate[r].version -> AggregateState] : IsReplay(path, r)'
    BY <1>9 DEF OneReplay
  <2>1. PICK path \in [0..aggregate[r].version -> AggregateState] : IsReplay(path, r)
    BY DEF RelayInv, OneReplay
  <2>2. path[Len(timeline'[r])] = projected'[r]
    <3>1. CASE r # s
      BY SMTT(60), <1>6, <2>1, <3>1 DEF IsReplay
    <3>2. CASE r = s
      <4>1. path[v] = Reduce(path[v - 1], outbox[e].event, v)
        BY <2>1, <3>2 DEF IsReplay, OfSession
      <4>2. path[v - 1] = projected[s]
        <5>1. v - 1 = Len(timeline[s])
          BY <1>1, <1>3
        <5> QED
          BY <2>1, <3>2, <5>1 DEF IsReplay
      <4> QED
        BY <1>6, <1>7, <3>2, <4>1, <4>2 DEF next
    <3> QED
      BY <3>1, <3>2
  <2>3. IsReplay(path, r)'
    BY SMTT(60), <1>9, <2>1, <2>2 DEF IsReplay
  <2> QED
    BY <2>1, <2>3
<1>12. ProjectionFollowsTimeline'
  <2> SUFFICES ASSUME NEW r \in Sessions
               PROVE  /\ projected'[r].version = Len(timeline'[r])
                      /\ timeline'[r] # <<>> => Consistent(projected'[r])
    BY SMTT(60) DEF ProjectionFollowsTimeline
  <2> QED
    BY <1>3, <1>4, <1>6, <1>7 DEF RelayInv, ProjectionFollowsTimeline
<1>13. ASSUME NEW r \in Sessions, Terminal(projected[r])
       PROVE  Terminal(projected'[r])
  BY <1>1, <1>3, <1>6, <1>13, TerminalStays DEF next
<1> QED
  BY <1>5, <1>8, <1>10, <1>11, <1>12, <1>13

(* The effect of a consumer on timeline and runs, in one place.            *)
LEMMA ConsumeEffect ==
  ASSUME RelayInv, NEW r \in Relays, NEW e \in Committed, NEW outcome,
         ConsumeEnvelope(r, ClaimedEnvelope(e), outcome)
  PROVE  LET s == outbox[e].session
             v == outbox[e].version
             evidence == /\ outbox[e].event.type = "session.completed"
                         /\ v \in DOMAIN timeline'[s]
                         /\ timeline'[s][v] = ClaimedEnvelope(e)
         IN  /\ Appended(e) \/ UNCHANGED timelineVars
             /\ \/ UNCHANGED runs
                \/ /\ runs[s] = NoId /\ runs' = [runs EXCEPT ![s] = e]
                   /\ evidence /\ projected'[s].status = "completed"
             /\ outcome = "succeeded" =>
                  /\ v \in DOMAIN timeline'[s]
                  /\ timeline'[s][v] = ClaimedEnvelope(e)
                  /\ outbox[e].event.type = "session.completed" => runs'[s] = e
<1> DEFINE s == outbox[e].session
           v == outbox[e].version
           env == ClaimedEnvelope(e)
<1>1. env.id = e /\ env.session = s /\ env.event = outbox[e].event
      /\ s \in Sessions /\ e \in EventIds
      /\ runs \in [Sessions -> EventIds \cup {NoId}]
  BY EnvelopeFields DEF RelayInv, CommittedRecords, Committed, RelayTypeOK
<1> HIDE DEF env
<1>2. CASE outcome = "terminal" /\ UNCHANGED <<timelineVars, runs>>
  BY <1>2
<1>3. CASE AppendCanonicalEvent(env) /\ AppendOutcome(env) \notin {"appended", "recorded"}
           /\ outcome # "succeeded" /\ UNCHANGED runs
  BY <1>3, AppendEffect DEF env
<1>4. CASE /\ AppendCanonicalEvent(env) /\ AppendOutcome(env) \in {"appended", "recorded"}
           /\ IF env.event.type = "session.completed"
                THEN EnqueueSessionCompletion(env.session, env.id, outcome)
                ELSE outcome = "succeeded" /\ UNCHANGED runs
  <2>1. /\ Appended(e) \/ UNCHANGED timelineVars
        /\ v \in DOMAIN timeline'[s] /\ timeline'[s][v] = env
    BY <1>4, AppendEffect DEF env
  <2>2. CASE env.event.type # "session.completed"
    BY <1>1, <1>4, <2>1, <2>2 DEF env
  <2>3. CASE env.event.type = "session.completed"
    <3>1. EnqueueSessionCompletion(s, e, outcome)
      BY <1>1, <1>4, <2>3
    <3>2. \/ runs[s] = e /\ UNCHANGED runs
          \/ /\ runs[s] = NoId /\ projected'[s].status = "completed"
             /\ runs' = [runs EXCEPT ![s] = e]
          \/ outcome # "succeeded" /\ UNCHANGED runs
      BY <3>1 DEF EnqueueSessionCompletion, CompletionEvidence
    <3> QED
      BY <1>1, <2>1, <2>3, <3>2 DEF env
  <2> QED
    BY <2>2, <2>3
<1> QED
  BY <1>2, <1>3, <1>4 DEF ConsumeEnvelope, env

(* Handing an envelope to the consumer keeps the repositories in agreement.*)
LEMMA ConsumeKeeps ==
  ASSUME RelayInv, NEW r \in Relays, Consume(r)
  PROVE  RelayInv'
<1> DEFINE e == relay[r].event
           s == outbox[e].session
           v == outbox[e].version
<1>1. /\ e \in Committed /\ e \in EventIds /\ s \in Sessions /\ UNCHANGED outboxVars
      /\ e # NoId
  BY RelayAssumption DEF Consume, RelayInv, RelaysAreHonest, CommittedRecords, Committed,
     outboxVars
<1>2. PICK outcome \in Outcomes \ {"none"} :
        /\ ConsumeEnvelope(r, ClaimedEnvelope(e), outcome)
        /\ relay' = [relay EXCEPT ![r].pc = "consumed", ![r].outcome = outcome]
  BY DEF Consume
<1>3. /\ Appended(e) \/ UNCHANGED timelineVars
      /\ \/ UNCHANGED runs
         \/ /\ runs[s] = NoId /\ runs' = [runs EXCEPT ![s] = e]
            /\ outbox[e].event.type = "session.completed"
            /\ v \in DOMAIN timeline'[s] /\ timeline'[s][v] = ClaimedEnvelope(e)
            /\ projected'[s].status = "completed"
      /\ outcome = "succeeded" =>
           /\ v \in DOMAIN timeline'[s] /\ timeline'[s][v] = ClaimedEnvelope(e)
           /\ outbox[e].event.type = "session.completed" => runs'[s] = e
  BY SMTT(60), <1>1, <1>2, ConsumeEffect
<1>4. /\ outbox' = outbox /\ aggregate' = aggregate /\ delivery' = delivery
      /\ usedTokens' = usedTokens /\ Committed' = Committed
      /\ \A f : ClaimedEnvelope(f)' = ClaimedEnvelope(f)
  BY <1>1 DEF outboxVars, Committed, ClaimedEnvelope
<1>5. OutboxInv'
  BY <1>1, InvStep DEF RelayInv
<1>6. CommittedRecords'
  BY SMTT(60), <1>4 DEF RelayInv, CommittedRecords
<1>7. /\ TimelineMatchesLog' /\ OneReplay' /\ ProjectionFollowsTimeline'
      /\ \A q \in Sessions : Terminal(projected[q]) => Terminal(projected'[q])
      /\ \A q \in Sessions : \A i \in DOMAIN timeline[q] :
           i \in DOMAIN timeline'[q] /\ timeline'[q][i] = timeline[q][i]
      /\ timeline' \in [Sessions -> Seq(Envelope)]
      /\ projected' \in [Sessions -> AggregateState]
  <2>1. CASE Appended(e)
    BY <1>1, <2>1, AppendKeeps
  <2>2. CASE UNCHANGED timelineVars
    <3>1. timeline' = timeline /\ projected' = projected
      BY <2>2 DEF timelineVars
    <3>2. \A q : OfSession(q)' = OfSession(q)
      BY <1>4 DEF OfSession
    <3>3. TimelineMatchesLog'
      BY <1>4, <3>1, <3>2 DEF RelayInv, TimelineMatchesLog
    <3>4. OneReplay'
      BY SMTT(60), <1>4, <3>1, <3>2 DEF RelayInv, OneReplay, IsReplay
    <3> QED
      BY <3>1, <3>3, <3>4 DEF RelayInv, ProjectionFollowsTimeline, RelayTypeOK
  <2> QED
    BY <1>3, <2>1, <2>2
<1>8. \A q \in Sessions : runs[q] # NoId => runs'[q] = runs[q]
  BY <1>1, <1>3 DEF RelayInv, RelayTypeOK
<1>9. ASSUME NEW f \in Committed, TookEffect(f)
      PROVE  TookEffect(f)'
  <2>1. outbox[f].session \in Sessions /\ f # NoId
    BY RelayAssumption DEF RelayInv, CommittedRecords, Committed
  <2> QED
    BY <1>4, <1>7, <1>8, <1>9, <2>1 DEF TookEffect
<1>10. PublishedIsApplied'
  BY <1>4, <1>9 DEF RelayInv, PublishedIsApplied, TookEffect
<1>11. RelaysAreHonest'
  <2> SUFFICES ASSUME NEW q \in Relays
               PROVE  /\ relay'[q].pc # "idle" => relay'[q].event \in Committed
                      /\ relay'[q].pc = "consumed" /\ relay'[q].outcome = "succeeded" =>
                           TookEffect(relay[q].event)'
    BY <1>4 DEF RelaysAreHonest
  <2>1. CASE q = r
    <3>1. relay'[r].event = e /\ relay'[r].outcome = outcome /\ relay'[r].pc = "consumed"
      BY SMTT(60), <1>2 DEF RelayInv, RelayTypeOK, RelayState
    <3>2. outcome = "succeeded" => TookEffect(relay[r].event)'
      BY <1>3, <1>4, <3>1 DEF TookEffect
    <3> QED
      BY <1>1, <2>1, <3>1, <3>2
  <2>2. CASE q # r
    <3>1. relay'[q] = relay[q]
      BY <1>2, <2>2 DEF RelayInv, RelayTypeOK
    <3> QED
      BY <1>9, <3>1 DEF RelayInv, RelaysAreHonest
  <2> QED
    BY <2>1, <2>2
<1>12. RunFollowsCompletion'
  <2> SUFFICES ASSUME NEW q \in Sessions, runs'[q] # NoId
               PROVE  /\ Terminal(projected'[q])
                      /\ \E i \in DOMAIN timeline'[q] :
                           /\ timeline'[q][i].id = runs'[q]
                           /\ timeline'[q][i].event.type = "session.completed"
    BY DEF RunFollowsCompletion
  <2>1. CASE runs[q] # NoId
    BY SMTT(60), <1>7, <1>8, <2>1 DEF RelayInv, RunFollowsCompletion
  <2>2. CASE runs[q] = NoId
    <3>1. q = s /\ runs'[q] = e
      BY SMTT(60), <1>1, <1>3, <2>2 DEF RelayInv, RelayTypeOK
    <3>2. /\ outbox[e].event.type = "session.completed"
          /\ v \in DOMAIN timeline'[s] /\ timeline'[s][v] = ClaimedEnvelope(e)
          /\ projected'[s].status = "completed"
      BY <1>3, <2>2, <3>1
    <3>3. ClaimedEnvelope(e).id = e /\ ClaimedEnvelope(e).event = outbox[e].event
      BY EnvelopeFields
    <3> QED
      BY ZenonT(60), <3>1, <3>2, <3>3 DEF Terminal
  <2> QED
    BY <2>1, <2>2
<1>13. RelayTypeOK'
  <2>1. runs' \in [Sessions -> EventIds \cup {NoId}]
    BY <1>1, <1>3 DEF RelayInv, RelayTypeOK
  <2>2. relay' \in [Relays -> RelayState]
    BY ZenonT(60), <1>2 DEF RelayInv, RelayTypeOK, RelayState
  <2> QED
    BY SMTT(60), <1>5, <1>7, <2>1, <2>2 DEF RelayTypeOK, OutboxInv
<1> QED
  BY <1>5, <1>6, <1>7, <1>10, <1>11, <1>12, <1>13 DEF RelayInv

-------------------------------------------------------------------------------
(* A claim takes a committed record, and a report is made under it.        *)
LEMMA ClaimKeeps ==
  ASSUME RelayInv, NEW r \in Relays, Claim(r)
  PROVE  RelayInv'
<1>1. PICK e \in EventIds :
        \/ \E t \in Tokens :
             /\ ClaimDelivery(e, t, MaxAttempts[r])
             /\ relay' = [relay EXCEPT ![r] = [pc |-> "claimed", event |-> e, token |-> t,
                                               outcome |-> "none"]]
        \/ ExhaustDelivery(e, MaxAttempts[r]) /\ UNCHANGED relay
  BY DEF Claim
<1>2. MaxAttempts[r] \in Budgets
  BY RelayAssumption
<1>3. UNCHANGED <<timelineVars, runs>> /\ OutboxInv
  BY DEF Claim, RelayInv
<1>4. CASE \E t \in Tokens :
             /\ ClaimDelivery(e, t, MaxAttempts[r])
             /\ relay' = [relay EXCEPT ![r] = [pc |-> "claimed", event |-> e, token |-> t,
                                               outcome |-> "none"]]
  <2>1. PICK t \in Tokens :
             /\ ClaimDelivery(e, t, MaxAttempts[r])
             /\ relay' = [relay EXCEPT ![r] = [pc |-> "claimed", event |-> e, token |-> t,
                                               outcome |-> "none"]]
    BY <1>4
  <2>2. ClaimStep /\ PublishesOnly({})
    BY <1>3, <2>1, ClaimStepOf
  <2>3. OutboxInv'
    BY <1>2, <1>3, <2>1, InvStep DEF OutboxNext
  <2>4. e \in Committed
    BY <2>1 DEF ClaimDelivery, NextDelivery, Claimable, IsDeliveryCandidate, Committed
  <2>5. RelayTypeOK'
    BY <1>3, <2>1, <2>3 DEF RelayInv, RelayTypeOK, RelayState, Outcomes, OutboxInv, timelineVars
  <2>6. \A q \in Relays : \/ relay'[q] = relay[q]
                          \/ relay'[q].pc = "claimed" /\ relay'[q].event \in Committed
    BY <2>1, <2>4 DEF RelayInv, RelayTypeOK
  <2> QED
    BY <1>3, <2>2, <2>3, <2>5, <2>6, RepositoryStepKeeps
<1>5. CASE ExhaustDelivery(e, MaxAttempts[r]) /\ UNCHANGED relay
  <2>1. ClaimStep /\ PublishesOnly({})
    BY <1>3, <1>5, ClaimStepOf
  <2>2. OutboxInv'
    BY <1>2, <1>3, <1>5, InvStep DEF OutboxNext
  <2>3. RelayTypeOK'
    BY <1>3, <1>5, <2>2 DEF RelayInv, RelayTypeOK, OutboxInv, timelineVars
  <2> QED
    BY <1>3, <1>5, <2>1, <2>2, <2>3, RepositoryStepKeeps
<1> QED
  BY <1>1, <1>4, <1>5

(* A relay acknowledges only what took effect.                             *)
LEMMA CompleteKeeps ==
  ASSUME RelayInv, NEW r \in Relays, Complete(r)
  PROVE  RelayInv'
<1> DEFINE e == relay[r].event
           t == relay[r].token
<1>1. /\ UNCHANGED <<timelineVars, runs>> /\ OutboxInv
      /\ relay' = [relay EXCEPT ![r] = IdleRelay]
      /\ e \in Committed /\ e \in EventIds
  BY DEF Complete, RelayInv, RelaysAreHonest, Committed
<1>2. \A q \in Relays : relay'[q] = relay[q] \/ relay'[q] = IdleRelay
  BY <1>1 DEF RelayInv, RelayTypeOK
<1>3. relay' \in [Relays -> RelayState]
  BY <1>1 DEF RelayInv, RelayTypeOK, RelayState, IdleRelay, Outcomes
<1>4. HoldsClaim(e, t) => t \in Tokens
  BY <1>1, OutboxAssumption DEF HoldsClaim, OutboxInv, ClaimsAreFenced, OutboxTypeOK
<1>5. \/ relay[r].outcome = "succeeded" /\ AcknowledgeDelivery(e, t)
      \/ FailDelivery(e, t, relay[r].outcome = "retryable")
      \/ UNCHANGED outboxVars
  BY DEF Complete, Report
<1>6. CASE relay[r].outcome = "succeeded" /\ AcknowledgeDelivery(e, t)
  <2>1. ClaimStep /\ PublishesOnly({e})
    BY <1>1, <1>6, ClaimStepOf
  <2>2. OutboxInv'
    BY <1>1, <1>4, <1>6, InvStep DEF OutboxNext, AcknowledgeDelivery
  <2>3. TookEffect(e)
    BY <1>6 DEF Complete, RelayInv, RelaysAreHonest
  <2>4. RelayTypeOK'
    BY <1>1, <1>3, <2>2 DEF RelayInv, RelayTypeOK, OutboxInv, timelineVars
  <2> HIDE DEF e
  <2> QED
    BY <1>1, <1>2, <2>1, <2>2, <2>3, <2>4, RepositoryStepKeeps
<1>7. CASE FailDelivery(e, t, relay[r].outcome = "retryable")
  <2>1. ClaimStep /\ PublishesOnly({})
    BY <1>1, <1>7, ClaimStepOf
  <2>2. OutboxInv'
    <3>1. t \in Tokens
      BY <1>4, <1>7 DEF FailDelivery
    <3>2. \E retryable \in BOOLEAN : FailDelivery(e, t, retryable)
      BY <1>7
    <3> QED
      BY <1>1, <3>1, <3>2, InvStep DEF OutboxNext
  <2>3. RelayTypeOK'
    BY <1>1, <1>3, <2>2 DEF RelayInv, RelayTypeOK, OutboxInv, timelineVars
  <2> QED
    BY <1>1, <1>2, <2>1, <2>2, <2>3, RepositoryStepKeeps
<1>8. CASE UNCHANGED outboxVars
  <2>1. ClaimStep /\ PublishesOnly({})
    BY <1>1, <1>8, ClaimStepOf
  <2>2. OutboxInv'
    BY <1>1, <1>8, InvStep
  <2>3. RelayTypeOK'
    BY <1>1, <1>3, <2>2 DEF RelayInv, RelayTypeOK, OutboxInv, timelineVars
  <2> QED
    BY <1>1, <1>2, <2>1, <2>2, <2>3, RepositoryStepKeeps
<1> QED
  BY <1>5, <1>6, <1>7, <1>8

(* A relay that crashes, and a clock that advances, change nothing that    *)
(* the repositories agree on.                                              *)
LEMMA OthersKeep ==
  ASSUME RelayInv, (\E r \in Relays : Abandon(r)) \/ ClockTick \/ UNCHANGED relayVars
  PROVE  RelayInv'
<1>1. /\ UNCHANGED <<timelineVars, runs>> /\ OutboxInv
      /\ Tick \/ UNCHANGED outboxVars
      /\ UNCHANGED relay \/ \E r \in Relays : relay' = [relay EXCEPT ![r] = IdleRelay]
  BY DEF Abandon, ClockTick, relayVars, RelayInv, timelineVars, outboxVars
<1>2. /\ \A q \in Relays : relay'[q] = relay[q] \/ relay'[q] = IdleRelay
      /\ relay' \in [Relays -> RelayState]
  <2>1. CASE UNCHANGED relay
    BY <2>1 DEF RelayInv, RelayTypeOK
  <2>2. ASSUME NEW r \in Relays, relay' = [relay EXCEPT ![r] = IdleRelay]
        PROVE  /\ \A q \in Relays : relay'[q] = relay[q] \/ relay'[q] = IdleRelay
               /\ relay' \in [Relays -> RelayState]
    BY <2>2 DEF RelayInv, RelayTypeOK, RelayState, IdleRelay, Outcomes
  <2> QED
    BY <1>1, <2>1, <2>2
<1>3. OutboxInv'
  BY <1>1, InvStep DEF OutboxNext
<1>4. ClaimStep /\ PublishesOnly({})
  BY <1>1 DEF Tick, outboxVars, ClaimStep, EnvelopesStay, Committed, PublishesOnly
<1>5. RelayTypeOK'
  BY <1>1, <1>2, <1>3 DEF RelayInv, RelayTypeOK, OutboxInv, timelineVars
<1> QED
  BY <1>1, <1>2, <1>3, <1>4, <1>5, RepositoryStepKeeps

LEMMA RelayInvStep ==
  ASSUME RelayInv, [RelayNext]_relayVars
  PROVE  RelayInv'
<1>1. CASE CommitEvents
  <2>1. OutboxInv'
    BY <1>1, InvStep DEF CommitEvents, OutboxNext, RelayInv
  <2>2. RelayTypeOK'
    BY <1>1, <2>1 DEF CommitEvents, RelayInv, RelayTypeOK, OutboxInv, timelineVars
  <2> QED
    BY <1>1, <2>1, <2>2, CommitKeeps DEF CommitEvents
<1> QED
  BY <1>1, ClaimKeeps, ConsumeKeeps, CompleteKeeps, OthersKeep DEF RelayNext

LEMMA RelayInvInit == RelayInit => RelayInv
<1> SUFFICES ASSUME RelayInit PROVE RelayInv
  OBVIOUS
<1>1. OutboxInv
  BY InvInit DEF RelayInit
<1>2. AbsentAggregate \in AggregateState /\ AbsentAggregate.version = 0
  BY <1>1 DEF AbsentAggregate, AggregateState, Statuses, Consents, Disclosures, Degradations
<1>3. Committed = {}
  BY DEF RelayInit, OutboxInit, Committed, AbsentRecord
<1>4. \A s \in Sessions : /\ timeline[s] = <<>> /\ projected[s] = AbsentAggregate
                          /\ aggregate[s] = AbsentAggregate /\ runs[s] = NoId
                          /\ DOMAIN timeline[s] = {} /\ Len(timeline[s]) = 0
                          /\ OfSession(s) = {}
  BY <1>3 DEF RelayInit, OutboxInit, TimelineInit, OfSession
<1>5. RelayTypeOK
  BY <1>1, <1>2 DEF RelayInit, TimelineInit, RelayTypeOK, RelayState, IdleRelay, Outcomes, OutboxInv
<1>6. OneReplay
  <2> SUFFICES ASSUME NEW s \in Sessions
               PROVE  \E path \in [0..aggregate[s].version -> AggregateState] : IsReplay(path, s)
    BY DEF OneReplay
  <2> DEFINE path == [i \in 0..0 |-> AbsentAggregate]
  <2>1. path \in [0..aggregate[s].version -> AggregateState] /\ path[0] = AbsentAggregate
    BY <1>2, <1>4
  <2>2. IsReplay(path, s)
    BY <1>2, <1>4, <2>1 DEF IsReplay
  <2> QED
    BY <2>1, <2>2
<1>7. /\ CommittedRecords /\ TimelineMatchesLog /\ PublishedIsApplied
      /\ RunFollowsCompletion /\ ProjectionFollowsTimeline
  BY <1>2, <1>3, <1>4 DEF CommittedRecords, TimelineMatchesLog, PublishedIsApplied,
     RunFollowsCompletion, ProjectionFollowsTimeline
<1>8. RelaysAreHonest
  BY DEF RelayInit, IdleRelay, RelaysAreHonest
<1> QED
  BY <1>1, <1>5, <1>6, <1>7, <1>8 DEF RelayInv

(* The replay both states lie on makes a projection that caught up equal   *)
(* to the aggregate.                                                       *)
LEMMA ProjectionCatchesUp == RelayInv => ProjectionIsSound
<1> SUFFICES ASSUME RelayInv, NEW s \in Sessions
             PROVE  /\ projected[s].version = Len(timeline[s])
                    /\ Len(timeline[s]) <= aggregate[s].version
                    /\ timeline[s] # <<>> => Consistent(projected[s])
                    /\ Len(timeline[s]) = aggregate[s].version => projected[s] = aggregate[s]
  BY DEF ProjectionIsSound
<1>1. Len(timeline[s]) \in 0..aggregate[s].version
  BY TimelineBehindLog
<1>2. PICK path \in [0..aggregate[s].version -> AggregateState] : IsReplay(path, s)
  BY DEF RelayInv, OneReplay
<1> QED
  BY <1>1, <1>2 DEF IsReplay, RelayInv, ProjectionFollowsTimeline

LEMMA RelayInductive == RelaySpec => []RelayInv
  BY RelayInvInit, RelayInvStep, PTL DEF RelaySpec

(* Relays, timeline and runs stay well typed.                              *)
THEOREM RelayTypeCorrect == RelaySpec => []RelayTypeOK
  BY RelayInductive, PTL DEF RelayInv

(* Whatever crashes between the effect and its acknowledgement, and        *)
(* whichever claim expired or was taken over: what is published took       *)
(* effect, a post-call run has its completed session, and the projection   *)
(* is a sound state on the aggregate's own replay.                         *)
THEOREM RepositoriesAgreeAlways == RelaySpec => []RepositoriesAgree
<1>1. RelayInv => RepositoriesAgree
  BY ProjectionCatchesUp DEF RelayInv, RepositoriesAgree
<1> QED
  BY <1>1, RelayInductive, PTL

-------------------------------------------------------------------------------
(* The refinement.  Each version of a lane names one event, so the log of  *)
(* the abstract specification is well defined.                             *)
LEMMA LogNamesEvents ==
  ASSUME OutboxInv, NEW s \in Sessions
  PROVE  /\ \A v \in 1..aggregate[s].version :
              EventAt(s, v) \in OfSession(s) /\ outbox[EventAt(s, v)].version = v
         /\ \A e \in OfSession(s) : EventAt(s, outbox[e].version) = e
         /\ aggregate[s].version \in Nat
<1>1. ASSUME NEW v \in 1..aggregate[s].version
      PROVE  EventAt(s, v) \in OfSession(s) /\ outbox[EventAt(s, v)].version = v
  <2>1. \E e \in Committed : outbox[e].session = s /\ outbox[e].version = v
    BY DEF OutboxInv, RecordsMatchAggregate, OfSession
  <2> QED
    BY <2>1 DEF EventAt, OfSession
<1>2. ASSUME NEW e \in OfSession(s)
      PROVE  EventAt(s, outbox[e].version) = e
  <2>1. outbox[e].version \in 1..aggregate[s].version
    BY DEF OutboxInv, RecordsMatchAggregate
  <2>2. /\ EventAt(s, outbox[e].version) \in OfSession(s)
        /\ outbox[EventAt(s, outbox[e].version)].version = outbox[e].version
    BY <1>1, <2>1
  <2> QED
    BY <2>2 DEF OutboxInv, RecordsMatchAggregate
<1>3. aggregate[s].version \in Nat
  BY DEF OutboxInv, OutboxTypeOK, AggregateState
<1> QED
  BY <1>1, <1>2, <1>3

(* The three variables of the abstract specification.                      *)
AbstractLog       == [s \in Sessions |-> LogOf(s)]
AbstractDelivered == [s \in Sessions |-> DeliveredTo(s)]
AbstractSettled   == [s \in Sessions |-> Cardinality(PublishedOf(s))]

(* A step that leaves envelopes and aggregates alone leaves the log.       *)
LEMMA ClaimStepKeepsLog ==
  ASSUME OutboxInv, ClaimStep
  PROVE  AbstractLog' = AbstractLog
<1>1. ASSUME NEW s \in Sessions
      PROVE  LogOf(s)' = LogOf(s)
  <2>1. aggregate' = aggregate /\ OfSession(s)' = OfSession(s)
    BY DEF ClaimStep, EnvelopesStay, OfSession
  <2>2. ASSUME NEW v \in 1..aggregate[s].version
        PROVE  EventAt(s, v)' = EventAt(s, v)
    <3>1. PICK e \in OfSession(s) : outbox[e].version = v
      BY DEF OutboxInv, RecordsMatchAggregate
    <3>2. outbox'[e].version = v
      BY <3>1 DEF ClaimStep, EnvelopesStay, OfSession
    <3>3. EventAt(s, v) = e
      BY <3>1, LogNamesEvents
    <3>4. EventAt(s, v)' = e
      <4>1. PICK f : f = EventAt(s, v)'
        OBVIOUS
      <4>2. /\ f \in Committed /\ outbox'[f].session = s /\ outbox'[f].version = v
        BY <3>1, <3>2, <4>1 DEF EventAt, ClaimStep, EnvelopesStay, OfSession
      <4>3. f \in OfSession(s) /\ outbox[f].version = v
        BY <4>2 DEF ClaimStep, EnvelopesStay, OfSession
      <4> QED
        BY <3>1, <4>1, <4>3 DEF OutboxInv, RecordsMatchAggregate
    <3> QED
      BY <3>3, <3>4
  <2> QED
    BY <2>1, <2>2 DEF LogOf
<1> QED
  BY <1>1 DEF AbstractLog

(* The same after a step.                                                  *)
LEMMA NextLogNamesEvents ==
  ASSUME RecordsMatchAggregate', NEW s \in Sessions, NEW v, NEW e \in Committed',
         outbox'[e].session = s, outbox'[e].version = v
  PROVE  EventAt(s, v)' = e
<1>1. PICK f : f = EventAt(s, v)'
  OBVIOUS
<1>2. f \in Committed' /\ outbox'[f].session = s /\ outbox'[f].version = v
  BY <1>1 DEF EventAt
<1>3. f \in OfSession(s)' /\ e \in OfSession(s)'
  BY <1>2 DEF OfSession
<1> QED
  BY <1>1, <1>2, <1>3 DEF RecordsMatchAggregate

(* What is logged is committed.                                            *)
LEMMA LoggedIsCommitted ==
  ASSUME OutboxInv
  PROVE  Abstract!Logged \subseteq Committed
<1> SUFFICES ASSUME NEW s \in Sessions, NEW i \in DOMAIN LogOf(s)
             PROVE  LogOf(s)[i] \in Committed
  BY DEF Abstract!Logged
<1>1. i \in 1..aggregate[s].version /\ LogOf(s)[i] = EventAt(s, i)
  BY DEF LogOf
<1> QED
  BY <1>1, LogNamesEvents DEF OfSession

(* A function on 1..m is a sequence of length m.                           *)
LEMMA FunctionIsSequence ==
  ASSUME NEW S, NEW m \in Nat, NEW f \in [1..m -> S]
  PROVE  f \in Seq(S) /\ Len(f) = m
OBVIOUS

(* Appending a block of n elements, position by position.                  *)
LEMMA AppendedBlock ==
  ASSUME NEW a \in Seq(EventIds), NEW n \in Nat, NEW b \in [1..n -> EventIds],
         NEW c \in [1..(Len(a) + n) -> EventIds], \A i \in 1..Len(a) : c[i] = a[i],
         \A i \in 1..n : c[Len(a) + i] = b[i]
  PROVE  c = a \o b
<1>1. b \in Seq(EventIds) /\ Len(b) = n
  OBVIOUS
<1>2. c \in Seq(EventIds) /\ Len(c) = Len(a) + n
  <2>1. PICK m \in Nat : m = Len(a) + n
    OBVIOUS
  <2> QED
    BY <2>1, FunctionIsSequence
<1>3. a \o b \in Seq(EventIds) /\ Len(a \o b) = Len(a) + n
  BY <1>1, ConcatProperties
<1>4. ASSUME NEW i \in 1..Len(c)
      PROVE  c[i] = (a \o b)[i]
  <2>1. CASE i <= Len(a)
    <3>1. i \in 1..Len(a)
      BY <2>1
    <3> QED
      BY <1>1, <3>1
  <2>2. CASE i > Len(a)
    <3>1. i - Len(a) \in 1..n /\ Len(a) + (i - Len(a)) = i
      BY <1>2, <2>2
    <3>2. c[i] = b[i - Len(a)]
      BY <3>1
    <3> QED
      BY <1>1, <1>2, <2>2, <3>2
  <2> QED
    BY <2>1, <2>2
<1> QED
  BY <1>2, <1>3, <1>4, SeqEqual

(* A commit appends one batch of new events to one log.                    *)
LEMMA CommitRefines ==
  ASSUME RelayInv, RelayInv', CommitEvents
  PROVE  \E s \in Sessions : Abstract!Commit(s)
<1>1. PICK s \in Sessions, n \in 1..MaxBatch, new \in SUBSET EventIds :
        \E pos \in [new -> 1..n], q \in [0..n -> AggregateState] :
          BatchReplayed(s, n, new, pos, q)
  BY CommitReplays DEF RelayInv, OutboxInv, CommitEvents
<1>2. PICK pos \in [new -> 1..n], q \in [0..n -> AggregateState] :
        BatchReplayed(s, n, new, pos, q)
  BY <1>1
<1>3. PICK v : v = aggregate[s].version
  OBVIOUS
<1>4. /\ new \cap Committed = {}
      /\ aggregate'[s].version = v + n
      /\ \A r \in Sessions \ {s} : aggregate'[r] = aggregate[r]
      /\ \A e \in EventIds \ new : outbox'[e] = outbox[e]
      /\ n \in Nat /\ n >= 1 /\ v \in Nat
      /\ \A i \in 1..n : \E e \in new : pos[e] = i
  BY <1>2, <1>3, OutboxAssumption, LogNamesEvents
     DEF BatchReplayed, BatchCommitted, RelayInv, OutboxInv, OutboxTypeOK
<1>5. \A e \in new : /\ outbox'[e].status = "pending" /\ outbox'[e].session = s
                     /\ outbox'[e].version = v + pos[e]
  BY <1>2, <1>3 DEF BatchReplayed
<1>6. Committed' = Committed \cup new
  BY <1>4, <1>5 DEF Committed
<1> DEFINE batch == [i \in 1..n |-> CHOOSE e \in new : pos[e] = i]
<1>7. \A i \in 1..n : batch[i] \in new /\ pos[batch[i]] = i
  BY <1>4
<1>8. batch \in [1..n -> EventIds \ Abstract!Logged]
  BY <1>4, <1>7, LoggedIsCommitted DEF RelayInv
<1>9. \A i, j \in 1..n : batch[i] = batch[j] => i = j
  BY <1>7
<1>10. ASSUME NEW r \in Sessions, NEW i \in 1..aggregate[r].version
       PROVE  EventAt(r, i)' = EventAt(r, i)
  <2>1. /\ EventAt(r, i) \in Committed /\ outbox[EventAt(r, i)].session = r
        /\ outbox[EventAt(r, i)].version = i
    BY LogNamesEvents DEF RelayInv, OfSession
  <2>2. PICK e : e = EventAt(r, i)
    OBVIOUS
  <2>3. e \in Committed' /\ outbox'[e].session = r /\ outbox'[e].version = i
    BY <1>4, <1>6, <2>1, <2>2 DEF Committed
  <2> QED
    BY <2>2, <2>3, NextLogNamesEvents DEF RelayInv, OutboxInv
<1>11. ASSUME NEW i \in 1..n
       PROVE  EventAt(s, v + i)' = batch[i]
  <2>1. PICK e : e = batch[i]
    OBVIOUS
  <2>2. e \in Committed' /\ outbox'[e].session = s /\ outbox'[e].version = v + i
    BY <1>5, <1>6, <1>7, <2>1
  <2> QED
    BY <2>1, <2>2, NextLogNamesEvents DEF RelayInv, OutboxInv
<1> HIDE DEF batch
<1>12. \A r \in Sessions \ {s} : LogOf(r)' = LogOf(r)
  BY <1>4, <1>10 DEF LogOf
<1>13. LogOf(s)' = LogOf(s) \o batch
  <2>1. /\ LogOf(s) \in Seq(EventIds) /\ Len(LogOf(s)) = v
        /\ \A i \in 1..v : LogOf(s)[i] = EventAt(s, i)
    <3>1. \A i \in 1..v : EventAt(s, i) \in EventIds
      BY <1>3, LogNamesEvents DEF RelayInv, OfSession, Committed
    <3>2. LogOf(s) = [i \in 1..v |-> EventAt(s, i)]
      BY <1>3 DEF LogOf
    <3>3. PICK l : l = LogOf(s)
      OBVIOUS
    <3>4. l \in [1..v -> EventIds] /\ \A i \in 1..v : l[i] = EventAt(s, i)
      BY <3>1, <3>2, <3>3
    <3>5. l \in Seq(EventIds) /\ Len(l) = v
      BY SMTT(60), <1>4, <3>4
    <3> QED
      BY <3>3, <3>4, <3>5
  <2>2. batch \in [1..n -> EventIds]
    BY <1>8
  <2>3. PICK c : c = LogOf(s)'
    OBVIOUS
  <2>4. /\ DOMAIN c = 1..(v + n)
        /\ c = [i \in 1..(v + n) |-> c[i]]
        /\ \A i \in 1..(v + n) : c[i] = EventAt(s, i)'
    BY <1>4, <2>3 DEF LogOf
  <2>5. \A i \in 1..v : c[i] = LogOf(s)[i]
    <3>1. \A i \in 1..v : i \in 1..(v + n)
      BY <1>4
    <3>2. \A i \in 1..v : EventAt(s, i)' = EventAt(s, i)
      BY <1>3, <1>10
    <3> QED
      BY <2>1, <2>4, <3>1, <3>2
  <2>6. \A i \in 1..n : c[v + i] = batch[i]
    <3>1. \A i \in 1..n : v + i \in 1..(v + n)
      BY <1>4
    <3> QED
      BY <1>11, <2>4, <3>1
  <2>7. c \in [1..(v + n) -> EventIds]
    <3> SUFFICES ASSUME NEW i \in 1..(v + n)
                 PROVE  c[i] \in EventIds
      BY <2>4
    <3>1. CASE i <= v
      <4>1. i \in 1..v
        BY <1>4, <3>1
      <4> QED
        BY <2>1, <2>5, <4>1
    <3>2. CASE i > v
      <4>1. i - v \in 1..n /\ v + (i - v) = i
        BY <1>4, <3>2
      <4>2. c[i] = batch[i - v]
        BY <2>6, <4>1
      <4> QED
        BY <2>2, <4>1, <4>2
    <3> QED
      BY <1>4, <3>1, <3>2
  <2>8. PICK a : a = LogOf(s)
    OBVIOUS
  <2>9. a \in Seq(EventIds) /\ Len(a) = v /\ n \in Nat
    BY <1>4, <2>1, <2>8
  <2>10. /\ c \in [1..(Len(a) + n) -> EventIds]
         /\ \A i \in 1..Len(a) : c[i] = a[i]
         /\ \A i \in 1..n : c[Len(a) + i] = batch[i]
    BY <2>5, <2>6, <2>7, <2>8, <2>9
  <2>11. c = a \o batch
    BY ONLY <2>2, <2>9, <2>10, AppendedBlock
  <2> QED
    BY <2>3, <2>8, <2>11
<1>14. AbstractLog' = [AbstractLog EXCEPT ![s] = LogOf(s) \o batch]
  BY <1>12, <1>13 DEF AbstractLog
<1>15. AbstractDelivered' = AbstractDelivered
  BY DEF CommitEvents, timelineVars, AbstractDelivered, DeliveredTo
<1>16. AbstractSettled' = AbstractSettled
  <2>1. \A r \in Sessions : PublishedOf(r)' = PublishedOf(r)
    BY <1>4, <1>5, <1>6 DEF PublishedOf, Committed
  <2> QED
    BY <2>1 DEF AbstractSettled
<1>17. Abstract!Commit(s)
  BY <1>8, <1>9, <1>14, <1>15, <1>16
     DEF Abstract!Commit, AbstractLog, AbstractDelivered, AbstractSettled
<1> QED
  BY <1>17

(* The consumer applies the event after the last one it applied, or an     *)
(* event it knows, or none.                                                *)
LEMMA ConsumeRefines ==
  ASSUME RelayInv, RelayInv', NEW r \in Relays, Consume(r)
  PROVE  (\E s \in Sessions : Abstract!Deliver(s)) \/ UNCHANGED Abstract!vars
<1>1. PICK e : e = relay[r].event
  OBVIOUS
<1>2. e \in Committed /\ UNCHANGED outboxVars
  BY <1>1 DEF Consume, RelayInv, RelaysAreHonest
<1>3. Appended(e) \/ UNCHANGED timelineVars
  <2>1. PICK outcome \in Outcomes \ {"none"} : ConsumeEnvelope(r, ClaimedEnvelope(e), outcome)
    BY <1>1 DEF Consume
  <2> QED
    BY <1>2, <2>1, ConsumeEffect
<1>4. AbstractLog' = AbstractLog /\ AbstractSettled' = AbstractSettled
  <2>1. outbox' = outbox /\ aggregate' = aggregate
    BY <1>2 DEF outboxVars
  <2> QED
    BY <2>1 DEF AbstractLog, LogOf, EventAt, AbstractSettled, PublishedOf, Committed
<1>5. CASE UNCHANGED timelineVars
  <2>1. AbstractDelivered' = AbstractDelivered
    BY <1>5 DEF timelineVars, AbstractDelivered, DeliveredTo
  <2> QED
    BY <1>4, <2>1 DEF Abstract!vars, AbstractLog, AbstractDelivered, AbstractSettled
<1>6. CASE Appended(e)
  <2>1. PICK s \in Sessions : s = outbox[e].session
    BY <1>2 DEF RelayInv, CommittedRecords
  <2>2. PICK v : v = outbox[e].version
    OBVIOUS
  <2>3. /\ timeline \in [Sessions -> Seq(Envelope)]
        /\ v = Len(timeline[s]) + 1
        /\ timeline' = [timeline EXCEPT ![s] = Append(@, ClaimedEnvelope(e))]
        /\ e \in OfSession(s) /\ e \in EventIds
    BY <1>2, <1>6, <2>1, <2>2 DEF Appended, RelayInv, RelayTypeOK, OfSession, Committed
  <2>4. /\ v \in 1..aggregate[s].version /\ EventAt(s, v) = e /\ aggregate[s].version \in Nat
    <3>1. OutboxInv /\ RecordsMatchAggregate
      BY DEF RelayInv, OutboxInv
    <3>2. outbox[e].version \in 1..aggregate[s].version
      BY <2>3, <3>1 DEF RecordsMatchAggregate
    <3>3. EventAt(s, outbox[e].version) = e /\ aggregate[s].version \in Nat
      BY <2>3, <3>1, LogNamesEvents
    <3> QED
      BY <2>2, <3>2, <3>3
  <2>5. PICK line : line = timeline[s]
    OBVIOUS
  <2>6. line \in Seq(Envelope) /\ v = Len(line) + 1
    BY <2>3, <2>5
  <2>7. PICK ids : ids = DeliveredTo(s)
    OBVIOUS
  <2>8. ids = [i \in 1..Len(line) |-> line[i].id]
    BY <2>5, <2>6, <2>7 DEF DeliveredTo
  <2>9. ids \in Seq(EventIds) /\ Len(ids) = Len(line)
    <3>1. \A i \in 1..Len(line) : line[i].id \in EventIds
      <4>1. \A i \in 1..Len(line) : line[i] \in Envelope
        BY <2>6, ElementOfSeq
      <4> QED
        BY <4>1 DEF Envelope
    <3> QED
      BY <2>6, <2>8, <3>1
  <2>10. timeline'[s] = Append(line, ClaimedEnvelope(e))
    BY <2>3, <2>5
  <2>11. DeliveredTo(s)' = Append(ids, e)
    <3>1. PICK env : env = ClaimedEnvelope(e)
      OBVIOUS
    <3>2. env \in Envelope /\ env.id = e
      <4>1. timeline' \in [Sessions -> Seq(Envelope)] /\ Len(Append(line, env)) = v
            /\ Append(line, env)[v] = env
        BY <2>6 DEF RelayInv, RelayTypeOK
      <4>2. Append(line, env) \in Seq(Envelope)
        BY <2>10, <3>1, <4>1
      <4> QED
        BY <2>6, <3>1, <4>1, <4>2, EnvelopeFields
    <3>3. PICK longer : longer = DeliveredTo(s)'
      OBVIOUS
    <3>4. longer = [i \in DOMAIN Append(line, env) |-> Append(line, env)[i].id]
      BY <2>10, <3>1, <3>3 DEF DeliveredTo
    <3>5. /\ DOMAIN Append(line, env) = 1..(Len(line) + 1)
          /\ \A i \in 1..(Len(line) + 1) :
               Append(line, env)[i] = IF i = Len(line) + 1 THEN env ELSE line[i]
      BY <2>6, <3>2
    <3>6. longer \in Seq(EventIds) /\ Len(longer) = Len(line) + 1
      <4>1. \A i \in 1..(Len(line) + 1) : Append(line, env)[i] \in Envelope
        BY <2>6, <3>2, ElementOfSeq
      <4>2. \A i \in 1..(Len(line) + 1) : Append(line, env)[i].id \in EventIds
        BY <4>1 DEF Envelope
      <4> QED
        BY <2>6, <3>4, <3>5, <4>2
    <3>7. \A i \in 1..(Len(line) + 1) : longer[i] = Append(ids, e)[i]
      BY <2>3, <2>6, <2>8, <2>9, <3>2, <3>4, <3>5
    <3>8. Append(ids, e) \in Seq(EventIds) /\ Len(Append(ids, e)) = Len(line) + 1
      BY <2>3, <2>9
    <3> QED
      BY <3>3, <3>6, <3>7, <3>8, SeqEqual
  <2>12. \A q \in Sessions \ {s} : DeliveredTo(q)' = DeliveredTo(q)
    BY <2>3 DEF DeliveredTo
  <2>13. LogOf(s)[v] = e /\ Len(LogOf(s)) = aggregate[s].version /\ v = Len(ids) + 1
    BY <2>4, <2>6, <2>9 DEF LogOf
  <2>14. AbstractDelivered' = [AbstractDelivered EXCEPT ![s] = Append(ids, e)]
    BY <2>11, <2>12 DEF AbstractDelivered
  <2>15. /\ Len(AbstractDelivered[s]) < Len(AbstractLog[s])
         /\ AbstractDelivered' = [AbstractDelivered EXCEPT
              ![s] = Append(@, AbstractLog[s][Len(@) + 1])]
    <3>1. AbstractDelivered[s] = ids /\ AbstractLog[s] = LogOf(s)
      BY <2>7 DEF AbstractDelivered, AbstractLog
    <3>2. Len(ids) < Len(LogOf(s)) /\ LogOf(s)[Len(ids) + 1] = e
      BY <2>4, <2>9, <2>13
    <3> QED
      BY <2>14, <3>1, <3>2
  <2>16. Abstract!Deliver(s)
    BY <1>4, <2>15 DEF Abstract!Deliver, AbstractLog, AbstractDelivered, AbstractSettled
  <2> QED
    BY <2>16
<1> QED
  BY <1>3, <1>5, <1>6

(* A step of the claim protocol that publishes nothing is invisible.       *)
LEMMA ClaimStepStutters ==
  ASSUME RelayInv, ClaimStep, PublishesOnly({}), SettledRecordsStay, UNCHANGED timelineVars
  PROVE  UNCHANGED Abstract!vars
<1>1. AbstractLog' = AbstractLog
  BY ClaimStepKeepsLog DEF RelayInv
<1>2. AbstractDelivered' = AbstractDelivered
  BY DEF timelineVars, AbstractDelivered, DeliveredTo
<1>3. \A s \in Sessions : PublishedOf(s)' = PublishedOf(s)
  BY DEF PublishedOf, ClaimStep, EnvelopesStay, PublishesOnly, SettledRecordsStay, Committed
<1>4. AbstractSettled' = AbstractSettled
  BY <1>3 DEF AbstractSettled
<1> QED
  BY <1>1, <1>2, <1>4 DEF Abstract!vars, AbstractLog, AbstractDelivered, AbstractSettled

(* While a record is being published, the published ones of its lane are   *)
(* exactly those before it.                                                *)
LEMMA PublishedPrefix ==
  ASSUME OutboxInv, NEW e \in Committed, outbox[e].status = "publishing",
         NEW s \in Sessions, outbox[e].session = s
  PROVE  /\ IsFiniteSet(PublishedOf(s))
         /\ Cardinality(PublishedOf(s)) = outbox[e].version - 1
         /\ outbox[e].version \in Nat \ {0}
<1>1. PICK v : v = outbox[e].version
  OBVIOUS
<1>2. v \in 1..aggregate[s].version /\ aggregate[s].version \in Nat /\ v \in Nat \ {0}
  BY <1>1, LogNamesEvents DEF OutboxInv, RecordsMatchAggregate, OfSession
<1>3. \A g \in PublishedOf(s) : outbox[g].version \in 1..(v - 1)
  <2> SUFFICES ASSUME NEW g \in PublishedOf(s)
               PROVE  outbox[g].version \in 1..(v - 1)
    OBVIOUS
  <2>1. g \in OfSession(s) /\ outbox[g].status = "published" /\ g # e
    BY DEF PublishedOf, OfSession
  <2>2. outbox[g].version \in 1..aggregate[s].version
    BY <2>1 DEF OutboxInv, RecordsMatchAggregate
  <2>3. outbox[g].version # v
    BY <1>1, <2>1 DEF OutboxInv, RecordsMatchAggregate, OfSession
  <2>4. ~(v < outbox[g].version)
    BY <1>1, <2>1 DEF OutboxInv, InOrderDelivery, OfSession
  <2> QED
    BY <1>2, <2>2, <2>3, <2>4
<1> DEFINE f == [i \in 1..(v - 1) |-> EventAt(s, i)]
<1>4. \A i \in 1..(v - 1) : f[i] \in PublishedOf(s) /\ outbox[f[i]].version = i
  <2> SUFFICES ASSUME NEW i \in 1..(v - 1)
               PROVE  EventAt(s, i) \in PublishedOf(s) /\ outbox[EventAt(s, i)].version = i
    OBVIOUS
  <2>1. i \in 1..aggregate[s].version /\ i < v
    BY <1>2
  <2>2. EventAt(s, i) \in OfSession(s) /\ outbox[EventAt(s, i)].version = i
    BY <2>1, LogNamesEvents
  <2> QED
    BY <1>1, <2>1, <2>2 DEF OutboxInv, InOrderDelivery, OfSession, PublishedOf
<1>5. \A g \in PublishedOf(s) : f[outbox[g].version] = g
  BY <1>3, LogNamesEvents DEF PublishedOf, OfSession
<1> HIDE DEF f
<1>6. f \in Bijection(1..(v - 1), PublishedOf(s))
  <2>1. f \in [1..(v - 1) -> PublishedOf(s)]
    BY <1>4 DEF f
  <2>2. \A i, j \in 1..(v - 1) : f[i] = f[j] => i = j
    BY <1>4
  <2>3. \A g \in PublishedOf(s) : \E i \in 1..(v - 1) : f[i] = g
    BY <1>3, <1>5
  <2> QED
    BY <2>1, <2>2, <2>3 DEF Bijection, Injection, Surjection, IsInjective
<1>7. IsFiniteSet(1..(v - 1)) /\ Cardinality(1..(v - 1)) = v - 1
  BY <1>2, FS_Interval
<1> QED
  BY <1>1, <1>2, <1>6, <1>7, FS_Bijection DEF ExistsBijection

(* Seen from the repository alone, a relay's step is a step of its own.    *)
LEMMA RepositoryStep ==
  ASSUME RelayInv, [RelayNext]_relayVars
  PROVE  [OutboxNext]_outboxVars
<1>1. CASE CommitEvents \/ ClockTick
  BY <1>1 DEF CommitEvents, ClockTick, OutboxNext
<1>2. ASSUME NEW r \in Relays, Claim(r)
      PROVE  OutboxNext
  BY <1>2, RelayAssumption DEF Claim, OutboxNext
<1>3. ASSUME NEW r \in Relays, Complete(r)
      PROVE  [OutboxNext]_outboxVars
  <2>t. PICK t : t = relay[r].token
    OBVIOUS
  <2>1. PICK e \in EventIds : e = relay[r].event /\ t = relay[r].token
    BY <1>3, <2>t DEF Complete, RelayInv, RelaysAreHonest, Committed
  <2>2. HoldsClaim(e, t) => t \in Tokens
    BY OutboxAssumption DEF HoldsClaim, RelayInv, OutboxInv, ClaimsAreFenced, OutboxTypeOK
  <2>3. PICK retryable \in BOOLEAN : retryable = (relay[r].outcome = "retryable")
    OBVIOUS
  <2>4. \/ AcknowledgeDelivery(e, t) \/ FailDelivery(e, t, retryable) \/ UNCHANGED outboxVars
    BY <1>3, <2>1, <2>3 DEF Complete, Report
  <2>5. AcknowledgeDelivery(e, t) \/ FailDelivery(e, t, retryable) => t \in Tokens
    BY <2>2 DEF AcknowledgeDelivery, FailDelivery
  <2> QED
    BY <2>4, <2>5 DEF OutboxNext
<1>4. ASSUME NEW r \in Relays, Consume(r) \/ Abandon(r)
      PROVE  UNCHANGED outboxVars
  BY <1>4 DEF Consume, Abandon
<1>5. CASE UNCHANGED relayVars
  BY <1>5 DEF relayVars, outboxVars
<1> QED
  BY <1>1, <1>2, <1>3, <1>4, <1>5 DEF RelayNext

(* An acknowledgement settles the oldest unsettled event, and only an      *)
(* event the consumer has applied; every other report is invisible.        *)
LEMMA CompleteRefines ==
  ASSUME RelayInv, SettledRecordsStay, NEW r \in Relays, Complete(r)
  PROVE  (\E s \in Sessions : Abstract!Settle(s)) \/ UNCHANGED Abstract!vars
<1>1. PICK e, t : e = relay[r].event /\ t = relay[r].token
  OBVIOUS
<1>2. e \in Committed /\ e \in EventIds /\ UNCHANGED timelineVars /\ OutboxInv
  BY <1>1 DEF Complete, RelayInv, RelaysAreHonest, Committed
<1>3. \/ relay[r].outcome = "succeeded" /\ AcknowledgeDelivery(e, t)
      \/ FailDelivery(e, t, relay[r].outcome = "retryable")
      \/ UNCHANGED outboxVars
  BY <1>1 DEF Complete, Report
<1>4. CASE FailDelivery(e, t, relay[r].outcome = "retryable") \/ UNCHANGED outboxVars
  <2>1. ClaimStep /\ PublishesOnly({})
    BY <1>2, <1>4, ClaimStepOf
  <2> QED
    BY <1>2, <2>1, ClaimStepStutters
<1>5. CASE relay[r].outcome = "succeeded" /\ AcknowledgeDelivery(e, t)
  <2>1. PICK s \in Sessions : s = outbox[e].session
    BY <1>2 DEF RelayInv, CommittedRecords
  <2>2. PICK v : v = outbox[e].version
    OBVIOUS
  <2>3. outbox[e].status = "publishing" /\ outbox'[e].status = "published"
    BY <1>2, <1>5 DEF AcknowledgeDelivery, HoldsClaim, OutboxInv, OutboxTypeOK, Record
  <2>4. ClaimStep /\ PublishesOnly({e})
    BY <1>2, <1>5, ClaimStepOf
  <2>5. AbstractLog' = AbstractLog
    BY <1>2, <2>4, ClaimStepKeepsLog
  <2>6. AbstractDelivered' = AbstractDelivered
    BY <1>2 DEF timelineVars, AbstractDelivered, DeliveredTo
  <2>7. ASSUME NEW q \in Sessions \ {s}
        PROVE  PublishedOf(q)' = PublishedOf(q)
    BY <2>1, <2>4 DEF PublishedOf, ClaimStep, EnvelopesStay, PublishesOnly,
       SettledRecordsStay, Committed
  <2>8. PublishedOf(s)' = PublishedOf(s) \cup {e}
    BY <1>2, <2>1, <2>3, <2>4 DEF PublishedOf, ClaimStep, EnvelopesStay, PublishesOnly,
       SettledRecordsStay, Committed
  <2>9. e \notin PublishedOf(s)
    BY <2>3 DEF PublishedOf
  <2>10. PICK P : P = PublishedOf(s)
    OBVIOUS
  <2>11. IsFiniteSet(P) /\ Cardinality(P) = v - 1 /\ v \in Nat \ {0}
    BY <1>2, <2>1, <2>2, <2>3, <2>10, PublishedPrefix
  <2>12. Cardinality(P \cup {e}) = Cardinality(P) + 1
    BY <2>9, <2>10, <2>11, FS_AddElement
  <2>13. Cardinality(P) < Len(DeliveredTo(s))
    <3>1. v \in DOMAIN timeline[s]
      BY <1>1, <1>5, <2>1, <2>2 DEF Complete, RelayInv, RelaysAreHonest, TookEffect
    <3>2. DOMAIN timeline[s] = 1..Len(timeline[s]) /\ Len(timeline[s]) \in Nat
      BY TimelineBehindLog DEF RelayInv
    <3>3. Len(DeliveredTo(s)) = Len(timeline[s])
      BY <3>2 DEF DeliveredTo
    <3> QED
      BY <2>11, <3>1, <3>2, <3>3
  <2>14. /\ AbstractSettled[s] < Len(AbstractDelivered[s])
         /\ AbstractSettled' = [AbstractSettled EXCEPT ![s] = @ + 1]
    BY <2>7, <2>8, <2>10, <2>12, <2>13 DEF AbstractSettled, AbstractDelivered
  <2>15. Abstract!Settle(s)
    BY <2>5, <2>6, <2>14 DEF Abstract!Settle, AbstractLog, AbstractDelivered, AbstractSettled
  <2> QED
    BY <2>15
<1> QED
  BY <1>3, <1>4, <1>5

(* Claims, crashes and the clock are invisible.                            *)
LEMMA OthersRefine ==
  ASSUME RelayInv, SettledRecordsStay,
         \/ \E r \in Relays : Claim(r) \/ Abandon(r)
         \/ ClockTick
         \/ UNCHANGED relayVars
  PROVE  UNCHANGED Abstract!vars
<1>1. UNCHANGED timelineVars /\ OutboxInv
  BY DEF Claim, Abandon, ClockTick, relayVars, timelineVars, RelayInv
<1>2. ASSUME NEW r \in Relays, Claim(r)
      PROVE  ClaimStep /\ PublishesOnly({})
  <2>1. PICK e \in EventIds :
          \/ \E t \in Tokens : ClaimDelivery(e, t, MaxAttempts[r])
          \/ ExhaustDelivery(e, MaxAttempts[r])
    BY <1>2 DEF Claim
  <2> QED
    BY <1>1, <2>1, ClaimStepOf
<1>3. CASE (\E r \in Relays : Abandon(r)) \/ ClockTick \/ UNCHANGED relayVars
  <2>1. outbox' = outbox /\ aggregate' = aggregate
    BY <1>3 DEF Abandon, ClockTick, Tick, relayVars, outboxVars
  <2>2. ClaimStep /\ PublishesOnly({})
    BY <2>1 DEF ClaimStep, EnvelopesStay, Committed, PublishesOnly
  <2> QED
    BY <1>1, <2>2, ClaimStepStutters
<1> QED
  BY <1>1, <1>2, <1>3, ClaimStepStutters

(* Every step of the relays is a step of ordered delivery, or invisible.   *)
LEMMA StepRefines ==
  ASSUME RelayInv, RelayInv', [RelayNext]_relayVars
  PROVE  [Abstract!Next]_(Abstract!vars)
<1>1. SettledRecordsStay
  BY RepositoryStep, SettledStep DEF RelayInv
<1> QED
  BY <1>1, CommitRefines, ConsumeRefines, CompleteRefines, OthersRefine
     DEF RelayNext, Abstract!Next

LEMMA InitRefines ==
  ASSUME RelayInit
  PROVE  Abstract!Init
<1>1. Committed = {}
  BY DEF RelayInit, OutboxInit, Committed, AbsentRecord
<1>2. ASSUME NEW s \in Sessions
      PROVE  LogOf(s) = <<>> /\ DeliveredTo(s) = <<>> /\ Cardinality(PublishedOf(s)) = 0
  <2>1. aggregate[s].version = 0 /\ timeline[s] = <<>>
    BY DEF RelayInit, OutboxInit, TimelineInit, AbsentAggregate
  <2>2. LogOf(s) = <<>> /\ DeliveredTo(s) = <<>>
    BY <2>1 DEF LogOf, DeliveredTo
  <2>3. PublishedOf(s) = {}
    BY <1>1 DEF PublishedOf
  <2> QED
    BY <2>2, <2>3, FS_EmptySet
<1> QED
  BY <1>2 DEF Abstract!Init

(* At-least-once claims with crashes, expired leases, stale relays and     *)
(* retries implement ordered, exactly-once delivery: every committed event *)
(* is applied once, in the order of its log, and settled only after it was *)
(* applied (createEventRelay over the transactional outbox).               *)
THEOREM RelayImplementsOrderedDelivery == RelaySpec => ImplementsOrderedDelivery
<1>1. RelayInit => Abstract!Init
  BY InitRefines
<1>2. RelayInv /\ RelayInv' /\ [RelayNext]_relayVars => [Abstract!Next]_(Abstract!vars)
  BY StepRefines
<1> QED
  BY <1>1, <1>2, RelayInductive, PTL DEF RelaySpec, ImplementsOrderedDelivery, Abstract!Spec
===============================================================================
