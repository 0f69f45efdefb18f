--------------------------- MODULE SessionLifecycle ---------------------------
(***************************************************************************)
(* The session lifecycle commands of one tenant                            *)
(* (packages/session-application/src/index.ts).  A call waits for the lock *)
(* of its idempotency key and of its session, in the order of their names, *)
(* and works between awaits that let other calls in.  Disclosure, receipt, *)
(* consent and participant of a session are written and rolled back        *)
(* together, so they are one piece of evidence.  The outbox refuses a      *)
(* commit when its deadline passed, another transaction is open or it is   *)
(* at capacity.                                                            *)
(***************************************************************************)
EXTENDS InteractionReducer, SequencesExt

CONSTANTS
  Calls,            \* API calls in flight
  Keys,             \* idempotency keys clients send
  Sessions,         \* session identifiers the generator mints
  Sorted,           \* the names of all locks, in their order
  NoSession,        \* no session
  NoCall,           \* no call
  ConsentPolicies,  \* essential consents the registrations carry
  LedgerCapacity,   \* idempotency_capacity_per_tenant
  MaxLocks,         \* MAX_LOCKS
  MaxWaiters,       \* MAX_WAITERS_PER_LOCK
  MaxVersion        \* bound: highest aggregate version explored

ASSUME LifecycleAssumption ==
  /\ Sorted \in Seq(Keys \cup Sessions) /\ IsInjective(Sorted)
  /\ \A l \in Keys \cup Sessions : Contains(Sorted, l)
  /\ NoSession \notin Sessions /\ NoCall \notin Calls
  /\ ConsentPolicies \subseteq Consents \ {"pending"}
  /\ LedgerCapacity \in Nat \ {0}
  /\ MaxLocks \in Nat \ {0} /\ MaxWaiters \in Nat \ {0}
  /\ MaxVersion \in Nat

VARIABLES
  aggregate,    \* what the outbox has committed for each session
  evidence,     \* sessions whose disclosure, consent and participants are kept
  ledger,       \* answer remembered for each idempotency key
  counted,      \* key sets made for the capacity count, by the call that made one
  counter,      \* the call whose key set is the tenant's
  locks,        \* holder and waiters of each lock
  call          \* what each call is in the middle of, or was answered

store == <<evidence, ledger, counted, counter>>
vars  == <<aggregate, evidence, ledger, counted, counter, locks, call>>

-------------------------------------------------------------------------------
Command ==
  [op : {"create"}, consent : ConsentPolicies]
    \cup [op : {"activate", "complete"}, session : Sessions,
          expected : 4..MaxVersion]

Commands == Command \cup [op : {"none"}]
NoResult == [command |-> [op |-> "none"], session |-> NoSession, version |-> 0]

Result ==
  [command : Commands, session : Sessions \cup {NoSession}, version : Nat]

CallState ==
  [pc : {"new", "locking", "delivering", "committed", "failing", "done"},
   key : Keys, command : Commands, session : Sessions \cup {NoSession},
   snapshot : SUBSET Sessions, counter : Calls \cup {NoCall}, version : Nat]

Init ==
  /\ aggregate = [s \in Sessions |-> AbsentAggregate]
  /\ evidence  = {}
  /\ ledger    = [k \in Keys |-> NoResult]
  /\ counted   = [c \in Calls |-> {}]
  /\ counter   = NoCall
  /\ locks     = [l \in Keys \cup Sessions |-> <<>>]
  /\ call \in [Calls ->
       {[pc |-> "new", key |-> k, command |-> [op |-> "none"],
         session |-> NoSession, snapshot |-> {}, counter |-> NoCall,
         version |-> 0] : k \in Keys}]

-------------------------------------------------------------------------------
(* Locks: a queue whose head holds it. *)

Holds(c, l) == locks[l] # <<>> /\ Head(locks[l]) = c

LockRefused(l) ==
  IF locks[l] = <<>>
    THEN Cardinality({m \in DOMAIN locks : locks[m] # <<>>}) >= MaxLocks
    ELSE Len(locks[l]) - 1 >= MaxWaiters

(* Mutation: a call that ends leaves its session lock to nobody. *)
Released_KeyOnly(c) ==
  [l \in DOMAIN locks |->
     IF l \in Keys /\ Holds(c, l) THEN Tail(locks[l]) ELSE locks[l]]

Released(c) ==
  [l \in DOMAIN locks |-> IF Holds(c, l) THEN Tail(locks[l]) ELSE locks[l]]

Return(c) ==
  /\ locks' = Released(c)
  /\ call' = [call EXCEPT ![c].pc = "done"]

LocksOf(request) ==
  {request.key} \cup
    (IF request.command.op = "create" THEN {} ELSE {request.session})

(* Lock l comes before lock m in the sorted list of a call's locks. *)
Before(l, m) ==
  \E i, j \in DOMAIN Sorted : i < j /\ Sorted[i] = l /\ Sorted[j] = m

FirstLock(request) ==
  CHOOSE l \in LocksOf(request) : \A m \in LocksOf(request) : ~Before(m, l)

LastLock(request) ==
  CHOOSE l \in LocksOf(request) : \A m \in LocksOf(request) : ~Before(l, m)

AcquireLock(c, request, l) ==
  /\ locks' = IF LockRefused(l) THEN Released(c)
                               ELSE [locks EXCEPT ![l] = Append(@, c)]
  /\ call' = [call EXCEPT ![c] = [request EXCEPT
                !.pc = IF LockRefused(l) THEN "done" ELSE "locking"]]

(* A call arrives and queues for its first lock, then for its last. *)
Receive(c, cmd) ==
  /\ call[c].pc = "new"
  /\ LET request == [call[c] EXCEPT !.command = cmd,
                       !.session = IF cmd.op = "create" THEN NoSession
                                   ELSE cmd.session]
     IN  AcquireLock(c, request, FirstLock(request))
  /\ UNCHANGED <<aggregate, store>>

TakeLastLock(c) ==
  /\ call[c].pc = "locking"
  /\ Holds(c, FirstLock(call[c]))
  /\ ~Contains(locks[LastLock(call[c])], c)
  /\ AcquireLock(c, call[c], LastLock(call[c]))
  /\ UNCHANGED <<aggregate, store>>

HoldsItsLocks(c) ==
  /\ call[c].pc = "locking"
  /\ Holds(c, LastLock(call[c]))

-------------------------------------------------------------------------------
(* mutate: before and after the work. *)

Answered(k) == ledger[k] # NoResult

CountedKeys == IF counter = NoCall THEN {} ELSE counted[counter]

AtCapacity == Cardinality(CountedKeys) >= LedgerCapacity

(* An answered key: the same command is given its first answer again. *)
Replay(c) ==
  LET first == ledger[call[c].key] IN
  /\ HoldsItsLocks(c)
  /\ Answered(call[c].key)
  /\ first.command = call[c].command
  /\ locks' = Released(c)
  /\ call' = [call EXCEPT ![c].pc = "done", ![c].session = first.session,
                          ![c].version = first.version]
  /\ UNCHANGED <<aggregate, store>>

(* The deadline passed, the key belongs to another command, or the ledger   *)
(* is at capacity: nothing is done.                                         *)
Decline(c) ==
  /\ HoldsItsLocks(c)
  /\ Return(c)
  /\ UNCHANGED <<aggregate, store>>

(* The work may begin: the whole store is remembered, and so is the set of  *)
(* counted keys, a new one if the tenant has none yet.                      *)
Admitted(c) ==
  /\ HoldsItsLocks(c)
  /\ ~Answered(call[c].key)
  /\ ~AtCapacity

Started(c) ==
  [call[c] EXCEPT !.snapshot = evidence,
                  !.counter = IF counter = NoCall THEN c ELSE counter]

(* A failed work restores the store as it was when the work began. *)
Rollback(c) ==
  /\ call[c].pc = "failing"
  /\ evidence' = call[c].snapshot
  /\ Return(c)
  /\ UNCHANGED <<aggregate, ledger, counted, counter>>

(* Mutation: the answer of a command is not remembered. *)
Finish_Forgotten(c) ==
  /\ call[c].pc = "committed"
  /\ Return(c)
  /\ UNCHANGED <<aggregate, store>>

Finish(c) ==
  /\ call[c].pc = "committed"
  /\ ledger' = [ledger EXCEPT
       ![call[c].key] = [command |-> call[c].command, session |-> call[c].session,
                         version |-> call[c].version]]
  /\ counted' = [counted EXCEPT ![call[c].counter] = @ \cup {call[c].key}]
  /\ counter' = call[c].counter
  /\ Return(c)
  /\ UNCHANGED <<aggregate, evidence>>

Failing(c, started) == call' = [call EXCEPT ![c] = [started EXCEPT !.pc = "failing"]]

-------------------------------------------------------------------------------
(* The commands' work. *)

Apply(st, ev) == Reduce(st, ev, st.version + 1)

(* Mutation: the disclosure event is missing from the creation batch. *)
Created_Undisclosed(st, consent) ==
  LET prepared == Apply(Apply(st, [type |-> "session.created"]),
                        [type |-> "session.prepared"])
      decided == Apply(prepared, [type |-> "consent.recorded", status |-> consent])
  IN  Apply(decided, [type |-> "consent.recorded", status |-> consent])

(* What the four events of a creation make of an aggregate. *)
Created(st, consent) ==
  LET prepared == Apply(Apply(st, [type |-> "session.created"]),
                        [type |-> "session.prepared"])
      disclosed == Apply(prepared, [type |-> "disclosure.delivered",
                                    status |-> "delivered"])
  IN  Apply(disclosed, [type |-> "consent.recorded", status |-> consent])

(* commitInteractionEvents of a batch that the reducer accepts *)
CommitBatch(c, s, after, started) ==
  /\ aggregate' = [aggregate EXCEPT ![s] = after]
  /\ call' = [call EXCEPT ![c] = [started EXCEPT !.pc = "committed",
                                    !.session = s, !.version = after.version]]

(* createSession up to the delivery of the disclosure: a session is minted. *)
Minted == {call[c].session : c \in {d \in Calls : call[d].command.op = "create"}}

BeginCreate(c, s) ==
  /\ Admitted(c)
  /\ call[c].command.op = "create"
  /\ s \notin Minted
  /\ call' = [call EXCEPT ![c] = [Started(c) EXCEPT !.pc = "delivering",
                                                    !.session = s]]
  /\ UNCHANGED <<aggregate, store, locks>>

(* The receipt is back: the evidence is stored and the batch committed, or  *)
(* the outbox refuses it; or the disclosure could not be delivered.         *)
Deliver(c) ==
  LET s == call[c].session IN
  /\ call[c].pc = "delivering"
  /\ \/ /\ evidence' = evidence \cup {s}
        /\ CommitBatch(c, s, Created(aggregate[s], call[c].command.consent), call[c])
     \/ /\ evidence' \in {evidence, evidence \cup {s}}
        /\ Failing(c, call[c])
        /\ UNCHANGED aggregate
  /\ UNCHANGED <<ledger, counted, counter, locks>>

(* Mutation: a session is activated without looking for its evidence. *)
ActivationEvidence_Status(s) ==
  /\ Disclosed(aggregate[s])
  /\ ConsentAllowed(aggregate[s])

ActivationEvidence(s) ==
  /\ s \in evidence
  /\ Disclosed(aggregate[s])
  /\ ConsentAllowed(aggregate[s])

Expected(c) == aggregate[call[c].session].version = call[c].command.expected

MayActivate(c) ==
  /\ Expected(c)
  /\ aggregate[call[c].session].status = "ready"
  /\ ActivationEvidence(call[c].session)

MayComplete(c) ==
  /\ Expected(c)
  /\ aggregate[call[c].session].status \in {"ready", "active", "handoff_pending"}

Refuse(c) ==
  /\ Failing(c, Started(c))
  /\ UNCHANGED aggregate

(* activateSession: checks and commit are one step; any refusal rolls back  *)
(* one microtask later.                                                     *)
Activate(c, presenter) ==
  /\ Admitted(c)
  /\ call[c].command.op = "activate"
  /\ \/ /\ MayActivate(c)
        /\ CommitBatch(c, call[c].session,
             Apply(aggregate[call[c].session],
                   [type |-> "session.activated", presenter |-> presenter]), Started(c))
     \/ Refuse(c)
  /\ UNCHANGED <<store, locks>>

Complete(c) ==
  /\ Admitted(c)
  /\ call[c].command.op = "complete"
  /\ \/ /\ MayComplete(c)
        /\ CommitBatch(c, call[c].session,
             Apply(aggregate[call[c].session], [type |-> "session.completed"]), Started(c))
     \/ Refuse(c)
  /\ UNCHANGED <<store, locks>>

(* The turn driver writes to the same aggregate without these locks. *)
OtherWriter(s) ==
  /\ aggregate[s].status = "active"
  /\ aggregate[s].version < MaxVersion
  /\ aggregate' = [aggregate EXCEPT ![s] = Apply(@, [type |-> "turn.interrupted"])]
  /\ UNCHANGED <<store, locks, call>>

Progress(c) ==
  \/ TakeLastLock(c)
  \/ Replay(c)
  \/ Decline(c)
  \/ \E s \in Sessions : BeginCreate(c, s)
  \/ Deliver(c)
  \/ \E p \in Presenters : Activate(c, p)
  \/ Complete(c)
  \/ Finish(c)
  \/ Rollback(c)

Next ==
  \/ \E c \in Calls : \E cmd \in Command : Receive(c, cmd)
  \/ \E c \in Calls : Progress(c)
  \/ \E s \in Sessions : OtherWriter(s)

Spec == Init /\ [][Next]_vars
-------------------------------------------------------------------------------
(* Every reachable state is well typed, a lock is queued for at most once   *)
(* by a call, and a call at work has a set to count its key in.             *)
TypeOK ==
  /\ aggregate \in [Sessions -> AggregateState]
  /\ evidence \subseteq Sessions
  /\ ledger \in [Keys -> Result]
  /\ counted \in [Calls -> SUBSET Keys]
  /\ counter \in Calls \cup {NoCall}
  /\ call \in [Calls -> CallState]
  /\ \A l \in Keys \cup Sessions :
       locks[l] \in Seq(Calls) /\ IsInjective(locks[l])
  /\ \A c \in Calls :
       call[c].pc \in {"delivering", "committed", "failing"} =>
         call[c].counter # NoCall

(* All calls that succeed under one idempotency key were given the same     *)
(* answer: the command took effect once, however its retries interleave.    *)
AnswersAgree ==
  \A c, d \in Calls :
    /\ call[c].pc = "done" /\ call[c].version # 0
    /\ call[d].pc = "done" /\ call[d].version # 0
    /\ call[c].key = call[d].key
    => /\ call[c].command = call[d].command
       /\ call[c].session = call[d].session
       /\ call[c].version = call[d].version

(* A session exists only whole: prepared, disclosed, its consent decided.   *)
CreatedWhole ==
  \A s \in Sessions :
    aggregate[s].status # "absent" =>
      /\ aggregate[s].status # "preparing"
      /\ Consistent(aggregate[s])
      /\ Disclosed(aggregate[s])
      /\ aggregate[s].consent # "pending"

(* Locks, ledger, evidence and aggregates are well formed, and no session   *)
(* is ever seen half created (createSession, withLocks).                    *)
SessionsAreWhole == TypeOK /\ CreatedWhole

(* A session takes the stage only while its evidence is kept, also when the *)
(* evidence was lost after it became ready.                                 *)
StagedOnEvidence ==
  [][\A s \in Sessions :
       aggregate'[s].status = "active" /\ aggregate[s].status # "active"
         => s \in evidence]_vars

(* No call is stuck: a lock is held by a call in flight, and while there is *)
(* one, some call can move: the sorted locks make no cycle.                 *)
InFlight(c) == call[c].pc \notin {"new", "done"}

CanMove(c) ==
  \/ call[c].pc \in {"delivering", "committed", "failing"}
  \/ /\ call[c].pc = "locking"
     /\ Holds(c, FirstLock(call[c]))
     /\ LET last == LastLock(call[c]) IN
          Contains(locks[last], c) => Holds(c, last)

NoCallIsStuck ==
  /\ \A l \in Keys \cup Sessions : locks[l] # <<>> => InFlight(Head(locks[l]))
  /\ (\E c \in Calls : InFlight(c)) => \E c \in Calls : CanMove(c)

===============================================================================
