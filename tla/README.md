# Verification of the Axtro interaction core

This directory holds TLA+ models of the stateful core of Axtro Digital Human OS
(`src/packages`, `src/apps`, and the database functions behind the portal's paid
rooms), the TLC configurations that check them on small instances, and proofs,
checked by TLAPS, of the main safety theorems for every value of the constants.

To check a run: `tlc -config <cfg> <module>.tla`; to check the proofs:
`tlapm <module>.tla` for each of the eight modules whose name ends in `Proofs` (a few
seconds to about five minutes each). `PROJECT.json` lists the components, the runs, the
mutants that show each property can fail, the source lines every definition
stands for, the hazards, the findings and the theorems.

## 1. The system

A *session* is an event-sourced aggregate. Clients create, activate and complete
it through the **session lifecycle application**, and talk to it through the
**turn driver**. Both write canonical events to the **transactional outbox**, which
runs the pure **reducer** on them and keeps the committed events of each session
as a lane. **Event relays** claim the oldest unpublished event of a lane under a
lease, append it to the **session timeline** (a second, independent replay of the
reducer), hand a completed session to the **post-call workflow**, and acknowledge
or fail the claim. The turn driver projects what it commits into a **session
actor**, which an **actor registry** hydrates from the committed history and which
also holds the generation whose answer may be spoken. On a voice call the **turn
coordinator** decides, signal by signal, who has the floor. The **tool runtime**
carries out what an agent intends to do, at most once. **Data governance** erases or
redacts what a disposition request names, unless a legal hold covers it. The
**portal** opens rooms at a paid provider under durable reservations.

```
 session-application --+                       +--> timeline (projection)
                       +--> outbox --> relay --+
 turn driver ----------+      |                +--> workflow runs <-- workers
      |                       | history
      +--> registry --> session actor        disposition requests <-- workers
                                             (inventory, holds, effects)
 voice signals --> turn coordinator

 catalog commands --> coordinator --> private action runtime --> fixture
 action intents ------------------------> action runtime ------> fixture

 portal request --+
 webhook ---------+--> reservations (SQL) <--> Tavus rooms
 cleanup job -----+        |
 operator's stop -+        +--> usage outbox --> usage job --> Stripe
```

The packages run in one Node.js process on one thread: code between two `await`s is
atomic, and everything else interleaves, down to the microtask. Relays and workers are
driven by separate callers that may stop at any point, so for them the repository calls
are the atomic steps. In the portal a database function is one transaction under the
tenant's advisory lock, and requests, jobs and webhooks stop or overlap between any two.

### Components

| Component | State | Operations | What is hard | Status |
|---|---|---|---|---|
| Interaction domain (`packages/domain`) | none: a pure reducer | `reduceInteractionState` on 17 event types | legal sequences into states the reducer refuses to leave; finality; the presenter floor | modelled |
| Transactional outbox (`packages/events/src/outbox.ts`, `packages/database`) | aggregates, records per lane, deliveries, receipts | commit a batch, claim, exhaust, acknowledge, fail | leases, fencing, pinned budgets, lane order, partial batches | modelled |
| Session timeline (`packages/events/src/timeline.ts`) | stored events and authoritative state per session | append | duplicates, capacity, validation after reduction | partly: snapshots only as hydration reads them |
| Event relay (`apps/event-relay`) | the event in hand | `runOnce` | crash between append, enqueue and acknowledgement; several relays | modelled |
| Post-call workflow and worker (`packages/workflows/src/index.ts`, `apps/workflow-worker`) | runs, claims, step receipts, effect ledger | enqueue, claim, run step, checkpoint, fail, cancel | crash after the effect, expired leases, budgets, late cancellation | modelled |
| Data governance (`packages/workflows/src/data-governance.ts`, its worker) | request, items with leases, holds, recorded commands | request commands, inventory, holds, claim, apply, reconcile, verify | effects whose answer is lost, holds placed midway, late workers | modelled |
| Session lifecycle application (`packages/session-application`) | evidence maps, idempotency ledger, locks | create, activate, complete | awaits under locks, store-wide rollback, retries, capacity | modelled |
| Turn driver (`packages/turns`) | session lanes, pending generations, command records | submit, interrupt | answers computed outside the lane, fences, failures between commit and projection | modelled |
| Session runtime (`packages/session-runtime`) | actors, mailboxes, windows of deliveries and commands, generations | get an actor, hydrate, apply, begin, cancel, publish | full mailboxes and windows, late deliveries, failing hydrations | modelled |
| Turn coordinator (`packages/turn-coordinator`) | state machine, utterance, generations | `handleSignal` | any signal in any state, barge-in against completion, speculation | modelled |
| Tool runtime (`packages/tool-runtime`, `packages/policy`) | two ledgers, operations in flight, barriers, evidence | submit, look up, reconcile | unknown outcomes, clean-up microtasks later, two layers that must agree | modelled |
| Portal: paid rooms (`apps/portal/src/lib/paid-effects`, ..., `database/supabase-only`) | reservations, cleanup leases, delivery and usage records, stop receipts | open, commit, compensate, webhook, cleanup, report usage, stop, reconcile by hand | lost answers, dead jobs, caps, billing against voiding | partly: Tavus rooms only |

The remaining components (security predicates, degradation, scene and behaviour
directors, composers, gateways, provider adapters, generated contracts, configuration,
table definitions, the rest of the portal and other applications) are listed in
`PROJECT.json` with the reason each is left out. Most are pure functions of one request,
clients of remote services, user interface or generated code; the rest of the portal is
the exception, see section 5.

## 2. The modules

| Module | Models | Extends / uses |
|---|---|---|
| `InteractionReducer` | what the reducer accepts and returns | - |
| `InteractionSession` | one aggregate under every accepted event | `InteractionReducer` |
| `EventEnvelope` | the canonical envelope | `InteractionReducer` |
| `TransactionalOutbox` | commit, claims, leases, receipts, clock | `EventEnvelope` |
| `SessionTimeline` | `appendCanonicalEvent` | `EventEnvelope` |
| `EventRelay` | relays composed with outbox, timeline and enqueue | `TransactionalOutbox`, `SessionTimeline` |
| `OrderedDelivery` | the abstract promise of that composition | instantiated by `EventRelay` |
| `PostCallWorkflow` | runs and workers | - |
| `OrderedActivities` | the abstract promise of the runs | instantiated by `PostCallWorkflow` |
| `DataGovernance` | one disposition request, its holds, items and workers | - |
| `SessionLifecycle` | create, activate, complete by concurrent calls | `InteractionReducer` |
| `TurnDriver` | submit, interrupt, projection and outbox of one session | `InteractionReducer` |
| `TurnCoordinator` | the signal handlers and their state machine | - |
| `SessionActor` | one hydrated actor: mailbox, windows, generations | - |
| `SessionActorRegistry` | the map of actors and their hydration | - |
| `ActionRuntime` | governed action intents and the policy decision | - |
| `CatalogLookupFlow` | the catalog coordinator over its private runtime | `ActionRuntime` |
| `PaidEffects` | the portal's paid rooms | - |
| `MCPipeline`, `MCTurns`, `MCWorkflow` | instances that put related components side by side | the modules of the run |
| other `MC*` | instances: inputs, symmetry, constraints | their module |
| `ReducerProofs` | facts about the reducer that the next three rest on | `InteractionReducer` |
| `InteractionSessionProofs`, `RelayProofs`, `LifecycleProofs` | proofs about the aggregate; about outbox, relays and timeline; about the lifecycle commands | `ReducerProofs` and their module |
| `WorkflowProofs` | proofs about runs and dispositions | `MCWorkflow` |
| `TurnsProofs` | proofs about coordinator, driver, actor and registry | `MCTurns`, `ReducerProofs` |
| `ToolsProofs` | proofs about both layers of the tool runtime | `MCActionRuntime` |
| `PaidEffectsProofs` | proofs about the paid rooms | `PaidEffects` |

`MCPipeline` (aggregate | relays), `MCTurns` (driver | coordinator | actor | registry) and
`MCWorkflow` (runs | disposition) have a variable `part` that names the component which
runs in a behaviour; the others keep their initial state. Each component is explored
completely and none against another: composition where components really interact
is in `EventRelay`, `TurnDriver` and `CatalogLookupFlow`. That a component in such an instance
behaves as it does alone is a theorem (`PipelinePartsRunAlone`, `PartsRunAlone`,
`WorkPartsRunAlone`, `ToolPartsRunAlone`).

How state and actions correspond to the code:

* **Reducer.** `AggregateState` keeps the fields that decide a transition: status,
  presenter, consent, disclosure, degradation, started, turn index, sales
  extension, version. `Permits` has one disjunct per case of the reducer,
  `Consistent` is `assertCurrentState`, `Changed` the resulting state. Role, quality
  and language payloads never decide anything and are left out; events that only
  change them still move the version. Identifiers, timestamps and digests have no
  content here.
* **Outbox.** `outbox[e]` is the record of event `e`, `delivery[e]` its claim, attempts,
  pinned budget and receipt. Instants are modelled by what is left of them:
  `lease` until the expiry and `wait` until the next attempt, counted down by `Tick`.
  A coordinator transaction is synchronous, so a whole batch commits in one step or
  not at all; a call that throws changes nothing and is no step.
* **Relay.** `relay[r]` is what `runOnce` has in hand between its calls: claimed, consumed
  with an outcome, then reported. `Abandon` is a crash between any two of them. The
  relay's consumer appends to the timeline and then enqueues the completion; the
  append stays when the enqueue fails. A relay outside `Dispatchers` has no workflow
  sink.
* **Workflow.** `run`, `receipts` and `ledger` are the repository's maps, `effects` a
  history variable that counts what the activities did. A worker's phase is its
  place in `runOnce`; `LoseExecution` is its crash.
* **Data governance.** `request` is the status, `item[i]` a work item with its lease,
  `hold[h]` a ledger entry, `recorded` the commands the request has written down (which it
  does before it looks at its own state), `disposer[w]` a worker's place in `runOnce`.
  `TimePasses(i)` is the expiry of an item's lease or the end of its retry delay, which
  is all that time decides. An effect reaches its target in a step of its own, after
  which the answer may be lost and the worker may die; `reached` counts the effects.
* **Lifecycle.** A call's `pc` is the `await` it is at. Locks are queues whose head holds
  them; they are taken in the order of their names, of which `Sorted` lists all, so a key
  may sort before, between or after the sessions. The disclosure, receipt, consent and participants of a
  session are written, snapshot and restored together and are one element of
  `evidence`. `ledger`, `counted` and `counter` keep the idempotency map apart from the
  set of counted keys, as the code does: a call works on the set it found, or on a new
  one. Every deadline check may fail, which is the always possible `Decline` or
  failing branch. `OtherWriter` is the turn driver.
* **Turn driver.** One session. `lane` is `withSessionLane`, `pending` the local map entry
  with its fence, `generation` the one the actor holds valid, `projection` the actor's
  state, `reading` what a hydration read. Commit and projection are two steps, and so are
  beginning a generation and recording it as pending. Two generations never share a
  number under one actor, so a generation is named by its submission. `ActivateSession`
  and `CompleteSession` are the lifecycle application's commits, which reach the outbox and
  not the actor. `log` is a history variable. The model starts with a created session, so
  a hydration finds events, and the mailbox has room for the driver's calls.
* **Turn coordinator.** One handler of `handleSignal` per action. Milliseconds are small
  numbers that count up to the largest threshold they are compared with; the energy of
  a chunk is silence, speech, or loud enough to interrupt. A profile is one of the
  combinations of thresholds and requirements. `output` and `cancelled` remember what
  the playback was last told and which generations are over.
* **Session actor.** An event is named by its version; `deliveries` is the window in order of
  insertion, with entries that are queued, settled or still to be evicted; `mailbox`
  the queued items, of which one runs per microtask, safety items first; `lookup` the
  historical read for an event that fell out of the window. `Foreign` are envelopes that
  carry a version of the session and were never committed. Normal items must leave a place
  free and cancellations fit in `mailbox_capacity`, each counted by itself.
* **Registry.** `actor[a]` is an actor object and `registered` the map, which are two
  things: an actor lives on in the requests that hold it after the map has dropped it.
  A hydration reads the snapshot, the history and the tail in three awaits, during which
  the history grows; it may fail or time out. What follows a failure takes two
  microtasks: the actor forgets the attempt, then `getActor` drops the actor.
* **Tool runtime.** A submission writes four maps and leaves a promise; the promise runs
  in a later microtask and its reactions clean the maps in one more (`job`, `settling`).
  The coordinator has its own three maps, evidence and reservations, and awaits the
  promise of its private runtime, so that the layers change in different microtasks. A
  call that throws before it writes is no step. An intent carries its session, and an
  intent of a session the authority does not know is refused. An execution is refused, succeeds, fails,
  pends or stays unknown, as the fixture and the policy decide by plan and actor.
* **Paid rooms.** `effect[r]` is a row of `provider_effect_reservations`, `cleanup[r]` its
  reconciliation columns, `usage[r]` the usage row, `stop` the operator's receipts; `room`
  and `charged` are the providers' side. One action is one database function or one
  provider call. A caller's `pc` is the await of `startVideoConversation` it is at;
  compensations are sets of independent attempts (`todo`), each of which may fail.
  `CallerLost`, `CleanerLost` and `StopLost` are deaths, and a provider call may succeed
  and its answer be lost. A released row is retried under a second row (`"retry"`).
  `ManuallyReconcile` is the operator's `manuallyReconcileProviderEffect`, which releases any
  row behind the barrier on a receipt the database cannot check against the room: the
  operator may be wrong, and `vouched` remembers which rows he released. No route leads to
  it today (`docs/operations/PROVIDER_EFFECT_RECONCILIATION.md:62-77`), but the function and its
  grant are there. A row is leased however often a job died on it; `Attempted` counts the
  attempts beyond the last one once, since no guard tells them apart.

Definitions that start with the name of another one and an underscore
(`Budget_Accumulated`, `Released_KeyOnly`, ...) are mutations: what a plausible bug would
turn the definition into. No specification uses them.

## 3. The runs

`CHECK_DEADLOCK FALSE` is set everywhere: each of these systems may really stop, when
the bounded supply of events, tokens or calls is used up. That something stops which
should not is the subject of the liveness properties and of `NoCallIsStuck`.

| Run | Question and answer | Bounds and why they are enough |
|---|---|---|
| `pipeline` | Floor, finality and conversation of an aggregate under every event sequence; lanes, fences and repositories under relays that crash, with expired leases, a full timeline and failing enqueues; do they give ordered exactly-once application? Yes: refines `OrderedDelivery`. | Aggregate: 2 presenters, turns to 4, versions to 12: two full turns of speech, floor changes both ways. Relays: 2, one without workflow sink and with a smaller budget, 3 events in 2 sessions, 4 tokens, batches of 2, a timeline for 1 session: a claim can expire, be taken over, be retried and run out |
| `relay_liveness` | Is every committed event published, or its lane stopped at a dead letter? Yes. What becomes of a session whose consent was withdrawn on stage? The withdrawal ends as a dead letter. | Two lives (`RaceOrLongLife`): 2 relays with budgets 1 and 2 race for 2 events of 2 sessions, with tokens for every attempt; or the relay with budget 1 carries a session through the shortest such life (6 events) and lags by 2 events at most |
| `lifecycle` | Do concurrent commands and retries agree, exist sessions only whole, are they staged on kept evidence, is no call stuck? Yes. | 3 calls (a committed creation, one that fails, an activation), 2 keys that alternate with 2 sessions in the order of names, capacity 2, 3 locks, 1 waiter: a call takes its key first or its session first, and three calls can wait in a chain |
| `workflow` | Post-call: effects once and in order, sound claims, receipts that tell the run. Governance: effects once, holds respected, completion means verified. Both: what was started ends. Hold; the runs refine `OrderedActivities`. | Runs: 2 workers, 4 steps, budgets 1 and 2 against the default 3, 8 tokens. Disposition: 2 workers, a database item and an external one, a hold on the second, 3 attempts: every retry, loss and takeover |
| `paid_rooms` | Do rooms follow reservations, does undelivered exposure stay within its cap, are only delivered rooms charged? Yes; a running room has lost its reservation only where an operator released it on his own evidence. Is no barrier forgotten? Yes, unless the job dies again and again for ever. | 1 intention with its retry row, 2 racing requests, cap 1, 1 attempt of each job: one more room than the cap allows could be opened, by a race, a retry or a changed count |
| `tools` | Do both layers' books balance and agree, is no unknown effect retried blindly, is every operation given back? Yes. | 6 commands that share and do not share question, operation, session (3 of them) and tenant, 8 direct intents that share key, identifier or operation, a refused plan and a refused actor; ledger of 3, 2 evidence rows |
| `turns` | Driver: answers follow their turn, interruptions win, callers are told what was committed. Coordinator: no signal throws, one voice. Actor: deliveries count once, silenced generations stay silent. Registry: hydration from history, no place lost. All: every call returns. Hold. | Driver: 2 submissions, 2 interruptions that may want the same one, a lane with 1 waiter. Coordinator: 4 profiles, 2 participants, 3 generations. Actor: mailbox 2, window 2, 3 events and a foreign one, 3 calls. Registry: 1 place, 2 sessions, 2 requesters, history of 2 |
| `interaction_consent` | Does the reducer return only states it starts from? **No** (finding 1). | 8 events |
| `turn_projection` | Is what the driver commits projected? **No** (finding 2). | 2 submissions |
| `one_actor` | Has a session one actor? **No** (finding 3). | 1 session, 2 requesters, 3 requests |
| `governance_ended` | Does an ended request stay ended? **No** (finding 4). | 2 items, 1 hold |
| `cleanup_attempts` | Is a reservation given up after its last attempt? **No** (finding 5). | 1 intention, 1 request, 2 attempts |

`InOrderNames`, `InOrderTokens` and `InOrderCallers` are state constraints used where
liveness rules symmetry out: names are minted, and callers call, in order, so behaviours
that differ only in names are explored once. They cut off renamed copies, never a different behaviour.
`RaceOrLongLife` does cut off behaviours: liveness is checked with relays that race for two
events and with one relay that carries six, not with both at once.

### Properties worth knowing

* `InOrderDelivery`, `ClaimsAreFenced`, `RecordsMatchAggregate`, `RepositoriesAgree`,
  `ImplementsOrderedDelivery` (`pipeline`): no event is attempted before its predecessors
  are published; a token settles at most one record; the records of a session are exactly
  its versions; what is published was applied and a published completion has its run;
  with `log`, `delivered` and `settled` read off the outbox and the timeline, every step
  is a step of `OrderedDelivery` or a stutter.
* `ClaimsAreSound`, `ReceiptsTellTheRun` (post-call) and
  `EffectsReachTargetsOnce`, `CompletedMeansErased`, `HoldsProtect` (governance): an effect
  whose answer was lost is reconciled and never repeated; a hold keeps every effect that
  starts after it away from what it covers; `completed` means verified.
* `ImplementsOrderedActivities` (post-call): seen without claims, leases and budgets, an
  activity takes effect once, after the checkpoint of the one before it and before its own;
  a run that was given up leaves at most the activity of that moment to a late worker, and
  one that is over stays over. The invariant it makes of the effects,
  `EffectsHappenOnceInOrder`, is not checked beside it but proved (section 4).
* `AnswersAgree`, `SessionsAreWhole`, `StagedOnEvidence`, `NoCallIsStuck` (lifecycle).
* `OutcomeFollowsItsTurn`, `InterruptionWins`, `OutcomeIsTold` (driver): an answer or an
  interruption directly follows its own turn in the log, an accepted interruption is
  never overtaken by the answer; a submission returns its answer exactly if the answer is
  in the log, and a marker in the log belongs to exactly one interruption of its turn,
  which returns or is about to return success, so no interruption fails whose marker was
  committed. A failed submission may leave its participant's turn, which the driver
  commits before it asks for an answer.
* `ConversationMovesOnStage` (aggregate): the turn index never skips: a turn takes one
  index, an exchange two, from a whole number of exchanges, and only on stage.
* `OneVoiceHasTheFloor`, `SignalsNeverThrow` (coordinator): what plays is the generation
  that has the floor and was not cancelled; no handler asks the state machine for a
  transition it does not have.
* `DeliveriesAreRemembered`, `SilencedStaysSilent`, `HydratesFromHistory` (actor and
  registry): an event that was reduced is answered from the window or the history and
  never refused as unknown or reduced again; a generation that had begun when its
  cancellation ran, when the presenter changed or when the session ended never publishes;
  an actor starts from a state the history had.
* `BooksBalance`, `LayersAgree`, `NoBlindRetry`, `OperationsAreReleased` (tools): the runtime
  counts the executions it indexes, the coordinator charges a tenant one place for each
  command it remembers and indexes it by question and operation (`CommandsBalance`), and
  rows promised and written are those of the commands in flight and answered.
* `RoomsFollowReservations`, `ExposureIsBounded`, `BillingFollowsDelivery`,
  `NoBarrierIsForgotten` (paid rooms): no lost or late request, job or answer makes the
  database forget a running room; only an operator's receipt can. A barrier is resolved or
  dead-lettered if from some moment on the job is not lost any more.

### Fairness

* `EventRelay!Fairness`: some relay is polled for ever, a relay that started a `runOnce`
  ends it or crashes, the clock advances. `PostCallWorkflow!Fairness` and
  `GovernanceFairness`: runs and requests are polled, a worker that holds an execution
  goes on or dies, time passes for every item. These loops are driven by callers outside
  this code; without polling nothing is promised. No fairness is assumed for success: a
  worker may fail or die at every attempt, and its budget ends the work.
* `TurnDriver!Fairness`: the event loop runs every ready continuation, and the fast lane
  ends, because `runFastLane` arms a timer before it calls the port. `ActorFairness` and
  `RegistryFairness`: microtasks run, and a read of the replay source ends, because
  `readSourceWithDeadline` races it with a timer. `FlowFairness`: microtasks are drained,
  which the language promises.
* `PaidFairness`: the scheduler starts the cleanup job again and a job that runs goes on
  or dies; that it does not die for ever is no fairness but a premise of
  `NoBarrierIsForgotten`, and `cleanup_attempts` shows what happens without it. The webhook, the browser and the provider are under no fairness.

### Findings

1. `interaction_consent` - `consent.recorded` with `denied` or `revoked` reaches an active
   session; the returned state fails the reducer's own entry check, so the session can
   neither be completed nor failed (`packages/domain/src/reducer.ts:498`).
2. `turn_projection` - an actor hydrated before the activation stays behind for ever:
   later submissions commit their participant turn and fail
   (`packages/turns/src/index.ts:659`, against ADR-024).
3. `one_actor` - a request that arrives while a failed hydration is being forgotten
   hydrates the actor the registry is about to drop; the next one makes a second
   (`packages/session-runtime/src/index.ts:456`, against `SYSTEM_ARCHITECTURE.md:76`).
4. `governance_ended` - releasing or expiring a hold moves a cancelled request to `ready`
   or `blocked_by_legal_hold` (`packages/workflows/src/data-governance.ts:466`, against
   ADR-046).
5. `cleanup_attempts` - leasing a reservation counts an attempt but never looks at the
   count; only a reported failure dead-letters. A job that dies in every lease of a row
   keeps being leased that row, beyond the eighth attempt (`0040:1047`, against
   `docs/operations/PROVIDER_EFFECT_RECONCILIATION.md:46-48`).

The models show six more things no run is spent on, because no document of the
repository contradicts them or the run would say little more: a failed lifecycle command
restores a snapshot of the evidence of *all* sessions and erases what another command
committed meanwhile (`session-application:399`); a submission fenced by an interruption
that was then refused fails without cancelling its generation (`turns:810`); the
idempotency ledger exceeds its capacity when commands are in flight together
(`session-application:498`); a mailbox may hold up to `2 * mailbox_capacity - 1` items, since
normal ones are admitted next to queued cancellations without counting them
(`session-runtime:895`; `MailboxBounded` states the bounds it keeps); voiding an activated conversation moves it into the
count of undelivered ones, which can then exceed its cap (`0040:1470`); and a cancellation of a
generation that has not begun is answered `stale`, as one of a generation that is over, but
the generation may still begin and publish (`session-runtime:585`).

## 4. The proofs

TLC checks the instances of section 3; the theorems hold for *every* set of events,
sessions, calls, workers, rooms and so on, and for every budget, capacity and bound.
They assume nothing but the named `ASSUME`s of the modules, which TLC evaluates on every
run: that null values are no members of their sets (`PresentersAssumption`,
`RelayAssumption`, ...), that budgets, leases and capacities are natural numbers, most of
them positive (`OutboxAssumption`, `TimelineAssumption`, `WorkflowAssumption`,
`GovernanceAssumption`, `PaidEffectsAssumption`, `ActorAssumption`, `RuntimeAssumption`,
`FlowAssumption`, `RegistryAssumption`), that sessions are numbered (`SessionsAssumption`), that a profile's
thresholds are numbers and its shortest speech fits its longest utterance
(`CoordinatorAssumption`), that a turn command either submits or interrupts and the lane
has room for one to wait (`DriverAssumption`), that the intents include what the
coordinator derives from its commands (`DerivedAssumption`) and what direct callers hand
in (`DirectAssumption`) and that the names of all
locks have one order (`LifecycleAssumption`).

The plan of every proof is the same. A property is seldom inductive, so a stronger
invariant is stated, checked by TLC on small instances, and proved: it holds at the start
and each action keeps it, one lemma per action. The property then follows in every state,
and an action property from the invariant in the state before the step. What each
invariant adds, and why it is needed:

* **Aggregate** (`InteractionSessionProofs`): `FloorCorrect`, `TerminalCorrect`,
  `ConversationCorrect`. `SessionInv` adds that an absent session is the empty aggregate;
  otherwise a creation could inherit a presenter. That no index is skipped follows per
  event: a turn demands the next index, and an outcome one that is twice the exchanges.
* **Outbox** (`RelayProofs`, first part): lane order, fences, budgets, receipts and the
  finality of settlements (`InOrderCorrect`, `FencingCorrect`, ...). `OutboxInv` is their
  conjunction: in-order delivery needs the versions of a lane to be those of its
  aggregate, the receipts need the fences. *Moved*: every step of the claim protocol
  changes one record that has no unpublished predecessor and no place in a lane.
  *CommitEffect*: a batch adds records at the versions after the aggregate's, one each.
* **Relays** (`RelayProofs`): `RepositoriesAgreeAlways` and `RelayImplementsOrderedDelivery`,
  the step by step refinement of `OrderedDelivery`. `RelayInv` adds to `OutboxInv` that
  the timeline is a prefix of its session's log, that *one* replay of that log passes
  through both the timeline's state and the outbox's aggregate (so a second reducer run
  never refuses what the first accepted), that what a relay has in hand is what it
  claimed, and that published means applied. A batch is one abstract commit, an append one
  abstract delivery, an acknowledgement or a dead letter one settlement, and every other
  step a stutter.
* **Lifecycle** (`LifecycleProofs`): `RetriesAgree`, `SessionsStayWhole`,
  `LocksNeverDeadlock`, `StagedOnKeptEvidence`. `LifecycleInv` says for which locks a call is
  queued (its first lock always, the last only while it holds the first), what it carries
  at each await (`Carries`), that the ledger has the answer of a call that succeeded and
  none for a call at work (`AnswerKept`: two calls at work cannot share a key, since both
  would hold its lock), and that a session being delivered is new and belongs to one call
  (`Fresh`). Deadlock freedom then takes the lock that comes last among those held: who
  holds it waits for nothing.
* **Runs** (`WorkflowProofs`): `ActivitiesHappenOnce`, `ClaimsStaySound`, `ReceiptsStayTrue`,
  `FinishedRunsStay`. `WorkflowInv` adds the shape of a run in each status, that the
  activities' ledger has exactly what took effect and never runs ahead of the artifacts by
  more than the current step (`LedgerTells`), that the next receipt belongs after all there
  are (`Ahead`), and that executions never share a token (`WorkersFenced`).
  `ActivitiesRunInOrder` is the refinement of `OrderedActivities`, step by step: an enqueue
  makes a run, an activity that is not answered from the ledger takes effect, a checkpoint
  is one, an exhaustion, a terminal failure or a cancellation gives up, and everything else
  is a stutter. It needs, beyond `WorkflowInv`, that an execution is one of a run that was
  enqueued (`ExecutionsHaveRuns`); that a late worker finds only the next activity undone
  follows from the ledger lying between the artifacts and the current step.
* **Disposition** (`WorkflowProofs`): `EffectsAreNotRepeated`, `HoldsAreKept`,
  `CompletionIsErasure`. `GovernanceInv` adds that at most one worker is between lease and
  effect of an item, and only while its target is untouched (`OneApplier`), which operation
  each state of an item implies and that one being verified was reached once
  (`OperationsTell`), that no worker has anything before the first lease
  (`NothingStarted`), that a held item is absent or held, and that a completed request
  verified its whole inventory.
* **Paid rooms** (`PaidEffectsProofs`): `RoomsAreReserved`, `ExposureStaysBounded`,
  `OnlyDeliveriesAreBilled`. `PaidInv` adds what a row's room, delivery and bill may be in
  each state (`RowSound`), what a request may still do to its row (`CallerSound`), that one
  request opens a room and no other touches it before (`OneOpener`), that a confirmed end
  was an end (`CleanerSound`), and that a retry follows a release; a row an operator vouched for
  stays released, while its room may run on or still be opened by the request that had
  crossed the fence. The count of exposure needs the reserved rows to be finitely many.
* **Coordinator** (`TurnsProofs`): `SignalsAreListed`, `FloorAndGenerationsAgree`,
  `NoGenerationIsLost`. `CoordinatorInv` adds that speech too short to count is as old as the
  utterance, so that no length limit cuts an utterance that was not yet a turn
  (`SpeechCounts`), and that generations are numbered in order.
* **Driver** (`TurnsProofs`): `OneMouth`, `CallersAreTold`, `InterruptionsWin`. `DriverInv` says
  who is in the lane (`LaneSound`), that an active projection is the aggregate but for the
  one envelope on its way, which it can take (`Synced`), what a pending generation and its
  fence say of its submission (`PendingKnown`), that a fence is never taken back, which
  turn the last entry of the log is about (`TalkKnown`), that a turn is the target of one
  interruption at most (`TargetsOnce`), and that a marker is of a turn one of them
  has interrupted (`MarkersKnown`).
* **Actor** (`TurnsProofs`): `DeliveriesRemembered`, `SilencedForGood`, `ActorTypeCorrect`.
  `ActorInv` adds that a record is queued exactly while its item is in the mailbox
  (`Matched`), also when the window evicts, and that a silenced generation was begun
  and is not on air, so that it cannot come back, since no number is given twice (`Silent`). The bounds of windows and mailbox are a
  second invariant on top of it (`ActorBounds`).
* **Registry** (`TurnsProofs`): `RegistryTypeCorrect`, `PlacesAreFreed`,
  `HydrationsFollowHistory`. `RegistryInv` adds that actors are made in order and the map and
  the requests know only those (`ActorsKnown`), that a read of the history found at least
  what was there when the hydration began (`ReadsSound`), and that an actor in the map that
  is not hydrated has the request that made it leading its hydration or on its way to take
  it out (`CreatorsWait`): without that a failure could leave a place taken for ever.
* **Compositions**: `PipelinePartsRunAlone`, `PartsRunAlone`, `WorkPartsRunAlone` and
  `ToolPartsRunAlone` show that the specification a run checks implies that of each
  part, so every theorem above holds of the run's behaviours. `PipelineTypeCorrect`
  (`MCTypeOK`), `NothingLeaks` (`BoundsHold`), `EveryBookBalances` and
  `NothingIsEverRetriedBlindly` state it for the properties that span parts.
* **Tools** (`ToolsProofs`): `LedgersAlwaysBalance`, `NothingIsRetriedBlindly` for the public
  runtime, `BooksAlwaysBalance`, `LayersAlwaysAgree`, `CoordinatorNeverRetriesBlindly` for both
  layers. `RuntimeInv` has the two indexes list the same executions under their own names
  (`Indexed`), the count be theirs (`Counted`) and a waiting promise have its operation to
  itself with no barrier before it (`Promised`). `FlowInv` adds which phases of a dispatch go
  with which states of its promise (`Dispatched`) and that the coordinator's places, questions
  and operations are those of its commands (`CommandsKnown`, `CommandsCounted`): the two layers clean up in different
  microtasks, so their barriers agree only up to the command in flight.

Proved and checked by no run of their own: `BudgetCorrect`, `ReceiptCorrect`,
`SettlementCorrect`, `FinishedRunsStay`, `NoGenerationIsLost`, `LedgersAlwaysBalance`, the
four compositions and the type invariants of the parts.

Every invariant and every safety action property of a passing run is stated by a theorem.
Only model-checked: the liveness properties (`EveryEventSettles`,
`InconsistentSessionDeadLetters`, `WorkFinishes`, `NoBarrierIsForgotten`,
`OperationsAreReleased`, `EveryCallReturns`), because fairness and `ENABLED` are out of the
prover's reach, and `LayersAgree` for direct callers, which holds in the run because the
direct intents name none of the coordinator's operations (there is no second layer to
agree with). Nothing here is proved by induction over data: the replay of a log is given by
its steps, never by a recursive definition.

## 5. Not modelled, and why

Requests are already parsed, authenticated and of one tenant (the tool runtime has two).
The lifecycle's reads and metrics are left out: they change no state. Materialising a
snapshot replaces the timeline's latest one by the state at its head; the registry's model
has it as what a hydration reads, the timeline's own does not repeat it. Corruption of stored maps from outside, failing rollbacks, and
factories that return malformed values raise configuration errors and stop the call
before any state changes. Wording, hashing and timestamps are left out wherever no
property is about them.

In `PaidEffects` one cleanup job and one usage job run at a time, each with one leased row;
only a dead job's lease expires (a lease is 60 s and a call 25 s at most). Sending a usage
event and settling its row are one step with all outcomes. Recall bots, the daily cap of
20, the roll-over of the billing period, subscription and exemption checks, checkout intents and AI usage reservations live in
the same SQL file and are not modelled.

The rest of the portal (text preview runtime, business action bridge, channel bridge,
meeting notifications, AI budget) is not modelled for lack of room, not of reason: each
is a protocol of a request with SQL functions of its own. The Postgres repository of the
governance worker forwards to database functions whose effects `DataGovernance` has from
the in-memory repository. Degradation, costing, hand-off, composition and provider
adapters are pure functions or clients and hold no state that an interleaving could break.

## 6. Plan

1. The portal's remaining protocols, on the pattern of `PaidEffects`: AI usage
   reservations, checkout intents, meeting notifications.
2. Bounded-input checks of the pure pieces: degradation controller, costing.
3. A statement for disposition requests on the pattern of `OrderedActivities`.
