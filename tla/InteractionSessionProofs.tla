----------------------- MODULE InteractionSessionProofs -----------------------
(***************************************************************************)
(* Proofs about the interaction aggregate, for every set of presenters and *)
(* every bound on turns and versions, and about the aggregate next to the  *)
(* relays that carry its events.                                           *)
(***************************************************************************)
EXTENDS MCPipeline, RelayProofs

(* Strengthening: a session that does not exist yet carries nothing. *)
SessionInv ==
  /\ TypeOK
  /\ FloorDiscipline
  /\ interaction.status = "absent" => interaction = AbsentAggregate

(* The bounded inputs are canonical events. *)
LEMMA BoundedIsEvent == BoundedEvents \subseteq Event
BY BoundsAssumption DEF BoundedEvents, Event, Degraded

(* No session exists at first. *)
LEMMA SessionInit == Init => SessionInv
BY PresentersAssumption
   DEF Init, SessionInv, TypeOK, FloorDiscipline, AbsentAggregate, AggregateState,
       Statuses, Consents, Disclosures, Degradations, OnStage

(* The events that may move the floor, and the others. *)
FloorTypes ==
  {"session.created", "session.activated", "presenter.changed",
   "session.completed", "session.failed"}

(* Every accepted event keeps the invariant. *)
LEMMA SessionStep ==
  ASSUME SessionInv, NEW ev \in BoundedEvents, ApplyEvent(ev)
  PROVE  SessionInv'
<1> DEFINE next == Changed(interaction, ev)
<1>1. ev \in Event /\ interaction \in AggregateState
  BY BoundedIsEvent DEF SessionInv, TypeOK
<1>2. next \in AggregateState
  BY <1>1, ChangedType
<1>3. /\ interaction' = [next EXCEPT !.version = interaction.version + 1]
      /\ Accepts(interaction, ev, interaction.version + 1)
  BY DEF ApplyEvent, Reduce
<1>4. interaction' \in AggregateState
  BY <1>1, <1>2, <1>3 DEF AggregateState
<1>5. /\ interaction'.status = next.status
      /\ interaction'.presenter = next.presenter
      /\ interaction'.disclosure = next.disclosure
      /\ interaction'.started = next.started
  BY <1>2, <1>3 DEF AggregateState
<1>6. /\ next.status # "absent"
      /\ OnStage(next) <=> next.presenter # NoPresenter
      /\ OnStage(next) => Disclosed(next) /\ next.started
  <2>1. CASE interaction.status = "absent"
    BY <1>3, <2>1 DEF Accepts, Changed, AbsentAggregate, OnStage
  <2>2. CASE interaction.status # "absent"
    <3>1. Consistent(interaction) /\ Permits(interaction, ev)
      BY <1>3, <2>2 DEF Accepts
    <3>2. CASE ev.type \in FloorTypes
      BY ZenonT(60), <1>1, <2>2, <3>1, <3>2, PresentersAssumption
         DEF FloorTypes, Permits, Changed, Closed, AggregateState, Consistent,
             OnStage, Disclosed, AbsentAggregate, Event, PlainTypes
    <3>3. CASE ev.type = "disclosure.delivered"
      BY <1>1, <2>2, <3>1, <3>3
         DEF Permits, Changed, AggregateState, Consistent, OnStage, Disclosed,
             Event, PlainTypes
    <3>4. CASE ev.type \notin FloorTypes \cup {"disclosure.delivered"}
      <4>1. /\ next.presenter = interaction.presenter
            /\ next.disclosure = interaction.disclosure
            /\ next.started = interaction.started
            /\ \/ next.status = interaction.status
               \/ next.status = "ready" /\ interaction.status = "preparing"
        BY <1>1, <3>1, <3>4
           DEF FloorTypes, Permits, Changed, AggregateState, Event, PlainTypes
      <4>2. QED
        BY <2>2, <3>1, <4>1 DEF Consistent, OnStage, Disclosed
    <3>5. QED
      BY <3>2, <3>3, <3>4
  <2>3. QED
    BY <2>1, <2>2
<1>7. QED
  BY <1>4, <1>5, <1>6
     DEF SessionInv, TypeOK, FloorDiscipline, OnStage, Disclosed

(* The strengthened invariant holds of every reachable aggregate. *)
LEMMA SessionInvariant == Spec => []SessionInv
<1>1. Init => SessionInv
  BY SessionInit
<1>2. SessionInv /\ [Next]_interaction => SessionInv'
  <2> SUFFICES ASSUME SessionInv, [Next]_interaction PROVE SessionInv'
    OBVIOUS
  <2>1. CASE Next
    BY <2>1, SessionStep DEF Next
  <2>2. CASE UNCHANGED interaction
    BY <2>2 DEF SessionInv, TypeOK, FloorDiscipline
  <2>3. QED
    BY <2>1, <2>2
<1>3. QED
  BY <1>1, <1>2, PTL DEF Spec

(* Every reachable aggregate is a well-typed state. *)
THEOREM SessionTypeCorrect == Spec => []TypeOK
<1>1. SessionInv => TypeOK
  BY DEF SessionInv
<1>2. QED
  BY <1>1, SessionInvariant, PTL

(* The floor has an owner exactly while the session is on stage, and then   *)
(* the disclosure was delivered and the start recorded.                     *)
THEOREM FloorCorrect == Spec => []FloorDiscipline
<1>1. SessionInv => FloorDiscipline
  BY DEF SessionInv
<1>2. QED
  BY <1>1, SessionInvariant, PTL

-------------------------------------------------------------------------------
(* Only sales events are accepted by a closed session. *)
LEMMA KernelStep ==
  ASSUME SessionInv, [Next]_interaction
  PROVE  KernelIsFinal
<1> SUFFICES ASSUME interaction.status \in {"completed", "failed"},
                    NEW ev \in BoundedEvents, ApplyEvent(ev)
             PROVE  interaction' = [interaction EXCEPT !.sales = interaction'.sales,
                                                   !.version = interaction'.version]
  BY DEF Next, KernelIsFinal, SessionInv, TypeOK, AggregateState
<1>1. interaction \in AggregateState /\ ev \in Event
  BY BoundedIsEvent DEF SessionInv, TypeOK
<1>2. Permits(interaction, ev) /\ interaction' = Reduce(interaction, ev, interaction.version + 1)
  BY DEF ApplyEvent, Accepts
<1>3. ev.type \in {"sales.installed", "sales.updated", "sales.uninstalled"}
  BY <1>2 DEF Permits, Terminal, OnStage, CommitsTurn, RecordsOutcome
<1>4. \/ Changed(interaction, ev) = interaction
      \/ Changed(interaction, ev) = [interaction EXCEPT !.sales = TRUE]
      \/ Changed(interaction, ev) = [interaction EXCEPT !.sales = FALSE]
  BY <1>3 DEF Changed
<1>5. QED
  BY <1>1, <1>2, <1>4 DEF Reduce, AggregateState

(* Only a turn or its outcome moves the conversation index. *)
LEMMA TurnStep ==
  ASSUME SessionInv, [Next]_interaction
  PROVE  TurnMovesOnStage
<1> SUFFICES ASSUME interaction'.turn # interaction.turn,
                    NEW ev \in BoundedEvents, ApplyEvent(ev)
             PROVE  /\ \/ interaction'.turn = interaction.turn + 1
                       \/ /\ interaction'.turn = interaction.turn + 2
                          /\ \E exchanges \in 0..interaction.turn :
                               interaction.turn = 2 * exchanges
                    /\ interaction.status = "active"
                    /\ interaction'.presenter = interaction.presenter
  BY DEF Next, TurnMovesOnStage
<1> DEFINE next == Changed(interaction, ev)
<1>1. ev \in Event /\ interaction \in AggregateState /\ next \in AggregateState
  BY BoundedIsEvent, ChangedType DEF SessionInv, TypeOK
<1>2. /\ interaction' = [next EXCEPT !.version = interaction.version + 1]
      /\ Accepts(interaction, ev, interaction.version + 1)
  BY DEF ApplyEvent, Reduce
<1>3. interaction'.turn = next.turn /\ interaction'.presenter = next.presenter
  BY <1>1, <1>2 DEF AggregateState
<1>4. CASE interaction.status = "absent"
  <2>1. next.turn = interaction.turn
    BY <1>2, <1>4 DEF Accepts, Changed, SessionInv, AbsentAggregate
  <2>2. QED
    BY <1>3, <2>1
<1>5. CASE interaction.status # "absent"
  <2>1. Permits(interaction, ev) /\ Consistent(interaction)
    BY <1>2, <1>5 DEF Accepts
  <2>2. CASE ev.type = "turn.committed"
    BY <1>1, <1>3, <2>1, <2>2
       DEF Permits, CommitsTurn, Changed, AggregateState, Event, PlainTypes
  <2>3. CASE ev.type = "turn.outcome_recorded"
    <3>1. RecordsOutcome(interaction, ev)
      BY <2>1, <2>3 DEF Permits
    <3>2. next = [interaction EXCEPT !.turn = ev.resulting]
      BY <2>3 DEF Changed
    <3>3. ev.generation \in Nat /\ interaction.turn \in Nat
      BY <1>1, <2>3 DEF Event, PlainTypes, AggregateState
    <3>4. ev.generation \in 0..interaction.turn /\ interaction.turn = 2 * ev.generation
      BY <3>1, <3>3 DEF RecordsOutcome
    <3>5. interaction'.turn = interaction.turn + 2
      BY <1>1, <1>3, <3>1, <3>2 DEF RecordsOutcome, AggregateState
    <3>6. interaction.status = "active" /\ interaction'.presenter = interaction.presenter
      BY <1>1, <1>3, <3>1, <3>2 DEF RecordsOutcome, AggregateState
    <3>7. QED
      BY <3>4, <3>5, <3>6
  <2>4. CASE ev.type \notin {"turn.committed", "turn.outcome_recorded"}
    <3>1. ev.type # "session.created"
      BY <2>1 DEF Permits
    <3>2. next.turn = interaction.turn
      BY <1>1, <2>4, <3>1 DEF Changed, Closed, AggregateState
    <3>3. QED
      BY <1>3, <3>2
  <2>5. QED
    BY <2>2, <2>3, <2>4
<1>6. QED
  BY <1>4, <1>5

(* Once a session is completed or failed, only the sales extension and the  *)
(* version still move.                                                      *)
THEOREM TerminalCorrect == Spec => TerminalKernelIsFinal
<1>1. SessionInv /\ [Next]_interaction => [KernelIsFinal]_interaction
  BY KernelStep
<1>2. QED
  BY <1>1, SessionInvariant, PTL DEF Spec, TerminalKernelIsFinal

(* The conversation index grows by one turn, or by one exchange where the   *)
(* last one was complete, under one unchanged floor owner.                  *)
THEOREM ConversationCorrect == Spec => ConversationMovesOnStage
<1>1. SessionInv /\ [Next]_interaction => [TurnMovesOnStage]_interaction
  BY TurnStep
<1>2. QED
  BY <1>1, SessionInvariant, PTL
     DEF Spec, ConversationMovesOnStage

-------------------------------------------------------------------------------
(* The aggregate and the relays, side by side, behave as they do alone:     *)
(* whatever is proved of one holds next to the other.                       *)
THEOREM PipelinePartsRunAlone == MCSpec => Spec /\ RelaySpec
<1>1. MCInit => Init /\ RelayInit
  BY DEF MCInit
<1>2. [MCNext]_<<interaction, relayVars, part>>
        => [Next]_interaction /\ [RelayNext]_relayVars
  BY DEF MCNext
<1>3. QED
  BY <1>1, <1>2, PTL DEF MCSpec, Spec, RelaySpec

(* Every variable of the aggregate, the outbox, the timeline and the relays *)
(* holds what it may hold, for every number of sessions, events, tokens and *)
(* relays (InteractionAggregate, InMemoryTransactionalOutbox, EventRelay).  *)
THEOREM PipelineTypeCorrect == MCSpec => []MCTypeOK
  BY PipelinePartsRunAlone, SessionTypeCorrect, RelayTypeCorrect, PTL DEF MCTypeOK

===============================================================================
