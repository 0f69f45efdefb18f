-------------------------- MODULE InteractionSession --------------------------
(***************************************************************************)
(* One interaction aggregate driven by every event its reducer can be      *)
(* handed.  An event the reducer rejects throws and changes nothing, so    *)
(* only accepted events are steps.                                         *)
(***************************************************************************)
EXTENDS InteractionReducer

CONSTANTS
  MaxTurn,      \* bound: highest turn index an input event names
  MaxVersion    \* bound: highest interaction version explored

ASSUME BoundsAssumption == MaxTurn \in Nat /\ MaxVersion \in Nat

VARIABLE interaction

(* Events whose numeric payload stays within the bound. *)
BoundedEvents ==
  [type : PlainTypes]
     \cup [type : {"disclosure.delivered"}, status : {"delivered", "acknowledged"}]
     \cup [type : {"consent.recorded"}, status : Consents]
     \cup [type : {"session.degraded"}, level : {"minor", "text_only"}]
     \cup [type : {"session.activated"}, presenter : Presenters]
     \cup [type : {"presenter.changed"},
           expected : Presenters \cup {NoPresenter}, presenter : Presenters]
     \cup [type : {"turn.committed"}, turn : 1..MaxTurn,
           speaker : {"presenter", "participant"}, participant : Presenters]
     \cup [type : {"turn.outcome_recorded"}, generation : 0..MaxTurn,
           outcome : {"succeeded", "failed"}, resulting : 0..MaxTurn]

Init == interaction = AbsentAggregate

ApplyEvent(ev) ==
  /\ interaction.version < MaxVersion
  /\ Accepts(interaction, ev, interaction.version + 1)
  /\ interaction' = Reduce(interaction, ev, interaction.version + 1)

Next == \E ev \in BoundedEvents : ApplyEvent(ev)

Spec == Init /\ [][Next]_interaction

-------------------------------------------------------------------------------
(* Every reachable aggregate is a well-typed state. *)
TypeOK == interaction \in AggregateState

(* The presenter floor: a session is on stage exactly when one participant  *)
(* owns the floor, and then the disclosure was delivered and the start time *)
(* was recorded.  No sequence of degradations, handoffs, failures or sales  *)
(* events leaves an owner behind or a live session without one.             *)
FloorDiscipline ==
  /\ OnStage(interaction) <=> interaction.presenter # NoPresenter
  /\ OnStage(interaction) => Disclosed(interaction) /\ interaction.started

KernelIsFinal ==
  interaction.status \in {"completed", "failed"} =>
    interaction' = [interaction EXCEPT !.sales = interaction'.sales,
                                   !.version = interaction'.version]

(* Once completed or failed, the generic kernel of a session is final: only *)
(* the sales extension and the version may still move.                      *)
TerminalKernelIsFinal == [][KernelIsFinal]_interaction

(* A turn takes one index; the outcome of an exchange takes two, and only   *)
(* where a whole number of exchanges was made before it.                    *)
TurnMovesOnStage ==
  interaction'.turn # interaction.turn =>
    /\ \/ interaction'.turn = interaction.turn + 1
       \/ /\ interaction'.turn = interaction.turn + 2
          /\ \E exchanges \in 0..interaction.turn : interaction.turn = 2 * exchanges
    /\ interaction.status = "active"
    /\ interaction'.presenter = interaction.presenter

(* The conversation moves forward without skipping an index, and only while *)
(* somebody owns the floor before and after the step, whatever order turns, *)
(* outcomes, handoffs and closes arrive in.                                 *)
ConversationMovesOnStage == [][TurnMovesOnStage]_interaction

(* What the reducer returns passes the check the reducer itself makes on    *)
(* the state it starts from (assertCurrentState).                           *)
ReducedStateIsConsistent ==
  interaction.status # "absent" => Consistent(interaction)
===============================================================================
