-------------------------- MODULE InteractionReducer --------------------------
(***************************************************************************)
(* The pure reducer of the interaction aggregate (packages/domain):        *)
(* which canonical event a state accepts and the state that follows.  The  *)
(* payload data that never decides a transition (role, quality dimensions, *)
(* language, open questions...) is left out; an event that only replaces   *)
(* such data still moves the version.  An aggregate that does not exist    *)
(* yet (undefined in the code) is the state whose status is "absent".      *)
(***************************************************************************)
EXTENDS Integers

CONSTANTS
  Presenters,    \* participant identities that may own the presenter floor
  NoPresenter    \* active_presenter_id = null

ASSUME PresentersAssumption == NoPresenter \notin Presenters

Statuses     == {"absent", "preparing", "ready", "active", "handoff_pending",
                 "completed", "failed"}
Consents     == {"not_required", "pending", "granted", "denied", "revoked"}
Disclosures  == {"pending", "delivered", "acknowledged", "failed"}
Degraded     == {"minor", "major", "voice_only", "text_only"}
Degradations == Degraded \cup {"none", "terminated"}

AggregateState ==
  [status      : Statuses,
   presenter   : Presenters \cup {NoPresenter},
   consent     : Consents,
   disclosure  : Disclosures,
   degradation : Degradations,
   started     : BOOLEAN,      \* started_at # null
   turn        : Nat,          \* conversation.turn_index
   sales       : BOOLEAN,      \* extensions.sales is installed
   version     : Nat]          \* session.state_version

AbsentAggregate ==
  [status |-> "absent", presenter |-> NoPresenter, consent |-> "pending",
   disclosure |-> "pending", degradation |-> "none", started |-> FALSE,
   turn |-> 0, sales |-> FALSE, version |-> 0]

-------------------------------------------------------------------------------
(* Canonical events, as parseInteractionEvent lets them through. *)

PlainTypes ==
  {"session.created", "session.prepared", "session.completed",
   "session.failed", "turn.interrupted", "role.updated", "quality.updated",
   "sales.installed", "sales.updated", "sales.uninstalled"}

Event ==
  [type : PlainTypes]
    \cup [type : {"disclosure.delivered"}, status : {"delivered", "acknowledged"}]
    \cup [type : {"consent.recorded"}, status : Consents]
    \cup [type : {"session.degraded"}, level : Degraded]
    \cup [type : {"session.activated"}, presenter : Presenters]
    \cup [type : {"presenter.changed"},
          expected : Presenters \cup {NoPresenter}, presenter : Presenters]
    \cup [type : {"turn.committed"}, turn : Nat \ {0},
          speaker : {"presenter", "participant"}, participant : Presenters]
    \cup [type : {"turn.outcome_recorded"}, generation : Nat,
          outcome : {"succeeded", "failed"}, resulting : Nat]

-------------------------------------------------------------------------------
(* assertCurrentState: what the reducer demands of the state it starts from. *)

(* Mutation: a failed session still takes events. *)
Terminal_FailedForgotten(st) == st.status = "completed"

Terminal(st)       == st.status \in {"completed", "failed"}
OnStage(st)        == st.status \in {"active", "handoff_pending"}
Disclosed(st)      == st.disclosure \in {"delivered", "acknowledged"}
ConsentAllowed(st) == st.consent \in {"not_required", "granted"}

Consistent(st) ==
  /\ st \in AggregateState
  /\ st.status # "absent"
  /\ st.version >= 1
  /\ IF OnStage(st)
       THEN /\ st.presenter # NoPresenter
            /\ Disclosed(st)
            /\ ConsentAllowed(st)
            /\ st.started
       ELSE st.presenter = NoPresenter

-------------------------------------------------------------------------------
(* The guard of each event type on a consistent, existing state. *)

CommitsTurn(st, ev) ==
  /\ st.status = "active"
  /\ ev.turn = st.turn + 1
  /\ (ev.speaker = "presenter") = (ev.participant = st.presenter)

(* Mutation: the outcome's generation and resulting index go unchecked. *)
RecordsOutcome_Unchecked(st, ev) == st.status = "active"

RecordsOutcome(st, ev) ==
  /\ st.status = "active"
  /\ ev.generation * 2 = st.turn
  /\ ev.resulting = IF ev.outcome = "succeeded" THEN st.turn + 2 ELSE st.turn

Permits(st, ev) ==
  \/ /\ ev.type = "session.prepared"
     /\ st.status = "preparing"
  \/ /\ ev.type \in {"disclosure.delivered", "consent.recorded",
                     "session.degraded", "session.failed", "role.updated",
                     "quality.updated"}
     /\ ~Terminal(st)
  \/ /\ ev.type = "session.activated"
     /\ st.status = "ready"
     /\ Disclosed(st)
     /\ ConsentAllowed(st)
  \/ /\ ev.type = "presenter.changed"
     /\ OnStage(st)
     /\ st.presenter = ev.expected
  \/ /\ ev.type = "session.completed"
     /\ st.status \in {"ready", "active", "handoff_pending"}
  \/ /\ ev.type = "turn.committed"
     /\ CommitsTurn(st, ev)
  \/ /\ ev.type = "turn.outcome_recorded"
     /\ RecordsOutcome(st, ev)
  \/ /\ ev.type = "turn.interrupted"
     /\ st.status = "active"
  \/ /\ ev.type = "sales.installed"
     /\ ~st.sales
  \/ /\ ev.type \in {"sales.updated", "sales.uninstalled"}
     /\ st.sales

(* An event is accepted at the version that follows the state's own. *)
Accepts(st, ev, version) ==
  /\ version = st.version + 1
  /\ IF st.status = "absent"
       THEN ev.type = "session.created"
       ELSE Consistent(st) /\ Permits(st, ev)

-------------------------------------------------------------------------------
(* The state after an accepted event: advance() applied to the changes. *)

(* Mutation: the presenter keeps the floor of a closed session. *)
Closed_FloorKept(st, status, degradation) ==
  [st EXCEPT !.status = status, !.degradation = degradation]

Closed(st, status, degradation) ==
  [st EXCEPT !.status = status, !.presenter = NoPresenter,
             !.degradation = degradation]

Changed(st, ev) ==
  CASE ev.type = "session.created" ->
         [AbsentAggregate EXCEPT !.status = "preparing"]
    [] ev.type = "session.prepared" ->
         [st EXCEPT !.status = "ready"]
    [] ev.type = "disclosure.delivered" ->
         [st EXCEPT !.disclosure = ev.status]
    [] ev.type = "consent.recorded" ->
         [st EXCEPT !.consent = ev.status]
    [] ev.type = "session.activated" ->
         [st EXCEPT !.status = "active", !.presenter = ev.presenter,
                    !.started = TRUE]
    [] ev.type = "presenter.changed" ->
         [st EXCEPT !.status = "active", !.presenter = ev.presenter]
    [] ev.type = "session.degraded" ->
         [st EXCEPT !.degradation = ev.level]
    [] ev.type = "session.completed" ->
         Closed(st, "completed", st.degradation)
    [] ev.type = "session.failed" ->
         Closed(st, "failed", "terminated")
    [] ev.type = "turn.committed" ->
         [st EXCEPT !.turn = ev.turn]
    [] ev.type = "turn.outcome_recorded" ->
         [st EXCEPT !.turn = ev.resulting]
    [] ev.type = "sales.installed" ->
         [st EXCEPT !.sales = TRUE]
    [] ev.type = "sales.uninstalled" ->
         [st EXCEPT !.sales = FALSE]
    [] OTHER -> st

Reduce(st, ev, version) == [Changed(st, ev) EXCEPT !.version = version]
===============================================================================
