----------------------------- MODULE ReducerProofs -----------------------------
(***************************************************************************)
(* Facts about the pure reducer that the proofs about its users rest on.   *)
(***************************************************************************)
EXTENDS InteractionReducer, TLAPS

(* What an event makes of a well-typed state is well typed. *)
LEMMA ChangedType ==
  ASSUME NEW st \in AggregateState, NEW ev \in Event
  PROVE  Changed(st, ev) \in AggregateState
<1>1. AbsentAggregate \in AggregateState
  BY PresentersAssumption DEF AbsentAggregate, AggregateState, Statuses,
     Consents, Disclosures, Degradations
<1>2. CASE ev.type \in PlainTypes
  <2>1. CASE ev.type = "session.created"
    BY <1>1, <2>1 DEF Changed, AggregateState, Statuses
  <2>2. CASE ev.type = "session.prepared"
    BY <2>2 DEF Changed, AggregateState, Statuses
  <2>3. CASE ev.type \in {"session.completed", "session.failed"}
    BY ZenonT(60), <2>3 DEF Changed, Closed, AggregateState, Statuses, Degradations
  <2>4. CASE ev.type \in {"sales.installed", "sales.uninstalled"}
    BY <2>4 DEF Changed, AggregateState
  <2>5. CASE ev.type \in {"turn.interrupted", "role.updated",
                          "quality.updated", "sales.updated"}
    BY <2>5 DEF Changed, AggregateState
  <2>6. QED
    BY <1>2, <2>1, <2>2, <2>3, <2>4, <2>5 DEF PlainTypes
<1>3. CASE ev.type = "disclosure.delivered"
  BY <1>3 DEF Changed, AggregateState, Event, PlainTypes, Disclosures
<1>4. CASE ev.type = "consent.recorded"
  BY <1>4 DEF Changed, AggregateState, Event, PlainTypes
<1>5. CASE ev.type = "session.degraded"
  BY <1>5 DEF Changed, AggregateState, Event, PlainTypes, Degradations
<1>6. CASE ev.type \in {"session.activated", "presenter.changed"}
  BY <1>6 DEF Changed, AggregateState, Event, PlainTypes, Statuses
<1>7. CASE ev.type = "turn.committed"
  BY <1>7 DEF Changed, AggregateState, Event, PlainTypes
<1>8. CASE ev.type = "turn.outcome_recorded"
  BY <1>8 DEF Changed, AggregateState, Event, PlainTypes
<1>9. QED
  BY <1>2, <1>3, <1>4, <1>5, <1>6, <1>7, <1>8 DEF Event

(* So the state after an event, at any version, is again well typed. *)
LEMMA ReduceType ==
  ASSUME NEW st \in AggregateState, NEW ev \in Event, NEW v \in Nat
  PROVE  Reduce(st, ev, v) \in AggregateState
BY ChangedType DEF Reduce, AggregateState

(* An accepted event leaves a well-typed state at the event's own version,  *)
(* whatever was known of the state before: the reducer checks it.           *)
LEMMA AcceptedType ==
  ASSUME NEW st, NEW ev \in Event, NEW v \in Nat, Accepts(st, ev, v)
  PROVE  Reduce(st, ev, v) \in AggregateState /\ Reduce(st, ev, v).version = v
<1>1. Changed(st, ev) \in AggregateState
  <2>1. CASE st.status = "absent"
    BY <2>1, PresentersAssumption DEF Accepts, Changed, AbsentAggregate,
       AggregateState, Statuses, Consents, Disclosures, Degradations
  <2>2. CASE st.status # "absent"
    BY <2>2, ChangedType DEF Accepts, Consistent
  <2>3. QED
    BY <2>1, <2>2
<1>2. QED
  BY <1>1 DEF Reduce, AggregateState
===============================================================================
