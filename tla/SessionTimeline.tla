---------------------------- MODULE SessionTimeline ----------------------------
(***************************************************************************)
(* The authoritative session timeline of one tenant                        *)
(* (packages/events/src/timeline.ts): the events of each session in        *)
(* version order and the state they replay to.  Appending is synchronous,  *)
(* so an append is one step; AppendOutcome says what it does.              *)
(***************************************************************************)
EXTENDS Sequences, FiniteSets, EventEnvelope

CONSTANTS
  MaxTimelineSessions,  \* maxSessionsPerTenant
  MaxTimelineEvents     \* maxEventsPerSession

ASSUME TimelineAssumption ==
  /\ MaxTimelineSessions \in Nat \ {0}
  /\ MaxTimelineEvents \in Nat \ {0}

VARIABLES
  timeline,     \* stored envelopes of each session
  projected     \* authoritativeState of each session

timelineVars == <<timeline, projected>>

TimelineInit ==
  /\ timeline  = [s \in Sessions |-> <<>>]
  /\ projected = [s \in Sessions |-> AbsentAggregate]

Stored == UNION {{timeline[s][i] : i \in DOMAIN timeline[s]} : s \in Sessions}

(* A session that has no timeline yet counts against the session cap, one   *)
(* that has is held to its event cap.                                       *)
OverCapacity(s) ==
  IF timeline[s] = <<>>
    THEN Cardinality({r \in Sessions : timeline[r] # <<>>}) >= MaxTimelineSessions
    ELSE Len(timeline[s]) >= MaxTimelineEvents

Applicable(env) ==
  /\ env.version = Len(timeline[env.session]) + 1
  /\ Accepts(projected[env.session], env.event, env.version)

(* Mutation: the next state is stored without hashing (validating) it. *)
AppendOutcome_Unhashed(env) ==
  CASE env \in Stored                             -> "recorded"
    [] env \notin Stored /\ \E x \in Stored : x.id = env.id -> "conflict"
    [] OTHER ->
         IF OverCapacity(env.session) THEN "capacity"
         ELSE IF ~Applicable(env) THEN "conflict"
         ELSE "appended"

(* What appendCanonicalEvent does with an envelope: an identical event is   *)
(* answered with its first receipt, another event under a known identifier  *)
(* conflicts, and a next state that fails its own validation makes the hash *)
(* throw an error that is none of the timeline's.                           *)
AppendOutcome(env) ==
  CASE env \in Stored                             -> "recorded"
    [] env \notin Stored /\ \E x \in Stored : x.id = env.id -> "conflict"
    [] OTHER ->
         IF OverCapacity(env.session) THEN "capacity"
         ELSE IF ~Applicable(env) THEN "conflict"
         ELSE IF ~Consistent(Reduce(projected[env.session], env.event, env.version))
           THEN "fault"
         ELSE "appended"

Record1(env) ==
  /\ timeline' = [timeline EXCEPT ![env.session] = Append(@, env)]
  /\ projected' = [projected EXCEPT
       ![env.session] = Reduce(@, env.event, env.version)]

AppendCanonicalEvent(env) ==
  IF AppendOutcome(env) = "appended" THEN Record1(env) ELSE UNCHANGED timelineVars
===============================================================================
