------------------------------ MODULE TurnDriver ------------------------------
(***************************************************************************)
(* Turns and interruptions of one session (packages/turns/src/index.ts),   *)
(* the session actor that projects them (packages/session-runtime) and the *)
(* outbox that decides.  Commands are distinct: a repeated one is given    *)
(* the promise of the first.  A generation is named by the submission that *)
(* began it.  The deadline of a command may pass at every check of it.     *)
(* The model starts once the session is created, so the actor always finds *)
(* events to replay, and its mailbox has room for the commands' calls.     *)
(***************************************************************************)
EXTENDS InteractionReducer, SequencesExt

CONSTANTS
  Submits,       \* submitTurn commands
  Interrupts,    \* interruptTurn commands
  Nobody,        \* no submission
  Speaker,       \* the participant that submits and interrupts
  MaxWaiters     \* max_waiters_per_session_lane

ASSUME DriverAssumption ==
  /\ Nobody \notin Submits \cup Interrupts
  /\ Submits \cap Interrupts = {}
  /\ Speaker \in Presenters
  /\ MaxWaiters \in Nat \ {0}

TurnCommands == Submits \cup Interrupts

VARIABLES
  aggregate,    \* the session in the outbox
  projection,   \* the session in the actor, absent before the hydration
  reading,      \* what the hydration read from the outbox
  generation,   \* whose generation the actor holds valid
  pending,      \* whose generation the driver waits for, and its local fence
  lane,         \* holder and waiters of the session lane
  pc,           \* what each command does next
  target,       \* the submission each interruption is for
  log           \* the driver's events, in the order the outbox took them

vars == <<aggregate, projection, reading, generation, pending, lane, pc, target, log>>

-------------------------------------------------------------------------------
Returned == {"done", "failed"}

InLane ==
  {"committed", "projected", "begun", "answered", "cancelled", "interrupted"}

Steps ==
  {"new", "actor", "queued", "thinking", "answering", "failing", "cancelling"}
    \cup InLane \cup Returned

NoPending == [of |-> Nobody, fenced |-> FALSE]

Prepared ==
  [AbsentAggregate EXCEPT !.status = "ready", !.disclosure = "delivered",
                          !.consent = "granted", !.version = 4]

Init ==
  /\ aggregate  = Prepared
  /\ projection = AbsentAggregate
  /\ reading    = AbsentAggregate
  /\ generation = Nobody
  /\ pending    = NoPending
  /\ lane       = <<>>
  /\ pc         = [c \in TurnCommands |-> "new"]
  /\ target     = [c \in Interrupts |-> Nobody]
  /\ log        = <<>>

Goto(c, step) == pc' = [pc EXCEPT ![c] = step]

-------------------------------------------------------------------------------
(* withSessionLane: a queue whose head holds the lane. *)

Holds(c) == lane # <<>> /\ Head(lane) = c

Full == lane # <<>> /\ Len(lane) > MaxWaiters

(* A command is refused by a full lane, or by too many of other sessions.   *)
Join(c, joined, refused) ==
  \/ /\ ~Full
     /\ lane' = Append(lane, c)
     /\ Goto(c, joined)
  \/ /\ Full \/ lane = <<>>
     /\ Goto(c, refused)
     /\ UNCHANGED lane

Leave(c, step) ==
  /\ lane' = Tail(lane)
  /\ Goto(c, step)

-------------------------------------------------------------------------------
(* Commit to the outbox and projection of the committed envelope: the lane  *)
(* is held in between, so the envelope is the last of the log.              *)

Turn(speaker, participant) ==
  [type |-> "turn.committed", turn |-> aggregate.turn + 1,
   speaker |-> speaker, participant |-> participant]

Active == aggregate.status = "active" /\ aggregate.presenter # NoPresenter

Commit(kind, c, event) ==
  LET version == aggregate.version + 1 IN
  /\ Active
  /\ Accepts(aggregate, event, version)
  /\ aggregate' = Reduce(aggregate, event, version)
  /\ log' = Append(log, [kind |-> kind, of |-> c, event |-> event,
                         version |-> version, presenter |-> aggregate.presenter])

Projectable == Accepts(projection, Last(log).event, Last(log).version)

ApplyToActor == projection' = Reduce(projection, Last(log).event, Last(log).version)

-------------------------------------------------------------------------------
(* getActor and the lane, for both commands. *)

BeginSubmit(c) ==
  /\ pc[c] = "new"
  /\ \E step \in {"actor", "failed"} : Goto(c, step)
  /\ UNCHANGED <<aggregate, projection, reading, generation, pending, lane, target, log>>

(* Mutation: the fence is left for the lane to set. *)
Fenced_Later(g) == pending

Fenced(g) == [pending EXCEPT !.fenced = TRUE]

(* The fence is set before anything is awaited. *)
BeginInterrupt(c, g) ==
  /\ pc[c] = "new"
  /\ \/ /\ pending = [of |-> g, fenced |-> FALSE]
        /\ pending' = Fenced(g)
        /\ target' = [target EXCEPT ![c] = g]
        /\ Goto(c, "actor")
     \/ /\ Goto(c, "failed")
        /\ UNCHANGED <<pending, target>>
  /\ UNCHANGED <<aggregate, projection, reading, generation, lane, log>>

ReadOutbox ==
  /\ \E c \in TurnCommands : pc[c] = "actor"
  /\ projection = AbsentAggregate /\ reading = AbsentAggregate
  /\ reading' = aggregate
  /\ UNCHANGED <<aggregate, projection, generation, pending, lane, pc, target, log>>

HydrateProjection ==
  /\ projection = AbsentAggregate /\ reading # AbsentAggregate
  /\ projection' = reading
  /\ UNCHANGED <<aggregate, reading, generation, pending, lane, pc, target, log>>

EnterLane(c) ==
  /\ pc[c] = "actor"
  /\ projection # AbsentAggregate
  /\ Join(c, "queued", "failed")
  /\ UNCHANGED <<aggregate, projection, reading, generation, pending, target, log>>

-------------------------------------------------------------------------------
(* submitTurn: the participant's turn. *)

CommitTurn(c) ==
  /\ pc[c] = "queued" /\ Holds(c)
  /\ \/ /\ Commit("turn", c, Turn("participant", Speaker))
        /\ Goto(c, "committed")
        /\ UNCHANGED lane
     \/ /\ Leave(c, "failed")
        /\ UNCHANGED <<aggregate, log>>
  /\ UNCHANGED <<projection, reading, generation, pending, target>>

(* Mutation: the participant's envelope never reaches the actor. *)
ProjectTurn_Skipped(c) ==
  /\ pc[c] = "committed"
  /\ Goto(c, "projected")
  /\ UNCHANGED <<aggregate, projection, reading, generation, pending, lane, target, log>>

ProjectTurn(c) ==
  /\ pc[c] = "committed"
  /\ IF Projectable
       THEN /\ ApplyToActor
            /\ Goto(c, "projected")
            /\ UNCHANGED lane
       ELSE /\ Leave(c, "failed")
            /\ UNCHANGED projection
  /\ UNCHANGED <<aggregate, reading, generation, pending, target, log>>

(* beginGeneration supersedes the actor's generation, and aborts it. *)
OpenGeneration(c) ==
  /\ pc[c] = "projected"
  /\ generation' = c
  /\ Goto(c, "begun")
  /\ UNCHANGED <<aggregate, projection, reading, pending, lane, target, log>>

AwaitFastLane(c) ==
  /\ pc[c] = "begun"
  /\ pending' = [of |-> c, fenced |-> FALSE]
  /\ Leave(c, "thinking")
  /\ UNCHANGED <<aggregate, projection, reading, generation, target, log>>

-------------------------------------------------------------------------------
(* The fast lane runs outside the session lane. *)

Respond(c) ==
  /\ pc[c] = "thinking"
  /\ generation = c
  /\ Join(c, "answering", "failing")
  /\ UNCHANGED <<aggregate, projection, reading, generation, pending, target, log>>

(* It failed, timed out, or its generation or its request was aborted. *)
FailFastLane(c) ==
  /\ pc[c] = "thinking"
  /\ Goto(c, "failing")
  /\ UNCHANGED <<aggregate, projection, reading, generation, pending, lane, target, log>>

(* Mutation: any generation that is awaited and not fenced will do. *)
Publishable_AnyPending(c) == pending.of # Nobody /\ ~pending.fenced

Publishable(c) ==
  /\ pending = [of |-> c, fenced |-> FALSE]
  /\ generation = c
  /\ projection.status = "active" /\ projection.presenter # NoPresenter

PresenterOf(c) ==
  (CHOOSE e \in ToSet(log) : e.kind = "turn" /\ e.of = c).presenter

CommitAnswer(c) ==
  /\ pc[c] = "answering" /\ Holds(c)
  /\ \/ /\ Publishable(c)
        /\ aggregate.presenter = PresenterOf(c)
        /\ Commit("answer", c, Turn("presenter", aggregate.presenter))
        /\ Goto(c, "answered")
        /\ UNCHANGED lane
     \/ /\ Leave(c, "failing")
        /\ UNCHANGED <<aggregate, log>>
  /\ UNCHANGED <<projection, reading, generation, pending, target>>

ProjectAnswer(c) ==
  /\ pc[c] = "answered"
  /\ IF Projectable
       THEN /\ ApplyToActor
            /\ pending' = NoPending
            /\ Leave(c, "done")
       ELSE /\ Leave(c, "failing")
            /\ UNCHANGED <<projection, pending>>
  /\ UNCHANGED <<aggregate, reading, generation, target, log>>

(* invalidateFailedGeneration: nothing is left to do for a fenced one. *)
FenceFailed(c) ==
  /\ pc[c] = "failing"
  /\ IF pending = [of |-> c, fenced |-> FALSE]
       THEN /\ pending' = Fenced(c)
            /\ Goto(c, "cancelling")
       ELSE /\ Goto(c, "failed")
            /\ UNCHANGED pending
  /\ UNCHANGED <<aggregate, projection, reading, generation, lane, target, log>>

Cancelled(g) == IF generation = g THEN Nobody ELSE generation

WithoutPending(g) == IF pending.of = g THEN NoPending ELSE pending

CancelFailed(c) ==
  /\ pc[c] = "cancelling"
  /\ generation' = Cancelled(c)
  /\ pending' = WithoutPending(c)
  /\ Goto(c, "failed")
  /\ UNCHANGED <<aggregate, projection, reading, lane, target, log>>

-------------------------------------------------------------------------------
(* interruptTurn in the lane. *)

CancelPending(c) ==
  LET g == target[c] IN
  /\ pc[c] = "queued" /\ Holds(c)
  /\ \/ IF pending.of = g /\ generation = g
          THEN /\ generation' = Cancelled(g)
               /\ Goto(c, "cancelled")
               /\ UNCHANGED <<pending, lane>>
          ELSE /\ pending' = WithoutPending(g)
               /\ Leave(c, "failed")
               /\ UNCHANGED generation
     \/ /\ Leave(c, "failed")
        /\ UNCHANGED <<generation, pending>>
  /\ UNCHANGED <<aggregate, projection, reading, target, log>>

CommitInterruption(c) ==
  /\ pc[c] = "cancelled"
  /\ \/ /\ Commit("interruption", target[c], [type |-> "turn.interrupted"])
        /\ Goto(c, "interrupted")
        /\ UNCHANGED lane
     \/ /\ Leave(c, "failed")
        /\ UNCHANGED <<aggregate, log>>
  /\ UNCHANGED <<projection, reading, generation, pending, target>>

ProjectInterruption(c) ==
  /\ pc[c] = "interrupted"
  /\ IF Projectable
       THEN /\ ApplyToActor
            /\ pending' = WithoutPending(target[c])
            /\ Leave(c, "done")
       ELSE /\ Leave(c, "failed")
            /\ UNCHANGED <<projection, pending>>
  /\ UNCHANGED <<aggregate, reading, generation, target, log>>

-------------------------------------------------------------------------------
(* The lifecycle application writes to the same aggregate, outside the lane *)
(* and without telling the actor.                                           *)

Lifecycle(event) ==
  LET version == aggregate.version + 1 IN
  /\ Accepts(aggregate, event, version)
  /\ aggregate' = Reduce(aggregate, event, version)
  /\ UNCHANGED <<projection, reading, generation, pending, lane, pc, target, log>>

ActivateSession(p) == Lifecycle([type |-> "session.activated", presenter |-> p])
CompleteSession    == Lifecycle([type |-> "session.completed"])

SubmitStep(c) ==
  \/ EnterLane(c)
  \/ CommitTurn(c)
  \/ ProjectTurn(c)
  \/ OpenGeneration(c)
  \/ AwaitFastLane(c)
  \/ Respond(c)
  \/ FailFastLane(c)
  \/ CommitAnswer(c)
  \/ ProjectAnswer(c)
  \/ FenceFailed(c)
  \/ CancelFailed(c)

InterruptStep(c) ==
  \/ EnterLane(c)
  \/ CancelPending(c)
  \/ CommitInterruption(c)
  \/ ProjectInterruption(c)

Next ==
  \/ \E c \in Submits : BeginSubmit(c) \/ SubmitStep(c)
  \/ \E c \in Interrupts :
       InterruptStep(c) \/ \E g \in Submits : BeginInterrupt(c, g)
  \/ ReadOutbox
  \/ HydrateProjection
  \/ \E p \in Presenters : ActivateSession(p)
  \/ CompleteSession

Spec == Init /\ [][Next]_vars

(* The event loop runs every continuation that is ready; the timer of the   *)
(* fast lane ends it.                                                       *)
Fairness ==
  /\ WF_vars(ReadOutbox) /\ WF_vars(HydrateProjection)
  /\ \A c \in Submits : WF_vars(SubmitStep(c))
  /\ \A c \in Interrupts : WF_vars(InterruptStep(c))

FairSpec == Spec /\ Fairness
-------------------------------------------------------------------------------
(* Every reachable state is well typed, a command waits for the lane at     *)
(* most once, and only its holder is between a commit and the projection.   *)
TypeOK ==
  /\ aggregate \in AggregateState /\ projection \in AggregateState
  /\ reading \in AggregateState
  /\ generation \in Submits \cup {Nobody}
  /\ pending \in [of : Submits \cup {Nobody}, fenced : BOOLEAN]
  /\ lane \in Seq(TurnCommands) /\ IsInjective(lane)
  /\ \A c \in TurnCommands : pc[c] \in InLane => Holds(c)
  /\ pc \in [TurnCommands -> Steps]
  /\ target \in [Interrupts -> Submits \cup {Nobody}]
  /\ \A i \in DOMAIN log : log[i].of \in Submits /\ log[i].event \in Event
  /\ \A c \in Interrupts : pc[c] \notin {"new", "failed"} => target[c] # Nobody

(* One mouth: an answer or an interruption directly follows the turn it is  *)
(* for, so a turn is never both answered and interrupted, and no answer     *)
(* appears once a newer turn was taken.                                     *)
OutcomeFollowsItsTurn ==
  \A i \in DOMAIN log :
    log[i].kind # "turn" =>
      /\ i > 1
      /\ log[i - 1].kind = "turn"
      /\ log[i - 1].of = log[i].of

(* An interruption that was accepted wins the race: while it is under way   *)
(* the turn it is for is not answered any more.                             *)
InterruptionWins ==
  [][\A c \in Submits :
       pc[c] = "answering" /\ pc'[c] = "answered" =>
         ~\E d \in Interrupts : target[d] = c /\ pc[d] \notin Returned]_vars

(* The driver returns a submission's answer exactly if the answer was       *)
(* committed, and a marker in the log belongs to the one interruption of    *)
(* its turn that returns, or is about to return, success: neither an answer *)
(* nor a marker is there for a command that failed, and none is missing for *)
(* one that succeeded.  A failed submission may leave its participant's     *)
(* turn in the log: the driver commits it before it asks for an answer.     *)
OutcomeIsTold ==
  /\ \A c \in Submits : pc[c] \in Returned =>
       (pc[c] = "done") = (\E e \in ToSet(log) : e.kind = "answer" /\ e.of = c)
  /\ \A c \in Interrupts : pc[c] = "done" =>
       \E e \in ToSet(log) : e.kind = "interruption" /\ e.of = target[c]
  /\ \A e \in ToSet(log) : e.kind = "interruption" =>
       \E c \in Interrupts :
         {d \in Interrupts : target[d] = e.of /\ pc[d] \in {"interrupted", "done"}} = {c}

(* Every command returns: the lane is given back on every path.             *)
EveryCommandReturns == \A c \in TurnCommands : pc[c] # "new" ~> pc[c] \in Returned

(* Each envelope the driver committed is projected into the actor before    *)
(* the lane is given back.                                                  *)
CommitsAreProjected ==
  lane = <<>> /\ log # <<>> => projection.version >= Last(log).version

===============================================================================
