---- MODULE MCTurns ----
(* What runs for a live session: its turn driver, the turn coordinator of its call, a     *)
(* session actor and the registry of actors, side by side.  part names the one that runs; *)
(* the others stay as they were made.                                                     *)
EXTENDS TurnDriver, TurnCoordinator, SessionActor, SessionActorRegistry

VARIABLE part

(* minSpeech, pauseSilence, endpointSilence, maxUtterance, bargeIn, bargeConfirm, what an *)
(* endpoint requires, whether the button is used and whether a pause speculates.          *)
MCProfile(semantic, punctuation, button, speculative, confirm) ==
    [minSpeech |-> 2, pauseSilence |-> 1, endpointSilence |-> 2, maxUtterance |-> 5,
     bargeIn |-> 2, bargeConfirm |-> confirm, requiresSemantic |-> semantic,
     requiresPunctuation |-> punctuation, pushToTalk |-> button, speculative |-> speculative]

MCProfiles == {MCProfile(FALSE, FALSE, FALSE, TRUE, 1), MCProfile(TRUE, FALSE, FALSE, TRUE, 1),
               MCProfile(FALSE, TRUE, FALSE, FALSE, 2), MCProfile(FALSE, FALSE, TRUE, FALSE, 1)}

mcVars == <<vars, coordinatorVars, actorVars, registryVars, part>>

MCInit ==
    /\ part \in {"driver", "coordinator", "actor", "registry"}
    /\ Init /\ CoordinatorInit /\ ActorInit /\ RegistryInit
    /\ part # "coordinator" => profile = MCProfile(FALSE, FALSE, FALSE, TRUE, 1)
    /\ part # "registry" => snapshot = [s \in HeldSessions |-> 0]
    /\ part # "actor" => version = 1

MCNext ==
    \/ part = "driver" /\ Next /\ UNCHANGED <<coordinatorVars, actorVars, registryVars, part>>
    \/ part = "coordinator" /\ CoordinatorNext /\ UNCHANGED <<vars, actorVars, registryVars, part>>
    \/ part = "actor" /\ ActorNext /\ UNCHANGED <<vars, coordinatorVars, registryVars, part>>
    \/ part = "registry" /\ RegistryNext /\ UNCHANGED <<vars, coordinatorVars, actorVars, part>>

MCSpec == MCInit /\ [][MCNext]_mcVars /\ Fairness /\ ActorFairness /\ RegistryFairness

(* Callers that made no call yet differ only by their names: they call in order.          *)
InOrderCallers == \A c, d \in Callers : c < d /\ call[c] = Idle => call[d] = Idle

(* Nothing leaks: every variable holds what it may hold, the actor's windows and the      *)
(* lanes of its mailbox stay within their capacity, and no place of the registry is lost  *)
(* to a failed hydration                                                                  *)
(* (evictSettledDeliveries, BoundedActorMailbox, getActor).                               *)
BoundsHold == TypeOK /\ ActorTypeOK /\ RegistryTypeOK /\ RegisteredActorsLive

(* Every submission and interruption, every call of an actor and every request for one is *)
(* answered or refused (submitTurn, interruptTurn, BoundedActorMailbox, getActor).          *)
EveryCallReturns == EveryCommandReturns /\ EveryCallIsAnswered /\ EveryRequestReturns
====
