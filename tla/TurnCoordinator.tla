---- MODULE TurnCoordinator ----
(* The turn coordinator (packages/turn-coordinator): one synchronous handler per signal   *)
(* decides who has the floor.  Durations are small numbers that count up to the largest   *)
(* threshold they are compared with; the energy of a chunk is 0 (noise, a backchannel or  *)
(* silence), 1 (speech) or 2 (loud enough to barge in).                                   *)
EXTENDS Naturals

CONSTANTS Participants, NoParticipant,
          Profiles,          \* the profiles a coordinator may be made with
          Durations,         \* of one chunk
          MaxTurnGenerations \* bound: generations a coordinator numbers

ASSUME CoordinatorAssumption ==
    /\ NoParticipant \notin Participants
    /\ Durations \subseteq Nat /\ MaxTurnGenerations \in Nat \ {0}
    /\ \A p \in Profiles :
          /\ {p.minSpeech, p.pauseSilence, p.endpointSilence, p.maxUtterance,
              p.bargeIn, p.bargeConfirm} \subseteq Nat
          /\ p.minSpeech <= p.maxUtterance

VARIABLES profile,
          floor,             \* the state of the state machine
          utterance,         \* what is tracked of the utterance
          candidateVoiced,   \* speech against the presenter
          pendingGeneration, currentGeneration, generationCounter,
          output,            \* history: what the last playback directive was about
          cancelled          \* history: generations cancelled or completed

coordinatorVars == <<profile, floor, utterance, candidateVoiced, pendingGeneration,
                     currentGeneration, generationCounter, output, cancelled>>
generationVars == <<pendingGeneration, currentGeneration, generationCounter, output, cancelled>>

NoUtterance == [voiced |-> 0, silence |-> 0, elapsed |-> 0, forced |-> FALSE,
                speaker |-> NoParticipant, punctuation |-> FALSE, semantic |-> FALSE]

CoordinatorInit ==
    /\ profile \in Profiles
    /\ floor = "idle" /\ utterance = NoUtterance /\ candidateVoiced = 0
    /\ pendingGeneration = 0 /\ currentGeneration = 0 /\ generationCounter = 0
    /\ output = "none" /\ cancelled = {}

Transitions ==
    [idle |-> [speech_started |-> "user_speaking"],
     user_speaking |-> [pause_detected |-> "endpoint_candidate",
                        max_utterance_timeout |-> "endpoint_candidate",
                        false_start_abandoned |-> "idle"],
     endpoint_candidate |-> [speech_resumed |-> "user_speaking", endpoint_confirmed |-> "committed"],
     committed |-> [presenter_turn_completed |-> "idle", interruption_candidate |-> "agent_interrupted"],
     agent_interrupted |-> [presenter_turn_completed |-> "idle", interruption_confirmed |-> "user_speaking",
                            interruption_false_positive |-> "recovered_false_interrupt"],
     recovered_false_interrupt |-> [playback_recovered |-> "committed"]]

(* reduceTurnCoordinatorState, which throws on a pair it does not list. *)
ReduceTurnState(from, event) ==
    IF from # "thrown" /\ event \in DOMAIN Transitions[from] THEN Transitions[from][event] ELSE "thrown"

UpTo(limit, n) == IF n > limit THEN limit ELSE n
Heard_Restarts(u, d, voiced) ==
    [u EXCEPT !.voiced = UpTo(profile.minSpeech, IF voiced THEN d ELSE @),
              !.silence = IF voiced THEN 0 ELSE UpTo(profile.endpointSilence, @ + d),
              !.elapsed = UpTo(profile.maxUtterance, @ + d)]

Heard(u, d, voiced) ==
    [u EXCEPT !.voiced = UpTo(profile.minSpeech, IF voiced THEN @ + d ELSE @),
              !.silence = IF voiced THEN 0 ELSE UpTo(profile.endpointSilence, @ + d),
              !.elapsed = UpTo(profile.maxUtterance, @ + d)]

ConfirmEndpointEligible(u) ==
    \/ u.forced
    \/ /\ u.silence >= profile.endpointSilence
       /\ profile.requiresSemantic => u.semantic
       /\ profile.requiresPunctuation => u.punctuation

(* The generation a pause starts before its turn is decided. *)
Speculates == profile.speculative /\ pendingGeneration = 0
StartSpeculative ==
    IF Speculates THEN generationCounter' = generationCounter + 1 /\ pendingGeneration' = generationCounter'
                  ELSE UNCHANGED <<generationCounter, pendingGeneration>>

(* A speculative generation is promoted; otherwise a fresh one is numbered. *)
CommitEndpoint(from, u) ==
    /\ floor' = ReduceTurnState(from, "endpoint_confirmed") /\ utterance' = u
    /\ currentGeneration' = IF pendingGeneration # 0 THEN pendingGeneration ELSE generationCounter + 1
    /\ generationCounter' = IF pendingGeneration # 0 THEN generationCounter ELSE currentGeneration'
    /\ pendingGeneration' = 0
    /\ candidateVoiced' = 0 /\ output' = "playing"
    /\ UNCHANGED cancelled

StartTurn(p, voiced, elapsed) ==
    /\ floor' = ReduceTurnState(floor, "speech_started")
    /\ utterance' = [utterance EXCEPT !.speaker = p, !.voiced = UpTo(profile.minSpeech, voiced), !.elapsed = elapsed]
    /\ UNCHANGED <<candidateVoiced, generationVars>>

SpeechStarts(d, level, p) ==
    /\ floor = "idle" /\ level >= 1
    /\ StartTurn(p, d, UpTo(profile.maxUtterance, d))

IsCrosstalk(p) == NoParticipant \notin {p, utterance.speaker} /\ p # utterance.speaker
InUserTurn(p) == floor \in {"user_speaking", "endpoint_candidate"} /\ ~IsCrosstalk(p)

(* Speech while a pause is a candidate takes the turn back, unless the utterance was cut. *)
SpeechResumes(d, level, p) ==
    /\ InUserTurn(p) /\ floor = "endpoint_candidate" /\ level >= 1
    /\ IF utterance.forced THEN CommitEndpoint(floor, utterance)
       ELSE /\ floor' = ReduceTurnState(floor, "speech_resumed")
            /\ utterance' = Heard(utterance, d, TRUE)
            /\ cancelled' = IF pendingGeneration = 0 THEN cancelled ELSE cancelled \cup {pendingGeneration}
            /\ pendingGeneration' = 0
            /\ UNCHANGED <<candidateVoiced, currentGeneration, generationCounter, output>>

CutUtterance(u) ==
    /\ floor' = ReduceTurnState(floor, "max_utterance_timeout")
    /\ utterance' = [u EXCEPT !.forced = TRUE]
    /\ StartSpeculative
    /\ UNCHANGED <<candidateVoiced, currentGeneration, output, cancelled>>

SpeechContinues(d, level, p) ==
    /\ InUserTurn(p) /\ floor = "user_speaking" /\ level >= 1
    /\ LET u == Heard(utterance, d, TRUE) IN
         IF u.elapsed >= profile.maxUtterance THEN CutUtterance(u)
         ELSE utterance' = u /\ UNCHANGED <<floor, candidateVoiced, generationVars>>

FalseStart(u) ==
    /\ floor' = ReduceTurnState(floor, "false_start_abandoned")
    /\ utterance' = NoUtterance
    /\ UNCHANGED <<candidateVoiced, generationVars>>

(* A silence both long enough for a pause and for the endpoint commits at once; the        *)
(* generation it would have speculated is the one it commits.                             *)
SilenceInUserTurn(d, level, p) ==
    /\ InUserTurn(p) /\ level = 0
    /\ LET u == Heard(utterance, d, FALSE)
           paused == floor = "user_speaking" /\ u.silence >= profile.pauseSilence IN
         CASE u.voiced < profile.minSpeech -> FalseStart(u)
           [] OTHER ->
              CASE paused /\ ConfirmEndpointEligible(u) -> CommitEndpoint(ReduceTurnState(floor, "pause_detected"), u)
                [] paused /\ ~ConfirmEndpointEligible(u) ->
                     /\ floor' = ReduceTurnState(floor, "pause_detected") /\ utterance' = u
                     /\ StartSpeculative
                     /\ UNCHANGED <<candidateVoiced, currentGeneration, output, cancelled>>
                [] floor = "endpoint_candidate" /\ ConfirmEndpointEligible(u) -> CommitEndpoint(floor, u)
                [] floor = "user_speaking" /\ ~paused /\ u.elapsed >= profile.maxUtterance -> CutUtterance(u)
                [] OTHER -> utterance' = u /\ UNCHANGED <<floor, candidateVoiced, generationVars>>

BargeConfirmed == profile.bargeIn + profile.bargeConfirm

(* Speech against the presenter: first a candidate that pauses the playback. *)
BargeIn(d, level) ==
    /\ floor = "committed"
    /\ candidateVoiced' = IF level = 2 THEN UpTo(BargeConfirmed, candidateVoiced + d) ELSE 0
    /\ IF level = 2 /\ candidateVoiced' >= profile.bargeIn
         THEN /\ floor' = ReduceTurnState(floor, "interruption_candidate")
              /\ output' = IF currentGeneration # 0 THEN "paused" ELSE output
         ELSE UNCHANGED <<floor, output>>
    /\ UNCHANGED <<utterance, pendingGeneration, currentGeneration, generationCounter, cancelled>>

RecoverFalseInterrupt(level) ==
    /\ floor = "agent_interrupted" /\ level # 2
    /\ floor' = LET recovered == ReduceTurnState(floor, "interruption_false_positive") IN
                IF currentGeneration # 0 THEN ReduceTurnState(recovered, "playback_recovered") ELSE recovered
    /\ output' = IF currentGeneration # 0 THEN "playing" ELSE output
    /\ candidateVoiced' = 0
    /\ UNCHANGED <<utterance, pendingGeneration, currentGeneration, generationCounter, cancelled>>

ConfirmInterrupt_KeepsGeneration(d, level, p) ==
    /\ floor = "agent_interrupted" /\ level = 2
    /\ candidateVoiced + d >= BargeConfirmed
    /\ floor' = ReduceTurnState(floor, "interruption_confirmed")
    /\ cancelled' = cancelled \cup ({currentGeneration} \ {0})
    /\ output' = "none" /\ candidateVoiced' = 0
    /\ utterance' = [NoUtterance EXCEPT !.voiced = UpTo(profile.minSpeech, d), !.speaker = p]
    /\ UNCHANGED <<currentGeneration, pendingGeneration, generationCounter>>

(* The interruption is confirmed: the generation is cancelled and the floor handed over. *)
ConfirmInterrupt(d, level, p) ==
    /\ floor = "agent_interrupted" /\ level = 2
    /\ candidateVoiced + d >= BargeConfirmed
    /\ floor' = ReduceTurnState(floor, "interruption_confirmed")
    /\ cancelled' = cancelled \cup ({currentGeneration} \ {0})
    /\ currentGeneration' = 0 /\ output' = "none" /\ candidateVoiced' = 0
    /\ utterance' = [NoUtterance EXCEPT !.voiced = UpTo(profile.minSpeech, d), !.speaker = p]
    /\ UNCHANGED <<pendingGeneration, generationCounter>>

KeepInterrupting(d, level) ==
    /\ floor = "agent_interrupted" /\ level = 2
    /\ candidateVoiced + d < BargeConfirmed
    /\ candidateVoiced' = candidateVoiced + d
    /\ UNCHANGED <<floor, utterance, generationVars>>

TranscriptUpdate(punctuation, semantic) ==
    LET u == [utterance EXCEPT !.punctuation = punctuation, !.semantic = semantic] IN
    IF floor = "endpoint_candidate" /\ ConfirmEndpointEligible(u) THEN CommitEndpoint(floor, u)
    ELSE utterance' = u /\ UNCHANGED <<floor, candidateVoiced, generationVars>>

PushToTalkPressed(p) ==
    /\ profile.pushToTalk /\ floor = "idle"
    /\ StartTurn(p, profile.minSpeech, 0)

PushToTalkReleased ==
    /\ profile.pushToTalk
    /\ LET u == [utterance EXCEPT !.forced = TRUE] IN
         \/ floor = "user_speaking" /\ CommitEndpoint(ReduceTurnState(floor, "pause_detected"), u)
         \/ floor = "endpoint_candidate" /\ CommitEndpoint(floor, u)

PresenterTurnCompleted(g) ==
    /\ floor \in {"committed", "agent_interrupted"} /\ g = currentGeneration
    /\ floor' = ReduceTurnState(floor, "presenter_turn_completed")
    /\ cancelled' = cancelled \cup {currentGeneration}
    /\ currentGeneration' = 0 /\ output' = "none" /\ candidateVoiced' = 0
    /\ utterance' = NoUtterance
    /\ UNCHANGED <<pendingGeneration, generationCounter>>

CoordinatorNext ==
    /\ generationCounter < MaxTurnGenerations
    /\ UNCHANGED profile
    /\ \/ \E d \in Durations, level \in 0..2, p \in Participants \cup {NoParticipant} :
             \/ SpeechStarts(d, level, p) \/ SpeechResumes(d, level, p) \/ SpeechContinues(d, level, p)
             \/ SilenceInUserTurn(d, level, p)
             \/ BargeIn(d, level) \/ RecoverFalseInterrupt(level)
             \/ ConfirmInterrupt(d, level, p) \/ KeepInterrupting(d, level)
       \/ \E punctuation, semantic \in BOOLEAN : TranscriptUpdate(punctuation, semantic)
       \/ \E p \in Participants \cup {NoParticipant} : PushToTalkPressed(p)
       \/ PushToTalkReleased
       \/ \E g \in 1..MaxTurnGenerations : PresenterTurnCompleted(g)

CoordinatorSpec == CoordinatorInit /\ [][CoordinatorNext]_coordinatorVars

----
(* No signal, in any order, is a transition the state machine does not list: a handler    *)
(* that threw would have changed its counters and left its state behind.  In particular   *)
(* an utterance that became a candidate for the endpoint never is a false start.          *)
SignalsNeverThrow == floor \notin {"thrown", "recovered_false_interrupt"}

(* The floor and the generations tell one story: exactly while the presenter has the      *)
(* floor one generation is current, none that was cancelled or completed before; a        *)
(* speculative one exists only while the endpoint is a candidate; and the playback is     *)
(* paused exactly while an interruption is undecided.                                     *)
OneVoiceHasTheFloor ==
    /\ currentGeneration # 0 <=> floor \in {"committed", "agent_interrupted"}
    /\ pendingGeneration # 0 => floor = "endpoint_candidate"
    /\ {currentGeneration, pendingGeneration} \cap cancelled = {}
    /\ output = "paused" <=> floor = "agent_interrupted"
====
