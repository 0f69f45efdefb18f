------------------------------ MODULE TurnsProofs ------------------------------
(***************************************************************************)
(* Machine-checked proofs about the turns of a session: the coordinator of *)
(* its voice call, for every set of profiles, participants and chunk       *)
(* durations; the turn driver, for every set of commands and every length  *)
(* of the lane; the session actor, for every history, mailbox and window;  *)
(* the registry of actors, for every number of sessions, requesters and    *)
(* places; and the four side by side.                                      *)
(***************************************************************************)
EXTENDS MCTurns, ReducerProofs, SequenceTheorems,
        FiniteSetTheorems, WellFoundedInduction, TLAPS

Utterance ==
  [voiced : Nat, silence : Nat, elapsed : Nat, forced : BOOLEAN,
   speaker : Participants \cup {NoParticipant},
   punctuation : BOOLEAN, semantic : BOOLEAN]

(* What a coordinator tracks has its type; chunks only count up.           *)
CoordinatorTypeOK ==
  /\ profile \in Profiles
  /\ utterance \in Utterance
  /\ candidateVoiced \in Nat
  /\ {pendingGeneration, currentGeneration, generationCounter} \subseteq Nat

(* A candidate for the endpoint was speech.  A turn whose speech is still  *)
(* too short to count has heard nothing but speech, so the length limit    *)
(* cannot cut it: its age is at most its speech.                           *)
SpeechCounts ==
  /\ floor = "endpoint_candidate" => utterance.voiced >= profile.minSpeech
  /\ floor = "user_speaking" /\ utterance.voiced < profile.minSpeech =>
       utterance.elapsed <= utterance.voiced

(* Generations are numbered in order: none is above the counter.           *)
GenerationsNumbered ==
  /\ pendingGeneration <= generationCounter
  /\ currentGeneration <= generationCounter
  /\ cancelled \subseteq 1..generationCounter

CoordinatorInv ==
  /\ CoordinatorTypeOK
  /\ SignalsNeverThrow
  /\ OneVoiceHasTheFloor
  /\ SpeechCounts
  /\ GenerationsNumbered

-------------------------------------------------------------------------------
(* The handlers take no transition but those the table lists.              *)
LEMMA TransitionsListed ==
  /\ ReduceTurnState("idle", "speech_started") = "user_speaking"
  /\ ReduceTurnState("user_speaking", "pause_detected") = "endpoint_candidate"
  /\ ReduceTurnState("user_speaking", "max_utterance_timeout") = "endpoint_candidate"
  /\ ReduceTurnState("user_speaking", "false_start_abandoned") = "idle"
  /\ ReduceTurnState("endpoint_candidate", "speech_resumed") = "user_speaking"
  /\ ReduceTurnState("endpoint_candidate", "endpoint_confirmed") = "committed"
  /\ ReduceTurnState("committed", "presenter_turn_completed") = "idle"
  /\ ReduceTurnState("committed", "interruption_candidate") = "agent_interrupted"
  /\ ReduceTurnState("agent_interrupted", "presenter_turn_completed") = "idle"
  /\ ReduceTurnState("agent_interrupted", "interruption_confirmed") = "user_speaking"
  /\ ReduceTurnState("agent_interrupted", "interruption_false_positive")
       = "recovered_false_interrupt"
  /\ ReduceTurnState("recovered_false_interrupt", "playback_recovered") = "committed"
BY DEF ReduceTurnState, Transitions

(* A chunk adds to what was heard; the age of speech that is too short     *)
(* never overtakes it.                                                     *)
LEMMA HeardGrows ==
  ASSUME CoordinatorTypeOK, NEW d \in Nat
  PROVE  /\ Heard(utterance, d, TRUE) \in Utterance
         /\ Heard(utterance, d, FALSE) \in Utterance
         /\ LET u == Heard(utterance, d, TRUE) IN
              /\ utterance.voiced >= profile.minSpeech => u.voiced >= profile.minSpeech
              /\ u.voiced < profile.minSpeech =>
                   /\ u.voiced = utterance.voiced + d
                   /\ utterance.voiced < profile.minSpeech
              /\ u.elapsed <= utterance.elapsed + d
              /\ u.elapsed <= profile.maxUtterance
<1> DEFINE u == Heard(utterance, d, TRUE)
           w == Heard(utterance, d, FALSE)
<1>1. /\ profile.minSpeech \in Nat /\ profile.endpointSilence \in Nat
      /\ profile.maxUtterance \in Nat
  BY CoordinatorAssumption DEF CoordinatorTypeOK
<1>2. /\ u = [utterance EXCEPT !.voiced = UpTo(profile.minSpeech, utterance.voiced + d),
                               !.silence = 0,
                               !.elapsed = UpTo(profile.maxUtterance, utterance.elapsed + d)]
      /\ w = [utterance EXCEPT !.voiced = UpTo(profile.minSpeech, utterance.voiced),
                               !.silence = UpTo(profile.endpointSilence, utterance.silence + d),
                               !.elapsed = UpTo(profile.maxUtterance, utterance.elapsed + d)]
  BY DEF Heard
<1>3. utterance \in Utterance /\ utterance.voiced \in Nat
      /\ utterance.silence \in Nat /\ utterance.elapsed \in Nat
  BY DEF CoordinatorTypeOK, Utterance
<1>4. /\ UpTo(profile.minSpeech, utterance.voiced + d) \in Nat
      /\ UpTo(profile.minSpeech, utterance.voiced) \in Nat
      /\ UpTo(profile.endpointSilence, utterance.silence + d) \in Nat
      /\ UpTo(profile.maxUtterance, utterance.elapsed + d) \in Nat
  BY <1>1, <1>3 DEF UpTo
<1> HIDE DEF u, w
<1>5. u \in Utterance
  BY <1>2, <1>3, <1>4 DEF Utterance
<1>6. w \in Utterance
  BY <1>2, <1>3, <1>4 DEF Utterance
<1>7. /\ u.voiced = UpTo(profile.minSpeech, utterance.voiced + d)
      /\ u.elapsed = UpTo(profile.maxUtterance, utterance.elapsed + d)
  BY <1>2, <1>3 DEF Utterance
<1>8. /\ utterance.voiced >= profile.minSpeech => u.voiced >= profile.minSpeech
      /\ u.voiced < profile.minSpeech =>
           /\ u.voiced = utterance.voiced + d
           /\ utterance.voiced < profile.minSpeech
      /\ u.elapsed <= utterance.elapsed + d
      /\ u.elapsed <= profile.maxUtterance
  BY <1>1, <1>3, <1>7 DEF UpTo
<1> QED
  BY <1>5, <1>6, <1>8 DEF u, w

(* Zero names no generation, so it never is a cancelled one.               *)
LEMMA GenerationsInRange ==
  ASSUME CoordinatorInv
  PROVE  /\ 0 \notin cancelled
         /\ currentGeneration # 0 => currentGeneration \in 1..generationCounter
         /\ pendingGeneration # 0 => pendingGeneration \in 1..generationCounter
BY DEF CoordinatorInv, CoordinatorTypeOK, GenerationsNumbered

(* Deciding an endpoint hands the floor to the presenter with a generation *)
(* nobody cancelled.                                                       *)
LEMMA CommitKeepsInv ==
  ASSUME CoordinatorInv, UNCHANGED profile,
         NEW u \in Utterance,
         CommitEndpoint("endpoint_candidate", u)
  PROVE  CoordinatorInv'
<1>1. floor' = "committed"
  BY TransitionsListed DEF CommitEndpoint
<1> QED
  BY <1>1 DEF CommitEndpoint, CoordinatorInv, CoordinatorTypeOK, SignalsNeverThrow,
     OneVoiceHasTheFloor, SpeechCounts, GenerationsNumbered

(* A pause may start one speculative generation, with a fresh number.      *)
LEMMA PauseKeepsInv ==
  ASSUME CoordinatorInv, UNCHANGED profile, floor = "user_speaking",
         floor' = "endpoint_candidate", StartSpeculative,
         utterance' \in Utterance,
         utterance'.voiced >= profile.minSpeech,
         UNCHANGED <<candidateVoiced, currentGeneration, output, cancelled>>
  PROVE  CoordinatorInv'
BY DEF StartSpeculative, Speculates, CoordinatorInv, CoordinatorTypeOK,
   SignalsNeverThrow, OneVoiceHasTheFloor, SpeechCounts, GenerationsNumbered

-------------------------------------------------------------------------------
(* Every signal, whatever the floor, keeps the coordinator sound.          *)
LEMMA SpeechKeepsInv ==
  ASSUME CoordinatorInv, UNCHANGED profile,
         NEW d \in Durations, NEW level \in 0..2,
         NEW p \in Participants \cup {NoParticipant}
  PROVE  /\ SpeechStarts(d, level, p) => CoordinatorInv'
         /\ SpeechResumes(d, level, p) => CoordinatorInv'
         /\ SpeechContinues(d, level, p) => CoordinatorInv'
         /\ SilenceInUserTurn(d, level, p) => CoordinatorInv'
<1>1. d \in Nat /\ CoordinatorTypeOK
      /\ profile.minSpeech \in Nat /\ profile.endpointSilence \in Nat
      /\ profile.maxUtterance \in Nat /\ profile.minSpeech <= profile.maxUtterance
  BY CoordinatorAssumption DEF CoordinatorInv, CoordinatorTypeOK
<1>2. utterance \in Utterance
  BY <1>1 DEF CoordinatorTypeOK
<1> DEFINE u == Heard(utterance, d, TRUE)
           w == Heard(utterance, d, FALSE)
<1>3. /\ u \in Utterance /\ w \in Utterance
      /\ utterance.voiced >= profile.minSpeech => u.voiced >= profile.minSpeech
      /\ u.voiced < profile.minSpeech =>
           /\ u.voiced = utterance.voiced + d
           /\ utterance.voiced < profile.minSpeech
      /\ u.elapsed <= utterance.elapsed + d
      /\ u.elapsed <= profile.maxUtterance
  BY <1>1, HeardGrows
<1> HIDE DEF u, w
<1>4. ASSUME SpeechStarts(d, level, p)
      PROVE  CoordinatorInv'
  <2>1. /\ floor = "idle" /\ floor' = "user_speaking"
        /\ utterance' = [utterance EXCEPT !.speaker = p, !.voiced = UpTo(profile.minSpeech, d),
                                          !.elapsed = UpTo(profile.maxUtterance, d)]
        /\ UNCHANGED <<candidateVoiced, generationVars>>
    BY <1>4, TransitionsListed DEF SpeechStarts, StartTurn
  <2>2. utterance' \in Utterance
    BY <1>1, <1>2, <2>1 DEF Utterance, UpTo
  <2>3. /\ utterance'.voiced = UpTo(profile.minSpeech, d)
        /\ utterance'.elapsed = UpTo(profile.maxUtterance, d)
    BY <1>2, <2>1 DEF Utterance
  <2>4. utterance'.voiced < profile.minSpeech => utterance'.elapsed <= utterance'.voiced
    BY <1>1, <2>3 DEF UpTo
  <2> QED
    BY <2>1, <2>2, <2>4 DEF CoordinatorInv, CoordinatorTypeOK, SignalsNeverThrow,
       OneVoiceHasTheFloor, SpeechCounts, GenerationsNumbered, generationVars
<1>5. ASSUME SpeechResumes(d, level, p)
      PROVE  CoordinatorInv'
  <2>1. floor = "endpoint_candidate" /\ utterance.voiced >= profile.minSpeech
    BY <1>5 DEF SpeechResumes, CoordinatorInv, SpeechCounts
  <2>2. CASE utterance.forced
    BY <1>2, <1>5, <2>1, <2>2, CommitKeepsInv DEF SpeechResumes
  <2>3. CASE ~utterance.forced
    <3>1. /\ floor' = "user_speaking" /\ utterance' = u
          /\ cancelled' = IF pendingGeneration = 0 THEN cancelled
                          ELSE cancelled \cup {pendingGeneration}
          /\ pendingGeneration' = 0
          /\ UNCHANGED <<candidateVoiced, currentGeneration, generationCounter, output>>
      BY <1>5, <2>1, <2>3, TransitionsListed DEF SpeechResumes, u
    <3>2. currentGeneration = 0 /\ 0 \notin cancelled' /\ cancelled' \subseteq 1..generationCounter
      BY <2>1, <3>1, GenerationsInRange DEF CoordinatorInv, CoordinatorTypeOK,
         OneVoiceHasTheFloor,
         GenerationsNumbered
    <3>3. CoordinatorTypeOK' /\ SpeechCounts'
      BY <1>1, <1>3, <2>1, <3>1 DEF CoordinatorTypeOK, SpeechCounts, Utterance
    <3> QED
      BY <2>1, <3>1, <3>2, <3>3 DEF CoordinatorInv, CoordinatorTypeOK, SignalsNeverThrow,
         OneVoiceHasTheFloor, GenerationsNumbered
  <2> QED
    BY <2>2, <2>3
<1>6. ASSUME SpeechContinues(d, level, p)
      PROVE  CoordinatorInv'
  <2>1. floor = "user_speaking"
    BY <1>6 DEF SpeechContinues
  <2>2. u.voiced < profile.minSpeech => u.elapsed <= u.voiced
    BY <1>1, <1>2, <1>3, <2>1 DEF CoordinatorInv, SpeechCounts, Utterance
  <2>3. CASE u.elapsed >= profile.maxUtterance
    <3>1. u.voiced >= profile.minSpeech
      BY <1>1, <1>3, <2>2, <2>3 DEF Utterance
    <3>2. CutUtterance(u)
      BY <1>6, <2>3 DEF SpeechContinues, u
    <3>3. /\ utterance' = [u EXCEPT !.forced = TRUE]
          /\ floor' = "endpoint_candidate" /\ StartSpeculative
          /\ UNCHANGED <<candidateVoiced, currentGeneration, output, cancelled>>
      BY <2>1, <3>2, TransitionsListed DEF CutUtterance
    <3>4. utterance' \in Utterance /\ utterance'.voiced = u.voiced
      BY <1>3, <3>3 DEF Utterance
    <3> QED
      BY <2>1, <3>1, <3>3, <3>4, PauseKeepsInv
  <2>4. CASE ~(u.elapsed >= profile.maxUtterance)
    <3>1. utterance' = u /\ UNCHANGED <<floor, candidateVoiced, generationVars>>
      BY <1>6, <2>4 DEF SpeechContinues, u
    <3> QED
      BY <1>3, <2>1, <2>2, <3>1 DEF CoordinatorInv, CoordinatorTypeOK, SignalsNeverThrow,
         OneVoiceHasTheFloor, SpeechCounts, GenerationsNumbered, generationVars
  <2> QED
    BY <2>3, <2>4
<1>7. ASSUME SilenceInUserTurn(d, level, p)
      PROVE  CoordinatorInv'
  <2> DEFINE paused == floor = "user_speaking" /\ w.silence >= profile.pauseSilence
  <2>1. floor \in {"user_speaking", "endpoint_candidate"}
    BY <1>7 DEF SilenceInUserTurn, InUserTurn
  <2>2. w.voiced \in Nat /\ (w.voiced = utterance.voiced \/ w.voiced = profile.minSpeech)
    BY <1>1, <1>2 DEF w, Heard, UpTo, Utterance
  <2>3. CASE w.voiced < profile.minSpeech
    <3>1. floor = "user_speaking"
      BY <1>1, <1>2, <2>1, <2>2, <2>3 DEF CoordinatorInv, SpeechCounts, Utterance
    <3>2. FalseStart(w)
      BY <1>7, <2>3 DEF SilenceInUserTurn, w
    <3>3. /\ floor' = "idle" /\ utterance' = NoUtterance
          /\ UNCHANGED <<candidateVoiced, generationVars>>
      BY <3>1, <3>2, TransitionsListed DEF FalseStart
    <3> QED
      BY <3>1, <3>3 DEF CoordinatorInv, CoordinatorTypeOK, SignalsNeverThrow,
         OneVoiceHasTheFloor, SpeechCounts, GenerationsNumbered, generationVars,
         NoUtterance, Utterance
  <2>4. CASE ~(w.voiced < profile.minSpeech)
    <3> DEFINE eligible == ConfirmEndpointEligible(w)
    <3>1. w.voiced >= profile.minSpeech
      BY <1>1, <1>3, <2>4 DEF Utterance
    <3>2. \/ paused /\ eligible
             /\ CommitEndpoint(ReduceTurnState(floor, "pause_detected"), w)
          \/ /\ paused /\ ~eligible
             /\ floor' = ReduceTurnState(floor, "pause_detected") /\ utterance' = w
             /\ StartSpeculative
             /\ UNCHANGED <<candidateVoiced, currentGeneration, output, cancelled>>
          \/ floor = "endpoint_candidate" /\ eligible /\ CommitEndpoint(floor, w)
          \/ floor = "user_speaking" /\ CutUtterance(w)
          \/ utterance' = w /\ UNCHANGED <<floor, candidateVoiced, generationVars>>
      BY <1>7, <2>4 DEF SilenceInUserTurn, w
    <3> HIDE DEF eligible
    <3>3. CASE paused /\ CommitEndpoint(ReduceTurnState(floor, "pause_detected"), w)
      BY <1>3, <3>3, CommitKeepsInv, TransitionsListed
    <3>4. CASE /\ paused
               /\ floor' = ReduceTurnState(floor, "pause_detected") /\ utterance' = w
               /\ StartSpeculative
               /\ UNCHANGED <<candidateVoiced, currentGeneration, output, cancelled>>
      BY <1>3, <3>1, <3>4, PauseKeepsInv, TransitionsListed
    <3>5. CASE floor = "endpoint_candidate" /\ CommitEndpoint(floor, w)
      BY <1>3, <3>5, CommitKeepsInv
    <3>6. CASE floor = "user_speaking" /\ CutUtterance(w)
      <4>1. /\ utterance' = [w EXCEPT !.forced = TRUE]
            /\ floor' = "endpoint_candidate" /\ StartSpeculative
            /\ UNCHANGED <<candidateVoiced, currentGeneration, output, cancelled>>
        BY <3>6, TransitionsListed DEF CutUtterance
      <4>2. utterance' \in Utterance /\ utterance'.voiced = w.voiced
        BY <1>3, <4>1 DEF Utterance
      <4> QED
        BY <3>1, <3>6, <4>1, <4>2, PauseKeepsInv
    <3>7. CASE utterance' = w /\ UNCHANGED <<floor, candidateVoiced, generationVars>>
      BY <1>1, <1>3, <3>1, <3>7 DEF CoordinatorInv, CoordinatorTypeOK, SignalsNeverThrow,
         OneVoiceHasTheFloor, SpeechCounts, GenerationsNumbered, generationVars, Utterance
    <3> QED
      BY <3>2, <3>3, <3>4, <3>5, <3>6, <3>7
  <2> QED
    BY <2>3, <2>4
<1> QED
  BY <1>4, <1>5, <1>6, <1>7
-------------------------------------------------------------------------------
(* So does every signal while the presenter has the floor.                 *)
LEMMA InterruptionKeepsInv ==
  ASSUME CoordinatorInv, UNCHANGED profile,
         NEW d \in Durations, NEW level \in 0..2,
         NEW p \in Participants \cup {NoParticipant}
  PROVE  /\ BargeIn(d, level) => CoordinatorInv'
         /\ RecoverFalseInterrupt(level) => CoordinatorInv'
         /\ ConfirmInterrupt(d, level, p) => CoordinatorInv'
         /\ KeepInterrupting(d, level) => CoordinatorInv'
<1>1. /\ d \in Nat /\ CoordinatorTypeOK /\ BargeConfirmed \in Nat
      /\ profile.minSpeech \in Nat
  BY CoordinatorAssumption DEF CoordinatorInv, CoordinatorTypeOK, BargeConfirmed
<1>2. floor \in {"committed", "agent_interrupted"} =>
        /\ currentGeneration # 0 /\ pendingGeneration = 0
        /\ 0 \notin cancelled /\ currentGeneration \in 1..generationCounter
  BY GenerationsInRange DEF CoordinatorInv, OneVoiceHasTheFloor
<1>3. ASSUME BargeIn(d, level)
      PROVE  CoordinatorInv'
  <2>1. candidateVoiced' \in Nat
    BY <1>1, <1>3 DEF BargeIn, UpTo, CoordinatorTypeOK
  <2>2. /\ floor = "committed"
        /\ \/ floor' = "agent_interrupted" /\ output' = "paused"
           \/ UNCHANGED <<floor, output>>
        /\ UNCHANGED <<utterance, pendingGeneration, currentGeneration,
                       generationCounter, cancelled>>
    BY <1>2, <1>3, TransitionsListed DEF BargeIn
  <2> QED
    BY <1>1, <1>2, <2>1, <2>2 DEF CoordinatorInv, CoordinatorTypeOK, SignalsNeverThrow,
       OneVoiceHasTheFloor, SpeechCounts, GenerationsNumbered
<1>4. ASSUME RecoverFalseInterrupt(level)
      PROVE  CoordinatorInv'
  <2>1. /\ floor = "agent_interrupted" /\ floor' = "committed" /\ output' = "playing"
        /\ candidateVoiced' = 0
        /\ UNCHANGED <<utterance, pendingGeneration, currentGeneration,
                       generationCounter, cancelled>>
    BY <1>2, <1>4, TransitionsListed DEF RecoverFalseInterrupt
  <2> QED
    BY <1>1, <1>2, <2>1 DEF CoordinatorInv, CoordinatorTypeOK, SignalsNeverThrow,
       OneVoiceHasTheFloor, SpeechCounts, GenerationsNumbered
<1>5. ASSUME ConfirmInterrupt(d, level, p)
      PROVE  CoordinatorInv'
  <2>1. /\ floor = "agent_interrupted" /\ floor' = "user_speaking"
        /\ cancelled' = cancelled \cup {currentGeneration}
        /\ currentGeneration' = 0 /\ output' = "none" /\ candidateVoiced' = 0
        /\ utterance' = [NoUtterance EXCEPT !.voiced = UpTo(profile.minSpeech, d), !.speaker = p]
        /\ UNCHANGED <<pendingGeneration, generationCounter>>
    BY <1>2, <1>5, TransitionsListed DEF ConfirmInterrupt
  <2>2. UpTo(profile.minSpeech, d) \in Nat
    BY <1>1 DEF UpTo
  <2>3. utterance' \in Utterance /\ utterance'.elapsed = 0 /\ utterance'.voiced \in Nat
    BY <2>1, <2>2 DEF NoUtterance, Utterance
  <2>4. 0 \notin cancelled' /\ cancelled' \subseteq 1..generationCounter
    BY <1>2, <2>1 DEF CoordinatorInv, GenerationsNumbered
  <2>5. CoordinatorTypeOK' /\ SpeechCounts'
    BY <1>1, <2>1, <2>3 DEF CoordinatorTypeOK, SpeechCounts, Utterance
  <2> QED
    BY <1>1, <1>2, <2>1, <2>4, <2>5 DEF CoordinatorInv, CoordinatorTypeOK,
       SignalsNeverThrow, OneVoiceHasTheFloor, GenerationsNumbered
<1>6. ASSUME KeepInterrupting(d, level)
      PROVE  CoordinatorInv'
  BY <1>1, <1>6 DEF KeepInterrupting, CoordinatorInv, CoordinatorTypeOK,
     SignalsNeverThrow, OneVoiceHasTheFloor, SpeechCounts, GenerationsNumbered,
     generationVars
<1> QED
  BY <1>3, <1>4, <1>5, <1>6

(* Transcripts, the push-to-talk button and the end of the playback.       *)
LEMMA OtherSignalsKeepInv ==
  ASSUME CoordinatorInv, UNCHANGED profile
  PROVE  /\ \A punctuation, semantic \in BOOLEAN :
              TranscriptUpdate(punctuation, semantic) => CoordinatorInv'
         /\ \A p \in Participants \cup {NoParticipant} :
              PushToTalkPressed(p) => CoordinatorInv'
         /\ PushToTalkReleased => CoordinatorInv'
         /\ \A g \in 1..MaxTurnGenerations : PresenterTurnCompleted(g) => CoordinatorInv'
<1>1. CoordinatorTypeOK /\ utterance \in Utterance /\ profile.minSpeech \in Nat
  BY CoordinatorAssumption DEF CoordinatorInv, CoordinatorTypeOK
<1>2. ASSUME NEW punctuation \in BOOLEAN, NEW semantic \in BOOLEAN,
             TranscriptUpdate(punctuation, semantic)
      PROVE  CoordinatorInv'
  <2> DEFINE u == [utterance EXCEPT !.punctuation = punctuation, !.semantic = semantic]
  <2>1. u \in Utterance /\ u.voiced = utterance.voiced /\ u.elapsed = utterance.elapsed
    BY <1>1 DEF Utterance
  <2>2. \/ floor = "endpoint_candidate" /\ CommitEndpoint(floor, u)
        \/ utterance' = u /\ UNCHANGED <<floor, candidateVoiced, generationVars>>
    BY <1>2 DEF TranscriptUpdate
  <2> HIDE DEF u
  <2>3. CASE floor = "endpoint_candidate" /\ CommitEndpoint(floor, u)
    BY <2>1, <2>3, CommitKeepsInv
  <2>4. CASE utterance' = u /\ UNCHANGED <<floor, candidateVoiced, generationVars>>
    BY <1>1, <2>1, <2>4 DEF CoordinatorInv, CoordinatorTypeOK, SignalsNeverThrow,
       OneVoiceHasTheFloor, SpeechCounts, GenerationsNumbered, generationVars
  <2> QED
    BY <2>2, <2>3, <2>4
<1>3. ASSUME NEW p \in Participants \cup {NoParticipant}, PushToTalkPressed(p)
      PROVE  CoordinatorInv'
  <2>1. /\ floor = "idle" /\ floor' = "user_speaking"
        /\ utterance' = [utterance EXCEPT !.speaker = p,
                           !.voiced = UpTo(profile.minSpeech, profile.minSpeech),
                           !.elapsed = 0]
        /\ UNCHANGED <<candidateVoiced, generationVars>>
    BY <1>3, TransitionsListed DEF PushToTalkPressed, StartTurn
  <2>2. UpTo(profile.minSpeech, profile.minSpeech) = profile.minSpeech
    BY <1>1 DEF UpTo
  <2>3. utterance' \in Utterance /\ utterance'.elapsed = 0 /\ utterance'.voiced \in Nat
    BY <1>1, <2>1, <2>2 DEF Utterance
  <2> QED
    BY <1>1, <2>1, <2>3 DEF CoordinatorInv, CoordinatorTypeOK, SignalsNeverThrow,
       OneVoiceHasTheFloor, SpeechCounts, GenerationsNumbered, generationVars, Utterance
<1>4. ASSUME PushToTalkReleased
      PROVE  CoordinatorInv'
  <2> DEFINE u == [utterance EXCEPT !.forced = TRUE]
  <2>1. u \in Utterance
    BY <1>1 DEF Utterance
  <2>2. CommitEndpoint("endpoint_candidate", u)
    BY <1>4, TransitionsListed DEF PushToTalkReleased
  <2> QED
    BY <2>1, <2>2, CommitKeepsInv
<1>5. ASSUME NEW g \in 1..MaxTurnGenerations, PresenterTurnCompleted(g)
      PROVE  CoordinatorInv'
  <2>1. /\ floor \in {"committed", "agent_interrupted"} /\ floor' = "idle"
        /\ cancelled' = cancelled \cup {currentGeneration}
        /\ currentGeneration' = 0 /\ output' = "none" /\ candidateVoiced' = 0
        /\ utterance' = NoUtterance
        /\ UNCHANGED <<pendingGeneration, generationCounter>>
    BY <1>5, TransitionsListed DEF PresenterTurnCompleted
  <2>2. /\ pendingGeneration = 0 /\ currentGeneration \in 1..generationCounter
        /\ 0 \notin cancelled' /\ cancelled' \subseteq 1..generationCounter
    BY <2>1, GenerationsInRange DEF CoordinatorInv, OneVoiceHasTheFloor, GenerationsNumbered
  <2> QED
    BY <1>1, <2>1, <2>2 DEF CoordinatorInv, CoordinatorTypeOK, SignalsNeverThrow,
       OneVoiceHasTheFloor, SpeechCounts, GenerationsNumbered, NoUtterance, Utterance
<1> QED
  BY <1>2, <1>3, <1>4, <1>5

-------------------------------------------------------------------------------
(* The coordinator's inductive invariant holds in every behaviour.         *)
LEMMA CoordinatorInductive == CoordinatorSpec => []CoordinatorInv
<1>1. CoordinatorInit => CoordinatorInv
  BY DEF CoordinatorInit, CoordinatorInv, CoordinatorTypeOK, SignalsNeverThrow,
     OneVoiceHasTheFloor, SpeechCounts, GenerationsNumbered, NoUtterance, Utterance
<1>2. CoordinatorInv /\ [CoordinatorNext]_coordinatorVars => CoordinatorInv'
  <2> SUFFICES ASSUME CoordinatorInv, [CoordinatorNext]_coordinatorVars
               PROVE  CoordinatorInv'
    OBVIOUS
  <2>1. CASE CoordinatorNext
    <3>1. UNCHANGED profile
      BY <2>1 DEF CoordinatorNext
    <3> QED
      BY <2>1, <3>1, SpeechKeepsInv, InterruptionKeepsInv, OtherSignalsKeepInv
         DEF CoordinatorNext
  <2>2. CASE UNCHANGED coordinatorVars
    BY <2>2 DEF coordinatorVars, CoordinatorInv, CoordinatorTypeOK, SignalsNeverThrow,
       OneVoiceHasTheFloor, SpeechCounts, GenerationsNumbered
  <2> QED
    BY <2>1, <2>2
<1> QED
  BY <1>1, <1>2, PTL DEF CoordinatorSpec

(* No signal, in any order, asks the state machine for a transition it     *)
(* does not list (reduceTurnCoordinatorState would throw half-way through  *)
(* a handler).                                                             *)
THEOREM SignalsAreListed == CoordinatorSpec => []SignalsNeverThrow
  BY CoordinatorInductive, PTL DEF CoordinatorInv

(* The floor, the generations and the playback always tell one story.      *)
THEOREM FloorAndGenerationsAgree == CoordinatorSpec => []OneVoiceHasTheFloor
  BY CoordinatorInductive, PTL DEF CoordinatorInv

(* A generation that was started is never forgotten: it stays current or   *)
(* pending, a pending one is promoted, or it is cancelled or completed, so *)
(* no stream of a provider is left running unnoticed (commitEndpoint,      *)
(* cancelPendingGeneration, confirmInterrupt).                             *)
GenerationsAccountedFor ==
  {currentGeneration, pendingGeneration} \ {0}
    \subseteq {currentGeneration', pendingGeneration'} \cup cancelled'

THEOREM NoGenerationIsLost == CoordinatorSpec => [][GenerationsAccountedFor]_coordinatorVars
<1>1. CoordinatorInv /\ CoordinatorNext => GenerationsAccountedFor
  <2> SUFFICES ASSUME CoordinatorInv, CoordinatorNext
               PROVE  GenerationsAccountedFor
    OBVIOUS
  <2> DEFINE kept == UNCHANGED <<currentGeneration, pendingGeneration>>
  <2>1. /\ floor \notin {"committed", "agent_interrupted"} => currentGeneration = 0
        /\ floor # "endpoint_candidate" => pendingGeneration = 0
    BY DEF CoordinatorInv, OneVoiceHasTheFloor
  <2>2. ASSUME NEW from, NEW u, CommitEndpoint(from, u),
               floor \in {"user_speaking", "endpoint_candidate"}
        PROVE  GenerationsAccountedFor
    BY <2>1, <2>2 DEF CommitEndpoint, GenerationsAccountedFor
  <2>3. ASSUME StartSpeculative, UNCHANGED currentGeneration
        PROVE  GenerationsAccountedFor
    BY <2>3 DEF StartSpeculative, Speculates, GenerationsAccountedFor
  <2>4. ASSUME NEW d \in Durations, NEW level \in 0..2, NEW p \in Participants \cup {NoParticipant}
        PROVE  /\ SpeechStarts(d, level, p) => GenerationsAccountedFor
               /\ SpeechResumes(d, level, p) => GenerationsAccountedFor
               /\ SpeechContinues(d, level, p) => GenerationsAccountedFor
               /\ SilenceInUserTurn(d, level, p) => GenerationsAccountedFor
    <3>1. SpeechStarts(d, level, p) => GenerationsAccountedFor
      BY DEF SpeechStarts, StartTurn, generationVars, GenerationsAccountedFor
    <3>2. SpeechResumes(d, level, p) => GenerationsAccountedFor
      BY <2>2 DEF SpeechResumes, GenerationsAccountedFor
    <3>3. SpeechContinues(d, level, p) => GenerationsAccountedFor
      BY <2>3 DEF SpeechContinues, CutUtterance, generationVars, GenerationsAccountedFor
    <3>4. SilenceInUserTurn(d, level, p) => GenerationsAccountedFor
      <4> SUFFICES ASSUME SilenceInUserTurn(d, level, p)
                   PROVE  GenerationsAccountedFor
        OBVIOUS
      <4>1. floor \in {"user_speaking", "endpoint_candidate"}
        BY DEF SilenceInUserTurn, InUserTurn
      <4>2. \/ \E from, u : CommitEndpoint(from, u)
            \/ StartSpeculative /\ UNCHANGED currentGeneration
            \/ kept
        BY DEF SilenceInUserTurn, FalseStart, CutUtterance, generationVars
      <4> QED
        BY <2>2, <2>3, <4>1, <4>2 DEF GenerationsAccountedFor
    <3> QED
      BY <3>1, <3>2, <3>3, <3>4
  <2>5. ASSUME NEW d \in Durations, NEW level \in 0..2, NEW p \in Participants \cup {NoParticipant}
        PROVE  /\ BargeIn(d, level) => GenerationsAccountedFor
               /\ RecoverFalseInterrupt(level) => GenerationsAccountedFor
               /\ ConfirmInterrupt(d, level, p) => GenerationsAccountedFor
               /\ KeepInterrupting(d, level) => GenerationsAccountedFor
    BY DEF BargeIn, RecoverFalseInterrupt, ConfirmInterrupt, KeepInterrupting,
       generationVars, GenerationsAccountedFor
  <2>6. ASSUME NEW punctuation \in BOOLEAN, NEW semantic \in BOOLEAN,
               TranscriptUpdate(punctuation, semantic)
        PROVE  GenerationsAccountedFor
    BY <2>2, <2>6 DEF TranscriptUpdate, generationVars, GenerationsAccountedFor
  <2>7. /\ \A p \in Participants \cup {NoParticipant} :
             PushToTalkPressed(p) => GenerationsAccountedFor
        /\ PushToTalkReleased => GenerationsAccountedFor
        /\ \A g \in 1..MaxTurnGenerations : PresenterTurnCompleted(g) => GenerationsAccountedFor
    BY <2>2 DEF PushToTalkPressed, PushToTalkReleased, PresenterTurnCompleted, StartTurn,
       generationVars, GenerationsAccountedFor
  <2> QED
    BY <2>4, <2>5, <2>6, <2>7 DEF CoordinatorNext
<1> QED
  BY <1>1, CoordinatorInductive, PTL DEF CoordinatorSpec

-------------------------------------------------------------------------------
(* THE TURN DRIVER.  The invariant says who is in the lane and what the    *)
(* log, the actor and the pending generation then know of each other.      *)

(* What the driver asked the outbox to keep.                               *)
Entry ==
  [kind : {"turn", "answer", "interruption"}, of : Submits, event : Event,
   version : Nat, presenter : Presenters]

(* A command of the lane waits for it or holds it.                         *)
Waiting == {"queued", "answering"}
Unprojected == {"committed", "answered", "interrupted"}
TurnEvents == {"turn.committed", "turn.interrupted"}

(* A submission that its fast lane took over, and never was before.        *)
HandedOver ==
  {"thinking", "answering", "answered", "failing", "cancelling", "done", "failed"}

LaneSound ==
  /\ lane \in Seq(TurnCommands) /\ IsInjective(lane)
  /\ pc \in [TurnCommands -> Steps]
  /\ \A c \in TurnCommands : pc[c] \in InLane => Holds(c)
  /\ \A i \in DOMAIN lane : pc[lane[i]] \in Waiting \cup InLane

StepsKnown ==
  /\ \A c \in Submits : pc[c] \notin {"cancelled", "interrupted"}
  /\ \A c \in Interrupts :
       pc[c] \in {"new", "actor", "queued", "cancelled", "interrupted"} \cup Returned
  /\ \A c \in Interrupts : pc[c] \notin {"new", "failed"} => target[c] # Nobody
  /\ target \in [Interrupts -> Submits \cup {Nobody}]

LogKnown ==
  /\ log \in Seq(Entry)
  /\ \A i \in DOMAIN log : log[i].event.type \in TurnEvents
  /\ \A c \in TurnCommands : pc[c] \in Unprojected => log # <<>>

AggregatesTyped ==
  /\ aggregate \in AggregateState /\ projection \in AggregateState
  /\ reading \in AggregateState
  /\ generation \in Submits \cup {Nobody}
  /\ pending \in [of : Submits \cup {Nobody}, fenced : BOOLEAN]

DriverTypes == LaneSound /\ StepsKnown /\ LogKnown /\ AggregatesTyped

(* The actor was hydrated before anything was committed.                   *)
HydrationKnown ==
  /\ aggregate.status \in {"ready", "active", "completed"}
  /\ projection.status = "active" \/ reading.status = "active" =>
       aggregate.status \in {"active", "completed"}
  /\ projection = AbsentAggregate =>
       /\ log = <<>>
       /\ \A c \in TurnCommands : pc[c] \in {"new", "actor", "failed"}
       /\ reading.status = "active" /\ aggregate.status = "active" => reading = aggregate

(* While both are active the actor knows everything but the envelope that  *)
(* is on its way to it, and that one it can take.                          *)
Synced ==
  projection.status = "active" =>
    /\ (\E c \in TurnCommands : pc[c] \in Unprojected) =>
         /\ Projectable
         /\ aggregate.status = "active" =>
              aggregate = Reduce(projection, Last(log).event, Last(log).version)
    /\ (\A c \in TurnCommands : pc[c] \notin Unprojected) /\ aggregate.status = "active" =>
         projection = aggregate

(* Only an actor that follows the session has a generation.                *)
GenerationKnown ==
  /\ generation # Nobody => projection.status = "active"
  /\ \A c \in Submits : pc[c] \in {"projected", "answered"} => projection.status = "active"

(* A generation is waited for after its submission handed it over, and a   *)
(* fence is never taken back.                                              *)
PendingKnown ==
  /\ pending.of # Nobody => pc[pending.of] \in HandedOver \ {"done"}
  /\ \A d \in Interrupts : target[d] # Nobody =>
       /\ pc[target[d]] \in HandedOver
       /\ pending # [of |-> target[d], fenced |-> FALSE]

(* The last entry of the log is about the turn that is under way.          *)
LastTurnKnown ==
  /\ \A c \in Submits : pc[c] \in {"committed", "projected", "begun"} =>
       log # <<>> /\ Last(log).kind = "turn" /\ Last(log).of = c
  /\ \A c \in Interrupts : pc[c] = "cancelled" =>
       log # <<>> /\ Last(log).kind = "turn" /\ Last(log).of = target[c]
  /\ generation # Nobody /\ (\A c \in Submits : pc[c] \notin {"committed", "projected"}) =>
       log # <<>> /\ Last(log).of = generation

(* An answer is of a submission that has one, an interruption of one that  *)
(* is valid no more.                                                       *)
OutcomesKnown ==
  /\ \A i \in DOMAIN log : log[i].kind = "answer" => pc[log[i].of] \in {"answered", "done"}
  /\ \A i \in DOMAIN log : log[i].kind = "interruption" =>
       generation # log[i].of /\ pc[log[i].of] \in HandedOver
  /\ \A c \in Submits : pc[c] \in {"answered", "done"} =>
       \E i \in DOMAIN log : log[i].kind = "answer" /\ log[i].of = c
  /\ \A c \in Interrupts : pc[c] \in {"interrupted", "done"} =>
       \E i \in DOMAIN log : log[i].kind = "interruption" /\ log[i].of = target[c]
  /\ \A c \in Interrupts : pc[c] = "cancelled" => generation # target[c]

TalkKnown == LastTurnKnown /\ OutcomesKnown /\ OutcomeFollowsItsTurn

DriverInv ==
  /\ DriverTypes /\ HydrationKnown /\ Synced /\ GenerationKnown
  /\ PendingKnown /\ TalkKnown

-------------------------------------------------------------------------------
(* The lane: joined at the end, left at the head, and kept.                *)

LEMMA LaneStays ==
  ASSUME LaneSound, NEW c \in TurnCommands, NEW s \in Steps,
         Goto(c, s), lane' = lane,
         \/ pc[c] \notin Waiting \cup InLane /\ s \notin Waiting \cup InLane
         \/ Holds(c) /\ s \in InLane
  PROVE  LaneSound'
<1>1. pc' \in [TurnCommands -> Steps] /\ \A d \in TurnCommands \ {c} : pc'[d] = pc[d]
  BY DEF LaneSound, Goto
<1>2. pc'[c] = s
  BY DEF LaneSound, Goto
<1>3. \A i \in DOMAIN lane : lane[i] \in TurnCommands
  BY DEF LaneSound
<1>4. \A d \in TurnCommands : pc'[d] \in InLane => Holds(d)'
  BY <1>1, <1>2 DEF LaneSound, Holds
<1>5. \A i \in DOMAIN lane : pc'[lane[i]] \in Waiting \cup InLane
  BY <1>1, <1>2, <1>3 DEF LaneSound
<1>6. QED
  BY <1>1, <1>4, <1>5 DEF LaneSound

LEMMA LaneJoined ==
  ASSUME LaneSound, NEW c \in TurnCommands, NEW s \in Waiting,
         Goto(c, s), lane' = Append(lane, c),
         pc[c] \notin Waiting \cup InLane
  PROVE  LaneSound'
<1>1. s \in Steps /\ s \notin InLane
  BY DEF Waiting, Steps, InLane
<1>2. /\ lane' \in Seq(TurnCommands) /\ lane' # <<>> /\ Len(lane') = Len(lane) + 1
      /\ \A i \in 1..Len(lane) : lane'[i] = lane[i]
      /\ lane'[Len(lane) + 1] = c
  BY AppendProperties DEF LaneSound
<1>3. Len(lane) \in Nat /\ DOMAIN lane = 1..Len(lane) /\ DOMAIN lane' = 1..(Len(lane) + 1)
  BY <1>2 DEF LaneSound
<1>4. \A i \in 1..Len(lane) : lane[i] \in TurnCommands /\ lane[i] # c
  BY <1>3 DEF LaneSound
<1>5. IsInjective(lane')
  BY <1>2, <1>3, <1>4 DEF IsInjective, LaneSound
<1>6. pc' \in [TurnCommands -> Steps] /\ \A d \in TurnCommands \ {c} : pc'[d] = pc[d]
  BY <1>1 DEF LaneSound, Goto
<1>7. pc'[c] = s
  BY DEF LaneSound, Goto
<1>8. ASSUME NEW d \in TurnCommands, pc'[d] \in InLane PROVE Holds(d)'
  <2>1. pc[d] \in InLane
    BY <1>1, <1>6, <1>7, <1>8
  <2>2. lane # <<>> /\ Head(lane) = d
    BY <2>1 DEF LaneSound, Holds
  <2>3. Head(lane') = d
    BY <2>2, HeadTailAppend DEF LaneSound
  <2>4. QED
    BY <2>3, <1>2 DEF Holds
<1>9. \A i \in DOMAIN lane' : pc'[lane'[i]] \in Waiting \cup InLane
  BY <1>2, <1>3, <1>4, <1>6, <1>7 DEF LaneSound
<1>10. QED
  BY <1>2, <1>5, <1>6, <1>8, <1>9 DEF LaneSound

LEMMA LaneLeft ==
  ASSUME LaneSound, NEW c \in TurnCommands, NEW s \in Steps,
         Holds(c), Leave(c, s), s \notin Waiting \cup InLane
  PROVE  LaneSound'
<1>1. /\ lane # <<>> /\ lane[1] = c
      /\ lane' \in Seq(TurnCommands) /\ Len(lane') = Len(lane) - 1
      /\ \A i \in 1..Len(lane') : lane'[i] = lane[i + 1]
  BY HeadTailProperties DEF LaneSound, Leave, Holds
<1>2. Len(lane) \in Nat /\ DOMAIN lane = 1..Len(lane) /\ DOMAIN lane' = 1..(Len(lane) - 1)
  BY <1>1 DEF LaneSound
<1>3. \A i \in DOMAIN lane' : lane'[i] \in TurnCommands \ {c}
  BY SMTT(60), <1>1, <1>2 DEF LaneSound, IsInjective
<1>4. IsInjective(lane')
  <2> SUFFICES ASSUME NEW i \in DOMAIN lane', NEW j \in DOMAIN lane', lane'[i] = lane'[j]
               PROVE  i = j
    BY DEF IsInjective
  <2>1. i + 1 \in DOMAIN lane /\ j + 1 \in DOMAIN lane /\ lane[i + 1] = lane[j + 1]
    BY <1>1, <1>2
  <2>2. i + 1 = j + 1
    BY <2>1 DEF LaneSound, IsInjective
  <2>3. QED
    BY <2>2, <1>2
<1>5. pc' \in [TurnCommands -> Steps] /\ \A d \in TurnCommands \ {c} : pc'[d] = pc[d]
  BY DEF LaneSound, Leave, Goto
<1>6. pc'[c] = s
  BY DEF LaneSound, Leave, Goto
<1>7. \A d \in TurnCommands : pc'[d] \notin InLane
  BY <1>5, <1>6 DEF LaneSound, Holds
<1>8. \A i \in DOMAIN lane' : pc'[lane'[i]] \in Waiting \cup InLane
  BY SMTT(60), <1>1, <1>2, <1>3, <1>5 DEF LaneSound
<1>9. QED
  BY <1>1, <1>4, <1>5, <1>7, <1>8 DEF LaneSound

(* Two commands are never both between a commit and its projection.        *)
LEMMA OneHolder ==
  ASSUME LaneSound, NEW c \in TurnCommands, Holds(c) \/ pc[c] \in InLane,
         NEW d \in TurnCommands, pc[d] \in InLane
  PROVE  d = c
BY DEF LaneSound, Holds

-------------------------------------------------------------------------------
(* The log and the aggregate: what a commit and a projection do.           *)

Logged(e) ==
  /\ e \in Entry
  /\ Active /\ aggregate.presenter \in Presenters
  /\ Accepts(aggregate, e.event, e.version)
  /\ aggregate' = Reduce(aggregate, e.event, e.version)
  /\ aggregate' \in AggregateState
  /\ log' \in Seq(Entry) /\ log' # <<>> /\ Last(log') = e
  /\ DOMAIN log' = DOMAIN log \cup {Len(log) + 1}
  /\ \A i \in DOMAIN log : log'[i] = log[i]
  /\ log'[Len(log) + 1] = e
  /\ Len(log) + 1 \notin DOMAIN log
  /\ Len(log') = Len(log) + 1

LEMMA CommitLogs ==
  ASSUME LogKnown, AggregatesTyped, NEW kind \in {"turn", "answer", "interruption"},
         NEW c \in Submits, NEW ev \in Event, Commit(kind, c, ev)
  PROVE  \E e : Logged(e) /\ e.kind = kind /\ e.of = c /\ e.event = ev
<1> PICK v \in Nat : v = aggregate.version + 1
  BY DEF AggregatesTyped, AggregateState
<1>1. aggregate.presenter \in Presenters
  BY DEF Commit, Active, AggregatesTyped, AggregateState
<1> PICK e : e = [kind |-> kind, of |-> c, event |-> ev, version |-> v,
                  presenter |-> aggregate.presenter]
  OBVIOUS
<1>2. e \in Entry
  BY <1>1 DEF Entry
<1>3. /\ e.kind = kind /\ e.of = c /\ e.event = ev /\ e.version = v
  OBVIOUS
<1>4. /\ Active /\ Accepts(aggregate, ev, v)
      /\ aggregate' = Reduce(aggregate, ev, v) /\ log' = Append(log, e)
  BY DEF Commit
<1>5. aggregate' \in AggregateState
  BY <1>4, AcceptedType
<1>6. /\ log' \in Seq(Entry) /\ log' # <<>> /\ Len(log') = Len(log) + 1
      /\ \A i \in 1..Len(log) : log'[i] = log[i]
      /\ log'[Len(log) + 1] = e
  BY <1>2, <1>4, AppendProperties DEF LogKnown
<1>7. Len(log) \in Nat /\ DOMAIN log = 1..Len(log) /\ DOMAIN log' = 1..(Len(log) + 1)
  BY <1>6 DEF LogKnown
<1>8. DOMAIN log' = DOMAIN log \cup {Len(log) + 1} /\ Len(log) + 1 \notin DOMAIN log
  BY <1>7
<1>9. Last(log') = e
  BY <1>6 DEF Last
<1>10. Logged(e)
  BY <1>1, <1>2, <1>3, <1>4, <1>5, <1>6, <1>7, <1>8, <1>9 DEF Logged
<1> QED
  BY <1>3, <1>10

(* The events of turns are taken by an active session, and leave it so.    *)
LEMMA TurnsStayOnStage ==
  ASSUME NEW st, NEW ev \in Event, NEW v \in Nat, ev.type \in TurnEvents,
         Accepts(st, ev, v)
  PROVE  /\ st.status = "active" /\ st \in AggregateState
         /\ Reduce(st, ev, v) \in AggregateState
         /\ Reduce(st, ev, v).status = "active"
         /\ Reduce(st, ev, v) # AbsentAggregate
<1>1. st.status # "absent"
  BY DEF Accepts, TurnEvents
<1>2. st \in AggregateState /\ Permits(st, ev)
  BY <1>1 DEF Accepts, Consistent
<1>3. st.status = "active"
  BY <1>2 DEF Permits, TurnEvents, CommitsTurn
<1>4. Reduce(st, ev, v) \in AggregateState
  BY AcceptedType
<1>5. Changed(st, ev).status = "active"
  BY <1>2, <1>3 DEF Changed, TurnEvents, AggregateState
<1>6. Changed(st, ev) \in AggregateState
  BY <1>2, ChangedType
<1>7. Reduce(st, ev, v).status = "active"
  BY <1>5, <1>6 DEF Reduce, AggregateState
<1>8. QED
  BY <1>2, <1>3, <1>4, <1>7 DEF AbsentAggregate

LEMMA TurnIsEvent ==
  ASSUME aggregate \in AggregateState, NEW p \in Presenters,
         NEW sp \in {"presenter", "participant"}
  PROVE  Turn(sp, p) \in Event /\ Turn(sp, p).type \in TurnEvents
BY DEF Turn, Event, AggregateState, TurnEvents

(* What is on its way to the actor is an event of a turn.                  *)
LEMMA LastIsTurn ==
  ASSUME LogKnown, NEW c \in TurnCommands, pc[c] \in Unprojected
  PROVE  /\ Last(log).event \in Event /\ Last(log).version \in Nat
         /\ Last(log).event.type \in TurnEvents
<1>1. log # <<>> /\ log \in Seq(Entry)
  BY DEF LogKnown
<1>2. Len(log) \in DOMAIN log /\ log[Len(log)] \in Entry
  BY <1>1
<1>3. QED
  BY <1>2 DEF LogKnown, Last, Entry

-------------------------------------------------------------------------------
(* The steps of the driver by what they do to outbox, actor and log.       *)

(* A command goes on, and nothing is committed, projected or begun.        *)
Waits(c, s) ==
  /\ Goto(c, s)
  /\ pc[c] \in {"new", "actor", "queued", "begun", "thinking", "answering",
                "failing", "cancelling", "cancelled"}
  /\ s \in {"actor", "queued", "failed", "thinking", "answering", "failing", "cancelling"}
  /\ pc[c] \in HandedOver => s \in HandedOver
  /\ projection # AbsentAggregate \/ s \in {"actor", "failed"}
  /\ generation' \in {generation, Nobody}
  /\ \A d \in Interrupts : pc[d] # "new" => target'[d] = target[d]
  /\ UNCHANGED <<aggregate, projection, reading, log>>

(* An interruption takes the generation it is for off the air.             *)
Silences(c) ==
  /\ pc[c] = "queued" /\ Holds(c)
  /\ pending.of = target[c] /\ generation = target[c]
  /\ generation' = Nobody
  /\ Goto(c, "cancelled")
  /\ UNCHANGED <<aggregate, projection, reading, target, log>>

(* The holder of the lane commits what its place in the turn allows.        *)
Logs(c, s, e) ==
  /\ Holds(c) /\ Goto(c, s)
  /\ Logged(e) /\ e.event.type \in TurnEvents
  /\ \/ /\ c \in Submits /\ pc[c] = "queued" /\ s = "committed"
        /\ e.kind = "turn" /\ e.of = c
     \/ /\ c \in Submits /\ pc[c] = "answering" /\ s = "answered"
        /\ e.kind = "answer" /\ e.of = c
        /\ generation = c /\ projection.status = "active"
     \/ /\ c \in Interrupts /\ pc[c] = "cancelled" /\ s = "interrupted"
        /\ e.kind = "interruption" /\ e.of = target[c]
  /\ UNCHANGED <<projection, reading, generation, target>>

(* The envelope on its way reaches the actor, or is refused there.         *)
Projects(c, s) ==
  /\ pc[c] \in Unprojected /\ Goto(c, s)
  /\ IF Projectable
       THEN /\ ApplyToActor
            /\ s = IF pc[c] = "committed" THEN "projected" ELSE "done"
       ELSE UNCHANGED projection /\ s \in {"failing", "failed"}
  /\ UNCHANGED <<aggregate, reading, generation, target, log>>

LifecycleStep == CompleteSession \/ \E p \in Presenters : ActivateSession(p)

(* What the driver makes of its pending generation.                        *)
LEMMA PendingTyped ==
  ASSUME pending \in [of : Submits \cup {Nobody}, fenced : BOOLEAN],
         NEW c \in Submits \cup {Nobody}
  PROVE  /\ {Fenced(c), WithoutPending(c), NoPending, [of |-> c, fenced |-> FALSE]}
               \subseteq [of : Submits \cup {Nobody}, fenced : BOOLEAN]
         /\ Fenced(c).of = pending.of /\ Fenced(c).fenced
<1>1. Fenced(c) \in [of : Submits \cup {Nobody}, fenced : BOOLEAN]
  BY DEF Fenced
<1>2. Fenced(c).of = pending.of
  BY DEF Fenced
<1>3. Fenced(c).fenced
  BY DEF Fenced
<1>4. {WithoutPending(c), NoPending, [of |-> c, fenced |-> FALSE]}
        \subseteq [of : Submits \cup {Nobody}, fenced : BOOLEAN]
  BY DEF WithoutPending, NoPending
<1>5. QED
  BY <1>1, <1>2, <1>3, <1>4

-------------------------------------------------------------------------------
(* Types and the lane survive every step.                                  *)

LEMMA DriverTypesKept ==
  ASSUME DriverTypes, Next
  PROVE  DriverTypes'
<1>0. LaneSound /\ StepsKnown /\ LogKnown /\ AggregatesTyped
  BY DEF DriverTypes
<1> USE <1>0
<1>1. ASSUME NEW c \in Submits, BeginSubmit(c) PROVE DriverTypes'
  <2>1. LaneSound'
    BY <1>1, LaneStays DEF LaneSound, BeginSubmit, TurnCommands, Steps, Waiting,
       InLane, Returned, Unprojected
  <2>2. StepsKnown'
    BY <1>1, DriverAssumption DEF StepsKnown, LaneSound, Goto, BeginSubmit,
       TurnCommands, Steps, Waiting, InLane, Returned, Unprojected
  <2>3. LogKnown'
    BY <1>1, DriverAssumption DEF LogKnown, LaneSound, Goto, BeginSubmit,
       TurnCommands, Steps, Waiting, InLane, Returned, Unprojected
  <2>4. AggregatesTyped'
    BY <1>1, DriverAssumption, PendingTyped DEF AggregatesTyped, Goto, BeginSubmit,
       TurnCommands, Steps, Waiting, InLane, Returned, Unprojected
  <2>5. QED
    BY <2>1, <2>2, <2>3, <2>4 DEF DriverTypes
<1>2. ASSUME NEW c \in Interrupts, NEW g \in Submits, BeginInterrupt(c, g)
      PROVE  DriverTypes'
  <2>1. LaneSound'
    BY <1>2, LaneStays DEF LaneSound, BeginInterrupt, TurnCommands, Steps, Waiting,
       InLane, Returned, Unprojected
  <2>2. StepsKnown'
    BY <1>2, DriverAssumption DEF StepsKnown, LaneSound, Goto, BeginInterrupt,
       TurnCommands, Steps, Waiting, InLane, Returned, Unprojected, Fenced
  <2>3. LogKnown'
    BY <1>2, DriverAssumption DEF LogKnown, LaneSound, Goto, BeginInterrupt,
       TurnCommands, Steps, Waiting, InLane, Returned, Unprojected, Fenced
  <2>4. AggregatesTyped'
    BY <1>2, DriverAssumption, PendingTyped DEF AggregatesTyped, Goto, BeginInterrupt,
       TurnCommands, Steps, Waiting, InLane, Returned, Unprojected, Fenced
  <2>5. QED
    BY <2>1, <2>2, <2>3, <2>4 DEF DriverTypes
<1>3. ASSUME UNCHANGED <<pc, lane, target, log, generation, pending>>,
             aggregate' \in AggregateState, projection' \in AggregateState,
             reading' \in AggregateState
      PROVE  DriverTypes'
  BY <1>3 DEF DriverTypes, LaneSound, StepsKnown, LogKnown, AggregatesTyped, Holds
<1>4. ASSUME ReadOutbox \/ HydrateProjection PROVE DriverTypes'
  BY <1>3, <1>4 DEF ReadOutbox, HydrateProjection, AggregatesTyped
<1>5. ASSUME LifecycleStep PROVE DriverTypes'
  <2> PICK ev \in Event : Lifecycle(ev)
    BY <1>5 DEF LifecycleStep, CompleteSession, ActivateSession, Event, PlainTypes
  <2> PICK v \in Nat : v = aggregate.version + 1
    BY DEF AggregatesTyped, AggregateState
  <2>1. aggregate' \in AggregateState
    BY AcceptedType DEF Lifecycle
  <2>2. QED
    BY <2>1, <1>3 DEF Lifecycle, AggregatesTyped
<1>6. ASSUME NEW c \in TurnCommands, EnterLane(c), c \in Submits \/ target[c] # Nobody
      PROVE  DriverTypes'
  <2>1. LaneSound'
    <3>1. CASE lane' = lane
      BY <1>6, <3>1, LaneStays DEF EnterLane, Join, TurnCommands, Steps, Waiting,
         InLane, Returned, Unprojected
    <3>2. CASE lane' # lane
      BY <1>6, <3>2, LaneJoined DEF EnterLane, Join, TurnCommands, Steps, Waiting,
         InLane, Returned, Unprojected
    <3>3. QED
      BY <3>1, <3>2
  <2>2. StepsKnown'
    BY <1>6, DriverAssumption DEF StepsKnown, LaneSound, Goto, EnterLane, Join,
       TurnCommands, Steps, Waiting, InLane, Returned, Unprojected
  <2>3. LogKnown'
    BY <1>6, DriverAssumption DEF LogKnown, LaneSound, Goto, EnterLane, Join,
       TurnCommands, Steps, Waiting, InLane, Returned, Unprojected
  <2>4. AggregatesTyped'
    BY <1>6, DriverAssumption, PendingTyped DEF AggregatesTyped, Goto, EnterLane,
       Join, TurnCommands, Steps, Waiting, InLane, Returned, Unprojected
  <2>5. QED
    BY <2>1, <2>2, <2>3, <2>4 DEF DriverTypes
<1>7. ASSUME NEW c \in Submits, CommitTurn(c) PROVE DriverTypes'
  <2>1. CASE Leave(c, "failed") /\ UNCHANGED <<aggregate, log>>
    <3>1. LaneSound'
      BY <1>7, <2>1, LaneLeft DEF LaneSound, CommitTurn, TurnCommands, Steps, Waiting,
         InLane, Returned, Unprojected
    <3>2. StepsKnown'
      BY <1>7, <2>1, DriverAssumption DEF StepsKnown, LaneSound, Goto, CommitTurn,
         Leave, TurnCommands, Steps, Waiting, InLane, Returned, Unprojected
    <3>3. LogKnown'
      BY <1>7, <2>1, DriverAssumption DEF LogKnown, LaneSound, Goto, CommitTurn,
         Leave, TurnCommands, Steps, Waiting, InLane, Returned, Unprojected
    <3>4. AggregatesTyped'
      BY <1>7, <2>1, DriverAssumption, PendingTyped DEF AggregatesTyped, Goto,
         CommitTurn, Leave, TurnCommands, Steps, Waiting, InLane, Returned,
         Unprojected
    <3>5. QED
      BY <3>1, <3>2, <3>3, <3>4 DEF DriverTypes
  <2>2. CASE Commit("turn", c, Turn("participant", Speaker)) /\ Goto(c, "committed")
             /\ lane' = lane
    <3>1. c \in Submits
      BY <1>7
    <3>2. /\ Turn("participant", Speaker) \in Event
          /\ Turn("participant", Speaker).type \in TurnEvents
      BY <1>7, <2>2, TurnIsEvent, DriverAssumption DEF AggregatesTyped
    <3>3. PICK e : /\ Logged(e) /\ e.kind = "turn" /\ e.of = c
                   /\ e.event = Turn("participant", Speaker)
      BY <2>2, <3>1, <3>2, CommitLogs
    <3>4. LaneSound'
      BY <1>7, <2>2, LaneStays DEF LaneSound, CommitTurn, TurnCommands, Steps,
         Waiting, InLane, Returned, Unprojected
    <3>5. StepsKnown'
      BY <1>7, <2>2, DriverAssumption DEF StepsKnown, LaneSound, Goto, CommitTurn,
         TurnCommands, Steps, Waiting, InLane, Returned, Unprojected
    <3>6. LogKnown'
      BY <3>2, <3>3 DEF LogKnown, Logged
    <3>7. AggregatesTyped'
      BY <1>7, <3>3 DEF AggregatesTyped, Logged, CommitTurn
    <3>8. QED
      BY <3>4, <3>5, <3>6, <3>7 DEF DriverTypes
  <2>3. QED
    BY <1>7, <2>1, <2>2 DEF CommitTurn
<1>8. ASSUME NEW c \in Submits, ProjectTurn(c) PROVE DriverTypes'
  <2>1. Last(log).event \in Event /\ Last(log).version \in Nat
    BY <1>8, LastIsTurn DEF ProjectTurn, TurnCommands, Steps, Waiting, InLane,
       Returned, Unprojected
  <2>2. projection' \in AggregateState
    BY <1>8, <2>1, AcceptedType DEF ProjectTurn, Projectable, ApplyToActor, AggregatesTyped
  <2>3. LaneSound'
    BY <1>8, LaneStays, LaneLeft DEF LaneSound, ProjectTurn, Leave, TurnCommands,
       Steps, Waiting, InLane, Returned, Unprojected
  <2>4. StepsKnown'
    BY <1>8, <2>2, DriverAssumption DEF StepsKnown, LaneSound, Goto, ProjectTurn,
       Leave, TurnCommands, Steps, Waiting, InLane, Returned, Unprojected, NoPending,
       WithoutPending
  <2>5. LogKnown'
    BY <1>8, <2>2, DriverAssumption DEF LogKnown, LaneSound, Goto, ProjectTurn, Leave,
       TurnCommands, Steps, Waiting, InLane, Returned, Unprojected, NoPending,
       WithoutPending
  <2>6. AggregatesTyped'
    BY <1>8, <2>2, DriverAssumption, PendingTyped DEF AggregatesTyped, Goto,
       ProjectTurn, Leave, TurnCommands, Steps, Waiting, InLane, Returned,
       Unprojected, NoPending, WithoutPending
  <2>7. QED
    BY <2>3, <2>4, <2>5, <2>6 DEF DriverTypes
<1>9. ASSUME NEW c \in Submits, OpenGeneration(c) PROVE DriverTypes'
  <2>1. LaneSound'
    BY <1>9, LaneStays DEF LaneSound, OpenGeneration, TurnCommands, Steps, Waiting,
       InLane, Returned, Unprojected
  <2>2. StepsKnown'
    BY <1>9, DriverAssumption DEF StepsKnown, LaneSound, Goto, OpenGeneration,
       TurnCommands, Steps, Waiting, InLane, Returned, Unprojected
  <2>3. LogKnown'
    BY <1>9, DriverAssumption DEF LogKnown, LaneSound, Goto, OpenGeneration,
       TurnCommands, Steps, Waiting, InLane, Returned, Unprojected
  <2>4. AggregatesTyped'
    BY <1>9, DriverAssumption, PendingTyped DEF AggregatesTyped, Goto, OpenGeneration,
       TurnCommands, Steps, Waiting, InLane, Returned, Unprojected
  <2>5. QED
    BY <2>1, <2>2, <2>3, <2>4 DEF DriverTypes
<1>10. ASSUME NEW c \in Submits, AwaitFastLane(c) PROVE DriverTypes'
  <2>1. LaneSound'
    BY <1>10, LaneLeft DEF LaneSound, AwaitFastLane, Leave, TurnCommands, Steps,
       Waiting, InLane, Returned, Unprojected
  <2>2. StepsKnown'
    BY <1>10, DriverAssumption DEF StepsKnown, LaneSound, Goto, AwaitFastLane, Leave,
       TurnCommands, Steps, Waiting, InLane, Returned, Unprojected
  <2>3. LogKnown'
    BY <1>10, DriverAssumption DEF LogKnown, LaneSound, Goto, AwaitFastLane, Leave,
       TurnCommands, Steps, Waiting, InLane, Returned, Unprojected
  <2>4. AggregatesTyped'
    BY <1>10, DriverAssumption, PendingTyped DEF AggregatesTyped, Goto, AwaitFastLane,
       Leave, TurnCommands, Steps, Waiting, InLane, Returned, Unprojected
  <2>5. QED
    BY <2>1, <2>2, <2>3, <2>4 DEF DriverTypes
<1>11. ASSUME NEW c \in Submits, Respond(c) PROVE DriverTypes'
  <2>1. LaneSound'
    <3>1. CASE lane' = lane
      BY <1>11, <3>1, LaneStays DEF Respond, Join, TurnCommands, Steps, Waiting,
         InLane, Returned, Unprojected
    <3>2. CASE lane' # lane
      BY <1>11, <3>2, LaneJoined DEF Respond, Join, TurnCommands, Steps, Waiting,
         InLane, Returned, Unprojected
    <3>3. QED
      BY <3>1, <3>2
  <2>2. StepsKnown'
    BY <1>11, DriverAssumption DEF StepsKnown, LaneSound, Goto, Respond, Join,
       TurnCommands, Steps, Waiting, InLane, Returned, Unprojected
  <2>3. LogKnown'
    BY <1>11, DriverAssumption DEF LogKnown, LaneSound, Goto, Respond, Join,
       TurnCommands, Steps, Waiting, InLane, Returned, Unprojected
  <2>4. AggregatesTyped'
    BY <1>11, DriverAssumption, PendingTyped DEF AggregatesTyped, Goto, Respond, Join,
       TurnCommands, Steps, Waiting, InLane, Returned, Unprojected
  <2>5. QED
    BY <2>1, <2>2, <2>3, <2>4 DEF DriverTypes
<1>12. ASSUME NEW c \in Submits, FailFastLane(c) PROVE DriverTypes'
  <2>1. LaneSound'
    BY <1>12, LaneStays DEF LaneSound, FailFastLane, TurnCommands, Steps, Waiting,
       InLane, Returned, Unprojected
  <2>2. StepsKnown'
    BY <1>12, DriverAssumption DEF StepsKnown, LaneSound, Goto, FailFastLane,
       TurnCommands, Steps, Waiting, InLane, Returned, Unprojected
  <2>3. LogKnown'
    BY <1>12, DriverAssumption DEF LogKnown, LaneSound, Goto, FailFastLane,
       TurnCommands, Steps, Waiting, InLane, Returned, Unprojected
  <2>4. AggregatesTyped'
    BY <1>12, DriverAssumption, PendingTyped DEF AggregatesTyped, Goto, FailFastLane,
       TurnCommands, Steps, Waiting, InLane, Returned, Unprojected
  <2>5. QED
    BY <2>1, <2>2, <2>3, <2>4 DEF DriverTypes
<1>13. ASSUME NEW c \in Submits, CommitAnswer(c) PROVE DriverTypes'
  <2>1. CASE Leave(c, "failing") /\ UNCHANGED <<aggregate, log>>
    <3>1. LaneSound'
      BY <1>13, <2>1, LaneLeft DEF LaneSound, CommitAnswer, TurnCommands, Steps,
         Waiting, InLane, Returned, Unprojected
    <3>2. StepsKnown'
      BY <1>13, <2>1, DriverAssumption DEF StepsKnown, LaneSound, Goto, CommitAnswer,
         Leave, TurnCommands, Steps, Waiting, InLane, Returned, Unprojected
    <3>3. LogKnown'
      BY <1>13, <2>1, DriverAssumption DEF LogKnown, LaneSound, Goto, CommitAnswer,
         Leave, TurnCommands, Steps, Waiting, InLane, Returned, Unprojected
    <3>4. AggregatesTyped'
      BY <1>13, <2>1, DriverAssumption, PendingTyped DEF AggregatesTyped, Goto,
         CommitAnswer, Leave, TurnCommands, Steps, Waiting, InLane, Returned,
         Unprojected
    <3>5. QED
      BY <3>1, <3>2, <3>3, <3>4 DEF DriverTypes
  <2>2. CASE /\ Commit("answer", c, Turn("presenter", aggregate.presenter))
             /\ Goto(c, "answered") /\ lane' = lane
    <3>1. c \in Submits
      BY <1>13
    <3>2. /\ Turn("presenter", aggregate.presenter) \in Event
          /\ Turn("presenter", aggregate.presenter).type \in TurnEvents
      BY <1>13, <2>2, TurnIsEvent DEF Commit, Active, AggregatesTyped, AggregateState
    <3>3. PICK e : /\ Logged(e) /\ e.kind = "answer" /\ e.of = c
                   /\ e.event = Turn("presenter", aggregate.presenter)
      BY <2>2, <3>1, <3>2, CommitLogs
    <3>4. LaneSound'
      BY <1>13, <2>2, LaneStays DEF LaneSound, CommitAnswer, TurnCommands, Steps,
         Waiting, InLane, Returned, Unprojected
    <3>5. StepsKnown'
      BY <1>13, <2>2, DriverAssumption DEF StepsKnown, LaneSound, Goto, CommitAnswer,
         TurnCommands, Steps, Waiting, InLane, Returned, Unprojected
    <3>6. LogKnown'
      BY <3>2, <3>3 DEF LogKnown, Logged
    <3>7. AggregatesTyped'
      BY <1>13, <3>3 DEF AggregatesTyped, Logged, CommitAnswer
    <3>8. QED
      BY <3>4, <3>5, <3>6, <3>7 DEF DriverTypes
  <2>3. QED
    BY <1>13, <2>1, <2>2 DEF CommitAnswer
<1>14. ASSUME NEW c \in Submits, ProjectAnswer(c) PROVE DriverTypes'
  <2>1. Last(log).event \in Event /\ Last(log).version \in Nat
    BY <1>14, LastIsTurn DEF ProjectAnswer, TurnCommands, Steps, Waiting, InLane,
       Returned, Unprojected
  <2>2. projection' \in AggregateState
    BY <1>14, <2>1, AcceptedType DEF ProjectAnswer, Projectable, ApplyToActor,
       AggregatesTyped
  <2>3. LaneSound'
    BY <1>14, LaneLeft DEF LaneSound, ProjectAnswer, Leave, TurnCommands, Steps,
       Waiting, InLane, Returned, Unprojected
  <2>4. StepsKnown'
    BY <1>14, <2>2, DriverAssumption DEF StepsKnown, LaneSound, Goto, ProjectAnswer,
       Leave, TurnCommands, Steps, Waiting, InLane, Returned, Unprojected, NoPending,
       WithoutPending
  <2>5. LogKnown'
    BY <1>14, <2>2, DriverAssumption DEF LogKnown, LaneSound, Goto, ProjectAnswer,
       Leave, TurnCommands, Steps, Waiting, InLane, Returned, Unprojected, NoPending,
       WithoutPending
  <2>6. AggregatesTyped'
    BY <1>14, <2>2, DriverAssumption, PendingTyped DEF AggregatesTyped, Goto,
       ProjectAnswer, Leave, TurnCommands, Steps, Waiting, InLane, Returned,
       Unprojected, NoPending, WithoutPending
  <2>7. QED
    BY <2>3, <2>4, <2>5, <2>6 DEF DriverTypes
<1>15. ASSUME NEW c \in Submits, FenceFailed(c) PROVE DriverTypes'
  <2>1. LaneSound'
    BY <1>15, LaneStays DEF LaneSound, FenceFailed, TurnCommands, Steps, Waiting,
       InLane, Returned, Unprojected
  <2>2. StepsKnown'
    BY <1>15, DriverAssumption DEF StepsKnown, LaneSound, Goto, FenceFailed,
       TurnCommands, Steps, Waiting, InLane, Returned, Unprojected, Fenced
  <2>3. LogKnown'
    BY <1>15, DriverAssumption DEF LogKnown, LaneSound, Goto, FenceFailed,
       TurnCommands, Steps, Waiting, InLane, Returned, Unprojected, Fenced
  <2>4. AggregatesTyped'
    BY ZenonT(60), <1>15, DriverAssumption, PendingTyped DEF AggregatesTyped, Goto, FenceFailed,
       TurnCommands, Steps, Waiting, InLane, Returned, Unprojected, Fenced
  <2>5. QED
    BY <2>1, <2>2, <2>3, <2>4 DEF DriverTypes
<1>16. ASSUME NEW c \in Submits, CancelFailed(c) PROVE DriverTypes'
  <2>1. LaneSound'
    BY <1>16, LaneStays DEF LaneSound, CancelFailed, TurnCommands, Steps, Waiting,
       InLane, Returned, Unprojected
  <2>2. StepsKnown'
    BY <1>16, DriverAssumption DEF StepsKnown, LaneSound, Goto, CancelFailed,
       TurnCommands, Steps, Waiting, InLane, Returned, Unprojected, WithoutPending,
       NoPending, Cancelled
  <2>3. LogKnown'
    BY <1>16, DriverAssumption DEF LogKnown, LaneSound, Goto, CancelFailed,
       TurnCommands, Steps, Waiting, InLane, Returned, Unprojected, WithoutPending,
       NoPending, Cancelled
  <2>4. AggregatesTyped'
    BY <1>16, DriverAssumption, PendingTyped DEF AggregatesTyped, Goto, CancelFailed,
       TurnCommands, Steps, Waiting, InLane, Returned, Unprojected, WithoutPending,
       NoPending, Cancelled
  <2>5. QED
    BY <2>1, <2>2, <2>3, <2>4 DEF DriverTypes
<1>17. ASSUME NEW c \in Interrupts, CancelPending(c) PROVE DriverTypes'
  <2>1. LaneSound'
    BY <1>17, LaneLeft, LaneStays DEF LaneSound, CancelPending, Leave, TurnCommands,
       Steps, Waiting, InLane, Returned, Unprojected
  <2>2. StepsKnown'
    BY <1>17, DriverAssumption DEF StepsKnown, LaneSound, Goto, CancelPending, Leave,
       TurnCommands, Steps, Waiting, InLane, Returned, Unprojected,
       WithoutPending, NoPending, Cancelled
  <2>3. LogKnown'
    BY <1>17, DriverAssumption DEF LogKnown, LaneSound, Goto, CancelPending, Leave,
       TurnCommands, Steps, Waiting, InLane, Returned, Unprojected,
       WithoutPending, NoPending, Cancelled
  <2>4. AggregatesTyped'
    BY <1>17, DriverAssumption, PendingTyped DEF AggregatesTyped, Goto, CancelPending,
       Leave, TurnCommands, Steps, Waiting, InLane, Returned, Unprojected,
       WithoutPending, NoPending, Cancelled
  <2>5. QED
    BY <2>1, <2>2, <2>3, <2>4 DEF DriverTypes
<1>18. ASSUME NEW c \in Interrupts, CommitInterruption(c) PROVE DriverTypes'
  <2>1. CASE Leave(c, "failed") /\ UNCHANGED <<aggregate, log>>
    <3>1. LaneSound'
      BY <1>18, <2>1, LaneLeft DEF LaneSound, CommitInterruption, TurnCommands, Steps,
         Waiting, InLane, Returned, Unprojected
    <3>2. StepsKnown'
      BY <1>18, <2>1, DriverAssumption DEF StepsKnown, LaneSound, Goto,
         CommitInterruption, Leave, TurnCommands, Steps, Waiting, InLane, Returned,
         Unprojected
    <3>3. LogKnown'
      BY <1>18, <2>1, DriverAssumption DEF LogKnown, LaneSound, Goto,
         CommitInterruption, Leave, TurnCommands, Steps, Waiting, InLane, Returned,
         Unprojected
    <3>4. AggregatesTyped'
      BY <1>18, <2>1, DriverAssumption, PendingTyped DEF AggregatesTyped, Goto,
         CommitInterruption, Leave, TurnCommands, Steps, Waiting, InLane, Returned,
         Unprojected
    <3>5. QED
      BY <3>1, <3>2, <3>3, <3>4 DEF DriverTypes
  <2>2. CASE /\ Commit("interruption", target[c], [type |-> "turn.interrupted"])
             /\ Goto(c, "interrupted") /\ lane' = lane
    <3>1. target[c] \in Submits
      BY <1>18 DEF CommitInterruption, StepsKnown, Returned
    <3>2. /\ [type |-> "turn.interrupted"] \in Event
          /\ [type |-> "turn.interrupted"].type \in TurnEvents
      BY <1>18, <2>2 DEF Event, PlainTypes, TurnEvents
    <3>3. PICK e : /\ Logged(e) /\ e.kind = "interruption" /\ e.of = target[c] /\ e.event = [type |-> "turn.interrupted"]
      BY <2>2, <3>1, <3>2, CommitLogs
    <3>4. LaneSound'
      BY <1>18, <2>2, LaneStays DEF LaneSound, CommitInterruption, TurnCommands,
         Steps, Waiting, InLane, Returned, Unprojected
    <3>5. StepsKnown'
      BY <1>18, <2>2, DriverAssumption DEF StepsKnown, LaneSound, Goto,
         CommitInterruption, TurnCommands, Steps, Waiting, InLane, Returned,
         Unprojected
    <3>6. LogKnown'
      BY <3>2, <3>3 DEF LogKnown, Logged
    <3>7. AggregatesTyped'
      BY <1>18, <3>3 DEF AggregatesTyped, Logged, CommitInterruption
    <3>8. QED
      BY <3>4, <3>5, <3>6, <3>7 DEF DriverTypes
  <2>3. QED
    BY <1>18, <2>1, <2>2 DEF CommitInterruption
<1>19. ASSUME NEW c \in Interrupts, ProjectInterruption(c) PROVE DriverTypes'
  <2>1. Last(log).event \in Event /\ Last(log).version \in Nat
    BY <1>19, LastIsTurn DEF ProjectInterruption, TurnCommands, Steps, Waiting,
       InLane, Returned, Unprojected
  <2>2. projection' \in AggregateState
    BY <1>19, <2>1, AcceptedType DEF ProjectInterruption, Projectable, ApplyToActor,
       AggregatesTyped
  <2>3. LaneSound'
    BY <1>19, LaneLeft DEF LaneSound, ProjectInterruption, Leave, TurnCommands, Steps,
       Waiting, InLane, Returned, Unprojected
  <2>4. StepsKnown'
    BY <1>19, <2>2, DriverAssumption DEF StepsKnown, LaneSound, Goto,
       ProjectInterruption, Leave, TurnCommands, Steps, Waiting, InLane, Returned,
       Unprojected, NoPending, WithoutPending
  <2>5. LogKnown'
    BY <1>19, <2>2, DriverAssumption DEF LogKnown, LaneSound, Goto,
       ProjectInterruption, Leave, TurnCommands, Steps, Waiting, InLane, Returned,
       Unprojected, NoPending, WithoutPending
  <2>6. AggregatesTyped'
    BY <1>19, <2>2, DriverAssumption, PendingTyped DEF AggregatesTyped, Goto,
       ProjectInterruption, Leave, TurnCommands, Steps, Waiting, InLane, Returned,
       Unprojected, NoPending, WithoutPending
  <2>7. QED
    BY <2>3, <2>4, <2>5, <2>6 DEF DriverTypes
<1>20. QED
  <2>1. ASSUME NEW c \in TurnCommands, EnterLane(c) PROVE DriverTypes'
    BY <1>6, <2>1 DEF EnterLane, StepsKnown, TurnCommands
  <2>2. QED
    BY <2>1, <1>1, <1>2, <1>4, <1>5, <1>7, <1>8, <1>9, <1>10, <1>11, <1>12, <1>13,
       <1>14, <1>15, <1>16, <1>17, <1>18, <1>19
       DEF Next, SubmitStep, InterruptStep, LifecycleStep, TurnCommands

-------------------------------------------------------------------------------
KindOfStep ==
  \/ \E c \in TurnCommands, s \in Steps : Waits(c, s)
  \/ \E c \in Submits : OpenGeneration(c)
  \/ \E c \in Interrupts : Silences(c)
  \/ \E c \in TurnCommands, s \in Steps, e \in Entry : Logs(c, s, e)
  \/ \E c \in TurnCommands, s \in Steps : Projects(c, s)
  \/ ReadOutbox
  \/ HydrateProjection
  \/ LifecycleStep

LEMMA WaitingKinds ==
  ASSUME DriverTypes, HydrationKnown, NEW c \in TurnCommands, NEW s \in Steps,
         Goto(c, s),
         \/ pc[c] = "new" /\ s \in {"actor", "failed"}
         \/ pc[c] = "actor" /\ s = "failed"
         \/ pc[c] = "actor" /\ s = "queued" /\ projection # AbsentAggregate
         \/ pc[c] \in {"queued", "cancelled"} /\ s = "failed"
         \/ pc[c] = "begun" /\ s = "thinking"
         \/ pc[c] \in {"thinking", "answering", "failing", "cancelling"}
            /\ s \in {"answering", "failing", "cancelling", "failed"},
         generation' \in {generation, Nobody},
         target' = target \/ (pc[c] = "new" /\ \A d \in Interrupts : target'[d] = target[d] \/ d = c),
         UNCHANGED <<aggregate, projection, reading, log>>
  PROVE  KindOfStep
<1>1. \/ projection # AbsentAggregate
      \/ s \in {"actor", "failed"}
  BY DEF HydrationKnown
<1>2. \A d \in Interrupts : pc[d] # "new" => target'[d] = target[d]
  OBVIOUS
<1>3. Waits(c, s)
  BY <1>1, <1>2 DEF Waits, HandedOver
<1>4. QED
  BY <1>3 DEF KindOfStep

LEMMA StepKinds ==
  ASSUME DriverTypes, HydrationKnown, Next
  PROVE  KindOfStep
<1>0. LaneSound /\ StepsKnown /\ LogKnown /\ AggregatesTyped
  BY DEF DriverTypes
<1>1. ASSUME NEW c \in Submits, BeginSubmit(c) PROVE KindOfStep
  BY <1>1, WaitingKinds DEF BeginSubmit, TurnCommands, Steps, Returned
<1>2. ASSUME NEW c \in Interrupts, NEW g \in Submits, BeginInterrupt(c, g) PROVE KindOfStep
  <2>1. target' = target \/ \A d \in Interrupts : target'[d] = target[d] \/ d = c
    BY <1>0, <1>2 DEF BeginInterrupt, StepsKnown
  <2>2. QED
    BY <1>2, <2>1, WaitingKinds DEF BeginInterrupt, TurnCommands, Steps, Returned
<1>3. ASSUME NEW c \in TurnCommands, EnterLane(c) PROVE KindOfStep
  BY <1>3, WaitingKinds DEF EnterLane, Join, Steps, Returned
<1>4. ASSUME NEW c \in Submits, CommitTurn(c) PROVE KindOfStep
  <2>1. CASE Leave(c, "failed") /\ UNCHANGED <<aggregate, log>>
    BY <1>4, <2>1, WaitingKinds DEF CommitTurn, Leave, TurnCommands, Steps, Returned
  <2>2. CASE Commit("turn", c, Turn("participant", Speaker)) /\ Goto(c, "committed")
    <3>1. /\ Turn("participant", Speaker) \in Event
          /\ Turn("participant", Speaker).type \in TurnEvents
      BY <1>0, TurnIsEvent, DriverAssumption DEF AggregatesTyped
    <3>2. PICK e : /\ Logged(e) /\ e.kind = "turn" /\ e.of = c /\ e.event.type \in TurnEvents
      BY <1>0, <2>2, <3>1, CommitLogs
    <3>3. Logs(c, "committed", e)
      BY <1>4, <2>2, <3>2 DEF CommitTurn, Logs
    <3>4. QED
      BY <3>2, <3>3 DEF KindOfStep, TurnCommands, Steps, InLane, Logged
  <2>3. QED
    BY <1>4, <2>1, <2>2 DEF CommitTurn
<1>5. ASSUME NEW c \in Submits, ProjectTurn(c) PROVE KindOfStep
  <2>1. \E s \in {"projected", "failed"} : Projects(c, s)
    BY <1>5 DEF ProjectTurn, Projects, Unprojected, Leave
  <2>2. QED
    BY <2>1 DEF KindOfStep, TurnCommands, Steps, InLane, Returned
<1>6. ASSUME NEW c \in Submits, OpenGeneration(c) PROVE KindOfStep
  BY <1>6 DEF KindOfStep
<1>7. ASSUME NEW c \in Submits, AwaitFastLane(c) PROVE KindOfStep
  BY <1>7, WaitingKinds DEF AwaitFastLane, Leave, TurnCommands, Steps
<1>8. ASSUME NEW c \in Submits, Respond(c) \/ FailFastLane(c) PROVE KindOfStep
  BY <1>8, WaitingKinds DEF Respond, FailFastLane, Join, TurnCommands, Steps
<1>9. ASSUME NEW c \in Submits, CommitAnswer(c) PROVE KindOfStep
  <2>1. CASE Leave(c, "failing") /\ UNCHANGED <<aggregate, log>>
    BY <1>9, <2>1, WaitingKinds DEF CommitAnswer, Leave, TurnCommands, Steps
  <2>2. CASE /\ Publishable(c) /\ Goto(c, "answered")
             /\ Commit("answer", c, Turn("presenter", aggregate.presenter))
    <3>1. aggregate.presenter \in Presenters
      BY <1>0, <2>2 DEF Commit, Active, AggregatesTyped, AggregateState
    <3>2. /\ Turn("presenter", aggregate.presenter) \in Event
          /\ Turn("presenter", aggregate.presenter).type \in TurnEvents
      BY <1>0, <3>1, TurnIsEvent DEF AggregatesTyped
    <3>3. PICK e : /\ Logged(e) /\ e.kind = "answer" /\ e.of = c /\ e.event.type \in TurnEvents
      BY <1>0, <2>2, <3>2, CommitLogs
    <3>4. Logs(c, "answered", e)
      BY <1>9, <2>2, <3>3 DEF CommitAnswer, Logs, Publishable
    <3>5. QED
      BY <3>3, <3>4 DEF KindOfStep, TurnCommands, Steps, InLane, Logged
  <2>3. QED
    BY <1>9, <2>1, <2>2 DEF CommitAnswer
<1>10. ASSUME NEW c \in Submits, ProjectAnswer(c) PROVE KindOfStep
  <2>1. \E s \in {"done", "failing"} : Projects(c, s)
    BY <1>10 DEF ProjectAnswer, Projects, Unprojected, Leave
  <2>2. QED
    BY <2>1 DEF KindOfStep, TurnCommands, Steps, Returned
<1>11. ASSUME NEW c \in Submits, FenceFailed(c) \/ CancelFailed(c) PROVE KindOfStep
  BY <1>11, WaitingKinds DEF FenceFailed, CancelFailed, Cancelled, TurnCommands,
     Steps, Returned
<1>12. ASSUME NEW c \in Interrupts, CancelPending(c) PROVE KindOfStep
  <2>1. CASE pending.of = target[c] /\ generation = target[c] /\ Goto(c, "cancelled")
             /\ generation' = Cancelled(target[c])
    <3>1. Silences(c)
      BY <1>12, <2>1 DEF CancelPending, Silences, Cancelled
    <3>2. QED
      BY <3>1 DEF KindOfStep
  <2>2. CASE Leave(c, "failed") /\ generation' = generation
    BY <1>12, <2>2, WaitingKinds DEF CancelPending, Leave, TurnCommands, Steps, Returned
  <2>3. QED
    BY <1>12, <2>1, <2>2 DEF CancelPending
<1>13. ASSUME NEW c \in Interrupts, CommitInterruption(c) PROVE KindOfStep
  <2>1. CASE Leave(c, "failed") /\ UNCHANGED <<aggregate, log>>
    BY <1>13, <2>1, WaitingKinds DEF CommitInterruption, Leave, TurnCommands, Steps,
       Returned
  <2>2. CASE Commit("interruption", target[c], [type |-> "turn.interrupted"]) /\ Goto(c, "interrupted")
    <3>1. /\ [type |-> "turn.interrupted"] \in Event /\ target[c] \in Submits
          /\ [type |-> "turn.interrupted"].type \in TurnEvents
      BY <1>0, <1>13 DEF Event, PlainTypes, TurnEvents, StepsKnown, CommitInterruption
    <3>2. PICK e : /\ Logged(e) /\ e.kind = "interruption" /\ e.of = target[c]
                   /\ e.event.type \in TurnEvents
      BY <1>0, <2>2, <3>1, CommitLogs
    <3>3. Holds(c)
      BY <1>0, <1>13 DEF CommitInterruption, LaneSound, InLane, TurnCommands
    <3>4. Logs(c, "interrupted", e)
      BY <1>13, <2>2, <3>2, <3>3 DEF CommitInterruption, Logs
    <3>5. QED
      BY <3>2, <3>4 DEF KindOfStep, TurnCommands, Steps, InLane, Logged
  <2>3. QED
    BY <1>13, <2>1, <2>2 DEF CommitInterruption
<1>14. ASSUME NEW c \in Interrupts, ProjectInterruption(c) PROVE KindOfStep
  <2>1. \E s \in {"done", "failed"} : Projects(c, s)
    BY <1>14 DEF ProjectInterruption, Projects, Unprojected, Leave
  <2>2. QED
    BY <2>1 DEF KindOfStep, TurnCommands, Steps, Returned
<1>15. QED
  BY <1>1, <1>2, <1>3, <1>4, <1>5, <1>6, <1>7, <1>8, <1>9, <1>10, <1>11, <1>12, <1>13, <1>14
     DEF Next, SubmitStep, InterruptStep, KindOfStep, LifecycleStep, TurnCommands

-------------------------------------------------------------------------------
(* The actor follows the outbox.                                           *)

LEMMA FollowingKept ==
  ASSUME DriverTypes, HydrationKnown, Synced, GenerationKnown, KindOfStep
  PROVE  HydrationKnown' /\ Synced' /\ GenerationKnown'
<1>0. LaneSound /\ StepsKnown /\ LogKnown /\ AggregatesTyped
  BY DEF DriverTypes
<1>1. ASSUME NEW c \in TurnCommands, NEW s \in Steps, Waits(c, s)
      PROVE  HydrationKnown' /\ Synced' /\ GenerationKnown'
  <2>1. pc' = [pc EXCEPT ![c] = s] /\ pc \in [TurnCommands -> Steps]
    BY <1>0, <1>1 DEF Waits, Goto, LaneSound
  <2>2. \A d \in TurnCommands : pc'[d] \in Unprojected \cup {"projected"} <=> pc[d] \in Unprojected \cup {"projected"}
    BY <1>1, <2>1 DEF Waits, Unprojected
  <2>3. \A d \in TurnCommands : pc'[d] = pc[d] \/ d = c
    BY <2>1
  <2>4. HydrationKnown'
    BY <1>1, <2>1 DEF HydrationKnown, Waits
  <2>5. Synced'
    <3>1. \A d \in TurnCommands : pc'[d] \in Unprojected <=> pc[d] \in Unprojected
      BY <1>1, <2>1 DEF Waits, Unprojected
    <3>2. QED
      BY <1>1, <3>1 DEF Synced, Projectable, Waits
  <2>6. GenerationKnown'
    BY <1>1, <2>1 DEF GenerationKnown, Waits, TurnCommands
  <2>7. QED
    BY <2>4, <2>5, <2>6
<1>2. ASSUME NEW c \in Submits, OpenGeneration(c)
      PROVE  HydrationKnown' /\ Synced' /\ GenerationKnown'
  <2>1. pc' = [pc EXCEPT ![c] = "begun"] /\ pc \in [TurnCommands -> Steps] /\ c \in TurnCommands
    BY <1>0, <1>2 DEF OpenGeneration, Goto, LaneSound, TurnCommands
  <2>2. projection.status = "active" /\ projection # AbsentAggregate
    BY <1>2 DEF GenerationKnown, OpenGeneration, AbsentAggregate
  <2>3. \A d \in TurnCommands : pc'[d] \in Unprojected <=> pc[d] \in Unprojected
    BY <1>2, <2>1 DEF OpenGeneration, Unprojected
  <2>4. HydrationKnown'
    BY <1>2, <2>2 DEF HydrationKnown, OpenGeneration
  <2>5. Synced'
    BY <1>2, <2>3 DEF Synced, Projectable, OpenGeneration
  <2>6. GenerationKnown'
    BY <1>2, <2>2 DEF GenerationKnown, OpenGeneration
  <2>7. QED
    BY <2>4, <2>5, <2>6
<1>3. ASSUME NEW c \in Interrupts, Silences(c)
      PROVE  HydrationKnown' /\ Synced' /\ GenerationKnown'
  <2>1. pc' = [pc EXCEPT ![c] = "cancelled"] /\ pc \in [TurnCommands -> Steps] /\ c \in TurnCommands
    BY <1>0, <1>3 DEF Silences, Goto, LaneSound, TurnCommands
  <2>2. projection # AbsentAggregate
    BY <1>3, <2>1 DEF HydrationKnown, Silences
  <2>3. \A d \in TurnCommands : pc'[d] \in Unprojected <=> pc[d] \in Unprojected
    BY <1>3, <2>1 DEF Silences, Unprojected
  <2>4. HydrationKnown'
    BY <1>3, <2>2 DEF HydrationKnown, Silences
  <2>5. Synced'
    BY <1>3, <2>3 DEF Synced, Projectable, Silences
  <2>6. GenerationKnown'
    BY <1>3, <2>1 DEF GenerationKnown, Silences, TurnCommands
  <2>7. QED
    BY <2>4, <2>5, <2>6
<1>4. ASSUME NEW c \in TurnCommands, NEW s \in Steps, NEW e \in Entry, Logs(c, s, e)
      PROVE  HydrationKnown' /\ Synced' /\ GenerationKnown'
  <2>1. pc' = [pc EXCEPT ![c] = s] /\ pc \in [TurnCommands -> Steps]
    BY <1>0, <1>4 DEF Logs, Goto, LaneSound
  <2> Logged(e) /\ e.event.type \in TurnEvents
    BY <1>4 DEF Logs
  <2>2. e.event \in Event /\ e.version \in Nat
    BY DEF Entry
  <2>3. aggregate.status = "active" /\ aggregate'.status = "active"
    BY <2>2, TurnsStayOnStage DEF Logged
  <2>4. projection # AbsentAggregate /\ UNCHANGED <<projection, reading, generation>>
    BY <1>4 DEF Logs, HydrationKnown
  <2>5. \A d \in TurnCommands : pc[d] \notin Unprojected
    BY <1>0, <1>4, OneHolder DEF Logs, Unprojected, InLane
  <2>6. HydrationKnown'
    BY <2>3, <2>4 DEF HydrationKnown
  <2>7. ASSUME projection.status = "active"
        PROVE  /\ Projectable'
               /\ aggregate' = Reduce(projection, Last(log').event, Last(log').version)
               /\ pc'[c] \in Unprojected
    <3>1. projection = aggregate
      BY <2>3, <2>5, <2>7 DEF Synced
    <3>2. Last(log') = e
      BY DEF Logged
    <3>3. pc'[c] = s /\ s \in Unprojected
      BY <1>4, <2>1 DEF Logs, Unprojected
    <3>4. QED
      BY <2>4, <3>1, <3>2, <3>3 DEF Logged, Projectable
  <2>8. Synced'
    BY <2>4, <2>7 DEF Synced
  <2>9. GenerationKnown'
    BY <1>4, <2>1, <2>4 DEF GenerationKnown, Logs, Unprojected, TurnCommands
  <2>10. QED
    BY <2>6, <2>8, <2>9
<1>5. ASSUME NEW c \in TurnCommands, NEW s \in Steps, Projects(c, s)
      PROVE  HydrationKnown' /\ Synced' /\ GenerationKnown'
  <2>1. pc' = [pc EXCEPT ![c] = s] /\ pc \in [TurnCommands -> Steps]
    BY <1>0, <1>5 DEF Projects, Goto, LaneSound
  <2>2. /\ Last(log).event \in Event /\ Last(log).version \in Nat
        /\ Last(log).event.type \in TurnEvents
    BY <1>0, <1>5, LastIsTurn DEF Projects
  <2>3. \A d \in TurnCommands : pc[d] \in Unprojected => d = c
    BY <1>0, <1>5, OneHolder DEF Projects, Unprojected, InLane
  <2>4. s \notin Unprojected /\ pc'[c] = s
    BY <1>5, <2>1 DEF Projects, Unprojected
  <2>5. \A d \in TurnCommands : pc'[d] \notin Unprojected
    BY <2>1, <2>3, <2>4
  <2>6. projection # AbsentAggregate
    BY <1>5 DEF Projects, HydrationKnown, Unprojected
  <2>7. CASE Projectable
    <3>1. projection' = Reduce(projection, Last(log).event, Last(log).version)
      BY <1>5, <2>7 DEF Projects, ApplyToActor
    <3>2. /\ projection.status = "active" /\ projection'.status = "active"
          /\ projection' # AbsentAggregate
      BY <2>2, <2>7, <3>1, TurnsStayOnStage DEF Projectable
    <3>3. HydrationKnown'
      BY <1>5, <3>2 DEF HydrationKnown, Projects
    <3>4. aggregate.status = "active" => aggregate = projection'
      BY <1>5, <3>1, <3>2 DEF Synced, Projects
    <3>5. Synced'
      BY <1>5, <2>5, <3>4 DEF Synced, Projects
    <3>6. GenerationKnown'
      BY <1>5, <3>2 DEF GenerationKnown, Projects
    <3>7. QED
      BY <3>3, <3>5, <3>6
  <2>8. CASE ~Projectable
    <3>1. projection' = projection /\ s \in {"failing", "failed"}
      BY <1>5, <2>8 DEF Projects
    <3>2. projection.status # "active"
      BY <1>5, <2>8 DEF Synced, Projects
    <3>3. HydrationKnown'
      BY <1>5, <2>6, <3>1 DEF HydrationKnown, Projects
    <3>4. Synced'
      BY <3>1, <3>2 DEF Synced
    <3>5. GenerationKnown'
      BY <1>5, <2>1, <3>1, <3>2 DEF GenerationKnown, Projects, TurnCommands
    <3>6. QED
      BY <3>3, <3>4, <3>5
  <2>9. QED
    BY <2>7, <2>8
<1>6. ASSUME ReadOutbox
      PROVE  HydrationKnown' /\ Synced' /\ GenerationKnown'
  BY <1>6 DEF ReadOutbox, HydrationKnown, Synced, GenerationKnown, Projectable
<1>7. ASSUME HydrateProjection
      PROVE  HydrationKnown' /\ Synced' /\ GenerationKnown'
  <2>1. projection = AbsentAggregate /\ projection.status = "absent" /\ projection' = reading
        /\ reading # AbsentAggregate
        /\ UNCHANGED <<aggregate, reading, generation, pending, lane, pc, target, log>>
    BY <1>7 DEF HydrateProjection, AbsentAggregate
  <2>2. HydrationKnown'
    BY <2>1 DEF HydrationKnown
  <2>3. \A d \in TurnCommands : pc'[d] \notin Unprojected \cup {"projected"}
    BY <2>1 DEF HydrationKnown, Unprojected
  <2>4. Synced'
    BY <2>1, <2>3 DEF Synced, HydrationKnown
  <2>5. GenerationKnown'
    BY <2>1, <2>3 DEF GenerationKnown, Unprojected, TurnCommands
  <2>6. QED
    BY <2>2, <2>4, <2>5
<1>8. ASSUME LifecycleStep
      PROVE  HydrationKnown' /\ Synced' /\ GenerationKnown'
  <2>1. UNCHANGED <<projection, reading, generation, pending, lane, pc, target, log>>
    BY <1>8 DEF LifecycleStep, ActivateSession, CompleteSession, Lifecycle
  <2>2. \/ aggregate.status = "ready" /\ aggregate'.status = "active"
        \/ aggregate'.status = "completed"
    <3>1. CASE CompleteSession
      BY <1>0, <3>1 DEF CompleteSession, Lifecycle, Reduce, Changed, Closed,
         AggregatesTyped, AggregateState
    <3>2. CASE \E p \in Presenters : ActivateSession(p)
      <4> PICK p \in Presenters : ActivateSession(p)
        BY <3>2
      <4> PICK ev : ev = [type |-> "session.activated", presenter |-> p]
        OBVIOUS
      <4>1. ev.type = "session.activated" /\ ev.presenter = p
        OBVIOUS
      <4>2. Accepts(aggregate, ev, aggregate.version + 1)
            /\ aggregate' = Reduce(aggregate, ev, aggregate.version + 1)
        BY DEF ActivateSession, Lifecycle
      <4>3. aggregate.status = "ready"
        BY <4>1, <4>2 DEF Accepts, Permits, HydrationKnown
      <4>4. aggregate'.status = "active"
        BY <1>0, <4>1, <4>2 DEF Reduce, Changed, AggregatesTyped, AggregateState
      <4>5. QED
        BY <4>3, <4>4
    <3>3. QED
      BY <1>8, <3>1, <3>2 DEF LifecycleStep
  <2>3. HydrationKnown'
    BY <2>1, <2>2 DEF HydrationKnown
  <2>4. Synced'
    BY <2>1, <2>2 DEF Synced, HydrationKnown, Projectable
  <2>5. GenerationKnown'
    BY <2>1 DEF GenerationKnown
  <2>6. QED
    BY <2>3, <2>4, <2>5
<1>9. QED
  BY <1>1, <1>2, <1>3, <1>4, <1>5, <1>6, <1>7, <1>8 DEF KindOfStep

-------------------------------------------------------------------------------
(* Whoever was handed to the fast lane once stays so.                      *)
LEMMA HandedOverStays ==
  ASSUME DriverTypes, KindOfStep, NEW d \in Submits, pc[d] \in HandedOver
  PROVE  pc'[d] \in HandedOver
<1>0. LaneSound /\ StepsKnown /\ LogKnown /\ AggregatesTyped /\ d \in TurnCommands
  BY DEF DriverTypes, TurnCommands
<1>1. ASSUME NEW c \in TurnCommands, NEW s \in Steps, Goto(c, s),
             c = d => s \in HandedOver
      PROVE  pc'[d] \in HandedOver
  BY <1>0, <1>1 DEF Goto, LaneSound
<1>2. ASSUME NEW c \in TurnCommands, NEW s \in Steps, Waits(c, s) PROVE pc'[d] \in HandedOver
  BY <1>1, <1>2 DEF Waits
<1>3. ASSUME NEW c \in Submits, OpenGeneration(c) PROVE pc'[d] \in HandedOver
  BY <1>1, <1>3 DEF OpenGeneration, HandedOver, TurnCommands, Steps, InLane
<1>4. ASSUME NEW c \in Interrupts, Silences(c) PROVE pc'[d] \in HandedOver
  BY <1>1, <1>4 DEF Silences, HandedOver, TurnCommands, Steps, InLane
<1>5. ASSUME NEW c \in TurnCommands, NEW s \in Steps, NEW e \in Entry, Logs(c, s, e)
      PROVE  pc'[d] \in HandedOver
  BY <1>1, <1>5 DEF Logs, HandedOver
<1>6. ASSUME NEW c \in TurnCommands, NEW s \in Steps, Projects(c, s) PROVE pc'[d] \in HandedOver
  BY <1>1, <1>6 DEF Projects, HandedOver, Unprojected
<1>7. ASSUME ReadOutbox \/ HydrateProjection \/ LifecycleStep PROVE pc'[d] \in HandedOver
  BY <1>7 DEF ReadOutbox, HydrateProjection, LifecycleStep, ActivateSession,
     CompleteSession, Lifecycle
<1>8. QED
  BY <1>2, <1>3, <1>4, <1>5, <1>6, <1>7 DEF KindOfStep

(* A pending generation that is kept, fenced or forgotten stays known.     *)
LEMMA PendingStays ==
  ASSUME DriverTypes, KindOfStep, PendingKnown,
         \/ pending' = pending
         \/ pending' = NoPending
         \/ \E g \in Submits : pending' = Fenced(g),
         target' = target,
         \A d \in Submits : pc'[d] = "done" => pc[d] = "done" \/ pending' = NoPending
  PROVE  PendingKnown'
<1>1. target \in [Interrupts -> Submits \cup {Nobody}]
      /\ pending \in [of : Submits \cup {Nobody}, fenced : BOOLEAN]
  BY DEF DriverTypes, StepsKnown, AggregatesTyped
<1>2. \/ pending' = pending
      \/ pending' = NoPending
      \/ pending'.of = pending.of /\ pending'.fenced
  BY <1>1, PendingTyped
<1>3. pending'.of # Nobody => pc'[pending'.of] \in HandedOver \ {"done"}
  <2>1. CASE pending'.of = pending.of /\ pending' # NoPending /\ pending.of # Nobody
    BY <1>1, <2>1, HandedOverStays DEF PendingKnown
  <2>2. QED
    BY <1>2, <2>1 DEF NoPending
<1>4. ASSUME NEW d \in Interrupts, target[d] # Nobody
      PROVE  /\ pc'[target[d]] \in HandedOver
             /\ pending' # [of |-> target[d], fenced |-> FALSE]
  <2>1. /\ target[d] \in Submits
        /\ pc[target[d]] \in HandedOver
        /\ pending # [of |-> target[d], fenced |-> FALSE]
    BY <1>1, <1>4 DEF PendingKnown
  <2>2. NoPending # [of |-> target[d], fenced |-> FALSE]
    BY <1>4 DEF NoPending
  <2>3. pending' # [of |-> target[d], fenced |-> FALSE]
    BY <1>2, <2>1, <2>2
  <2>4. QED
    BY <2>1, <2>3, HandedOverStays
<1>5. QED
  BY <1>3, <1>4 DEF PendingKnown

LEMMA PendingKept ==
  ASSUME DriverTypes, KindOfStep, PendingKnown, Next
  PROVE  PendingKnown'
<1>0. LaneSound /\ StepsKnown /\ LogKnown /\ AggregatesTyped
  BY DEF DriverTypes
<1>1. ASSUME NEW c \in TurnCommands, NEW s \in Steps, Goto(c, s), s # "done",
             pending' \in {pending, NoPending} \/ \E g \in Submits : pending' = Fenced(g),
             target' = target
      PROVE  PendingKnown'
  BY <1>0, <1>1, PendingStays DEF Goto, LaneSound, TurnCommands
<1>2. ASSUME NEW c \in TurnCommands, NEW s \in Steps, Goto(c, s), c \in Interrupts,
             pending' \in {pending, NoPending}, target' = target
      PROVE  PendingKnown'
  BY <1>0, <1>2, PendingStays, DriverAssumption DEF Goto, LaneSound, TurnCommands
<1>3. ASSUME NEW c \in Submits, BeginSubmit(c) PROVE PendingKnown'
  BY <1>1, <1>3 DEF BeginSubmit, TurnCommands, Steps, Returned
<1>4. ASSUME NEW c \in TurnCommands, EnterLane(c) PROVE PendingKnown'
  BY <1>1, <1>4 DEF EnterLane, Join, Steps, Returned
<1>5. ASSUME NEW c \in Interrupts, NEW g \in Submits, BeginInterrupt(c, g) PROVE PendingKnown'
  <2>1. CASE Goto(c, "failed") /\ UNCHANGED <<pending, target>>
    BY <1>1, <2>1 DEF TurnCommands, Steps, Returned
  <2>2. CASE /\ pending = [of |-> g, fenced |-> FALSE]
             /\ pending' = Fenced(g)
             /\ target' = [target EXCEPT ![c] = g]
             /\ Goto(c, "actor")
    <3>1. /\ pending'.of = g /\ pending'.fenced
          /\ pc[g] \in HandedOver \ {"done"} /\ g # Nobody
      BY <1>0, <2>2, PendingTyped, DriverAssumption DEF AggregatesTyped, PendingKnown
    <3>2. pc'[g] = pc[g]
      BY <1>0, <2>2, DriverAssumption DEF Goto, LaneSound, TurnCommands
    <3>3. \A d \in Interrupts : target'[d] = target[d] \/ target'[d] = g
      BY <1>0, <2>2 DEF StepsKnown
    <3>4. \A d \in Interrupts : target'[d] # Nobody => pc'[target'[d]] \in HandedOver
      BY <1>0, <3>1, <3>2, <3>3, HandedOverStays DEF PendingKnown, StepsKnown
    <3>5. \A p : pending' # [of |-> p, fenced |-> FALSE]
      BY <3>1
    <3>6. QED
      BY <3>1, <3>2, <3>4, <3>5 DEF PendingKnown
  <2>3. QED
    BY <1>5, <2>1, <2>2 DEF BeginInterrupt
<1>6. ASSUME NEW c \in Submits, CommitTurn(c) PROVE PendingKnown'
  BY <1>1, <1>6 DEF CommitTurn, Leave, TurnCommands, Steps, InLane, Returned
<1>7. ASSUME NEW c \in Submits, ProjectTurn(c) PROVE PendingKnown'
  BY <1>1, <1>7 DEF ProjectTurn, Leave, TurnCommands, Steps, InLane, Returned
<1>8. ASSUME NEW c \in Submits, OpenGeneration(c) PROVE PendingKnown'
  BY <1>1, <1>8 DEF OpenGeneration, TurnCommands, Steps, InLane
<1>9. ASSUME NEW c \in Submits, AwaitFastLane(c) PROVE PendingKnown'
  <2>1. pending' = [of |-> c, fenced |-> FALSE] /\ target' = target
    BY <1>9 DEF AwaitFastLane
  <2>2. pc'[c] = "thinking"
    BY <1>0, <1>9 DEF AwaitFastLane, Leave, Goto, LaneSound, TurnCommands
  <2>3. \A d \in Interrupts : target[d] # c
    BY <1>9, DriverAssumption DEF AwaitFastLane, PendingKnown, HandedOver
  <2>4. \A d \in Interrupts : target[d] # Nobody => pc'[target[d]] \in HandedOver
    BY <1>0, HandedOverStays DEF PendingKnown, StepsKnown
  <2>5. QED
    BY <2>1, <2>2, <2>3, <2>4 DEF PendingKnown, HandedOver
<1>10. ASSUME NEW c \in Submits, Respond(c) \/ FailFastLane(c) PROVE PendingKnown'
  BY <1>1, <1>10 DEF Respond, FailFastLane, Join, TurnCommands, Steps
<1>11. ASSUME NEW c \in Submits, CommitAnswer(c) PROVE PendingKnown'
  BY <1>1, <1>11 DEF CommitAnswer, Leave, TurnCommands, Steps, InLane
<1>12. ASSUME NEW c \in Submits, ProjectAnswer(c) PROVE PendingKnown'
  <2>1. CASE Projectable
    BY <1>12, <2>1, PendingStays DEF ProjectAnswer
  <2>2. CASE ~Projectable
    BY <1>1, <1>12, <2>2 DEF ProjectAnswer, Leave, TurnCommands, Steps
  <2>3. QED
    BY <2>1, <2>2
<1>13. ASSUME NEW c \in Submits, FenceFailed(c) PROVE PendingKnown'
  BY <1>1, <1>13 DEF FenceFailed, TurnCommands, Steps, Returned
<1>14. ASSUME NEW c \in Submits, CancelFailed(c) PROVE PendingKnown'
  BY <1>1, <1>14 DEF CancelFailed, WithoutPending, TurnCommands, Steps, Returned
<1>15. ASSUME NEW c \in Interrupts, CancelPending(c) PROVE PendingKnown'
  BY <1>2, <1>15 DEF CancelPending, WithoutPending, Leave, TurnCommands, Steps,
     InLane, Returned
<1>16. ASSUME NEW c \in Interrupts, CommitInterruption(c) PROVE PendingKnown'
  BY <1>2, <1>16 DEF CommitInterruption, Leave, TurnCommands, Steps, InLane, Returned
<1>17. ASSUME NEW c \in Interrupts, ProjectInterruption(c) PROVE PendingKnown'
  BY <1>2, <1>17 DEF ProjectInterruption, WithoutPending, Leave, TurnCommands, Steps,
     Returned
<1>18. ASSUME ReadOutbox \/ HydrateProjection \/ LifecycleStep PROVE PendingKnown'
  BY <1>18 DEF ReadOutbox, HydrateProjection, LifecycleStep, ActivateSession,
     CompleteSession, Lifecycle, PendingKnown
<1>19. QED
  BY <1>3, <1>4, <1>5, <1>6, <1>7, <1>8, <1>9, <1>10, <1>11, <1>12, <1>13, <1>14, <1>15,
     <1>16, <1>17, <1>18
     DEF Next, SubmitStep, InterruptStep, LifecycleStep, TurnCommands

-------------------------------------------------------------------------------
(* What is said follows its turn.                                          *)

LEMMA EntriesTyped ==
  ASSUME LogKnown
  PROVE  /\ \A i \in DOMAIN log : /\ log[i] \in Entry /\ log[i].of \in Submits
                                  /\ log[i].kind \in {"turn", "answer", "interruption"}
         /\ Len(log) \in Nat /\ DOMAIN log = 1..Len(log)
         /\ log # <<>> => Len(log) \in DOMAIN log /\ Last(log) = log[Len(log)]
<1>1. /\ log \in Seq(Entry) /\ Len(log) \in Nat /\ DOMAIN log = 1..Len(log)
      /\ \A i \in DOMAIN log : log[i] \in Entry
  BY DEF LogKnown
<1>2. \A x \in Entry : x.of \in Submits /\ x.kind \in {"turn", "answer", "interruption"}
  BY DEF Entry
<1>3. log # <<>> => Len(log) \in DOMAIN log /\ Last(log) = log[Len(log)]
  BY <1>1 DEF Last
<1>4. QED
  BY <1>1, <1>2, <1>3

LEMMA TalkKept ==
  ASSUME DriverTypes, GenerationKnown, Synced, PendingKnown, TalkKnown, KindOfStep
  PROVE  TalkKnown'
<1>0. /\ LaneSound /\ StepsKnown /\ LogKnown /\ AggregatesTyped
      /\ LastTurnKnown /\ OutcomesKnown /\ OutcomeFollowsItsTurn
      /\ pc \in [TurnCommands -> Steps]
      /\ Submits \subseteq TurnCommands /\ Interrupts \subseteq TurnCommands
  BY DEF DriverTypes, TalkKnown, TurnCommands, LaneSound
<1>e. /\ \A i \in DOMAIN log : /\ log[i] \in Entry /\ log[i].of \in Submits
                               /\ log[i].kind \in {"turn", "answer", "interruption"}
      /\ Len(log) \in Nat /\ DOMAIN log = 1..Len(log)
      /\ log # <<>> => Len(log) \in DOMAIN log /\ Last(log) = log[Len(log)]
  BY <1>0, EntriesTyped
<1>h. \A d \in Submits : pc[d] \in HandedOver => pc'[d] \in HandedOver
  BY HandedOverStays
<1>1. ASSUME NEW c \in TurnCommands, NEW s \in Steps, Waits(c, s) PROVE TalkKnown'
  <2>1. /\ \A d \in TurnCommands : d # c => pc'[d] = pc[d]
        /\ pc'[c] = s /\ log' = log
    BY <1>0, <1>1 DEF Waits, Goto
  <2>2. LastTurnKnown'
    <3>1. \A d \in Submits : pc'[d] \in {"committed", "projected", "begun"} => pc'[d] = pc[d]
      BY <1>0, <1>1, <2>1 DEF Waits
    <3>2. \A d \in Interrupts : pc'[d] = "cancelled" => pc[d] = "cancelled" /\ target'[d] = target[d]
      BY <1>0, <1>1, <2>1 DEF Waits
    <3>3. generation' # Nobody /\ (\A d \in Submits : pc'[d] \notin {"committed", "projected"}) =>
            generation' = generation /\ \A d \in Submits : pc[d] \notin {"committed", "projected"}
      BY <1>0, <1>1, <2>1 DEF Waits
    <3>4. QED
      BY <1>0, <2>1, <3>1, <3>2, <3>3 DEF LastTurnKnown
  <2>3. OutcomesKnown'
    <3>1. \A d \in TurnCommands : pc'[d] \in {"answered", "done", "interrupted", "cancelled"} => d # c
      BY <1>1, <2>1 DEF Waits
    <3>2. \A d \in TurnCommands : pc[d] \in {"answered", "done"} => d # c
      BY <1>1 DEF Waits
    <3>3. \A d \in Interrupts : d # c /\ pc[d] # "new" => target'[d] = target[d]
      BY <1>1 DEF Waits
    <3>4. \A d \in Submits : generation # d => generation' # d
      BY <1>1, DriverAssumption DEF Waits
    <3>5. \A d \in Interrupts : pc[d] = "cancelled" => target[d] \in Submits
      BY <1>0 DEF StepsKnown, Returned
    <3>6. QED
      BY <1>0, <1>e, <1>h, <2>1, <3>1, <3>2, <3>3, <3>4, <3>5 DEF OutcomesKnown
  <2>4. OutcomeFollowsItsTurn'
    BY <1>0, <2>1 DEF OutcomeFollowsItsTurn
  <2>5. QED
    BY <2>2, <2>3, <2>4 DEF TalkKnown
<1>2. ASSUME NEW c \in Submits, OpenGeneration(c) PROVE TalkKnown'
  <2>1. /\ \A d \in TurnCommands : d # c => pc'[d] = pc[d]
        /\ pc'[c] = "begun" /\ log' = log /\ generation' = c /\ target' = target
        /\ pc[c] = "projected"
    BY <1>0, <1>2 DEF OpenGeneration, Goto
  <2>2. log # <<>> /\ Last(log).kind = "turn" /\ Last(log).of = c
    BY <1>0, <2>1 DEF LastTurnKnown
  <2>3. LastTurnKnown'
    BY <1>0, <2>1, <2>2 DEF LastTurnKnown
  <2>4. OutcomesKnown'
    <3>1. \A d \in Interrupts : pc[d] = "cancelled" => d = c
      BY <1>0, <2>1, OneHolder DEF InLane
    <3>2. c \notin Interrupts
      BY DriverAssumption
    <3>3. \A i \in DOMAIN log : log[i].kind = "interruption" => log[i].of # c
      BY <1>0, <2>1 DEF OutcomesKnown, HandedOver
    <3>4. \A d \in TurnCommands : pc'[d] = pc[d] \/ d = c
      BY <2>1
    <3>5. \A d \in TurnCommands : pc'[d] = "cancelled" => pc[d] = "cancelled"
      BY <2>1, <3>4
    <3>6. \A i \in DOMAIN log : log[i].kind = "answer" => log[i].of # c
      BY <1>0, <2>1 DEF OutcomesKnown
    <3>7. QED
      BY <1>0, <1>e, <1>h, <2>1, <3>1, <3>2, <3>3, <3>4, <3>5, <3>6 DEF OutcomesKnown
  <2>5. OutcomeFollowsItsTurn'
    BY <1>0, <2>1 DEF OutcomeFollowsItsTurn
  <2>6. QED
    BY <2>3, <2>4, <2>5 DEF TalkKnown
<1>3. ASSUME NEW c \in Interrupts, Silences(c) PROVE TalkKnown'
  <2>1. /\ \A d \in TurnCommands : d # c => pc'[d] = pc[d]
        /\ pc'[c] = "cancelled" /\ log' = log /\ generation' = Nobody /\ target' = target
        /\ pc[c] = "queued" /\ generation = target[c] /\ pending.of = target[c]
    BY <1>0, <1>3 DEF Silences, Goto
  <2>2. target[c] \in Submits
    BY <1>0, <2>1 DEF StepsKnown, Returned
  <2>3. \A d \in TurnCommands : pc[d] \in InLane => d = c
    BY <1>0, <1>3, OneHolder DEF Silences
  <2>4. \A d \in TurnCommands : pc[d] \notin InLane
    BY <2>1, <2>3 DEF InLane
  <2>5. log # <<>> /\ Last(log).of = target[c]
    BY <1>0, <2>1, <2>2, <2>4, DriverAssumption DEF LastTurnKnown, InLane
  <2>6. pc[target[c]] \notin {"answered", "done"}
    BY <1>0, <2>1, <2>2, <2>4, DriverAssumption DEF PendingKnown, InLane
  <2>7. Last(log).kind = "turn"
    BY <1>0, <1>e, <2>1, <2>5, <2>6 DEF OutcomesKnown
  <2>8. LastTurnKnown'
    BY <1>0, <2>1, <2>5, <2>7 DEF LastTurnKnown
  <2>9. OutcomesKnown'
    <3>1. \A d \in Submits : pc'[d] = pc[d]
      BY <1>0, <2>1, DriverAssumption
    <3>2. \A d \in Interrupts : pc'[d] \in {"interrupted", "done"} => pc[d] \in {"interrupted", "done"}
      BY <1>0, <2>1
    <3>3. \A d \in Interrupts : pc'[d] = "cancelled" => target[d] # Nobody
      BY <1>0, <2>1 DEF StepsKnown, Returned
    <3>4. \A d \in Submits : d # Nobody
      BY DriverAssumption
    <3>5. QED
      BY <1>0, <1>e, <2>1, <3>1, <3>2, <3>3, <3>4 DEF OutcomesKnown
  <2>10. OutcomeFollowsItsTurn'
    BY <1>0, <2>1 DEF OutcomeFollowsItsTurn
  <2>11. QED
    BY <2>8, <2>9, <2>10 DEF TalkKnown
<1>4. ASSUME NEW c \in TurnCommands, NEW s \in Steps, NEW e \in Entry, Logs(c, s, e) PROVE TalkKnown'
  <2>1. /\ \A d \in TurnCommands : d # c => pc'[d] = pc[d]
        /\ pc'[c] = s /\ generation' = generation /\ target' = target
        /\ pc[c] \in {"queued", "answering", "cancelled"}
    BY <1>0, <1>4 DEF Logs, Goto
  <2>2. /\ log' # <<>> /\ Last(log') = e
        /\ DOMAIN log' = DOMAIN log \cup {Len(log) + 1}
        /\ \A i \in DOMAIN log : log'[i] = log[i]
        /\ log'[Len(log) + 1] = e
        /\ Len(log) + 1 \notin DOMAIN log
    BY <1>4 DEF Logs, Logged
  <2>3. \A d \in TurnCommands : pc[d] \in InLane => d = c
    BY <1>0, <1>4, OneHolder DEF Logs
  <2>4. \A d \in Submits : pc[d] \notin {"committed", "projected", "begun", "answered"}
    BY <1>0, <2>1, <2>3 DEF InLane
  <2>5. OutcomesKnown'
    <3>1. \A d \in TurnCommands : pc[d] \in {"answered", "done", "interrupted"} => d # c
      BY <2>1
    <3>2. \A d \in TurnCommands : pc'[d] = "cancelled" => pc[d] = "cancelled"
      BY <1>4, <2>1 DEF Logs
    <3>3. /\ e.kind = "answer" => pc'[e.of] = "answered"
          /\ c \in Submits /\ s \in {"answered", "done"} => e.kind = "answer" /\ e.of = c
          /\ c \in Interrupts /\ s \in {"interrupted", "done"} => e.kind = "interruption" /\ e.of = target[c]
      BY <1>0, <1>4, <2>1, DriverAssumption DEF Logs
    <3>4. e.kind = "interruption" => generation # e.of /\ pc'[e.of] \in HandedOver
      <4>1. SUFFICES ASSUME e.kind = "interruption"
                     PROVE  generation # e.of /\ pc'[e.of] \in HandedOver
        OBVIOUS
      <4>2. c \in Interrupts /\ pc[c] = "cancelled" /\ e.of = target[c]
        BY <1>4, <4>1 DEF Logs
      <4>3. target[c] \in Submits /\ target[c] # Nobody
        BY <1>0, <4>2 DEF StepsKnown, Returned
      <4>4. QED
        BY <1>0, <1>h, <4>2, <4>3 DEF OutcomesKnown, PendingKnown
    <3>5. \A i \in DOMAIN log' : i \in DOMAIN log \/ i = Len(log) + 1
      BY <2>2
    <3>6. /\ \A i \in DOMAIN log' : log'[i].kind = "answer" => pc'[log'[i].of] \in {"answered", "done"}
          /\ \A i \in DOMAIN log' : log'[i].kind = "interruption" =>
               generation' # log'[i].of /\ pc'[log'[i].of] \in HandedOver
      BY <1>0, <1>e, <1>h, <2>1, <2>2, <3>1, <3>3, <3>4, <3>5 DEF OutcomesKnown
    <3>7. \A d \in Submits : pc'[d] \in {"answered", "done"} =>
            \E i \in DOMAIN log' : log'[i].kind = "answer" /\ log'[i].of = d
      <4> SUFFICES ASSUME NEW d \in Submits, pc'[d] \in {"answered", "done"}
                   PROVE  \E i \in DOMAIN log' : log'[i].kind = "answer" /\ log'[i].of = d
        OBVIOUS
      <4>1. CASE d = c
        BY <2>1, <2>2, <3>3, <4>1
      <4>2. CASE d # c
        <5>1. PICK i \in DOMAIN log : log[i].kind = "answer" /\ log[i].of = d
          BY <1>0, <2>1, <4>2 DEF OutcomesKnown
        <5>2. i \in DOMAIN log' /\ log'[i] = log[i]
          BY <2>2
        <5>3. QED
          BY <5>1, <5>2
      <4>3. QED
        BY <4>1, <4>2
    <3>8. \A d \in Interrupts : pc'[d] \in {"interrupted", "done"} =>
            \E i \in DOMAIN log' : log'[i].kind = "interruption" /\ log'[i].of = target[d]
      <4> SUFFICES ASSUME NEW d \in Interrupts, pc'[d] \in {"interrupted", "done"}
                   PROVE  \E i \in DOMAIN log' : log'[i].kind = "interruption" /\ log'[i].of = target[d]
        OBVIOUS
      <4>1. CASE d = c
        BY <2>1, <2>2, <3>3, <4>1
      <4>2. CASE d # c
        <5>1. PICK i \in DOMAIN log : log[i].kind = "interruption" /\ log[i].of = target[d]
          BY <1>0, <2>1, <4>2 DEF OutcomesKnown
        <5>2. i \in DOMAIN log' /\ log'[i] = log[i]
          BY <2>2
        <5>3. QED
          BY <5>1, <5>2
      <4>3. QED
        BY <4>1, <4>2
    <3>9. \A d \in Interrupts : pc'[d] = "cancelled" => generation' # target'[d]
      BY <1>0, <2>1, <3>2 DEF OutcomesKnown
    <3>10. QED
      BY <2>1, <3>6, <3>7, <3>8, <3>9 DEF OutcomesKnown
  <2>6. CASE e.kind = "turn"
    <3>1. c \in Submits /\ s = "committed" /\ e.of = c
      BY <1>4, <2>6 DEF Logs
    <3>2. \A d \in TurnCommands : pc'[d] \in InLane => d = c
      BY <2>1, <2>3
    <3>3. LastTurnKnown'
      BY <1>0, <2>1, <2>2, <2>6, <3>1, <3>2, DriverAssumption DEF LastTurnKnown, InLane
    <3>4. OutcomeFollowsItsTurn'
      BY <1>0, <1>e, <2>2, <2>6 DEF OutcomeFollowsItsTurn
    <3>5. QED
      BY <2>5, <3>3, <3>4 DEF TalkKnown
  <2>7. CASE e.kind # "turn"
    <3>1. log # <<>> /\ Last(log).kind = "turn" /\ Last(log).of = e.of
      <4>1. CASE c \in Submits /\ pc[c] = "answering" /\ e.of = c /\ generation = c
        <5>1. log # <<>> /\ Last(log).of = c
          BY <1>0, <2>4, <4>1, DriverAssumption DEF LastTurnKnown
        <5>2. Last(log).kind = "turn"
          BY <1>0, <1>e, <4>1, <5>1 DEF OutcomesKnown
        <5>3. QED
          BY <4>1, <5>1, <5>2
      <4>2. CASE c \in Interrupts /\ pc[c] = "cancelled" /\ e.of = target[c]
        BY <1>0, <4>2 DEF LastTurnKnown
      <4>3. QED
        BY <1>4, <2>7, <4>1, <4>2 DEF Logs
    <3>2. generation # Nobody => generation = e.of
      BY <1>0, <2>4, <3>1 DEF LastTurnKnown
    <3>3. s \in {"answered", "interrupted"}
      BY <1>4, <2>7 DEF Logs
    <3>4. \A d \in TurnCommands : pc'[d] \in {"committed", "projected", "begun", "cancelled"} => FALSE
      BY <2>1, <2>3, <3>3 DEF InLane
    <3>5. LastTurnKnown'
      BY <1>0, <2>1, <2>2, <3>2, <3>4 DEF LastTurnKnown
    <3>6. \A i \in DOMAIN log' : i \in DOMAIN log \/ i = Len(log) + 1
      BY <2>2
    <3>7. Len(log) \in DOMAIN log /\ log'[Len(log)] = Last(log)
      BY <1>e, <2>2, <3>1
    <3>8. OutcomeFollowsItsTurn'
      <4> SUFFICES ASSUME NEW i \in DOMAIN log', log'[i].kind # "turn"
                   PROVE  i > 1 /\ log'[i - 1].kind = "turn" /\ log'[i - 1].of = log'[i].of
        BY DEF OutcomeFollowsItsTurn
      <4>1. CASE i = Len(log) + 1
        <5>1. i - 1 = Len(log) /\ i > 1
          BY <1>e, <3>7, <4>1
        <5>2. QED
          BY <2>2, <3>1, <3>7, <4>1, <5>1
      <4>2. CASE i \in DOMAIN log
        <5>1. log'[i] = log[i] /\ i > 1 /\ log[i - 1].kind = "turn" /\ log[i - 1].of = log[i].of
          BY <1>0, <2>2, <4>2 DEF OutcomeFollowsItsTurn
        <5>2. i - 1 \in DOMAIN log
          BY <1>e, <4>2, <5>1
        <5>3. log'[i - 1] = log[i - 1]
          BY <2>2, <5>2
        <5>4. QED
          BY <5>1, <5>3
      <4>3. QED
        BY <3>6, <4>1, <4>2
    <3>9. QED
      BY <2>5, <3>5, <3>8 DEF TalkKnown
  <2>8. QED
    BY <2>6, <2>7
<1>5. ASSUME NEW c \in TurnCommands, NEW s \in Steps, Projects(c, s) PROVE TalkKnown'
  <2>1. /\ \A d \in TurnCommands : d # c => pc'[d] = pc[d]
        /\ pc'[c] = s /\ log' = log /\ generation' = generation /\ target' = target
        /\ pc[c] \in Unprojected
    BY <1>0, <1>5 DEF Projects, Goto
  <2>2. projection.status = "active" => Projectable
    BY <2>1 DEF Synced
  <2>3. c \in Submits /\ pc[c] = "answered" => s = "done"
    BY <1>5, <2>2 DEF Projects, GenerationKnown
  <2>4. ~Projectable => generation = Nobody
    BY <2>2 DEF GenerationKnown
  <2>5. /\ s \in {"projected", "done", "failing", "failed"}
        /\ s = "projected" => pc[c] = "committed"
        /\ s = "done" => pc[c] \in {"answered", "interrupted"}
    BY <1>5, <2>1 DEF Projects, Unprojected
  <2>6. LastTurnKnown'
    <3>1. \A d \in Submits : pc'[d] \in {"committed", "projected", "begun"} =>
            pc[d] \in {"committed", "projected", "begun"}
      BY <1>0, <2>1, <2>5
    <3>2. \A d \in Interrupts : pc'[d] = "cancelled" => pc[d] = "cancelled"
      BY <1>0, <2>1, <2>5
    <3>3. generation # Nobody /\ (\A d \in Submits : pc'[d] \notin {"committed", "projected"}) =>
            \A d \in Submits : pc[d] \notin {"committed", "projected"}
      <4>1. CASE pc[c] = "committed"
        BY <1>0, <1>5, <2>1, <2>4, <4>1 DEF Projects, StepsKnown, TurnCommands, Returned
      <4>2. CASE pc[c] # "committed"
        BY <1>0, <2>1, <4>2 DEF Unprojected
      <4>3. QED
        BY <4>1, <4>2
    <3>4. QED
      BY <1>0, <2>1, <3>1, <3>2, <3>3 DEF LastTurnKnown
  <2>7. OutcomesKnown'
    <3>1. \A d \in Submits : pc[d] \in {"answered", "done"} <=> pc'[d] \in {"answered", "done"}
      BY <1>0, <2>1, <2>3, <2>5 DEF Unprojected, StepsKnown
    <3>2. \A d \in Interrupts : pc'[d] \in {"interrupted", "done"} => pc[d] \in {"interrupted", "done"}
      BY <1>0, <2>1, <2>5, DriverAssumption DEF StepsKnown, Returned
    <3>3. \A d \in Interrupts : pc'[d] = "cancelled" => pc[d] = "cancelled"
      BY <1>0, <2>1, <2>5
    <3>4. QED
      BY <1>0, <1>e, <1>h, <2>1, <3>1, <3>2, <3>3 DEF OutcomesKnown
  <2>8. OutcomeFollowsItsTurn'
    BY <1>0, <2>1 DEF OutcomeFollowsItsTurn
  <2>9. QED
    BY <2>6, <2>7, <2>8 DEF TalkKnown
<1>6. ASSUME ReadOutbox \/ HydrateProjection \/ LifecycleStep PROVE TalkKnown'
  <2>1. UNCHANGED <<pc, log, generation, target>>
    BY <1>6 DEF ReadOutbox, HydrateProjection, LifecycleStep, ActivateSession,
       CompleteSession, Lifecycle
  <2>2. QED
    BY <2>1 DEF TalkKnown, LastTurnKnown, OutcomesKnown, OutcomeFollowsItsTurn
<1>7. QED
  BY <1>1, <1>2, <1>3, <1>4, <1>5, <1>6 DEF KindOfStep

-------------------------------------------------------------------------------
(* An interruption that got its turn off the air commits a marker for it   *)
(* only once, and the actor takes what was committed.                      *)

(* Only one interruption is ever accepted for a turn: it is fenced then.   *)
TargetsOnce ==
  \A c, d \in Interrupts : target[c] # Nobody /\ target[c] = target[d] => c = d

MarkersKnown ==
  /\ \A c \in Interrupts : pc[c] \in {"cancelled", "interrupted"} => projection.status = "active"
  /\ \A i \in DOMAIN log : log[i].kind = "interruption" =>
       \E c \in Interrupts : target[c] = log[i].of /\ pc[c] \in {"interrupted", "done"}

LEMMA TargetsKept ==
  ASSUME DriverTypes, PendingKnown, TargetsOnce, Next
  PROVE  TargetsOnce'
<1>1. ASSUME NEW c \in Interrupts, NEW g \in Submits, BeginInterrupt(c, g)
      PROVE  TargetsOnce'
  <2>1. CASE pending = [of |-> g, fenced |-> FALSE] /\ target' = [target EXCEPT ![c] = g]
    <3>1. \A d \in Interrupts : target[d] # g
      BY <2>1, DriverAssumption DEF PendingKnown
    <3>2. \A d \in Interrupts : target'[d] = IF d = c THEN g ELSE target[d]
      BY <2>1 DEF DriverTypes, StepsKnown
    <3>3. QED
      BY <3>1, <3>2 DEF TargetsOnce
  <2>2. CASE target' = target
    BY <2>2 DEF TargetsOnce
  <2>3. QED
    BY <1>1, <2>1, <2>2 DEF BeginInterrupt
<1>2. CASE target' = target
  BY <1>2 DEF TargetsOnce
<1>3. ASSUME NEW c \in TurnCommands, SubmitStep(c) \/ InterruptStep(c)
      PROVE  target' = target
  BY <1>3 DEF SubmitStep, InterruptStep, EnterLane, CommitTurn, ProjectTurn, OpenGeneration,
     AwaitFastLane, Respond, FailFastLane, CommitAnswer, ProjectAnswer, FenceFailed,
     CancelFailed, CancelPending, CommitInterruption, ProjectInterruption
<1>4. ASSUME \/ \E c \in Submits : BeginSubmit(c)
             \/ ReadOutbox \/ HydrateProjection \/ CompleteSession
             \/ \E p \in Presenters : ActivateSession(p)
      PROVE  target' = target
  BY <1>4 DEF BeginSubmit, ReadOutbox, HydrateProjection, CompleteSession, ActivateSession,
     Lifecycle
<1>5. QED
  BY <1>1, <1>2, <1>3, <1>4 DEF Next, TurnCommands

LEMMA MarkersKept ==
  ASSUME DriverTypes, HydrationKnown, Synced, GenerationKnown, MarkersKnown, KindOfStep
  PROVE  MarkersKnown'
<1>0. LaneSound /\ StepsKnown /\ LogKnown /\ AggregatesTyped
  BY DEF DriverTypes
<1>1. ASSUME NEW c \in TurnCommands, NEW s \in Steps, Waits(c, s) PROVE MarkersKnown'
  <2>1. /\ \A d \in TurnCommands : d # c => pc'[d] = pc[d]
        /\ pc'[c] = s /\ s \notin {"cancelled", "interrupted", "done"}
        /\ pc[c] \notin {"interrupted", "done"}
        /\ log' = log /\ projection' = projection
    BY <1>0, <1>1 DEF Waits, Goto, LaneSound
  <2>2. \A d \in Interrupts : pc[d] \in {"interrupted", "done"} =>
          pc'[d] = pc[d] /\ target'[d] = target[d]
    BY <1>1, <2>1 DEF Waits, TurnCommands
  <2>3. \A d \in Interrupts : pc'[d] \in {"cancelled", "interrupted"} => pc[d] = pc'[d]
    BY <2>1 DEF TurnCommands
  <2>4. QED
    BY <2>1, <2>2, <2>3 DEF MarkersKnown
<1>2. ASSUME NEW c \in Submits, OpenGeneration(c) PROVE MarkersKnown'
  <2>1. /\ \A d \in Interrupts : pc'[d] = pc[d]
        /\ UNCHANGED <<log, projection, target>>
    BY <1>0, <1>2, DriverAssumption DEF OpenGeneration, Goto, LaneSound, TurnCommands
  <2>2. QED
    BY <2>1 DEF MarkersKnown
<1>3. ASSUME NEW c \in Interrupts, Silences(c) PROVE MarkersKnown'
  <2>1. /\ \A d \in TurnCommands : d # c => pc'[d] = pc[d]
        /\ pc'[c] = "cancelled" /\ pc[c] = "queued"
        /\ UNCHANGED <<log, projection, target>>
    BY <1>0, <1>3 DEF Silences, Goto, LaneSound, TurnCommands
  <2>2. projection.status = "active"
    BY <1>0, <1>3 DEF Silences, StepsKnown, GenerationKnown
  <2>3. \A d \in Interrupts : pc[d] \in {"interrupted", "done"} => pc'[d] = pc[d]
    BY <2>1 DEF TurnCommands
  <2>4. QED
    BY <2>1, <2>2, <2>3 DEF MarkersKnown
<1>4. ASSUME NEW c \in TurnCommands, NEW s \in Steps, NEW e \in Entry, Logs(c, s, e)
      PROVE  MarkersKnown'
  <2>1. /\ \A d \in TurnCommands : d # c => pc'[d] = pc[d]
        /\ pc'[c] = s /\ pc[c] \in {"queued", "answering", "cancelled"}
        /\ UNCHANGED <<projection, target>>
    BY <1>0, <1>4 DEF Logs, Goto, LaneSound
  <2>2. /\ \A i \in DOMAIN log' : i \in DOMAIN log \/ i = Len(log) + 1
        /\ \A i \in DOMAIN log : log'[i] = log[i]
        /\ log'[Len(log) + 1] = e
    BY <1>4 DEF Logs, Logged
  <2>3. \A d \in Interrupts : pc[d] \in {"interrupted", "done"} => pc'[d] = pc[d]
    BY <2>1 DEF TurnCommands
  <2>4. e.kind = "interruption" =>
          c \in Interrupts /\ e.of = target[c] /\ s = "interrupted" /\ pc[c] = "cancelled"
    BY <1>4 DEF Logs
  <2>5. \A d \in Interrupts : pc'[d] \in {"cancelled", "interrupted"} =>
          pc[d] \in {"cancelled", "interrupted"}
    BY <1>4, <2>1, DriverAssumption DEF Logs, TurnCommands
  <2>6. ASSUME NEW i \in DOMAIN log', log'[i].kind = "interruption"
        PROVE  \E d \in Interrupts : target'[d] = log'[i].of /\ pc'[d] \in {"interrupted", "done"}
    <3>1. CASE i \in DOMAIN log
      BY <2>1, <2>2, <2>3, <2>6, <3>1 DEF MarkersKnown
    <3>2. CASE i = Len(log) + 1
      BY <2>1, <2>2, <2>4, <2>6, <3>2
    <3>3. QED
      BY <2>2, <3>1, <3>2
  <2>7. QED
    BY <2>1, <2>5, <2>6 DEF MarkersKnown
<1>5. ASSUME NEW c \in TurnCommands, NEW s \in Steps, Projects(c, s) PROVE MarkersKnown'
  <2>1. /\ \A d \in TurnCommands : d # c => pc'[d] = pc[d]
        /\ pc'[c] = s /\ log' = log /\ target' = target
        /\ pc[c] \in Unprojected
    BY <1>0, <1>5 DEF Projects, Goto, LaneSound
  <2>2. s \in {"projected", "done", "failing", "failed"}
    BY <1>5 DEF Projects
  <2>3. projection.status = "active" =>
          projection'.status = "active" /\ (pc[c] = "interrupted" => s = "done")
    <3>1. SUFFICES ASSUME projection.status = "active"
                   PROVE  projection'.status = "active" /\ (pc[c] = "interrupted" => s = "done")
      OBVIOUS
    <3>2. Projectable
      BY <2>1, <3>1 DEF Synced
    <3>3. /\ Last(log).event \in Event /\ Last(log).version \in Nat
          /\ Last(log).event.type \in TurnEvents
      BY <1>0, <2>1, LastIsTurn
    <3>4. projection'.status = "active"
      BY <1>5, <3>2, <3>3, TurnsStayOnStage DEF Projects, Projectable, ApplyToActor
    <3>5. QED
      BY <1>5, <3>2, <3>4 DEF Projects
  <2>4. \A d \in Interrupts : pc'[d] \in {"cancelled", "interrupted"} => pc[d] = pc'[d]
    BY <2>1, <2>2 DEF TurnCommands
  <2>5. \A d \in Interrupts : pc[d] = "interrupted" => projection.status = "active"
    BY DEF MarkersKnown
  <2>6. \A d \in Interrupts : pc[d] \in {"interrupted", "done"} => pc'[d] \in {"interrupted", "done"}
    BY <2>1, <2>3, <2>5 DEF TurnCommands, Unprojected
  <2>7. QED
    BY <2>1, <2>3, <2>4, <2>6 DEF MarkersKnown
<1>6. CASE HydrateProjection
  <2>1. \A d \in Interrupts : pc'[d] \notin {"cancelled", "interrupted"}
    BY <1>6 DEF HydrateProjection, HydrationKnown, TurnCommands
  <2>2. DOMAIN log' = {}
    BY <1>6 DEF HydrateProjection, HydrationKnown
  <2>3. QED
    BY <2>1, <2>2 DEF MarkersKnown
<1>7. CASE ReadOutbox \/ LifecycleStep
  <2>1. UNCHANGED <<pc, log, projection, target>>
    BY <1>7 DEF ReadOutbox, LifecycleStep, ActivateSession, CompleteSession, Lifecycle
  <2>2. QED
    BY <2>1 DEF MarkersKnown
<1>8. QED
  BY <1>1, <1>2, <1>3, <1>4, <1>5, <1>6, <1>7 DEF KindOfStep

-------------------------------------------------------------------------------
LEMMA DriverInvHolds == Init => DriverInv
<1> SUFFICES ASSUME Init PROVE DriverInv
  OBVIOUS
<1>1. Prepared \in AggregateState /\ AbsentAggregate \in AggregateState
      /\ Prepared.status = "ready" /\ AbsentAggregate.status = "absent"
  BY PresentersAssumption DEF Prepared, AbsentAggregate, AggregateState, Statuses,
     Consents, Disclosures, Degradations
<1>2. pc \in [TurnCommands -> Steps] /\ \A c \in TurnCommands : pc[c] = "new"
  BY DEF Init, Steps
<1>3. LaneSound
  BY <1>2 DEF Init, LaneSound, IsInjective, InLane
<1>4. StepsKnown /\ LogKnown
  BY <1>2 DEF Init, StepsKnown, LogKnown, TurnCommands, Returned, Unprojected
<1>5. AggregatesTyped
  BY <1>1 DEF Init, AggregatesTyped, NoPending
<1>6. HydrationKnown
  BY <1>1, <1>2 DEF Init, HydrationKnown
<1>7. Synced /\ GenerationKnown
  BY <1>1, <1>2 DEF Init, Synced, GenerationKnown, TurnCommands
<1>8. PendingKnown /\ TalkKnown
  BY <1>2 DEF Init, PendingKnown, TalkKnown, LastTurnKnown, OutcomesKnown,
     OutcomeFollowsItsTurn, NoPending, TurnCommands, InLane, Unprojected
<1>9. QED
  BY <1>3, <1>4, <1>5, <1>6, <1>7, <1>8 DEF DriverInv, DriverTypes

LEMMA DriverInvKept == DriverInv /\ [Next]_vars => DriverInv'
<1> SUFFICES ASSUME DriverInv, [Next]_vars PROVE DriverInv'
  OBVIOUS
<1>1. CASE Next
  <2>1. DriverTypes'
    BY <1>1, DriverTypesKept DEF DriverInv
  <2>2. KindOfStep
    BY <1>1, StepKinds DEF DriverInv
  <2>3. HydrationKnown' /\ Synced' /\ GenerationKnown'
    BY <2>2, FollowingKept DEF DriverInv
  <2>4. PendingKnown'
    BY <1>1, <2>2, PendingKept DEF DriverInv
  <2>5. TalkKnown'
    BY <2>2, TalkKept DEF DriverInv
  <2>6. QED
    BY <2>1, <2>3, <2>4, <2>5 DEF DriverInv
<1>2. CASE UNCHANGED vars
  BY <1>2 DEF vars, DriverInv, DriverTypes, LaneSound, Holds, StepsKnown, LogKnown,
     AggregatesTyped, HydrationKnown, Synced, Projectable, GenerationKnown, PendingKnown,
     TalkKnown, LastTurnKnown, OutcomesKnown, OutcomeFollowsItsTurn
<1>3. QED
  BY <1>1, <1>2

LEMMA DriverInductive == Spec => []DriverInv
  BY DriverInvHolds, DriverInvKept, PTL DEF Spec

LEMMA MarkersInductive == Spec => [](TargetsOnce /\ MarkersKnown)
<1>1. Init => TargetsOnce /\ MarkersKnown
  BY DEF Init, TargetsOnce, MarkersKnown, TurnCommands
<1>2. DriverInv /\ TargetsOnce /\ MarkersKnown /\ [Next]_vars => (TargetsOnce /\ MarkersKnown)'
  <2> SUFFICES ASSUME DriverInv, TargetsOnce, MarkersKnown, [Next]_vars
               PROVE  TargetsOnce' /\ MarkersKnown'
    OBVIOUS
  <2>1. CASE Next
    <3>1. KindOfStep
      BY <2>1, StepKinds DEF DriverInv
    <3>2. TargetsOnce'
      BY <2>1, TargetsKept DEF DriverInv
    <3>3. MarkersKnown'
      BY <3>1, MarkersKept DEF DriverInv
    <3>4. QED
      BY <3>2, <3>3
  <2>2. CASE UNCHANGED vars
    BY <2>2 DEF vars, TargetsOnce, MarkersKnown
  <2>3. QED
    BY <2>1, <2>2
<1>3. QED
  BY <1>1, <1>2, DriverInductive, PTL DEF Spec

LEMMA DriverInvImplies == DriverInv => OutcomeFollowsItsTurn /\ TypeOK
<1>1. DriverInv => OutcomeFollowsItsTurn
  BY DEF DriverInv, TalkKnown
<1>2. DriverInv => TypeOK
  <2> SUFFICES ASSUME DriverInv PROVE TypeOK
    OBVIOUS
  <2>1. LaneSound /\ StepsKnown /\ LogKnown /\ AggregatesTyped
    BY DEF DriverInv, DriverTypes
  <2>2. \A i \in DOMAIN log : /\ log[i] \in Entry /\ log[i].of \in Submits
    BY <2>1, EntriesTyped
  <2>3. QED
    BY <2>1, <2>2 DEF TypeOK, LaneSound, StepsKnown, AggregatesTyped, Entry
<1>3. QED
  BY <1>1, <1>2

LEMMA OutcomesTold ==
  ASSUME DriverInv, TargetsOnce, MarkersKnown
  PROVE  OutcomeIsTold
<1>1. /\ LaneSound /\ StepsKnown /\ LogKnown /\ AggregatesTyped
      /\ OutcomesKnown /\ OutcomeFollowsItsTurn
  BY DEF DriverInv, DriverTypes, TalkKnown
<1>2. \A i \in DOMAIN log : /\ log[i] \in Entry /\ log[i].of \in Submits
  BY <1>1, EntriesTyped
<1>3. ASSUME NEW c \in Submits, pc[c] \in Returned
      PROVE  (pc[c] = "done") = (\E e \in ToSet(log) : e.kind = "answer" /\ e.of = c)
  <2>1. pc[c] = "done" => \E e \in ToSet(log) : e.kind = "answer" /\ e.of = c
    BY <1>1 DEF OutcomesKnown, ToSet
  <2>2. (\E e \in ToSet(log) : e.kind = "answer" /\ e.of = c) => pc[c] = "done"
    BY <1>1, <1>3 DEF OutcomesKnown, ToSet, Returned
  <2>3. QED
    BY <2>1, <2>2
<1>4. \A c \in Interrupts : pc[c] = "done" =>
        \E e \in ToSet(log) : e.kind = "interruption" /\ e.of = target[c]
  BY <1>1 DEF OutcomesKnown, ToSet
<1>5. ASSUME NEW e \in ToSet(log), e.kind = "interruption"
      PROVE  \E c \in Interrupts :
               {d \in Interrupts : target[d] = e.of /\ pc[d] \in {"interrupted", "done"}} = {c}
  <2>1. e.of \in Submits
    BY <1>2 DEF ToSet
  <2>2. PICK c \in Interrupts : target[c] = e.of /\ pc[c] \in {"interrupted", "done"}
    BY <1>5 DEF ToSet, MarkersKnown
  <2>3. \A d \in Interrupts : target[d] = e.of => d = c
    BY <2>1, <2>2, DriverAssumption DEF TargetsOnce
  <2>4. QED
    BY <2>2, <2>3
<1>6. QED
  BY <1>1, <1>3, <1>4, <1>5 DEF OutcomeIsTold

(* Every reachable state of the driver is well typed.                      *)
THEOREM DriverTypeCorrect == Spec => []TypeOK
  BY DriverInductive, DriverInvImplies, PTL

(* One mouth: whatever overlaps, an answer or an interruption directly     *)
(* follows the turn it is for in the outbox (submitTurn, interruptTurn).   *)
THEOREM OneMouth == Spec => []OutcomeFollowsItsTurn
  BY DriverInductive, DriverInvImplies, PTL

(* A submission returns its answer exactly if the answer was committed, and *)
(* the one interruption a committed marker belongs to returns success: none *)
(* fails after its marker was committed (submitTurn, interruptTurn).        *)
THEOREM CallersAreTold == Spec => []OutcomeIsTold
  BY DriverInductive, MarkersInductive, OutcomesTold, PTL

(* An interruption that was accepted is not overtaken by the answer it was *)
(* to stop: the fence is set before anything is awaited.                   *)
THEOREM InterruptionsWin == Spec => InterruptionWins
<1>1. ASSUME DriverInv, [Next]_vars
      PROVE  [\A c \in Submits :
                pc[c] = "answering" /\ pc'[c] = "answered" =>
                  ~\E d \in Interrupts : target[d] = c /\ pc[d] \notin Returned]_vars
  <2> SUFFICES ASSUME Next, NEW c \in Submits, pc[c] = "answering", pc'[c] = "answered",
                      NEW d \in Interrupts, target[d] = c
               PROVE  FALSE
    BY <1>1
  <2>1. LaneSound /\ PendingKnown /\ c # Nobody /\ c \in TurnCommands
    BY <1>1, DriverAssumption DEF DriverInv, DriverTypes, TurnCommands
  <2>2. pending # [of |-> c, fenced |-> FALSE]
    BY <2>1 DEF PendingKnown
  <2>3. ASSUME NEW x \in TurnCommands, NEW s, Goto(x, s) PROVE x = c /\ s = "answered"
    BY <2>1, <2>3 DEF Goto, LaneSound
  <2>4. \A x \in TurnCommands : ~EnterLane(x)
    BY <2>3 DEF EnterLane, Join
  <2>5. \A x \in Submits :
          ~BeginSubmit(x) /\ ~CommitTurn(x) /\ ~ProjectTurn(x) /\ ~OpenGeneration(x) /\ ~AwaitFastLane(x)
    BY <2>3 DEF BeginSubmit, CommitTurn, ProjectTurn, OpenGeneration, AwaitFastLane,
       Leave, TurnCommands
  <2>6. \A x \in Submits : ~Respond(x) /\ ~FailFastLane(x) /\ ~FenceFailed(x) /\ ~CancelFailed(x)
    BY <2>3 DEF Respond, Join, FailFastLane, FenceFailed, CancelFailed, TurnCommands
  <2>7. \A x \in Submits : ~CommitAnswer(x) /\ ~ProjectAnswer(x)
    BY <2>2, <2>3 DEF CommitAnswer, Publishable, ProjectAnswer, Leave, TurnCommands
  <2>8. \A x \in Interrupts :
          ~CancelPending(x) /\ ~CommitInterruption(x) /\ ~ProjectInterruption(x)
          /\ \A g \in Submits : ~BeginInterrupt(x, g)
    BY <2>3, DriverAssumption DEF CancelPending, CommitInterruption, ProjectInterruption,
       BeginInterrupt, Leave, TurnCommands
  <2>9. UNCHANGED pc => FALSE
    OBVIOUS
  <2>10. QED
    BY <2>4, <2>5, <2>6, <2>7, <2>8, <2>9
       DEF Next, SubmitStep, InterruptStep, TurnCommands, ReadOutbox, HydrateProjection,
       ActivateSession, CompleteSession, Lifecycle
<1>2. QED
  BY <1>1, DriverInductive, PTL DEF Spec, InterruptionWins

-------------------------------------------------------------------------------
(* The session actor.  Its windows and its mailbox are compared record by  *)
(* record: what is taken out of a sequence keeps the others.               *)

(* t has the places of w without those in gone, in whatever order.         *)
KeptFrom(t, w, gone) ==
  \E old \in [DOMAIN t -> DOMAIN w \ gone] :
    /\ \A i, j \in DOMAIN t : old[i] = old[j] => i = j
    /\ \A i \in DOMAIN t : t[i] = w[old[i]]
    /\ \A k \in DOMAIN w \ gone : \E i \in DOMAIN t : old[i] = k

(* The least of some numbers.                                              *)
LEMMA LeastNumber ==
  ASSUME NEW T \in SUBSET Nat, T # {}
  PROVE  \E x \in T : \A y \in T : x <= y
<1>0. PICK R : R = OpToRel(<, Nat)
  OBVIOUS
<1>1. IsWellFoundedOn(R, Nat)
  BY <1>0, NatLessThanWellFounded
<1>2. PICK x \in T : \A y \in T : ~(<<y, x>> \in R)
  BY <1>1, WFMin
<1>3. ASSUME NEW y \in T PROVE x <= y
  <2>1. x \in Nat /\ y \in Nat
    OBVIOUS
  <2>2. y < x => <<y, x>> \in R
    BY <1>0, <2>1 DEF OpToRel
  <2>3. ~(y < x)
    BY <1>2, <2>2
  <2>4. QED
    BY <2>1, <2>3
<1>4. QED
  BY <1>3

LEMMA NothingGone ==
  ASSUME NEW w
  PROVE  KeptFrom(w, w, {})
<1>1. [i \in DOMAIN w |-> i] \in [DOMAIN w -> DOMAIN w \ {}]
  OBVIOUS
<1>2. QED
  BY <1>1 DEF KeptFrom

LEMMA RemoveKeeps ==
  ASSUME NEW S, NEW s \in Seq(S), NEW n \in DOMAIN s
  PROVE  /\ RemoveAt(s, n) \in Seq(S)
         /\ Len(RemoveAt(s, n)) = Len(s) - 1
         /\ KeptFrom(RemoveAt(s, n), s, {n})
<1>1. /\ Len(s) \in Nat /\ DOMAIN s = 1..Len(s) /\ n \in 1..Len(s)
      /\ \A i \in 1..Len(s) : s[i] \in S
  OBVIOUS
<1>a. PICK a : a = SubSeq(s, 1, n - 1)
  OBVIOUS
<1>b. PICK b : b = SubSeq(s, n + 1, Len(s))
  OBVIOUS
<1>2. /\ a \in Seq(S) /\ Len(a) = n - 1
      /\ \A i \in 1..(n - 1) : a[i] = s[i]
  <2>1. /\ a \in Seq(S) /\ Len(a) = IF 1 <= n - 1 THEN n - 1 - 1 + 1 ELSE 0
        /\ \A i \in 1..(n - 1 - 1 + 1) : a[i] = s[1 + i - 1]
    BY <1>1, <1>a, SubSeqProperties
  <2>2. QED
    BY <1>1, <2>1
<1>3. /\ b \in Seq(S) /\ Len(b) = Len(s) - n
      /\ \A i \in 1..(Len(s) - n) : b[i] = s[n + i]
  <2>1. /\ b \in Seq(S)
        /\ Len(b) = IF n + 1 <= Len(s) THEN Len(s) - (n + 1) + 1 ELSE 0
        /\ \A i \in 1..(Len(s) - (n + 1) + 1) : b[i] = s[(n + 1) + i - 1]
    BY SMTT(60), <1>1, <1>b, SubSeqProperties
  <2>2. Len(b) = Len(s) - n /\ Len(s) - (n + 1) + 1 = Len(s) - n
    BY <1>1, <2>1
  <2>3. \A i \in 1..(Len(s) - n) : (n + 1) + i - 1 = n + i
    BY <1>1
  <2>4. QED
    BY <2>1, <2>2, <2>3
<1>t. PICK t : t = RemoveAt(s, n)
  OBVIOUS
<1>4. t = a \o b
  BY <1>a, <1>b, <1>t DEF RemoveAt
<1>5. /\ t \in Seq(S) /\ Len(t) = Len(s) - 1
      /\ \A i \in 1..(Len(s) - 1) : t[i] = IF i <= n - 1 THEN a[i] ELSE b[i - (n - 1)]
  <2>1. /\ t \in Seq(S) /\ Len(t) = Len(a) + Len(b)
        /\ \A i \in 1..(Len(a) + Len(b)) : t[i] = IF i <= Len(a) THEN a[i] ELSE b[i - Len(a)]
    BY ZenonT(60), <1>2, <1>3, <1>4, ConcatProperties
  <2>2. Len(a) + Len(b) = Len(s) - 1
    BY <1>1, <1>2, <1>3
  <2>3. QED
    BY <1>2, <2>1, <2>2
<1>6. DOMAIN t = 1..(Len(s) - 1) /\ Len(t) = Len(s) - 1
  BY <1>1, <1>5
<1>7. ASSUME NEW i \in DOMAIN t PROVE t[i] = s[IF i < n THEN i ELSE i + 1]
  <2>1. CASE i < n
    BY <1>1, <1>2, <1>5, <1>6, <2>1
  <2>2. CASE ~(i < n)
    <3>1. i - (n - 1) \in 1..(Len(s) - n) /\ n + (i - (n - 1)) = i + 1 /\ ~(i <= n - 1)
      BY <1>1, <1>6, <2>2
    <3>2. t[i] = b[i - (n - 1)]
      BY <1>5, <1>6, <3>1
    <3>3. QED
      BY <1>3, <2>2, <3>1, <3>2
  <2>3. QED
    BY <2>1, <2>2
<1> PICK old : old = [i \in DOMAIN t |-> IF i < n THEN i ELSE i + 1]
  OBVIOUS
<1>8. old \in [DOMAIN t -> DOMAIN s \ {n}]
  BY <1>1, <1>6
<1>9. \A i, j \in DOMAIN t : old[i] = old[j] => i = j
  BY <1>1, <1>6
<1>10. \A i \in DOMAIN t : t[i] = s[old[i]]
  BY <1>7
<1>11. ASSUME NEW k \in DOMAIN s \ {n} PROVE \E i \in DOMAIN t : old[i] = k
  <2>1. CASE k < n
    BY <1>1, <1>6, <2>1
  <2>2. CASE k > n
    <3>1. k - 1 \in DOMAIN t /\ old[k - 1] = k
      BY <1>1, <1>6, <2>2
    <3>2. QED
      BY <3>1
  <2>3. QED
    BY <1>1, <2>1, <2>2
<1>12. KeptFrom(t, s, {n})
  BY <1>8, <1>9, <1>10, <1>11 DEF KeptFrom
<1>13. QED
  BY <1>5, <1>6, <1>12, <1>t

(* What makes room for a new record is settled.                            *)
LEMMA EvictedKeeps ==
  ASSUME NEW S, NEW w \in Seq(S)
  PROVE  /\ Evicted(w) \in Seq(S)
         /\ \E gone \in SUBSET DOMAIN w :
              KeptFrom(Evicted(w), w, gone) /\ \A k \in gone : IsSettled(w[k])
<1>1. CASE Len(w) < MaxDedupe \/ ~\E k \in DOMAIN w : IsSettled(w[k])
  <2>1. Evicted(w) = w
    BY <1>1 DEF Evicted
  <2>2. {} \in SUBSET DOMAIN w /\ KeptFrom(w, w, {})
    BY NothingGone
  <2>3. QED
    BY <2>1, <2>2
<1>2. CASE ~(Len(w) < MaxDedupe \/ ~\E k \in DOMAIN w : IsSettled(w[k]))
  <2> PICK T : T = {k \in DOMAIN w : IsSettled(w[k])}
    OBVIOUS
  <2>1. T \in SUBSET Nat /\ T # {} /\ DOMAIN w = 1..Len(w) /\ Len(w) \in Nat
    BY <1>2
  <2>2. PICK x \in T : \A y \in T : x <= y
    BY <2>1, LeastNumber
  <2>3. x \in DOMAIN w /\ IsSettled(w[x]) /\ \A j \in 1..(x - 1) : ~IsSettled(w[j])
    BY <2>1, <2>2
  <2> PICK n : n = CHOOSE k \in DOMAIN w :
                      IsSettled(w[k]) /\ \A j \in 1..(k - 1) : ~IsSettled(w[j])
    OBVIOUS
  <2>4. n \in DOMAIN w /\ IsSettled(w[n])
    BY <2>3
  <2>5. Evicted(w) = RemoveAt(w, n)
    BY <1>2 DEF Evicted
  <2>6. {n} \in SUBSET DOMAIN w /\ KeptFrom(RemoveAt(w, n), w, {n})
        /\ RemoveAt(w, n) \in Seq(S)
    BY <2>4, RemoveKeeps
  <2>7. QED
    BY <2>4, <2>5, <2>6
<1>3. QED
  BY <1>1, <1>2

(* runOne takes an item that is there.                                     *)
LEMMA NextItemIsThere ==
  ASSUME NEW S, mailbox \in Seq(S), mailbox # <<>>
  PROVE  NextItem \in DOMAIN mailbox
<1>1. DOMAIN mailbox = 1..Len(mailbox) /\ Len(mailbox) \in Nat /\ 1 \in DOMAIN mailbox
  OBVIOUS
<1> PICK T : T = Places(mailbox, "lane", "safety")
  OBVIOUS
<1>2. T \in SUBSET Nat /\ T \subseteq DOMAIN mailbox
  BY <1>1 DEF Places
<1>3. CASE T = {}
  BY <1>1, <1>3 DEF NextItem
<1>4. CASE T # {}
  <2>1. PICK x \in T : \A y \in T : x <= y
    BY <1>2, <1>4, LeastNumber
  <2>2. (CHOOSE k \in T : \A j \in T : k <= j) \in T
    BY <2>1
  <2>3. QED
    BY <1>2, <1>4, <2>2 DEF NextItem
<1>5. QED
  BY <1>3, <1>4

-------------------------------------------------------------------------------
Envelopes == Canonical \cup Foreign

Record == [event : Envelopes, status : DeliveryStatuses]
Control == [command : Commands, generation : Generations, status : ControlStatuses]
Item ==
  [lane : {"canonical", "control", "safety"}, op : {"reduce", "begin", "cancel"},
   arg : Envelopes \cup Callers \cup Commands]
CallRecord ==
  [on : {"nothing", "delivery", "lookup", "begin", "cancel"},
   arg : Envelopes \cup Commands \cup {0},
   answer : {"none", "waiting", "refused", "applied", "told", "begun"}]

(* A window never has two records of one event or command.                 *)
Window(w, R, key) ==
  /\ w \in Seq(R)
  /\ \A j, k \in DOMAIN w : w[j][key] = w[k][key] => j = k

QueuedIn(w, key, x) == \E k \in DOMAIN w : w[k][key] = x /\ w[k].status = "queued"
HasItem(q, op, x) == \E k \in DOMAIN q : q[k].op = op /\ q[k].arg = x

(* A mailbox has an event or a command once.                               *)
Queue(q) ==
  /\ q \in Seq(Item)
  /\ \A k \in DOMAIN q : q[k].op = "reduce" => q[k].arg \in Envelopes
  /\ \A k \in DOMAIN q : q[k].op = "cancel" => q[k].arg \in Commands
  /\ \A j, k \in DOMAIN q :
       q[j].op = q[k].op /\ q[j].op # "begin" /\ q[j].arg = q[k].arg => j = k

ActorTyped ==
  /\ version \in Canonical /\ nextGeneration \in Nat
  /\ activeGeneration \in 0..nextGeneration
  /\ lookup \in Envelopes \cup {0}
  /\ lookup \in Canonical => lookup <= version

(* A caller is told applied only of what the state has.                    *)
CallsSound(calling, v) ==
  /\ calling \in [Callers -> CallRecord]
  /\ \A c \in Callers : calling[c].answer = "applied" =>
       calling[c].arg \in Canonical /\ calling[c].arg <= v

(* What was reduced is in the state.                                       *)
DeliveriesSound ==
  /\ Window(deliveries, Record, "event")
  /\ \A k \in DOMAIN deliveries :
       deliveries[k].status \in {"reduced", "settled"} =>
         deliveries[k].event \in Canonical /\ deliveries[k].event <= version

ControlsSound == Window(controls, Control, "command")

(* What is queued in a window is in the mailbox, and nothing else is.      *)
Matched ==
  /\ Queue(mailbox)
  /\ \A e \in Envelopes : QueuedIn(deliveries, "event", e) <=> HasItem(mailbox, "reduce", e)
  /\ \A m \in Commands : QueuedIn(controls, "command", m) <=> HasItem(mailbox, "cancel", m)

(* A generation was silenced after it had begun, and is not on air.        *)
Silent == silenced \subseteq 1..nextGeneration /\ activeGeneration \notin silenced

ActorInv ==
  /\ ActorTyped /\ DeliveriesSound /\ ControlsSound /\ Matched /\ Silent
  /\ CallsSound(call, version)

-------------------------------------------------------------------------------
(* Windows and mailbox: what is taken out, added and settled.              *)

LEMMA WindowKept ==
  ASSUME NEW R, NEW key, NEW w, NEW t, NEW gone,
         Window(w, R, key), t \in Seq(R), KeptFrom(t, w, gone)
  PROVE  /\ Window(t, R, key)
         /\ \A i \in DOMAIN t : \E k \in DOMAIN w \ gone : t[i] = w[k]
         /\ \A k \in DOMAIN w \ gone : \E i \in DOMAIN t : t[i] = w[k]
BY DEF Window, KeptFrom

LEMMA WindowEvicted ==
  ASSUME NEW R, NEW key, NEW w, Window(w, R, key)
  PROVE  /\ Window(Evicted(w), R, key)
         /\ \A i \in DOMAIN Evicted(w) : \E k \in DOMAIN w : Evicted(w)[i] = w[k]
         /\ \A x : QueuedIn(Evicted(w), key, x) <=> QueuedIn(w, key, x)
<1>1. PICK gone \in SUBSET DOMAIN w :
        KeptFrom(Evicted(w), w, gone) /\ \A k \in gone : IsSettled(w[k])
  BY EvictedKeeps DEF Window
<1>2. Evicted(w) \in Seq(R)
  BY EvictedKeeps DEF Window
<1>3. /\ Window(Evicted(w), R, key)
      /\ \A i \in DOMAIN Evicted(w) : \E k \in DOMAIN w \ gone : Evicted(w)[i] = w[k]
      /\ \A k \in DOMAIN w \ gone : \E i \in DOMAIN Evicted(w) : Evicted(w)[i] = w[k]
  BY <1>1, <1>2, WindowKept
<1>4. \A k \in gone : w[k].status # "queued"
  BY <1>1 DEF IsSettled
<1>5. QED
  BY <1>3, <1>4 DEF QueuedIn

LEMMA Appended ==
  ASSUME NEW R, NEW w \in Seq(R), NEW r \in R
  PROVE  /\ Append(w, r) \in Seq(R)
         /\ Len(w) + 1 \notin DOMAIN w
         /\ DOMAIN Append(w, r) = DOMAIN w \cup {Len(w) + 1}
         /\ \A i \in DOMAIN w : Append(w, r)[i] = w[i]
         /\ Append(w, r)[Len(w) + 1] = r
<1>1. /\ Append(w, r) \in Seq(R) /\ Len(Append(w, r)) = Len(w) + 1
      /\ \A i \in 1..Len(w) : Append(w, r)[i] = w[i]
      /\ Append(w, r)[Len(w) + 1] = r
  BY AppendProperties
<1>2. Len(w) \in Nat /\ DOMAIN w = 1..Len(w) /\ DOMAIN Append(w, r) = 1..(Len(w) + 1)
  BY <1>1
<1>3. QED
  BY <1>1, <1>2

LEMMA WindowAppended ==
  ASSUME NEW R, NEW key, NEW w, NEW r \in R, Window(w, R, key),
         \A k \in DOMAIN w : w[k][key] # r[key], r.status = "queued"
  PROVE  /\ Window(Append(w, r), R, key)
         /\ \A i \in DOMAIN Append(w, r) : Append(w, r)[i] = r \/ \E k \in DOMAIN w : Append(w, r)[i] = w[k]
         /\ \A x : QueuedIn(Append(w, r), key, x) <=> QueuedIn(w, key, x) \/ x = r[key]
<1> PICK n : n = Len(w) + 1
  OBVIOUS
<1> PICK t : t = Append(w, r)
  OBVIOUS
<1>1. /\ t \in Seq(R) /\ n \notin DOMAIN w
      /\ DOMAIN t = DOMAIN w \cup {n}
      /\ \A i \in DOMAIN w : t[i] = w[i]
      /\ t[n] = r
  BY Appended DEF Window
<1>2. Window(t, R, key)
  BY <1>1 DEF Window
<1>3. \A i \in DOMAIN t : t[i] = r \/ \E k \in DOMAIN w : t[i] = w[k]
  BY <1>1
<1>4. \A x : QueuedIn(t, key, x) <=> QueuedIn(w, key, x) \/ x = r[key]
  BY <1>1 DEF QueuedIn
<1>5. QED
  BY <1>2, <1>3, <1>4

(* The same for the two windows.                                           *)
LEMMA RecordAppended ==
  ASSUME NEW w, NEW r \in Record, Window(w, Record, "event"),
         \A k \in DOMAIN w : w[k].event # r.event, r.status = "queued"
  PROVE  /\ Window(Append(w, r), Record, "event")
         /\ \A i \in DOMAIN Append(w, r) : Append(w, r)[i] = r \/ \E k \in DOMAIN w : Append(w, r)[i] = w[k]
         /\ \A x : QueuedIn(Append(w, r), "event", x) <=> QueuedIn(w, "event", x) \/ x = r.event
<1>1. \A k \in DOMAIN w : w[k]["event"] # r["event"]
  OBVIOUS
<1>2. Window(Append(w, r), Record, "event")
  BY <1>1, WindowAppended
<1>3. \A i \in DOMAIN Append(w, r) : Append(w, r)[i] = r \/ \E k \in DOMAIN w : Append(w, r)[i] = w[k]
  BY <1>1, WindowAppended
<1>4. \A x : QueuedIn(Append(w, r), "event", x) <=> QueuedIn(w, "event", x) \/ x = r.event
  <2>1. /\ Len(w) + 1 \notin DOMAIN w
        /\ DOMAIN Append(w, r) = DOMAIN w \cup {Len(w) + 1}
        /\ \A i \in DOMAIN w : Append(w, r)[i] = w[i]
        /\ Append(w, r)[Len(w) + 1] = r
    BY Appended DEF Window
  <2>n. PICK n : n = Len(w) + 1
    OBVIOUS
  <2>t. PICK t : t = Append(w, r)
    OBVIOUS
  <2>2. DOMAIN t = DOMAIN w \cup {n} /\ (\A i \in DOMAIN w : t[i] = w[i]) /\ t[n] = r
    BY <2>1, <2>n, <2>t
  <2>3. \A x : QueuedIn(t, "event", x) <=> QueuedIn(w, "event", x) \/ x = r.event
    BY <2>2 DEF QueuedIn
  <2>4. QED
    BY <2>3, <2>t
<1>5. QED
  BY <1>2, <1>3, <1>4

LEMMA ControlAppended ==
  ASSUME NEW w, NEW r \in Control, Window(w, Control, "command"),
         \A k \in DOMAIN w : w[k].command # r.command, r.status = "queued"
  PROVE  /\ Window(Append(w, r), Control, "command")
         /\ \A i \in DOMAIN Append(w, r) : Append(w, r)[i] = r \/ \E k \in DOMAIN w : Append(w, r)[i] = w[k]
         /\ \A x : QueuedIn(Append(w, r), "command", x) <=> QueuedIn(w, "command", x) \/ x = r.command
<1>1. \A k \in DOMAIN w : w[k]["command"] # r["command"]
  OBVIOUS
<1>2. Window(Append(w, r), Control, "command")
  BY <1>1, WindowAppended
<1>3. \A i \in DOMAIN Append(w, r) : Append(w, r)[i] = r \/ \E k \in DOMAIN w : Append(w, r)[i] = w[k]
  BY <1>1, WindowAppended
<1>4. \A x : QueuedIn(Append(w, r), "command", x) <=> QueuedIn(w, "command", x) \/ x = r.command
  <2>1. /\ Len(w) + 1 \notin DOMAIN w
        /\ DOMAIN Append(w, r) = DOMAIN w \cup {Len(w) + 1}
        /\ \A i \in DOMAIN w : Append(w, r)[i] = w[i]
        /\ Append(w, r)[Len(w) + 1] = r
    BY Appended DEF Window
  <2>n. PICK n : n = Len(w) + 1
    OBVIOUS
  <2>t. PICK t : t = Append(w, r)
    OBVIOUS
  <2>2. DOMAIN t = DOMAIN w \cup {n} /\ (\A i \in DOMAIN w : t[i] = w[i]) /\ t[n] = r
    BY <2>1, <2>n, <2>t
  <2>3. \A x : QueuedIn(t, "command", x) <=> QueuedIn(w, "command", x) \/ x = r.command
    BY <2>2 DEF QueuedIn
  <2>4. QED
    BY <2>3, <2>t
<1>5. QED
  BY <1>2, <1>3, <1>4

LEMMA QueueAppended ==
  ASSUME NEW q, NEW r \in Item, Queue(q),
         r.op = "reduce" => r.arg \in Envelopes,
         r.op = "cancel" => r.arg \in Commands,
         r.op # "begin" => ~HasItem(q, r.op, r.arg)
  PROVE  /\ Queue(Append(q, r))
         /\ \A op, x : HasItem(Append(q, r), op, x) <=> HasItem(q, op, x) \/ (op = r.op /\ x = r.arg)
<1> PICK n : n = Len(q) + 1
  OBVIOUS
<1> PICK t : t = Append(q, r)
  OBVIOUS
<1>1. /\ t \in Seq(Item) /\ n \notin DOMAIN q
      /\ DOMAIN t = DOMAIN q \cup {n}
      /\ \A i \in DOMAIN q : t[i] = q[i]
      /\ t[n] = r
  BY Appended DEF Queue
<1>2. Queue(t)
  BY <1>1 DEF Queue, HasItem
<1>3. \A op, x : HasItem(t, op, x) <=> HasItem(q, op, x) \/ (op = r.op /\ x = r.arg)
  BY <1>1 DEF HasItem
<1>4. QED
  BY <1>2, <1>3

LEMMA QueueTaken ==
  ASSUME NEW q, Queue(q), NEW n \in DOMAIN q
  PROVE  /\ Queue(RemoveAt(q, n))
         /\ \A op, x : op # "begin" =>
              (HasItem(RemoveAt(q, n), op, x) <=>
                 HasItem(q, op, x) /\ ~(op = q[n].op /\ x = q[n].arg))
<1>t. PICK t : t = RemoveAt(q, n)
  OBVIOUS
<1>1. t \in Seq(Item) /\ KeptFrom(t, q, {n})
  BY <1>t, RemoveKeeps DEF Queue
<1>2. PICK old \in [DOMAIN t -> DOMAIN q \ {n}] :
        /\ \A i, j \in DOMAIN t : old[i] = old[j] => i = j
        /\ \A i \in DOMAIN t : t[i] = q[old[i]]
        /\ \A k \in DOMAIN q \ {n} : \E i \in DOMAIN t : old[i] = k
  BY <1>1 DEF KeptFrom
<1>3. Queue(t)
  <2>1. /\ \A k \in DOMAIN t : t[k].op = "reduce" => t[k].arg \in Envelopes
        /\ \A k \in DOMAIN t : t[k].op = "cancel" => t[k].arg \in Commands
    BY <1>2 DEF Queue
  <2>2. ASSUME NEW j \in DOMAIN t, NEW k \in DOMAIN t,
               t[j].op = t[k].op, t[j].op # "begin", t[j].arg = t[k].arg
        PROVE  j = k
    <3>1. old[j] \in DOMAIN q /\ old[k] \in DOMAIN q /\ t[j] = q[old[j]] /\ t[k] = q[old[k]]
      BY <1>2
    <3>2. old[j] = old[k]
      BY <2>2, <3>1 DEF Queue
    <3>3. QED
      BY <1>2, <3>2
  <2>3. QED
    BY <1>1, <2>1, <2>2 DEF Queue
<1>4. ASSUME NEW op, NEW x, op # "begin"
      PROVE  HasItem(t, op, x) <=> HasItem(q, op, x) /\ ~(op = q[n].op /\ x = q[n].arg)
  <2>1. ASSUME HasItem(t, op, x) PROVE HasItem(q, op, x) /\ ~(op = q[n].op /\ x = q[n].arg)
    <3>1. PICK i \in DOMAIN t : t[i].op = op /\ t[i].arg = x
      BY <2>1 DEF HasItem
    <3>2. old[i] \in DOMAIN q /\ old[i] # n /\ q[old[i]].op = op /\ q[old[i]].arg = x
      BY <1>2, <3>1
    <3>3. QED
      BY <1>4, <3>2 DEF Queue, HasItem
  <2>2. ASSUME HasItem(q, op, x), ~(op = q[n].op /\ x = q[n].arg) PROVE HasItem(t, op, x)
    <3>1. PICK k \in DOMAIN q : q[k].op = op /\ q[k].arg = x
      BY <2>2 DEF HasItem
    <3>2. k \in DOMAIN q \ {n}
      BY <2>2, <3>1
    <3>3. PICK i \in DOMAIN t : old[i] = k
      BY <1>2, <3>2
    <3>4. QED
      BY <1>2, <3>1, <3>3 DEF HasItem
  <2>3. QED
    BY <2>1, <2>2
<1>5. QED
  BY <1>3, <1>4, <1>t

(* A promise that settles leaves its record's key as it was.               *)
LEMMA RecordSet ==
  ASSUME NEW w, Window(w, Record, "event"), NEW x, NEW st \in DeliveryStatuses, st # "queued"
  PROVE  /\ Window(SetStatus(w, "event", x, st), Record, "event")
         /\ DOMAIN SetStatus(w, "event", x, st) = DOMAIN w
         /\ \A k \in DOMAIN w :
              /\ SetStatus(w, "event", x, st)[k].event = w[k].event
              /\ SetStatus(w, "event", x, st)[k].status = IF w[k].event = x THEN st ELSE w[k].status
         /\ \A y : QueuedIn(SetStatus(w, "event", x, st), "event", y)
                     <=> QueuedIn(w, "event", y) /\ y # x
<1>t. PICK t : t = SetStatus(w, "event", x, st)
  OBVIOUS
<1>1. DOMAIN w = 1..Len(w) /\ Len(w) \in Nat /\ \A k \in DOMAIN w : w[k] \in Record
  BY DEF Window
<1>2. /\ DOMAIN t = DOMAIN w
      /\ \A k \in DOMAIN w : t[k] = IF w[k].event = x THEN [w[k] EXCEPT !.status = st] ELSE w[k]
  BY <1>t DEF SetStatus
<1>3. ASSUME NEW k \in DOMAIN w
      PROVE  /\ t[k] \in Record /\ t[k].event = w[k].event
             /\ t[k].status = IF w[k].event = x THEN st ELSE w[k].status
  <2>1. /\ [w[k] EXCEPT !.status = st] \in Record
        /\ [w[k] EXCEPT !.status = st].status = st
        /\ [w[k] EXCEPT !.status = st].event = w[k].event
    BY <1>1 DEF Record
  <2>2. QED
    BY <1>1, <1>2, <2>1
<1>4. t \in [1..Len(w) -> Record]
  BY <1>1, <1>2, <1>3, <1>t DEF SetStatus
<1>5. Window(t, Record, "event")
  BY <1>1, <1>2, <1>3, <1>4 DEF Window
<1>6. \A y : QueuedIn(t, "event", y) <=> QueuedIn(w, "event", y) /\ y # x
  BY <1>2, <1>3 DEF QueuedIn
<1>7. QED
  BY <1>2, <1>3, <1>5, <1>6, <1>t

LEMMA ControlSet ==
  ASSUME NEW w, Window(w, Control, "command"), NEW x, NEW st \in ControlStatuses, st # "queued"
  PROVE  /\ Window(SetStatus(w, "command", x, st), Control, "command")
         /\ DOMAIN SetStatus(w, "command", x, st) = DOMAIN w
         /\ \A k \in DOMAIN w :
              /\ SetStatus(w, "command", x, st)[k].command = w[k].command
              /\ SetStatus(w, "command", x, st)[k].generation = w[k].generation
              /\ SetStatus(w, "command", x, st)[k].status = IF w[k].command = x THEN st ELSE w[k].status
         /\ \A y : QueuedIn(SetStatus(w, "command", x, st), "command", y)
                     <=> QueuedIn(w, "command", y) /\ y # x
<1>t. PICK t : t = SetStatus(w, "command", x, st)
  OBVIOUS
<1>1. DOMAIN w = 1..Len(w) /\ Len(w) \in Nat /\ \A k \in DOMAIN w : w[k] \in Control
  BY DEF Window
<1>2. /\ DOMAIN t = DOMAIN w
      /\ \A k \in DOMAIN w : t[k] = IF w[k].command = x THEN [w[k] EXCEPT !.status = st] ELSE w[k]
  BY <1>t DEF SetStatus
<1>3. ASSUME NEW k \in DOMAIN w
      PROVE  /\ t[k] \in Control /\ t[k].command = w[k].command /\ t[k].generation = w[k].generation
             /\ t[k].status = IF w[k].command = x THEN st ELSE w[k].status
  <2>1. /\ [w[k] EXCEPT !.status = st] \in Control
        /\ [w[k] EXCEPT !.status = st].status = st
        /\ [w[k] EXCEPT !.status = st].command = w[k].command
        /\ [w[k] EXCEPT !.status = st].generation = w[k].generation
    BY <1>1 DEF Control
  <2>2. QED
    BY <1>1, <1>2, <2>1
<1>4. t \in [1..Len(w) -> Control]
  BY <1>1, <1>2, <1>3, <1>t DEF SetStatus
<1>5. Window(t, Control, "command")
  BY <1>1, <1>2, <1>3, <1>4 DEF Window
<1>6. \A y : QueuedIn(t, "command", y) <=> QueuedIn(w, "command", y) /\ y # x
  BY <1>2, <1>3 DEF QueuedIn
<1>7. QED
  BY <1>2, <1>3, <1>5, <1>6, <1>t

-------------------------------------------------------------------------------
(* What the calls are told.                                                *)

LEMMA Told ==
  ASSUME NEW v, CallsSound(call, v), NEW c \in Callers, NEW r \in CallRecord,
         r.answer = "applied" => r.arg \in Canonical /\ r.arg <= v
  PROVE  CallsSound([call EXCEPT ![c] = r], v)
BY DEF CallsSound

LEMMA Answered ==
  ASSUME NEW v, CallsSound(call, v), NEW on, NEW arg,
         NEW answer \in {"refused", "applied", "told"},
         answer = "applied" => arg \in Canonical /\ arg <= v
  PROVE  CallsSound(Answer(on, arg, answer), v)
<1>1. ASSUME NEW c \in Callers
      PROVE  /\ Answer(on, arg, answer)[c] \in CallRecord
             /\ Answer(on, arg, answer)[c].answer = "applied" =>
                  Answer(on, arg, answer)[c].arg \in Canonical /\ Answer(on, arg, answer)[c].arg <= v
  <2>1. CASE call[c] = [on |-> on, arg |-> arg, answer |-> "waiting"]
    <3>1. Answer(on, arg, answer)[c] = [call[c] EXCEPT !.answer = answer]
      BY <2>1 DEF Answer
    <3>2. call[c] \in CallRecord
      BY DEF CallsSound
    <3>3. /\ [call[c] EXCEPT !.answer = answer] \in CallRecord
          /\ [call[c] EXCEPT !.answer = answer].answer = answer
          /\ [call[c] EXCEPT !.answer = answer].arg = call[c].arg
      BY <3>2 DEF CallRecord
    <3>4. call[c].arg = arg
      BY <2>1
    <3>5. QED
      BY <3>1, <3>3, <3>4
  <2>2. CASE call[c] # [on |-> on, arg |-> arg, answer |-> "waiting"]
    BY <2>2 DEF Answer, CallsSound
  <2>3. QED
    BY <2>1, <2>2
<1>2. Answer(on, arg, answer) \in [Callers -> CallRecord]
  BY <1>1 DEF Answer
<1>3. QED
  BY <1>1, <1>2 DEF CallsSound

(* Awaiting and being refused are no answer applied.                       *)
LEMMA Awaited ==
  ASSUME ActorInv, NEW c \in Callers,
         NEW on \in {"delivery", "lookup", "begin", "cancel"},
         NEW arg \in Envelopes \cup Commands \cup {0},
         Await(c, on, arg) \/ Refuse(c, on, arg)
  PROVE  CallsSound(call', version)
<1>1. CASE Await(c, on, arg)
  <2>1. [on |-> on, arg |-> arg, answer |-> "waiting"] \in CallRecord
    BY DEF CallRecord
  <2>2. QED
    BY <1>1, <2>1, Told DEF Await, ActorInv
<1>2. CASE Refuse(c, on, arg)
  <2>1. [on |-> on, arg |-> arg, answer |-> "refused"] \in CallRecord
    BY DEF CallRecord
  <2>2. QED
    BY <1>2, <2>1, Told DEF Refuse, ActorInv
<1>3. QED
  BY <1>1, <1>2

-------------------------------------------------------------------------------
(* The calls.                                                              *)

LEMMA KnownDelivery ==
  ASSUME ActorInv, NEW c \in Callers, NEW e \in Envelopes, ApplyCanonicalEvent(c, e),
         Places(deliveries, "event", e) # {}
  PROVE  ActorInv'
<1>1. UNCHANGED <<version, deliveries, lookup, mailbox, activeGeneration,
                  nextGeneration, controls, silenced>>
  BY DEF ApplyCanonicalEvent
<1>2. CallsSound(call', version)
  <2>1. CASE \E k \in Places(deliveries, "event", e) : IsSettled(deliveries[k])
    <3>1. e \in Canonical /\ e <= version
      BY <2>1 DEF ActorInv, DeliveriesSound, Places, IsSettled
    <3>2. [on |-> "delivery", arg |-> e, answer |-> "applied"] \in CallRecord
      BY DEF CallRecord
    <3>3. call' = [call EXCEPT ![c] = [on |-> "delivery", arg |-> e, answer |-> "applied"]]
      BY <2>1 DEF ApplyCanonicalEvent
    <3>4. QED
      BY <3>1, <3>2, <3>3, Told DEF ActorInv
  <2>2. CASE ~\E k \in Places(deliveries, "event", e) : IsSettled(deliveries[k])
    <3>1. Await(c, "delivery", e)
      BY <2>2 DEF ApplyCanonicalEvent
    <3>2. QED
      BY <3>1, Awaited
  <2>3. QED
    BY <2>1, <2>2
<1>3. QED
  BY <1>1, <1>2 DEF ActorInv, ActorTyped, DeliveriesSound, ControlsSound, Matched, Silent,
     Window, Queue, QueuedIn, HasItem, CallsSound

LEMMA FreshDelivery ==
  ASSUME ActorInv, NEW c \in Callers, NEW e \in Envelopes, DeliverFresh(c, e),
         Places(deliveries, "event", e) = {}
  PROVE  ActorInv'
<1>w. PICK w : w = Evicted(deliveries)
  OBVIOUS
<1>r. PICK r : r = [event |-> e, status |-> "queued"]
  OBVIOUS
<1>1. /\ Window(w, Record, "event")
      /\ \A i \in DOMAIN w : \E k \in DOMAIN deliveries : w[i] = deliveries[k]
      /\ \A x : QueuedIn(w, "event", x) <=> QueuedIn(deliveries, "event", x)
  BY <1>w, WindowEvicted DEF ActorInv, DeliveriesSound
<1>2. \A k \in DOMAIN deliveries : deliveries[k].event # e
  BY DEF Places
<1>3. \A k \in DOMAIN w : w[k].event # e
  BY <1>1, <1>2
<1>4. r \in Record /\ r.event = e /\ r.status = "queued"
  BY <1>r DEF Record, DeliveryStatuses
<1>5. UNCHANGED <<version, lookup, activeGeneration, nextGeneration, controls, silenced>>
  BY DEF DeliverFresh
<1>6. CallsSound(call', version)
  BY Awaited DEF DeliverFresh
<1>7. DeliveriesSound' /\ Matched'
  <2>1. CASE Len(w) < MaxDedupe /\ HasRoom("canonical")
    <3>1. deliveries' = Append(w, r) /\ Enqueue("canonical", "reduce", e)
      BY <2>1, <1>w, <1>r DEF DeliverFresh
    <3>2. /\ Window(deliveries', Record, "event")
          /\ \A i \in DOMAIN deliveries' : deliveries'[i] = r \/ \E k \in DOMAIN w : deliveries'[i] = w[k]
          /\ \A x : QueuedIn(deliveries', "event", x) <=> QueuedIn(w, "event", x) \/ x = e
      BY <1>1, <1>3, <1>4, <3>1, RecordAppended
    <3>3. DeliveriesSound'
      <4>1. ASSUME NEW i \in DOMAIN deliveries', deliveries'[i].status \in {"reduced", "settled"}
            PROVE  deliveries'[i].event \in Canonical /\ deliveries'[i].event <= version
        <5>1. PICK k \in DOMAIN w : deliveries'[i] = w[k]
          BY <1>4, <3>2, <4>1
        <5>2. PICK j \in DOMAIN deliveries : w[k] = deliveries[j]
          BY <1>1
        <5>3. QED
          BY <4>1, <5>1, <5>2 DEF ActorInv, DeliveriesSound
      <4>2. QED
        BY <1>5, <3>2, <4>1 DEF DeliveriesSound
    <3>i. PICK item : item = [lane |-> "canonical", op |-> "reduce", arg |-> e]
      OBVIOUS
    <3>4. item \in Item /\ item.op = "reduce" /\ item.arg = e /\ mailbox' = Append(mailbox, item)
      BY <3>1, <3>i DEF Item, Enqueue
    <3>5. ~HasItem(mailbox, "reduce", e)
      BY <1>2 DEF ActorInv, Matched, QueuedIn
    <3>6. /\ Queue(mailbox')
          /\ \A op, x : HasItem(mailbox', op, x) <=> HasItem(mailbox, op, x) \/ (op = "reduce" /\ x = e)
      BY <3>4, <3>5, QueueAppended DEF ActorInv, Matched
    <3>7. Matched'
      <4>1. \A x \in Envelopes : QueuedIn(deliveries', "event", x) <=> HasItem(mailbox', "reduce", x)
        BY <1>1, <3>2, <3>6 DEF ActorInv, Matched
      <4>2. \A m \in Commands : QueuedIn(controls', "command", m) <=> HasItem(mailbox', "cancel", m)
        BY <1>5, <3>6 DEF ActorInv, Matched
      <4>3. QED
        BY <3>6, <4>1, <4>2 DEF Matched
    <3>8. QED
      BY <3>3, <3>7
  <2>2. CASE ~(Len(w) < MaxDedupe /\ HasRoom("canonical"))
    <3>1. deliveries' = w /\ mailbox' = mailbox
      BY <2>2, <1>w DEF DeliverFresh
    <3>2. DeliveriesSound'
      <4>1. ASSUME NEW i \in DOMAIN w, w[i].status \in {"reduced", "settled"}
            PROVE  w[i].event \in Canonical /\ w[i].event <= version
        <5>1. PICK j \in DOMAIN deliveries : w[i] = deliveries[j]
          BY <1>1
        <5>2. QED
          BY <4>1, <5>1 DEF ActorInv, DeliveriesSound
      <4>2. QED
        BY <1>1, <1>5, <3>1, <4>1 DEF DeliveriesSound
    <3>3. Matched'
      <4>1. \A x \in Envelopes : QueuedIn(deliveries', "event", x) <=> HasItem(mailbox', "reduce", x)
        BY <1>1, <3>1 DEF ActorInv, Matched
      <4>2. \A m \in Commands : QueuedIn(controls', "command", m) <=> HasItem(mailbox', "cancel", m)
        BY <1>5, <3>1 DEF ActorInv, Matched
      <4>3. QED
        BY <3>1, <4>1, <4>2 DEF ActorInv, Matched
    <3>4. QED
      BY <3>2, <3>3
  <2>3. QED
    BY <2>1, <2>2
<1>8. ActorTyped' /\ ControlsSound' /\ Silent'
  BY <1>5 DEF ActorInv, ActorTyped, ControlsSound, Silent
<1>9. QED
  BY <1>5, <1>6, <1>7, <1>8 DEF ActorInv

LEMMA HistoricalDelivery ==
  ASSUME ActorInv, NEW c \in Callers, NEW e \in Envelopes, DeliverHistorical(c, e)
  PROVE  ActorInv'
<1>1. UNCHANGED <<version, deliveries, mailbox, activeGeneration, nextGeneration, controls, silenced>>
  BY DEF DeliverHistorical
<1>2. CallsSound(call', version)
  BY Awaited DEF DeliverHistorical
<1>3. e \in Canonical => e <= version
  BY ActorAssumption DEF DeliverHistorical, VersionOf, Canonical
<1>4. ActorTyped'
  BY <1>1, <1>3 DEF DeliverHistorical, ActorInv, ActorTyped
<1>5. DeliveriesSound' /\ ControlsSound' /\ Matched' /\ Silent'
  BY <1>1 DEF ActorInv, DeliveriesSound, ControlsSound, Matched, Silent,
     Window, Queue, QueuedIn, HasItem
<1>6. QED
  BY <1>1, <1>2, <1>4, <1>5 DEF ActorInv

LEMMA LookupFinished ==
  ASSUME ActorInv, FinishLookup
  PROVE  ActorInv'
<1>1. /\ UNCHANGED <<version, deliveries, mailbox, activeGeneration, nextGeneration, controls, silenced>>
      /\ lookup' = 0
  BY DEF FinishLookup
<1>2. CallsSound(call', version)
  <2>1. PICK answer \in {"refused"} \cup (IF lookup \in Canonical THEN {"applied"} ELSE {}) :
          call' = Answer("lookup", lookup, answer)
    BY DEF FinishLookup
  <2>2. /\ answer \in {"refused", "applied", "told"}
        /\ answer = "applied" => lookup \in Canonical /\ lookup <= version
    BY <2>1 DEF ActorInv, ActorTyped
  <2>3. QED
    BY <2>1, <2>2, Answered DEF ActorInv
<1>3. ActorTyped'
  BY <1>1 DEF ActorInv, ActorTyped, Canonical
<1>4. DeliveriesSound' /\ ControlsSound' /\ Matched' /\ Silent'
  BY <1>1 DEF ActorInv, DeliveriesSound, ControlsSound, Matched, Silent,
     Window, Queue, QueuedIn, HasItem
<1>5. QED
  BY <1>1, <1>2, <1>3, <1>4 DEF ActorInv

LEMMA GenerationAsked ==
  ASSUME ActorInv, NEW c \in Callers, BeginGeneration(c)
  PROVE  ActorInv'
<1>1. UNCHANGED <<version, deliveries, lookup, activeGeneration, nextGeneration, controls, silenced>>
  BY DEF BeginGeneration
<1>2. CallsSound(call', version)
  BY Awaited DEF BeginGeneration
<1>3. /\ Queue(mailbox')
      /\ \A op, x : op # "begin" => (HasItem(mailbox', op, x) <=> HasItem(mailbox, op, x))
  <2>1. CASE HasRoom("control")
    <3>i. PICK item : item = [lane |-> "control", op |-> "begin", arg |-> c]
      OBVIOUS
    <3>1. item \in Item /\ item.op = "begin" /\ mailbox' = Append(mailbox, item)
      BY <2>1, <3>i DEF BeginGeneration, Enqueue, Item
    <3>2. QED
      BY <3>1, QueueAppended DEF ActorInv, Matched
  <2>2. CASE ~HasRoom("control")
    BY <2>2 DEF BeginGeneration, ActorInv, Matched
  <2>3. QED
    BY <2>1, <2>2
<1>4. Matched'
  <2>1. \A x \in Envelopes : QueuedIn(deliveries', "event", x) <=> HasItem(mailbox', "reduce", x)
    BY <1>1, <1>3 DEF ActorInv, Matched
  <2>2. \A m \in Commands : QueuedIn(controls', "command", m) <=> HasItem(mailbox', "cancel", m)
    BY <1>1, <1>3 DEF ActorInv, Matched
  <2>3. QED
    BY <1>3, <2>1, <2>2 DEF Matched
<1>5. ActorTyped' /\ DeliveriesSound' /\ ControlsSound' /\ Silent'
  BY <1>1 DEF ActorInv, ActorTyped, DeliveriesSound, ControlsSound, Silent, Window
<1>6. QED
  BY <1>1, <1>2, <1>4, <1>5 DEF ActorInv

LEMMA CancelAsked ==
  ASSUME ActorInv, NEW c \in Callers, NEW m \in Commands, NEW g \in Generations,
         CancelGeneration(c, m, g)
  PROVE  ActorInv'
<1>1. UNCHANGED <<version, deliveries, lookup, activeGeneration, nextGeneration, silenced>>
  BY DEF CancelGeneration
<1>2. CallsSound(call', version)
  <2>1. CASE call' = [call EXCEPT ![c] = [on |-> "cancel", arg |-> m, answer |-> "told"]]
    <3>1. [on |-> "cancel", arg |-> m, answer |-> "told"] \in CallRecord
      BY DEF CallRecord
    <3>2. QED
      BY <2>1, <3>1, Told DEF ActorInv
  <2>2. CASE Await(c, "cancel", m) \/ Refuse(c, "cancel", m)
    BY <2>2, Awaited
  <2>3. QED
    BY <2>1, <2>2 DEF CancelGeneration
<1>3. ControlsSound' /\ Matched'
  <2>1. CASE Places(controls, "command", m) # {}
    <3>1. UNCHANGED <<controls, mailbox>>
      BY <2>1 DEF CancelGeneration
    <3>2. QED
      BY <1>1, <3>1 DEF ActorInv, ControlsSound, Matched, Window, Queue, QueuedIn, HasItem
  <2>2. CASE Places(controls, "command", m) = {}
    <3>w. PICK w : w = Evicted(controls)
      OBVIOUS
    <3>r. PICK r : r = [command |-> m, generation |-> g, status |-> "queued"]
      OBVIOUS
    <3>1. /\ Window(w, Control, "command")
          /\ \A i \in DOMAIN w : \E k \in DOMAIN controls : w[i] = controls[k]
          /\ \A x : QueuedIn(w, "command", x) <=> QueuedIn(controls, "command", x)
      BY <3>w, WindowEvicted DEF ActorInv, ControlsSound
    <3>2. \A k \in DOMAIN controls : controls[k].command # m
      BY <2>2 DEF Places
    <3>3. \A k \in DOMAIN w : w[k].command # m
      BY <3>1, <3>2
    <3>4. r \in Control /\ r.command = m /\ r.status = "queued" /\ r.generation = g
      BY <3>r DEF Control, ControlStatuses
    <3>6. CASE Len(w) < MaxDedupe /\ HasRoom("safety")
      <4>1. controls' = Append(w, r) /\ Enqueue("safety", "cancel", m)
        BY <2>2, <3>6, <3>w, <3>r DEF CancelGeneration
      <4>2. /\ Window(controls', Control, "command")
            /\ \A i \in DOMAIN controls' : controls'[i] = r \/ \E k \in DOMAIN w : controls'[i] = w[k]
            /\ \A x : QueuedIn(controls', "command", x) <=> QueuedIn(w, "command", x) \/ x = m
        BY <3>1, <3>3, <3>4, <4>1, ControlAppended
      <4>3. ControlsSound'
        BY <4>2 DEF ControlsSound
      <4>i. PICK item : item = [lane |-> "safety", op |-> "cancel", arg |-> m]
        OBVIOUS
      <4>4. item \in Item /\ item.op = "cancel" /\ item.arg = m /\ mailbox' = Append(mailbox, item)
        BY <4>1, <4>i DEF Item, Enqueue
      <4>5. ~HasItem(mailbox, "cancel", m)
        BY <3>2 DEF ActorInv, Matched, QueuedIn
      <4>6. /\ Queue(mailbox')
            /\ \A op, x : HasItem(mailbox', op, x) <=> HasItem(mailbox, op, x) \/ (op = "cancel" /\ x = m)
        BY <4>4, <4>5, QueueAppended DEF ActorInv, Matched
      <4>7. Matched'
        <5>1. \A x \in Envelopes : QueuedIn(deliveries', "event", x) <=> HasItem(mailbox', "reduce", x)
          BY <1>1, <4>6 DEF ActorInv, Matched
        <5>2. \A x \in Commands : QueuedIn(controls', "command", x) <=> HasItem(mailbox', "cancel", x)
          BY <3>1, <4>2, <4>6 DEF ActorInv, Matched
        <5>3. QED
          BY <4>6, <5>1, <5>2 DEF Matched
      <4>8. QED
        BY <4>3, <4>7
    <3>7. CASE ~(Len(w) < MaxDedupe /\ HasRoom("safety"))
      <4>1. controls' = w /\ mailbox' = mailbox
        BY <2>2, <3>7, <3>w DEF CancelGeneration
      <4>2. ControlsSound'
        BY <3>1, <4>1 DEF ControlsSound
      <4>3. Matched'
        <5>1. \A x \in Envelopes : QueuedIn(deliveries', "event", x) <=> HasItem(mailbox', "reduce", x)
          BY <1>1, <4>1 DEF ActorInv, Matched
        <5>2. \A x \in Commands : QueuedIn(controls', "command", x) <=> HasItem(mailbox', "cancel", x)
          BY <3>1, <4>1 DEF ActorInv, Matched
        <5>3. QED
          BY <4>1, <5>1, <5>2 DEF ActorInv, Matched
      <4>4. QED
        BY <4>2, <4>3
    <3>8. QED
      BY <3>6, <3>7
  <2>3. QED
    BY <2>1, <2>2
<1>4. ActorTyped' /\ DeliveriesSound' /\ Silent'
  BY <1>1 DEF ActorInv, ActorTyped, DeliveriesSound, Silent, Window
<1>5. QED
  BY <1>1, <1>2, <1>3, <1>4 DEF ActorInv

-------------------------------------------------------------------------------
(* The microtasks.                                                         *)

(* An item taken out of the mailbox.                                       *)
LEMMA ItemTaken ==
  ASSUME ActorInv, mailbox # <<>>, mailbox' = RemoveAt(mailbox, NextItem)
  PROVE  /\ NextItem \in DOMAIN mailbox
         /\ Queue(mailbox')
         /\ \A op, x : op # "begin" =>
              (HasItem(mailbox', op, x) <=>
                 HasItem(mailbox, op, x) /\ ~(op = mailbox[NextItem].op /\ x = mailbox[NextItem].arg))
<1>1. NextItem \in DOMAIN mailbox
  BY NextItemIsThere DEF ActorInv, Matched, Queue
<1>2. QED
  BY <1>1, QueueTaken DEF ActorInv, Matched

(* An event is reduced only on the state just below it, and a presenter    *)
(* that changes silences all that was begun.                               *)
LEMMA Reduced ==
  ASSUME ActorInv, RunOne, mailbox[NextItem].op = "reduce",
         ReduceCanonicalEvent(mailbox[NextItem].arg),
         UNCHANGED <<nextGeneration, controls, call>>
  PROVE  ActorInv'
<1>e. PICK e : e = mailbox[NextItem].arg
  OBVIOUS
<1>1. /\ NextItem \in DOMAIN mailbox /\ Queue(mailbox')
      /\ \A op, x : op # "begin" =>
           (HasItem(mailbox', op, x) <=> HasItem(mailbox, op, x) /\ ~(op = "reduce" /\ x = e))
  BY <1>e, ItemTaken DEF RunOne
<1>2. e \in Envelopes /\ lookup' = lookup
  BY <1>1, <1>e DEF RunOne, ActorInv, Matched, Queue
<1>3. PICK st \in {"reduced", "rejected"} :
        /\ deliveries' = SetStatus(deliveries, "event", e, st)
        /\ st = "reduced" <=> e = version + 1 /\ ~Ended(version)
  BY <1>e DEF ReduceCanonicalEvent
<1>4. st \in DeliveryStatuses /\ st # "queued"
  BY DEF DeliveryStatuses
<1>5. /\ Window(deliveries', Record, "event")
      /\ DOMAIN deliveries' = DOMAIN deliveries
      /\ \A k \in DOMAIN deliveries :
           /\ deliveries'[k].event = deliveries[k].event
           /\ deliveries'[k].status = IF deliveries[k].event = e THEN st ELSE deliveries[k].status
      /\ \A y : QueuedIn(deliveries', "event", y) <=> QueuedIn(deliveries, "event", y) /\ y # e
  BY <1>3, <1>4, RecordSet DEF ActorInv, DeliveriesSound
<1>6. Matched'
  <2>1. \A x \in Envelopes : QueuedIn(deliveries', "event", x) <=> HasItem(mailbox', "reduce", x)
    BY <1>1, <1>5 DEF ActorInv, Matched
  <2>2. \A m \in Commands : QueuedIn(controls', "command", m) <=> HasItem(mailbox', "cancel", m)
    BY <1>1 DEF ActorInv, Matched
  <2>3. QED
    BY <1>1, <2>1, <2>2 DEF Matched
<1>7. /\ version \in Canonical /\ version' \in Canonical /\ version <= version'
      /\ st = "reduced" => e \in Canonical /\ e <= version'
      /\ activeGeneration' \in {0, activeGeneration}
      /\ activeGeneration' \in 0..nextGeneration
      /\ silenced' \subseteq 1..nextGeneration /\ activeGeneration' \notin silenced'
  <2>1. version \in Canonical /\ activeGeneration \in 0..nextGeneration /\ nextGeneration \in Nat
        /\ silenced \subseteq 1..nextGeneration /\ activeGeneration \notin silenced
    BY DEF ActorInv, ActorTyped, Silent
  <2>2. version \in Nat /\ version + 1 \in Nat
    BY <2>1, ActorAssumption DEF Canonical
  <2>3. CASE e = version + 1 /\ ~Ended(version)
    <3>1. e \in Canonical
      BY <1>2, <2>2, <2>3, ActorAssumption DEF Envelopes
    <3>2. version' = e
      BY <1>e, <2>3 DEF ReduceCanonicalEvent
    <3>3. \/ activeGeneration' = 0 /\ silenced' = 1..nextGeneration
          \/ UNCHANGED <<activeGeneration, silenced>>
      BY <1>e, <2>3 DEF ReduceCanonicalEvent
    <3>4. activeGeneration' \in {0, activeGeneration} /\ activeGeneration' \in 0..nextGeneration
          /\ silenced' \subseteq 1..nextGeneration /\ activeGeneration' \notin silenced'
      <4>1. CASE activeGeneration' = 0 /\ silenced' = 1..nextGeneration
        <5>1. 0 \notin 1..nextGeneration /\ 0 \in 0..nextGeneration
          BY <2>1
        <5>2. QED
          BY <4>1, <5>1
      <4>2. CASE UNCHANGED <<activeGeneration, silenced>>
        BY <2>1, <4>2
      <4>3. QED
        BY <3>3, <4>1, <4>2
    <3>5. QED
      BY <2>1, <2>2, <2>3, <3>1, <3>2, <3>4
  <2>4. CASE ~(e = version + 1 /\ ~Ended(version))
    <3>1. UNCHANGED <<version, activeGeneration, silenced>> /\ st # "reduced"
      BY <1>e, <1>3, <2>4 DEF ReduceCanonicalEvent
    <3>2. QED
      BY <2>1, <2>2, <3>1
  <2>5. QED
    BY <2>3, <2>4
<1>8. DeliveriesSound'
  <2>1. ASSUME NEW k \in DOMAIN deliveries, deliveries'[k].status \in {"reduced", "settled"}
        PROVE  deliveries'[k].event \in Canonical /\ deliveries'[k].event <= version'
    <3>1. CASE deliveries[k].event = e
      BY <1>5, <1>7, <2>1, <3>1
    <3>2. CASE deliveries[k].event # e
      <4>1. deliveries'[k].event = deliveries[k].event /\ deliveries'[k].status = deliveries[k].status
        BY <1>5, <3>2
      <4>2. deliveries[k].event \in Canonical /\ deliveries[k].event <= version
        BY <2>1, <4>1 DEF ActorInv, DeliveriesSound
      <4>3. QED
        BY <1>7, <4>1, <4>2, ActorAssumption DEF Canonical
    <3>3. QED
      BY <3>1, <3>2
  <2>2. QED
    BY <1>5, <2>1 DEF DeliveriesSound
<1>9. ActorTyped'
  <2>1. lookup \in Canonical => lookup <= version'
    BY <1>7, ActorAssumption DEF ActorInv, ActorTyped, Canonical
  <2>2. QED
    BY <1>2, <1>7, <2>1 DEF ActorInv, ActorTyped
<1>10. ControlsSound'
  BY <1>7 DEF ActorInv, ControlsSound, Window
<1>11. Silent'
  BY <1>7 DEF Silent
<1>12. CallsSound(call', version')
  BY <1>7, ActorAssumption DEF ActorInv, CallsSound, Canonical
<1>13. QED
  BY <1>6, <1>8, <1>9, <1>10, <1>11, <1>12 DEF ActorInv

LEMMA Begun ==
  ASSUME ActorInv, RunOne, mailbox[NextItem].op = "begin", RunBegin(mailbox[NextItem].arg),
         UNCHANGED <<version, deliveries, controls, silenced>>
  PROVE  ActorInv'
<1>c. PICK c : c = mailbox[NextItem].arg
  OBVIOUS
<1>1. /\ Queue(mailbox') /\ lookup' = lookup
      /\ \A op, x : op # "begin" => (HasItem(mailbox', op, x) <=> HasItem(mailbox, op, x))
  BY ItemTaken DEF RunOne
<1>2. Matched'
  <2>1. \A x \in Envelopes : QueuedIn(deliveries', "event", x) <=> HasItem(mailbox', "reduce", x)
    BY <1>1 DEF ActorInv, Matched
  <2>2. \A m \in Commands : QueuedIn(controls', "command", m) <=> HasItem(mailbox', "cancel", m)
    BY <1>1 DEF ActorInv, Matched
  <2>3. QED
    BY <1>1, <2>1, <2>2 DEF Matched
<1>3. DeliveriesSound'
  BY DEF ActorInv, DeliveriesSound, Window
<1>4. PICK answer \in {"refused", "begun"} : call' = [call EXCEPT ![c].answer = answer]
  BY <1>c DEF RunBegin
<1>5. CallsSound(call', version)
  <2>1. CASE c \in Callers
    <3>1. call[c] \in CallRecord
      BY <2>1 DEF ActorInv, CallsSound
    <3>2. /\ [call[c] EXCEPT !.answer = answer] \in CallRecord
          /\ [call[c] EXCEPT !.answer = answer].answer # "applied"
      BY <3>1 DEF CallRecord
    <3>3. call' = [call EXCEPT ![c] = [call[c] EXCEPT !.answer = answer]]
      BY <1>4
    <3>4. QED
      BY <2>1, <3>2, <3>3, Told DEF ActorInv
  <2>2. CASE c \notin Callers
    <3>1. call' = call
      BY <1>4, <2>2 DEF ActorInv, CallsSound
    <3>2. QED
      BY <3>1 DEF ActorInv
  <2>3. QED
    BY <2>1, <2>2
<1>6. nextGeneration \in Nat /\ activeGeneration \in 0..nextGeneration
  BY DEF ActorInv, ActorTyped
<1>7. \/ UNCHANGED <<activeGeneration, nextGeneration>>
      \/ nextGeneration' = nextGeneration + 1 /\ activeGeneration' = nextGeneration + 1
  BY DEF RunBegin
<1>8. ControlsSound'
  BY DEF ActorInv, ControlsSound, Window
<1>9. ActorTyped' /\ Silent'
  <2>1. nextGeneration' \in Nat /\ activeGeneration' \in 0..nextGeneration'
    BY <1>6, <1>7
  <2>2. silenced \subseteq 1..nextGeneration /\ activeGeneration \notin silenced
    BY DEF ActorInv, Silent
  <2>3. silenced \subseteq 1..nextGeneration' /\ activeGeneration' \notin silenced
    BY <1>6, <1>7, <2>2
  <2>4. QED
    BY <1>1, <2>1, <2>3 DEF ActorInv, ActorTyped, Silent
<1>10. QED
  BY <1>2, <1>3, <1>5, <1>8, <1>9 DEF ActorInv

LEMMA CommandRun ==
  ASSUME ActorInv, RunOne, mailbox[NextItem].op = "cancel", RunCancel(mailbox[NextItem].arg),
         UNCHANGED <<version, deliveries, nextGeneration, call>>
  PROVE  ActorInv'
<1>m. PICK m : m = mailbox[NextItem].arg
  OBVIOUS
<1>1. /\ NextItem \in DOMAIN mailbox /\ Queue(mailbox') /\ lookup' = lookup
      /\ \A op, x : op # "begin" =>
           (HasItem(mailbox', op, x) <=> HasItem(mailbox, op, x) /\ ~(op = "cancel" /\ x = m))
  BY <1>m, ItemTaken DEF RunOne
<1>2. m \in Commands
  BY <1>1, <1>m DEF ActorInv, Matched, Queue
<1>3. HasItem(mailbox, "cancel", m)
  BY <1>1, <1>m DEF HasItem
<1>4. PICK own \in DOMAIN controls : controls[own].command = m
  BY <1>2, <1>3 DEF ActorInv, Matched, QueuedIn
<1>5. Places(controls, "command", m) = {own}
  BY <1>4 DEF Places, ActorInv, ControlsSound, Window
<1>g. PICK g : g = controls[own].generation
  OBVIOUS
<1>6. /\ controls' = SetStatus(controls, "command", m,
                               IF activeGeneration = g THEN "cancelled" ELSE "stale")
      /\ activeGeneration' = IF activeGeneration = g THEN 0 ELSE activeGeneration
      /\ silenced' = silenced \cup ({g} \cap 1..nextGeneration)
  <2>1. (CHOOSE k \in Places(controls, "command", m) : TRUE) = own
    BY <1>5
  <2>2. QED
    BY <1>g, <1>m, <2>1 DEF RunCancel
<1>7. PICK st \in {"cancelled", "stale"} : controls' = SetStatus(controls, "command", m, st)
  BY <1>6
<1>8. /\ Window(controls', Control, "command")
      /\ DOMAIN controls' = DOMAIN controls
      /\ \A k \in DOMAIN controls :
           /\ controls'[k].command = controls[k].command
           /\ controls'[k].generation = controls[k].generation
           /\ controls'[k].status = IF controls[k].command = m THEN st ELSE controls[k].status
      /\ \A y : QueuedIn(controls', "command", y) <=> QueuedIn(controls, "command", y) /\ y # m
  <2>1. st \in ControlStatuses /\ st # "queued"
    BY DEF ControlStatuses
  <2>2. QED
    BY <1>7, <2>1, ControlSet DEF ActorInv, ControlsSound
<1>9. ControlsSound'
  BY <1>8 DEF ControlsSound
<1>10. Matched'
  <2>1. \A x \in Envelopes : QueuedIn(deliveries', "event", x) <=> HasItem(mailbox', "reduce", x)
    BY <1>1 DEF ActorInv, Matched
  <2>2. \A x \in Commands : QueuedIn(controls', "command", x) <=> HasItem(mailbox', "cancel", x)
    BY <1>1, <1>8 DEF ActorInv, Matched
  <2>3. QED
    BY <1>1, <2>1, <2>2 DEF Matched
<1>11. ActorTyped' /\ Silent'
  <2>1. /\ nextGeneration \in Nat /\ activeGeneration \in 0..nextGeneration
        /\ silenced \subseteq 1..nextGeneration /\ activeGeneration \notin silenced
    BY DEF ActorInv, ActorTyped, Silent
  <2>2. silenced' \subseteq 1..nextGeneration
    BY <1>6, <2>1
  <2>3. activeGeneration' \in 0..nextGeneration /\ activeGeneration' \notin silenced'
    <3>1. CASE activeGeneration = g
      <4>1. activeGeneration' = 0
        BY <1>6, <3>1
      <4>2. 0 \notin silenced'
        BY <2>1, <2>2
      <4>3. QED
        BY <2>1, <4>1, <4>2
    <3>2. CASE activeGeneration # g
      <4>1. activeGeneration' = activeGeneration
        BY <1>6, <3>2
      <4>2. activeGeneration \notin silenced'
        BY <1>6, <2>1, <3>2
      <4>3. QED
        BY <2>1, <4>1, <4>2
    <3>3. QED
      BY <3>1, <3>2
  <2>4. QED
    BY <1>1, <2>1, <2>2, <2>3 DEF ActorInv, ActorTyped, Silent
<1>12. DeliveriesSound' /\ CallsSound(call', version')
  BY DEF ActorInv, DeliveriesSound, Window, CallsSound
<1>13. QED
  BY <1>9, <1>10, <1>11, <1>12 DEF ActorInv

LEMMA DeliverySettled ==
  ASSUME ActorInv, NEW k \in DOMAIN deliveries, SettleDelivery(k)
  PROVE  ActorInv'
<1>1. UNCHANGED <<version, lookup, mailbox, activeGeneration, nextGeneration, controls, silenced>>
  BY DEF SettleDelivery
<1>r. deliveries[k] \in Record /\ deliveries \in Seq(Record)
  BY DEF ActorInv, DeliveriesSound, Window
<1>2. CallsSound(call', version)
  <2>1. deliveries[k].status = "reduced" =>
          deliveries[k].event \in Canonical /\ deliveries[k].event <= version
    BY DEF ActorInv, DeliveriesSound
  <2>2. QED
    BY <2>1, Answered DEF SettleDelivery, ActorInv
<1>3. /\ Window(deliveries', Record, "event")
      /\ \A i \in DOMAIN deliveries' : deliveries'[i].status \in {"reduced", "settled"} =>
           deliveries'[i].event \in Canonical /\ deliveries'[i].event <= version
      /\ \A x : QueuedIn(deliveries', "event", x) <=> QueuedIn(deliveries, "event", x)
  <2>1. CASE deliveries[k].status = "reduced"
    <3>1. deliveries' = [deliveries EXCEPT ![k].status = "settled"]
      BY <2>1 DEF SettleDelivery
    <3>2. PICK r : r = [deliveries[k] EXCEPT !.status = "settled"]
      OBVIOUS
    <3>3. r \in Record /\ r.status = "settled" /\ r.event = deliveries[k].event
      BY <1>r, <3>2 DEF Record, DeliveryStatuses
    <3>4. deliveries' = [deliveries EXCEPT ![k] = r]
      BY <3>1, <3>2
    <3>5. /\ DOMAIN deliveries' = DOMAIN deliveries
          /\ deliveries' \in Seq(Record)
          /\ \A i \in DOMAIN deliveries : deliveries'[i] = IF i = k THEN r ELSE deliveries[i]
      BY <1>r, <3>3, <3>4
    <3>6. Window(deliveries', Record, "event")
      BY <3>3, <3>5 DEF ActorInv, DeliveriesSound, Window
    <3>7. \A i \in DOMAIN deliveries' : deliveries'[i].status \in {"reduced", "settled"} =>
            deliveries'[i].event \in Canonical /\ deliveries'[i].event <= version
      BY <2>1, <3>3, <3>5 DEF ActorInv, DeliveriesSound
    <3>8. \A x : QueuedIn(deliveries', "event", x) <=> QueuedIn(deliveries, "event", x)
      BY <2>1, <3>3, <3>5 DEF QueuedIn
    <3>9. QED
      BY <3>6, <3>7, <3>8
  <2>2. CASE deliveries[k].status # "reduced"
    <3>t. PICK t : t = RemoveAt(deliveries, k)
      OBVIOUS
    <3>1. deliveries' = t /\ deliveries[k].status = "rejected"
      BY <2>2, <3>t DEF SettleDelivery
    <3>2. t \in Seq(Record) /\ KeptFrom(t, deliveries, {k})
      BY <1>r, <3>t, RemoveKeeps
    <3>3. /\ Window(t, Record, "event")
          /\ \A i \in DOMAIN t : \E j \in DOMAIN deliveries \ {k} : t[i] = deliveries[j]
          /\ \A j \in DOMAIN deliveries \ {k} : \E i \in DOMAIN t : t[i] = deliveries[j]
      BY <3>2, WindowKept DEF ActorInv, DeliveriesSound
    <3>4. \A i \in DOMAIN t : t[i].status \in {"reduced", "settled"} =>
            t[i].event \in Canonical /\ t[i].event <= version
      BY <3>3 DEF ActorInv, DeliveriesSound
    <3>5. \A x : QueuedIn(t, "event", x) <=> QueuedIn(deliveries, "event", x)
      BY <3>1, <3>3 DEF QueuedIn
    <3>6. QED
      BY <3>1, <3>3, <3>4, <3>5
  <2>3. QED
    BY <2>1, <2>2
<1>4. DeliveriesSound'
  BY <1>1, <1>3 DEF DeliveriesSound
<1>5. Matched'
  <2>1. \A x \in Envelopes : QueuedIn(deliveries', "event", x) <=> HasItem(mailbox', "reduce", x)
    BY <1>1, <1>3 DEF ActorInv, Matched
  <2>2. \A m \in Commands : QueuedIn(controls', "command", m) <=> HasItem(mailbox', "cancel", m)
    BY <1>1 DEF ActorInv, Matched
  <2>3. QED
    BY <1>1, <2>1, <2>2 DEF ActorInv, Matched
<1>6. ActorTyped' /\ ControlsSound' /\ Silent'
  BY <1>1 DEF ActorInv, ActorTyped, ControlsSound, Silent, Window
<1>7. QED
  BY <1>1, <1>2, <1>4, <1>5, <1>6 DEF ActorInv

LEMMA ControlSettled ==
  ASSUME ActorInv, NEW k \in DOMAIN controls, SettleControl(k)
  PROVE  ActorInv'
<1>1. /\ UNCHANGED <<version, deliveries, lookup, mailbox, activeGeneration, nextGeneration, silenced>>
      /\ controls[k].status \in {"cancelled", "stale"}
      /\ controls' = [controls EXCEPT ![k].status = "settled"]
      /\ call' = Answer("cancel", controls[k].command, "told")
  BY DEF SettleControl
<1>2. CallsSound(call', version)
  BY <1>1, Answered DEF ActorInv
<1>3. controls[k] \in Control /\ controls \in Seq(Control)
  BY DEF ActorInv, ControlsSound, Window
<1>4. PICK r : r = [controls[k] EXCEPT !.status = "settled"]
  OBVIOUS
<1>5. /\ r \in Control /\ r.status = "settled"
      /\ r.command = controls[k].command /\ r.generation = controls[k].generation
  BY <1>3, <1>4 DEF Control, ControlStatuses
<1>6. /\ DOMAIN controls' = DOMAIN controls
      /\ controls' \in Seq(Control)
      /\ \A i \in DOMAIN controls : controls'[i] = IF i = k THEN r ELSE controls[i]
  <2>1. controls' = [controls EXCEPT ![k] = r]
    BY <1>1, <1>4
  <2>2. QED
    BY <1>3, <1>5, <2>1
<1>7. ControlsSound'
  BY <1>5, <1>6 DEF ActorInv, ControlsSound, Window
<1>8. Matched'
  <2>1. \A x : QueuedIn(controls', "command", x) <=> QueuedIn(controls, "command", x)
    BY <1>1, <1>5, <1>6 DEF QueuedIn
  <2>2. \A x \in Envelopes : QueuedIn(deliveries', "event", x) <=> HasItem(mailbox', "reduce", x)
    BY <1>1 DEF ActorInv, Matched
  <2>3. \A m \in Commands : QueuedIn(controls', "command", m) <=> HasItem(mailbox', "cancel", m)
    BY <1>1, <2>1 DEF ActorInv, Matched
  <2>4. QED
    BY <1>1, <2>2, <2>3 DEF ActorInv, Matched
<1>9. Silent'
  BY <1>1 DEF ActorInv, Silent
<1>10. ActorTyped' /\ DeliveriesSound'
  BY <1>1 DEF ActorInv, ActorTyped, DeliveriesSound, Window
<1>11. QED
  BY <1>1, <1>2, <1>7, <1>8, <1>9, <1>10 DEF ActorInv

-------------------------------------------------------------------------------
LEMMA ActorInvInit == ActorInit => ActorInv
<1> SUFFICES ASSUME ActorInit PROVE ActorInv
  OBVIOUS
<1>n. PICK n : n = IF version < MaxDedupe THEN version ELSE MaxDedupe
  OBVIOUS
<1>1. version \in Nat \ {0} /\ version \in Canonical /\ n \in Nat /\ n <= version /\ MaxVersion \in Nat
  BY <1>n, ActorAssumption DEF ActorInit, Canonical
<1>2. deliveries = [k \in 1..n |-> [event |-> version - n + k, status |-> "settled"]]
  BY <1>n DEF ActorInit
<1>3. \A k \in 1..n : version - n + k \in Canonical /\ version - n + k <= version
  BY <1>1 DEF Canonical
<1>4. /\ DOMAIN deliveries = 1..n
      /\ \A k \in 1..n : /\ deliveries[k] = [event |-> version - n + k, status |-> "settled"]
                         /\ deliveries[k].event = version - n + k
                         /\ deliveries[k].status = "settled"
  BY <1>2
<1>5. \A k \in 1..n : [event |-> version - n + k, status |-> "settled"] \in Record
  BY <1>3 DEF Record, Envelopes, DeliveryStatuses
<1>6. deliveries \in Seq(Record)
  <2>1. deliveries \in [1..n -> Record]
    BY <1>2, <1>5
  <2>2. QED
    BY <1>1, <2>1
<1>7. DeliveriesSound
  <2>1. \A j, k \in 1..n : version - n + j = version - n + k => j = k
    BY <1>1
  <2>2. Window(deliveries, Record, "event")
    BY <1>4, <1>6, <2>1 DEF Window
  <2>3. QED
    BY <1>3, <1>4, <2>2 DEF DeliveriesSound
<1>8. controls = <<>> /\ mailbox = <<>> /\ DOMAIN controls = {} /\ DOMAIN mailbox = {}
  BY DEF ActorInit
<1>9. ControlsSound
  BY <1>8 DEF ControlsSound, Window
<1>10. Matched
  <2>1. Queue(mailbox)
    BY <1>8 DEF Queue
  <2>2. \A x : ~QueuedIn(deliveries, "event", x)
    BY <1>4 DEF QueuedIn
  <2>3. \A x : ~QueuedIn(controls, "command", x)
    BY <1>8 DEF QueuedIn
  <2>4. \A op, x : ~HasItem(mailbox, op, x)
    BY <1>8 DEF HasItem
  <2>5. QED
    BY <2>1, <2>2, <2>3, <2>4 DEF Matched
<1>11. ActorTyped /\ Silent
  BY <1>1 DEF ActorInit, ActorTyped, Silent, Canonical
<1>12. CallsSound(call, version)
  BY DEF ActorInit, CallsSound, Idle, CallRecord
<1>13. QED
  BY <1>7, <1>9, <1>10, <1>11, <1>12 DEF ActorInv

LEMMA ActorInvNext == ActorInv /\ [ActorNext]_actorVars => ActorInv'
<1> SUFFICES ASSUME ActorInv, [ActorNext]_actorVars PROVE ActorInv'
  OBVIOUS
<1>1. ASSUME NEW c \in Callers, NEW e \in Canonical \cup Foreign, ApplyCanonicalEvent(c, e)
      PROVE  ActorInv'
  <2>1. e \in Envelopes
    BY DEF Envelopes
  <2>2. CASE Places(deliveries, "event", e) # {}
    BY <1>1, <2>1, <2>2, KnownDelivery
  <2>3. CASE Places(deliveries, "event", e) = {}
    <3>1. DeliverFresh(c, e) \/ DeliverHistorical(c, e)
      BY <1>1, <2>3 DEF ApplyCanonicalEvent
    <3>2. QED
      BY <2>1, <2>3, <3>1, FreshDelivery, HistoricalDelivery
  <2>4. QED
    BY <2>2, <2>3
<1>2. ASSUME NEW c \in Callers, BeginGeneration(c) PROVE ActorInv'
  BY <1>2, GenerationAsked
<1>3. ASSUME NEW c \in Callers, NEW m \in Commands, NEW g \in Generations, CancelGeneration(c, m, g)
      PROVE  ActorInv'
  BY <1>3, CancelAsked
<1>4. CASE FinishLookup
  BY <1>4, LookupFinished
<1>5. CASE RunOne
  <2>1. \/ /\ mailbox[NextItem].op = "reduce" /\ ReduceCanonicalEvent(mailbox[NextItem].arg)
           /\ UNCHANGED <<nextGeneration, controls, call>>
        \/ /\ mailbox[NextItem].op = "begin" /\ RunBegin(mailbox[NextItem].arg)
           /\ UNCHANGED <<version, deliveries, controls, silenced>>
        \/ /\ mailbox[NextItem].op = "cancel" /\ RunCancel(mailbox[NextItem].arg)
           /\ UNCHANGED <<version, deliveries, nextGeneration, call>>
    BY <1>5 DEF RunOne
  <2>2. QED
    BY <1>5, <2>1, Reduced, Begun, CommandRun
<1>6. ASSUME NEW k \in DOMAIN deliveries, SettleDelivery(k) PROVE ActorInv'
  BY <1>6, DeliverySettled
<1>7. ASSUME NEW k \in DOMAIN controls, SettleControl(k) PROVE ActorInv'
  BY <1>7, ControlSettled
<1>8. CASE UNCHANGED actorVars
  BY <1>8 DEF actorVars, ActorInv, ActorTyped, DeliveriesSound, ControlsSound,
     Matched, Silent,
     CallsSound, Window, Queue, QueuedIn, HasItem
<1>9. QED
  BY <1>1, <1>2, <1>3, <1>4, <1>5, <1>6, <1>7, <1>8 DEF ActorNext, ActorMicrotask

(* Sets of at most one place are equally large when they are empty         *)
(* together.                                                               *)
LEMMA AtMostOne ==
  ASSUME NEW T, \A x, y \in T : x = y
  PROVE  Cardinality(T) = IF T = {} THEN 0 ELSE 1
<1>1. CASE T = {}
  BY <1>1, FS_EmptySet
<1>2. CASE T # {}
  <2>1. PICK x \in T : TRUE
    BY <1>2
  <2>2. T = {x}
    BY <2>1
  <2>3. QED
    BY <1>2, <2>2, FS_Singleton
<1>3. QED
  BY <1>1, <1>2

LEMMA InvRemembers == ActorInv => DeliveriesAreRemembered
<1> SUFFICES ASSUME ActorInv PROVE DeliveriesAreRemembered
  OBVIOUS
<1>1. AppliedMeansInState
  BY DEF ActorInv, CallsSound, AppliedMeansInState
<1>2. ASSUME NEW e \in Canonical \cup Foreign
      PROVE  /\ Cardinality(Places(deliveries, "event", e)) <= 1
             /\ Cardinality({k \in Places(mailbox, "op", "reduce") : mailbox[k].arg = e})
                  = Cardinality({k \in Places(deliveries, "event", e) : deliveries[k].status = "queued"})
  <2>p. PICK P : P = Places(deliveries, "event", e)
    OBVIOUS
  <2>q. PICK Q : Q = {k \in Places(mailbox, "op", "reduce") : mailbox[k].arg = e}
    OBVIOUS
  <2>r. PICK R : R = {k \in Places(deliveries, "event", e) : deliveries[k].status = "queued"}
    OBVIOUS
  <2>1. \A x, y \in P : x = y
    BY <2>p DEF Places, ActorInv, DeliveriesSound, Window
  <2>2. \A x, y \in Q : x = y
    BY <2>q DEF Places, ActorInv, Matched, Queue
  <2>3. \A x, y \in R : x = y
    BY <2>1, <2>p, <2>r
  <2>4. Q = {} <=> R = {}
    <3>1. Q # {} <=> HasItem(mailbox, "reduce", e)
      BY <2>q DEF Places, HasItem
    <3>2. R # {} <=> QueuedIn(deliveries, "event", e)
      BY <2>r DEF Places, QueuedIn
    <3>3. QED
      BY <3>1, <3>2 DEF ActorInv, Matched, Envelopes
  <2>5. Cardinality(P) = IF P = {} THEN 0 ELSE 1
    BY <2>1, AtMostOne
  <2>6. Cardinality(Q) = IF Q = {} THEN 0 ELSE 1
    BY <2>2, AtMostOne
  <2>7. Cardinality(R) = IF R = {} THEN 0 ELSE 1
    BY <2>3, AtMostOne
  <2>8. Cardinality(P) <= 1 /\ Cardinality(Q) = Cardinality(R)
    BY <2>4, <2>5, <2>6, <2>7
  <2>9. QED
    BY <2>8, <2>p, <2>q, <2>r
<1>3. \A k \in DOMAIN deliveries :
        deliveries[k].status \in {"reduced", "settled"} => deliveries[k].event <= version
  BY DEF ActorInv, DeliveriesSound
<1>4. ASSUME NEW m \in Commands
      PROVE  Cardinality({k \in Places(mailbox, "op", "cancel") : mailbox[k].arg = m})
               = Cardinality({k \in Places(controls, "command", m) : controls[k].status = "queued"})
  <2>q. PICK Q : Q = {k \in Places(mailbox, "op", "cancel") : mailbox[k].arg = m}
    OBVIOUS
  <2>r. PICK R : R = {k \in Places(controls, "command", m) : controls[k].status = "queued"}
    OBVIOUS
  <2>1. \A x, y \in Q : x = y
    BY <2>q DEF Places, ActorInv, Matched, Queue
  <2>2. \A x, y \in R : x = y
    BY <2>r DEF Places, ActorInv, ControlsSound, Window
  <2>3. Q = {} <=> R = {}
    <3>1. Q # {} <=> HasItem(mailbox, "cancel", m)
      BY <2>q DEF Places, HasItem
    <3>2. R # {} <=> QueuedIn(controls, "command", m)
      BY <2>r DEF Places, QueuedIn
    <3>3. QED
      BY <3>1, <3>2 DEF ActorInv, Matched
  <2>4. Cardinality(Q) = IF Q = {} THEN 0 ELSE 1
    BY <2>1, AtMostOne
  <2>5. Cardinality(R) = IF R = {} THEN 0 ELSE 1
    BY <2>2, AtMostOne
  <2>6. Cardinality(Q) = Cardinality(R)
    BY <2>3, <2>4, <2>5
  <2>7. QED
    BY <2>6, <2>q, <2>r
<1>5. WindowMatchesMailbox
  BY <1>2, <1>3, <1>4 DEF WindowMatchesMailbox
<1>6. QED
  BY <1>1, <1>5 DEF DeliveriesAreRemembered

LEMMA ActorInductive == ActorSpec => []ActorInv
  BY ActorInvInit, ActorInvNext, PTL DEF ActorSpec

(* The windows, the mailbox and what callers were told tell one story: an  *)
(* event or a command has at most one record, a record waits exactly while *)
(* its item is queued, and applied is said only of committed events the    *)
(* state has, after any order of deliveries, evictions and retries         *)
(* (applyCanonicalEvent, cancelGeneration, #runOne).                       *)
THEOREM DeliveriesRemembered == ActorSpec => []DeliveriesAreRemembered
  BY ActorInductive, InvRemembers, PTL

(* A generation that had begun when a cancellation of it ran, when the     *)
(* presenter changed or when the session ended never publishes again: the  *)
(* one on air is the last one begun, and numbers are never given twice     *)
(* (canPublish, beginGeneration, cancelGeneration, #reduceCanonicalEvent). *)
THEOREM SilencedForGood == ActorSpec => []SilencedStaysSilent
<1>1. ActorInv => SilencedStaysSilent
  BY DEF ActorInv, Silent, SilencedStaysSilent, CanPublish
<1>2. QED
  BY <1>1, ActorInductive, PTL

-------------------------------------------------------------------------------
(* The bounds of the actor: its windows, the lanes of its mailbox, and the *)
(* generations it numbers.                                                 *)

OfLanes(q, T) == {k \in DOMAIN q : q[k].lane \in T}

ActorBounds ==
  /\ calls \in Nat /\ calls <= MaxCalls
  /\ nextGeneration + Len(mailbox) <= calls
  /\ Len(deliveries) <= MaxDedupe /\ Len(controls) <= MaxDedupe
  /\ Cardinality(OfLanes(mailbox, {"canonical", "control"})) < MailboxCapacity
  /\ Cardinality(OfLanes(mailbox, {"safety"})) <= MailboxCapacity

LEMMA LaneFinite ==
  ASSUME NEW S, NEW q \in Seq(S), NEW T
  PROVE  /\ IsFiniteSet(OfLanes(q, T)) /\ Cardinality(OfLanes(q, T)) \in Nat
         /\ Cardinality(OfLanes(q, T)) <= Len(q)
<1>1. Len(q) \in Nat /\ DOMAIN q = 1..Len(q)
  OBVIOUS
<1>2. IsFiniteSet(1..Len(q)) /\ Cardinality(1..Len(q)) = Len(q)
  BY <1>1, FS_Interval
<1>3. OfLanes(q, T) \subseteq 1..Len(q)
  BY <1>1 DEF OfLanes
<1>4. IsFiniteSet(OfLanes(q, T)) /\ Cardinality(OfLanes(q, T)) <= Cardinality(1..Len(q))
  BY <1>2, <1>3, FS_Subset
<1>5. QED
  BY <1>2, <1>4, FS_CardinalityType

(* An item joins its lane and no other.                                    *)
LEMMA LaneAppended ==
  ASSUME NEW q \in Seq(Item), NEW r \in Item, NEW T
  PROVE  Cardinality(OfLanes(Append(q, r), T))
           = Cardinality(OfLanes(q, T)) + (IF r.lane \in T THEN 1 ELSE 0)
<1>n. PICK n : n = Len(q) + 1
  OBVIOUS
<1>t. PICK t : t = Append(q, r)
  OBVIOUS
<1>1. /\ n \notin DOMAIN q /\ DOMAIN t = DOMAIN q \cup {n}
      /\ \A i \in DOMAIN q : t[i] = q[i]
      /\ t[n] = r
  BY <1>n, <1>t, Appended
<1>2. IsFiniteSet(OfLanes(q, T)) /\ Cardinality(OfLanes(q, T)) \in Nat
  BY LaneFinite
<1>3. CASE r.lane \in T
  <2>1. OfLanes(t, T) = OfLanes(q, T) \cup {n} /\ n \notin OfLanes(q, T)
    BY <1>1, <1>3 DEF OfLanes
  <2>2. Cardinality(OfLanes(t, T)) = Cardinality(OfLanes(q, T)) + 1
    BY <1>2, <2>1, FS_AddElement
  <2>3. QED
    BY <1>t, <1>3, <2>2
<1>4. CASE r.lane \notin T
  <2>1. OfLanes(t, T) = OfLanes(q, T)
    BY <1>1, <1>4 DEF OfLanes
  <2>2. QED
    BY <1>t, <1>2, <1>4, <2>1
<1>5. QED
  BY <1>3, <1>4

(* What is taken out of the mailbox fills no lane.                         *)
LEMMA LaneTaken ==
  ASSUME NEW q \in Seq(Item), NEW n \in DOMAIN q, NEW T
  PROVE  Cardinality(OfLanes(RemoveAt(q, n), T)) <= Cardinality(OfLanes(q, T))
<1>t. PICK t : t = RemoveAt(q, n)
  OBVIOUS
<1>1. t \in Seq(Item) /\ KeptFrom(t, q, {n})
  BY <1>t, RemoveKeeps
<1>2. PICK old \in [DOMAIN t -> DOMAIN q \ {n}] :
        /\ \A i, j \in DOMAIN t : old[i] = old[j] => i = j
        /\ \A i \in DOMAIN t : t[i] = q[old[i]]
        /\ \A k \in DOMAIN q \ {n} : \E i \in DOMAIN t : old[i] = k
  BY <1>1 DEF KeptFrom
<1>f. PICK f : f = [i \in OfLanes(t, T) |-> old[i]]
  OBVIOUS
<1>3. f \in [OfLanes(t, T) -> OfLanes(q, T)]
  BY <1>2, <1>f DEF OfLanes
<1>4. \A i, j \in OfLanes(t, T) : f[i] = f[j] => i = j
  BY <1>2, <1>f DEF OfLanes
<1>5. f \in Injection(OfLanes(t, T), OfLanes(q, T))
  BY <1>3, <1>4 DEF Injection, IsInjective
<1>6. IsFiniteSet(OfLanes(q, T))
  BY LaneFinite
<1>7. Cardinality(OfLanes(t, T)) <= Cardinality(OfLanes(q, T))
  BY <1>5, <1>6, FS_Injection DEF ExistsInjection
<1>8. QED
  BY <1>7, <1>t

(* The lanes that are not safety's, as HasRoom counts them.                *)
LEMMA NormalLanes ==
  ASSUME mailbox \in Seq(Item)
  PROVE  /\ Normal = OfLanes(mailbox, {"canonical", "control"})
         /\ Places(mailbox, "lane", "safety") = OfLanes(mailbox, {"safety"})
<1>1. ASSUME NEW k \in DOMAIN mailbox
      PROVE  mailbox[k].lane \in {"canonical", "control", "safety"}
  <2>1. mailbox[k] \in Item
    OBVIOUS
  <2>2. QED
    BY <2>1 DEF Item
<1>2. QED
  BY <1>1 DEF Normal, Places, OfLanes

LEMMA EvictedShorter ==
  ASSUME NEW S, NEW w \in Seq(S)
  PROVE  Len(Evicted(w)) <= Len(w)
<1>1. CASE Len(w) < MaxDedupe \/ ~\E k \in DOMAIN w : IsSettled(w[k])
  BY <1>1 DEF Evicted
<1>2. CASE ~(Len(w) < MaxDedupe \/ ~\E k \in DOMAIN w : IsSettled(w[k]))
  <2>n. PICK n : n = CHOOSE k \in DOMAIN w :
                      IsSettled(w[k]) /\ \A j \in 1..(k - 1) : ~IsSettled(w[j])
    OBVIOUS
  <2>t. PICK T : T = {k \in DOMAIN w : IsSettled(w[k])}
    OBVIOUS
  <2>1. T \in SUBSET Nat /\ T # {} /\ DOMAIN w = 1..Len(w) /\ Len(w) \in Nat
    BY <1>2, <2>t
  <2>2. PICK x \in T : \A y \in T : x <= y
    BY <2>1, LeastNumber
  <2>3. x \in DOMAIN w /\ IsSettled(w[x]) /\ \A j \in 1..(x - 1) : ~IsSettled(w[j])
    BY <2>1, <2>2, <2>t
  <2>4. n \in DOMAIN w
    BY <2>3, <2>n
  <2>5. Evicted(w) = RemoveAt(w, n)
    BY <1>2, <2>n DEF Evicted
  <2>6. Len(RemoveAt(w, n)) = Len(w) - 1
    BY <2>4, RemoveKeeps
  <2>7. QED
    BY <2>1, <2>5, <2>6
<1>3. QED
  BY <1>1, <1>2

(* A call adds at most one item, where its lane has room.                  *)
LEMMA EnqueueBounded ==
  ASSUME ActorInv, ActorBounds, NEW r \in Item, HasRoom(r.lane), mailbox' = Append(mailbox, r)
  PROVE  /\ Len(mailbox') = Len(mailbox) + 1
         /\ Cardinality(OfLanes(mailbox', {"canonical", "control"})) < MailboxCapacity
         /\ Cardinality(OfLanes(mailbox', {"safety"})) <= MailboxCapacity
<1>1. mailbox \in Seq(Item) /\ r.lane \in {"canonical", "control", "safety"}
  BY DEF ActorInv, Matched, Queue, Item
<1>2. Len(mailbox') = Len(mailbox) + 1
  BY <1>1
<1>3. /\ Cardinality(OfLanes(mailbox, {"canonical", "control"})) \in Nat
      /\ Cardinality(OfLanes(mailbox, {"safety"})) \in Nat
      /\ Cardinality(OfLanes(mailbox, {"safety"})) <= Len(mailbox)
      /\ Len(mailbox) \in Nat /\ MailboxCapacity \in Nat
  BY <1>1, LaneFinite, ActorAssumption
<1>4. CASE r.lane = "safety"
  <2>1. Len(mailbox) < MailboxCapacity
    BY <1>4 DEF HasRoom
  <2>2. r.lane \in {"safety"} /\ r.lane \notin {"canonical", "control"}
    BY <1>4
  <2>3. /\ Cardinality(OfLanes(mailbox', {"safety"})) = Cardinality(OfLanes(mailbox, {"safety"})) + 1
        /\ Cardinality(OfLanes(mailbox', {"canonical", "control"}))
             = Cardinality(OfLanes(mailbox, {"canonical", "control"})) + 0
    BY <1>1, <2>2, LaneAppended
  <2>4. QED
    BY <1>2, <1>3, <2>1, <2>3 DEF ActorBounds
<1>5. CASE r.lane # "safety"
  <2>1. Cardinality(OfLanes(mailbox, {"canonical", "control"})) < MailboxCapacity - 1
    BY <1>1, <1>5, NormalLanes DEF HasRoom
  <2>2. r.lane \notin {"safety"} /\ r.lane \in {"canonical", "control"}
    BY <1>1, <1>5
  <2>3. /\ Cardinality(OfLanes(mailbox', {"safety"})) = Cardinality(OfLanes(mailbox, {"safety"})) + 0
        /\ Cardinality(OfLanes(mailbox', {"canonical", "control"}))
             = Cardinality(OfLanes(mailbox, {"canonical", "control"})) + 1
    BY <1>1, <2>2, LaneAppended
  <2>4. QED
    BY <1>2, <1>3, <2>1, <2>3 DEF ActorBounds
<1>6. QED
  BY <1>4, <1>5

(* Nothing but the calls fills the windows and the mailbox.                *)
LEMMA CallBounded ==
  ASSUME ActorInv, ActorBounds, NEW c \in Callers,
         \/ \E e \in Canonical \cup Foreign : ApplyCanonicalEvent(c, e)
         \/ BeginGeneration(c)
         \/ \E m \in Commands, g \in Generations : CancelGeneration(c, m, g)
  PROVE  ActorBounds'
<1>1. /\ calls \in Nat /\ calls <= MaxCalls /\ MaxCalls \in Nat /\ MaxDedupe \in Nat
      /\ nextGeneration \in Nat /\ Len(mailbox) \in Nat
      /\ Len(deliveries) \in Nat /\ Len(controls) \in Nat
      /\ deliveries \in Seq(Record) /\ controls \in Seq(Control)
  BY ActorAssumption DEF ActorBounds, ActorInv, ActorTyped, DeliveriesSound, ControlsSound,
     Window, Matched, Queue
<1>2. /\ calls' = calls + 1 /\ calls' <= MaxCalls /\ nextGeneration' = nextGeneration
  <2>1. CountCall(c) /\ nextGeneration' = nextGeneration
    BY DEF ApplyCanonicalEvent, DeliverFresh, DeliverHistorical, BeginGeneration, CancelGeneration
  <2>2. QED
    BY <1>1, <2>1 DEF CountCall
<1>3. Len(deliveries') <= MaxDedupe
  <2>w. PICK w : w = Evicted(deliveries)
    OBVIOUS
  <2>1. w \in Seq(Record) /\ Len(w) <= Len(deliveries) /\ Len(w) \in Nat
    BY <1>1, <2>w, EvictedKeeps, EvictedShorter
  <2>2. \/ deliveries' = deliveries \/ deliveries' = w
        \/ Len(w) < MaxDedupe /\ \E r : deliveries' = Append(w, r)
    BY <2>w DEF ApplyCanonicalEvent, DeliverFresh, DeliverHistorical, BeginGeneration, CancelGeneration
  <2>3. \A r : Len(Append(w, r)) = Len(w) + 1
    BY <2>1
  <2>4. QED
    BY <1>1, <2>1, <2>2, <2>3 DEF ActorBounds
<1>4. Len(controls') <= MaxDedupe
  <2>w. PICK w : w = Evicted(controls)
    OBVIOUS
  <2>1. w \in Seq(Control) /\ Len(w) <= Len(controls) /\ Len(w) \in Nat
    BY <1>1, <2>w, EvictedKeeps, EvictedShorter
  <2>2. \/ controls' = controls \/ controls' = w
        \/ Len(w) < MaxDedupe /\ \E r : controls' = Append(w, r)
    BY <2>w DEF ApplyCanonicalEvent, DeliverFresh, DeliverHistorical, BeginGeneration, CancelGeneration
  <2>3. \A r : Len(Append(w, r)) = Len(w) + 1
    BY <2>1
  <2>4. QED
    BY <1>1, <2>1, <2>2, <2>3 DEF ActorBounds
<1>5. \/ mailbox' = mailbox
      \/ \E r \in Item : HasRoom(r.lane) /\ mailbox' = Append(mailbox, r)
  <2>1. ASSUME NEW side \in {"canonical", "control", "safety"},
               NEW op \in {"reduce", "begin", "cancel"},
               NEW arg \in Envelopes \cup Callers \cup Commands,
               HasRoom(side), Enqueue(side, op, arg)
        PROVE  \E r \in Item : HasRoom(r.lane) /\ mailbox' = Append(mailbox, r)
    <3>1. [lane |-> side, op |-> op, arg |-> arg] \in Item
      BY DEF Item
    <3>2. [lane |-> side, op |-> op, arg |-> arg].lane = side
      OBVIOUS
    <3>3. QED
      BY <2>1, <3>1, <3>2 DEF Enqueue
  <2>2. ASSUME NEW e \in Canonical \cup Foreign, ApplyCanonicalEvent(c, e)
        PROVE  mailbox' = mailbox \/ (HasRoom("canonical") /\ Enqueue("canonical", "reduce", e))
    BY <2>2 DEF ApplyCanonicalEvent, DeliverFresh, DeliverHistorical
  <2>3. BeginGeneration(c) =>
          mailbox' = mailbox \/ (HasRoom("control") /\ Enqueue("control", "begin", c))
    BY DEF BeginGeneration
  <2>4. ASSUME NEW m \in Commands, NEW g \in Generations, CancelGeneration(c, m, g)
        PROVE  mailbox' = mailbox \/ (HasRoom("safety") /\ Enqueue("safety", "cancel", m))
    BY <2>4 DEF CancelGeneration
  <2>5. QED
    BY <2>1, <2>2, <2>3, <2>4 DEF Envelopes
<1>6. CASE mailbox' = mailbox
  BY <1>1, <1>2, <1>3, <1>4, <1>6 DEF ActorBounds, OfLanes
<1>7. CASE \E r \in Item : HasRoom(r.lane) /\ mailbox' = Append(mailbox, r)
  <2>1. /\ Len(mailbox') = Len(mailbox) + 1
        /\ Cardinality(OfLanes(mailbox', {"canonical", "control"})) < MailboxCapacity
        /\ Cardinality(OfLanes(mailbox', {"safety"})) <= MailboxCapacity
    BY <1>7, EnqueueBounded
  <2>2. nextGeneration' + Len(mailbox') <= calls'
    BY <1>1, <1>2, <2>1 DEF ActorBounds
  <2>3. QED
    BY <1>1, <1>2, <1>3, <1>4, <2>1, <2>2 DEF ActorBounds
<1>8. QED
  BY <1>5, <1>6, <1>7

LEMMA MicrotaskBounded ==
  ASSUME ActorInv, ActorBounds, ActorMicrotask
  PROVE  ActorBounds'
<1>1. /\ calls \in Nat /\ calls <= MaxCalls /\ MaxCalls \in Nat /\ MaxDedupe \in Nat
      /\ nextGeneration \in Nat /\ mailbox \in Seq(Item) /\ MailboxCapacity \in Nat
      /\ deliveries \in Seq(Record) /\ controls \in Seq(Control)
  BY ActorAssumption DEF ActorBounds, ActorInv, ActorTyped, DeliveriesSound, ControlsSound,
     Window, Matched, Queue
<1>2. CASE RunOne
  <2>1. NextItem \in DOMAIN mailbox /\ mailbox' = RemoveAt(mailbox, NextItem) /\ calls' = calls
    BY <1>2, ItemTaken DEF RunOne
  <2>2. Len(mailbox') = Len(mailbox) - 1 /\ mailbox' \in Seq(Item) /\ Len(mailbox) \in Nat
    <3>1. /\ RemoveAt(mailbox, NextItem) \in Seq(Item)
          /\ Len(RemoveAt(mailbox, NextItem)) = Len(mailbox) - 1
      BY <1>1, <2>1, RemoveKeeps
    <3>2. Len(mailbox) \in Nat
      BY <1>1
    <3>3. QED
      BY <2>1, <3>1, <3>2
  <2>3. nextGeneration' \in {nextGeneration, nextGeneration + 1}
    BY <1>2 DEF RunOne, RunBegin
  <2>4. nextGeneration' + Len(mailbox') <= calls'
    BY <1>1, <2>1, <2>2, <2>3 DEF ActorBounds
  <2>5. ASSUME NEW T
        PROVE  /\ Cardinality(OfLanes(mailbox', T)) <= Cardinality(OfLanes(mailbox, T))
               /\ Cardinality(OfLanes(mailbox', T)) \in Nat /\ Cardinality(OfLanes(mailbox, T)) \in Nat
    BY <1>1, <2>1, <2>2, LaneTaken, LaneFinite
  <2>6. /\ Cardinality(OfLanes(mailbox', {"canonical", "control"})) < MailboxCapacity
        /\ Cardinality(OfLanes(mailbox', {"safety"})) <= MailboxCapacity
    <3>1. Cardinality(OfLanes(mailbox', {"canonical", "control"})) < MailboxCapacity
      BY <1>1, <2>5 DEF ActorBounds
    <3>2. Cardinality(OfLanes(mailbox', {"safety"})) <= MailboxCapacity
      BY <1>1, <2>5 DEF ActorBounds
    <3>3. QED
      BY <3>1, <3>2
  <2>7. \/ deliveries' = deliveries
        \/ \E x, st : deliveries' = SetStatus(deliveries, "event", x, st)
    BY <1>2 DEF RunOne, ReduceCanonicalEvent
  <2>8. \/ controls' = controls
        \/ \E x, st : controls' = SetStatus(controls, "command", x, st)
    BY <1>2 DEF RunOne, RunCancel
  <2>9. Len(deliveries') = Len(deliveries)
    <3>1. ASSUME NEW x, NEW st PROVE Len(SetStatus(deliveries, "event", x, st)) = Len(deliveries)
      <4>1. DOMAIN SetStatus(deliveries, "event", x, st) = 1..Len(deliveries) /\ Len(deliveries) \in Nat
        BY <1>1 DEF SetStatus
      <4>2. SetStatus(deliveries, "event", x, st) = [k \in 1..Len(deliveries) |-> SetStatus(deliveries, "event", x, st)[k]]
        BY <1>1 DEF SetStatus
      <4>3. QED
        BY <4>1, <4>2
    <3>2. QED
      BY <2>7, <3>1
  <2>10. Len(controls') = Len(controls)
    <3>1. ASSUME NEW x, NEW st PROVE Len(SetStatus(controls, "command", x, st)) = Len(controls)
      <4>1. DOMAIN SetStatus(controls, "command", x, st) = 1..Len(controls) /\ Len(controls) \in Nat
        BY <1>1 DEF SetStatus
      <4>2. SetStatus(controls, "command", x, st) = [k \in 1..Len(controls) |-> SetStatus(controls, "command", x, st)[k]]
        BY <1>1 DEF SetStatus
      <4>3. QED
        BY <4>1, <4>2
    <3>2. QED
      BY <2>8, <3>1
  <2>11. QED
    BY <1>1, <2>1, <2>4, <2>6, <2>9, <2>10 DEF ActorBounds
<1>3. ASSUME NEW k \in DOMAIN deliveries, SettleDelivery(k) PROVE ActorBounds'
  <2>1. UNCHANGED <<calls, nextGeneration, mailbox, controls>>
    BY <1>3 DEF SettleDelivery
  <2>2. Len(deliveries') <= Len(deliveries) /\ Len(deliveries') \in Nat /\ Len(deliveries) \in Nat
    <3>1. \/ deliveries' = [deliveries EXCEPT ![k].status = "settled"]
          \/ deliveries' = RemoveAt(deliveries, k)
      BY <1>3 DEF SettleDelivery
    <3>2. Len(RemoveAt(deliveries, k)) = Len(deliveries) - 1 /\ RemoveAt(deliveries, k) \in Seq(Record)
      BY <1>1, RemoveKeeps
    <3>3. Len([deliveries EXCEPT ![k].status = "settled"]) = Len(deliveries)
      BY <1>1
    <3>4. Len(deliveries) \in Nat /\ Len(RemoveAt(deliveries, k)) \in Nat
      BY <1>1, <3>2
    <3>5. QED
      BY <3>1, <3>2, <3>3, <3>4
  <2>3. QED
    BY <1>1, <2>1, <2>2 DEF ActorBounds, OfLanes
<1>4. ASSUME NEW k \in DOMAIN controls, SettleControl(k) PROVE ActorBounds'
  <2>1. UNCHANGED <<calls, nextGeneration, mailbox, deliveries>>
    BY <1>4 DEF SettleControl
  <2>2. Len(controls') = Len(controls)
    <3>1. controls' = [controls EXCEPT ![k].status = "settled"]
      BY <1>4 DEF SettleControl
    <3>2. Len([controls EXCEPT ![k].status = "settled"]) = Len(controls)
      BY <1>1
    <3>3. QED
      BY <3>1, <3>2
  <2>3. QED
    BY <1>1, <2>1, <2>2 DEF ActorBounds, OfLanes
<1>5. QED
  BY <1>2, <1>3, <1>4 DEF ActorMicrotask

LEMMA BoundsInit == ActorInit => ActorBounds
<1> SUFFICES ASSUME ActorInit PROVE ActorBounds
  OBVIOUS
<1>n. PICK n : n = IF version < MaxDedupe THEN version ELSE MaxDedupe
  OBVIOUS
<1>1. version \in Nat \ {0} /\ n \in Nat /\ n <= MaxDedupe /\ MaxCalls \in Nat /\ MaxDedupe \in Nat
  BY <1>n, ActorAssumption DEF ActorInit, Canonical
<1>2. deliveries = [k \in 1..n |-> [event |-> version - n + k, status |-> "settled"]]
  BY <1>n DEF ActorInit
<1>3. Len(deliveries) = n
  BY <1>1, <1>2
<1>4. /\ controls = <<>> /\ mailbox = <<>> /\ DOMAIN mailbox = {} /\ Len(mailbox) = 0 /\ Len(controls) = 0
      /\ calls = 0 /\ nextGeneration = 0
  BY DEF ActorInit
<1>5. \A T : OfLanes(mailbox, T) = {}
  BY <1>4 DEF OfLanes
<1>6. Cardinality({}) = 0
  BY FS_EmptySet
<1>7. MailboxCapacity \in Nat /\ 0 < MailboxCapacity /\ 0 <= MailboxCapacity
  BY ActorAssumption
<1>8. /\ Cardinality(OfLanes(mailbox, {"canonical", "control"})) = 0
      /\ Cardinality(OfLanes(mailbox, {"safety"})) = 0
  BY <1>5, <1>6
<1>9. QED
  BY <1>1, <1>3, <1>4, <1>7, <1>8 DEF ActorBounds

LEMMA BoundsNext == ActorInv /\ ActorBounds /\ [ActorNext]_actorVars => ActorBounds'
<1> SUFFICES ASSUME ActorInv, ActorBounds, [ActorNext]_actorVars PROVE ActorBounds'
  OBVIOUS
<1>1. CASE FinishLookup \/ UNCHANGED actorVars
  <2>1. UNCHANGED <<calls, nextGeneration, mailbox, deliveries, controls>>
    BY <1>1 DEF FinishLookup, actorVars
  <2>2. QED
    BY <2>1 DEF ActorBounds, OfLanes
<1>2. QED
  BY <1>1, CallBounded, MicrotaskBounded DEF ActorNext

LEMMA InvBounded == ActorInv /\ ActorBounds => ActorTypeOK
<1> SUFFICES ASSUME ActorInv, ActorBounds PROVE ActorTypeOK
  OBVIOUS
<1>1. MailboxBounded
  <2>1. mailbox \in Seq(Item)
    BY DEF ActorInv, Matched, Queue
  <2>2. QED
    BY <2>1, NormalLanes DEF ActorBounds, MailboxBounded
<1>2. nextGeneration \in 0..MaxCalls
  <2>1. nextGeneration \in Nat /\ Len(mailbox) \in Nat /\ calls \in Nat /\ MaxCalls \in Nat
    BY ActorAssumption DEF ActorInv, ActorTyped, Matched, Queue, ActorBounds
  <2>2. QED
    BY <2>1 DEF ActorBounds
<1>3. silenced \subseteq Generations
  <2>1. 1..nextGeneration \subseteq 1..MaxCalls
    BY <1>2, ActorAssumption
  <2>2. QED
    BY <2>1 DEF ActorInv, Silent, Generations
<1>4. QED
  BY <1>1, <1>2, <1>3 DEF ActorTypeOK, ActorInv, ActorTyped, DeliveriesSound, ControlsSound, Window,
     Matched, Queue, Record, Control, Item, Envelopes, ActorBounds

(* The actor stays within its bounds: the windows hold max_dedupe_entries  *)
(* records, normal items leave a place for a cancellation, cancellations   *)
(* fill no more than mailbox_capacity places, and what is silenced was     *)
(* begun (BoundedActorMailbox, evictSettledDeliveries).                    *)
THEOREM ActorTypeCorrect == ActorSpec => []ActorTypeOK
<1>1. ActorSpec => []ActorBounds
  BY ActorInductive, BoundsInit, BoundsNext, PTL DEF ActorSpec
<1>2. QED
  BY <1>1, ActorInductive, InvBounded, PTL

-------------------------------------------------------------------------------
(* The registry of actors.                                                 *)

MadeActor == [session : HeldSessions, version : 0..MaxHistory]
Attempt ==
  {NotHydrating, [state |-> "failed"]}
    \cup [state : {"reading"}, since : 1..MaxHistory,
          snapshot : 0..Unread, full : 1..Unread, tail : 0..Unread]
Request ==
  [stage : {"none", "leading", "joined", "leaving", "held", "refused", "failed"},
   actor : Nat \cup {NoActor}, created : BOOLEAN]

RegistryTyped ==
  /\ registered \in [HeldSessions -> Nat \cup {NoActor}]
  /\ actor \in [1..MaxMade -> MadeActor \cup {NoActor}]
  /\ attempt \in [1..MaxMade -> Attempt]
  /\ request \in [Requesters -> Request]
  /\ history \in [HeldSessions -> 1..MaxHistory]
  /\ snapshot \in [HeldSessions -> 0..MaxHistory]

(* Actors are made in order, and the map and the requests know only these. *)
ActorsKnown ==
  /\ \E n \in 0..MaxMade : Made = 1..n
  /\ \A s \in HeldSessions : registered[s] # NoActor =>
       registered[s] \in Made /\ actor[registered[s]].session = s
  /\ \A a \in 1..MaxMade : attempt[a].state # "none" => a \in Made
  /\ \A c \in Requesters :
       /\ request[c].actor \in Made \cup {NoActor}
       /\ Pending(c) => request[c].actor \in Made

(* What an attempt has read was there since it began.                      *)
ReadsSound ==
  \A a \in 1..MaxMade : attempt[a].state = "reading" =>
    /\ attempt[a].since <= history[actor[a].session]
    /\ attempt[a].full # Unread =>
         attempt[a].full \in attempt[a].since..history[actor[a].session]

(* Whoever awaits an attempt awaits one that runs, and an actor in the map *)
(* that is not hydrated has the request that made it waiting or leaving.   *)
CreatorsWait ==
  /\ \A c \in Requesters : request[c].stage \in {"leading", "joined"} =>
       attempt[request[c].actor].state # "none"
  /\ \A s \in HeldSessions :
       registered[s] # NoActor /\ actor[registered[s]].version = 0 =>
         \E c \in Requesters : /\ request[c].actor = registered[s] /\ request[c].created
                               /\ request[c].stage \in {"leading", "leaving"}

RegistryInv == RegistryTyped /\ ActorsKnown /\ ReadsSound /\ CreatorsWait

(* One requester's record changes, or none does.                           *)
LEMMA Asked ==
  ASSUME RegistryTyped, NEW c \in Requesters, NEW a \in Nat \cup {NoActor},
         NEW stage \in {"none", "leading", "joined", "leaving", "held", "refused", "failed"},
         NEW created \in BOOLEAN, Asks(c, a, stage, created)
  PROVE  /\ request' \in [Requesters -> Request]
         /\ request'[c].stage = stage /\ request'[c].actor = a /\ request'[c].created = created
         /\ \A d \in Requesters \ {c} : request'[d] = request[d]
<1>1. [stage |-> stage, actor |-> a, created |-> created] \in Request
  BY DEF Request
<1>2. QED
  BY <1>1 DEF Asks, RegistryTyped

(* What an attempt starts from, and what the source adds to it.            *)
LEMMA AttemptTyped ==
  /\ MaxHistory \in Nat \ {0} /\ Unread \in Nat /\ Unread > MaxHistory
  /\ \A h \in 1..MaxHistory : /\ Reading(h) \in Attempt
                              /\ Reading(h).state = "reading" /\ Reading(h).since = h
                              /\ Reading(h).full = Unread
  /\ NotHydrating \in Attempt /\ NotHydrating.state = "none"
  /\ [state |-> "failed"] \in Attempt
<1>1. MaxHistory \in Nat \ {0}
  BY RegistryAssumption
<1>2. Unread \in Nat /\ Unread > MaxHistory
  BY <1>1 DEF Unread
<1>3. ASSUME NEW h \in 1..MaxHistory
      PROVE  /\ Reading(h) \in Attempt /\ Reading(h).state = "reading" /\ Reading(h).since = h
             /\ Reading(h).full = Unread
  <2>1. Unread \in 0..Unread /\ Unread \in 1..Unread
    BY <1>1, <1>2
  <2>2. QED
    BY <2>1 DEF Reading, Attempt
<1>4. QED
  BY <1>1, <1>2, <1>3 DEF Attempt, NotHydrating

LEMMA ReadingFields ==
  ASSUME NEW h \in Attempt, h.state = "reading"
  PROVE  h \in [state : {"reading"}, since : 1..MaxHistory,
                snapshot : 0..Unread, full : 1..Unread, tail : 0..Unread]
<1>1. NotHydrating.state # "reading" /\ [state |-> "failed"].state # "reading"
  BY DEF NotHydrating
<1>2. QED
  BY <1>1 DEF Attempt

(* A call of getActor.                                                     *)
LEMMA ActorAsked ==
  ASSUME RegistryInv, NEW c \in Requesters, NEW s \in HeldSessions, GetActor(c, s)
  PROVE  RegistryInv'
<1>1. RegistryTyped /\ ActorsKnown /\ ReadsSound /\ CreatorsWait /\ ~Pending(c)
      /\ UNCHANGED <<history, snapshot>>
  BY DEF RegistryInv, GetActor
<1>2. history[s] \in 1..MaxHistory
  BY <1>1 DEF RegistryTyped
<1>3. CASE registered[s] # NoActor /\ EnsureHydrated(c, registered[s], s, FALSE)
           /\ UNCHANGED <<registered, actor>>
  <2>a. PICK a : a = registered[s]
    OBVIOUS
  <2>1. a \in Made /\ a \in 1..MaxMade /\ a \in Nat /\ actor[a].session = s
    BY <1>1, <1>3, <2>a, RegistryAssumption DEF ActorsKnown, Made
  <2>2. PICK stage \in {"held", "joined", "leading"} :
          /\ Asks(c, a, stage, FALSE)
          /\ \/ UNCHANGED attempt /\ (stage = "joined" => attempt[a].state # "none") /\ stage # "leading"
             \/ /\ stage = "leading" /\ attempt[a].state = "none"
                /\ attempt' = [attempt EXCEPT ![a] = Reading(history[s])]
    BY <1>3, <2>a DEF EnsureHydrated
  <2>3. /\ request' \in [Requesters -> Request]
        /\ request'[c].stage = stage /\ request'[c].actor = a /\ request'[c].created = FALSE
        /\ \A d \in Requesters \ {c} : request'[d] = request[d]
    <3>1. Asks(c, a, stage, FALSE) /\ a \in Nat \cup {NoActor} /\ FALSE \in BOOLEAN
      BY <2>1, <2>2
    <3>2. stage \in {"none", "leading", "joined", "leaving", "held", "refused", "failed"}
      BY <2>2
    <3>3. QED
      BY ZenonT(60), <1>1, <3>1, <3>2, Asked
  <2>4. attempt' \in [1..MaxMade -> Attempt]
    BY <1>1, <1>2, <2>2, AttemptTyped DEF RegistryTyped
  <2>5. \A b \in 1..MaxMade :
          \/ attempt'[b] = attempt[b]
          \/ b = a /\ attempt'[b] = Reading(history[s])
    BY <1>1, <2>2 DEF RegistryTyped
  <2>6. RegistryTyped'
    BY <1>1, <1>3, <2>3, <2>4 DEF RegistryTyped
  <2>7. Made' = Made
    BY <1>3 DEF Made
  <2>8. ActorsKnown'
    <3>1. \A b \in 1..MaxMade : attempt'[b].state # "none" => b \in Made
      BY <1>1, <2>1, <2>5 DEF ActorsKnown
    <3>2. \A d \in Requesters :
            request'[d].actor \in Made \cup {NoActor} /\ (Pending(d)' => request'[d].actor \in Made)
      BY <1>1, <2>1, <2>3 DEF ActorsKnown, Pending
    <3>3. QED
      BY <1>1, <1>3, <2>7, <3>1, <3>2 DEF ActorsKnown
  <2>9. ReadsSound'
    BY <1>1, <1>2, <1>3, <2>1, <2>5, AttemptTyped DEF ReadsSound
  <2>10. CreatorsWait'
    <3>1. ASSUME NEW d \in Requesters, request'[d].stage \in {"leading", "joined"}
          PROVE  attempt'[request'[d].actor].state # "none"
      <4>1. CASE d = c
        BY <1>1, <1>2, <2>1, <2>2, <2>3, <3>1, <4>1, AttemptTyped DEF RegistryTyped
      <4>2. CASE d # c
        <5>1. request'[d] = request[d] /\ Pending(d) /\ request[d].actor \in 1..MaxMade
          BY <1>1, <2>3, <3>1, <4>2 DEF Pending, ActorsKnown, Made
        <5>2. QED
          BY <1>1, <1>2, <2>5, <3>1, <5>1, AttemptTyped DEF CreatorsWait
      <4>3. QED
        BY <4>1, <4>2
    <3>2. ASSUME NEW t \in HeldSessions, registered[t] # NoActor, actor[registered[t]].version = 0
          PROVE  \E d \in Requesters : /\ request'[d].actor = registered[t] /\ request'[d].created
                                       /\ request'[d].stage \in {"leading", "leaving"}
      <4>1. PICK d \in Requesters : /\ request[d].actor = registered[t] /\ request[d].created
                                    /\ request[d].stage \in {"leading", "leaving"}
        BY <1>1, <3>2 DEF CreatorsWait
      <4>2. d # c
        BY <1>1, <4>1 DEF Pending
      <4>3. QED
        BY <2>3, <4>1, <4>2
    <3>3. QED
      BY <1>3, <3>1, <3>2 DEF CreatorsWait
  <2>11. QED
    BY <2>6, <2>8, <2>9, <2>10 DEF RegistryInv
<1>4. CASE Asks(c, NoActor, "refused", FALSE) /\ UNCHANGED <<registered, actor, attempt>>
  <2>3. /\ request' \in [Requesters -> Request]
        /\ request'[c].stage = "refused" /\ request'[c].actor = NoActor
        /\ \A d \in Requesters \ {c} : request'[d] = request[d]
    BY <1>1, <1>4, Asked
  <2>6. RegistryTyped'
    BY <1>1, <1>4, <2>3 DEF RegistryTyped
  <2>7. Made' = Made
    BY <1>4 DEF Made
  <2>8. ActorsKnown'
    <3>2. \A d \in Requesters :
            request'[d].actor \in Made \cup {NoActor} /\ (Pending(d)' => request'[d].actor \in Made)
      BY <1>1, <2>3 DEF ActorsKnown, Pending
    <3>3. QED
      BY <1>1, <1>4, <2>7, <3>2 DEF ActorsKnown
  <2>9. ReadsSound'
    BY <1>1, <1>4 DEF ReadsSound
  <2>10. CreatorsWait'
    <3>1. ASSUME NEW d \in Requesters, request'[d].stage \in {"leading", "joined"}
          PROVE  attempt'[request'[d].actor].state # "none"
      BY <1>1, <1>4, <2>3, <3>1 DEF CreatorsWait
    <3>2. ASSUME NEW t \in HeldSessions, registered[t] # NoActor, actor[registered[t]].version = 0
          PROVE  \E d \in Requesters : /\ request'[d].actor = registered[t] /\ request'[d].created
                                       /\ request'[d].stage \in {"leading", "leaving"}
      <4>1. PICK d \in Requesters : /\ request[d].actor = registered[t] /\ request[d].created
                                    /\ request[d].stage \in {"leading", "leaving"}
        BY <1>1, <3>2 DEF CreatorsWait
      <4>2. d # c
        BY <1>1, <4>1 DEF Pending
      <4>3. QED
        BY <2>3, <4>1, <4>2
    <3>3. QED
      BY <1>4, <3>1, <3>2 DEF CreatorsWait
  <2>11. QED
    BY <2>6, <2>8, <2>9, <2>10 DEF RegistryInv
<1>5. CASE /\ registered[s] = NoActor /\ Cardinality(Made) < MaxMade
           /\ LET a == Cardinality(Made) + 1 IN
                /\ actor' = [actor EXCEPT ![a] = [session |-> s, version |-> 0]]
                /\ registered' = [registered EXCEPT ![s] = a]
                /\ EnsureHydrated(c, a, s, TRUE)
  <2>a. PICK a : a = Cardinality(Made) + 1
    OBVIOUS
  <2>v. PICK v : v = [session |-> s, version |-> 0]
    OBVIOUS
  <2>1. PICK n \in 0..MaxMade : Made = 1..n
    BY <1>1 DEF ActorsKnown
  <2>2. MaxMade \in Nat /\ n \in Nat /\ Cardinality(Made) = n
    BY <2>1, RegistryAssumption, FS_Interval
  <2>3. a = n + 1 /\ a \in 1..MaxMade /\ a \notin Made /\ a \in Nat /\ a # NoActor
    BY <1>5, <2>a, <2>1, <2>2, RegistryAssumption
  <2>4. v \in MadeActor /\ v # NoActor /\ v.session = s /\ v.version = 0
    <3>1. 0 \in 0..MaxHistory
      BY RegistryAssumption
    <3>2. v \in MadeActor
      BY <2>v, <3>1 DEF MadeActor
    <3>3. QED
      BY <2>v, <3>2, RegistryAssumption DEF MadeActor
  <2>5. /\ actor' = [actor EXCEPT ![a] = v]
        /\ registered' = [registered EXCEPT ![s] = a]
        /\ EnsureHydrated(c, a, s, TRUE)
    BY <1>5, <2>a, <2>v
  <2>6. attempt[a].state = "none"
    BY <1>1, <2>3 DEF ActorsKnown
  <2>7. Asks(c, a, "leading", TRUE) /\ attempt' = [attempt EXCEPT ![a] = Reading(history[s])]
    BY <2>5, <2>6 DEF EnsureHydrated
  <2>8. /\ request' \in [Requesters -> Request]
        /\ request'[c].stage = "leading" /\ request'[c].actor = a /\ request'[c].created = TRUE
        /\ \A d \in Requesters \ {c} : request'[d] = request[d]
    BY <1>1, <2>3, <2>7, Asked
  <2>9. /\ actor' \in [1..MaxMade -> MadeActor \cup {NoActor}]
        /\ actor'[a] = v /\ \A b \in (1..MaxMade) \ {a} : actor'[b] = actor[b]
        /\ registered' \in [HeldSessions -> Nat \cup {NoActor}]
        /\ registered'[s] = a /\ \A t \in HeldSessions \ {s} : registered'[t] = registered[t]
        /\ attempt' \in [1..MaxMade -> Attempt]
        /\ attempt'[a] = Reading(history[s]) /\ \A b \in (1..MaxMade) \ {a} : attempt'[b] = attempt[b]
    <3>1. actor' \in [1..MaxMade -> MadeActor \cup {NoActor}]
          /\ actor'[a] = v /\ \A b \in (1..MaxMade) \ {a} : actor'[b] = actor[b]
      BY <1>1, <2>3, <2>4, <2>5 DEF RegistryTyped
    <3>2. registered' \in [HeldSessions -> Nat \cup {NoActor}]
          /\ registered'[s] = a /\ \A t \in HeldSessions \ {s} : registered'[t] = registered[t]
      BY <1>1, <2>3, <2>5 DEF RegistryTyped
    <3>3. attempt' \in [1..MaxMade -> Attempt]
          /\ attempt'[a] = Reading(history[s]) /\ \A b \in (1..MaxMade) \ {a} : attempt'[b] = attempt[b]
      BY <1>1, <1>2, <2>3, <2>7, AttemptTyped DEF RegistryTyped
    <3>4. QED
      BY <3>1, <3>2, <3>3
  <2>10. RegistryTyped'
    BY <1>1, <2>8, <2>9 DEF RegistryTyped
  <2>11. Made' = 1..a /\ a \in 0..MaxMade /\ Made' = Made \cup {a}
    <3>1. Made' = Made \cup {a}
      BY <2>3, <2>4, <2>9 DEF Made
    <3>2. Made \cup {a} = 1..a
      BY <2>1, <2>2, <2>3
    <3>3. QED
      BY <2>3, <3>1, <3>2
  <2>12. ActorsKnown'
    <3>1. ASSUME NEW t \in HeldSessions, registered'[t] # NoActor
          PROVE  registered'[t] \in Made' /\ actor'[registered'[t]].session = t
      <4>1. CASE t = s
        BY <2>4, <2>9, <2>11, <4>1
      <4>2. CASE t # s
        <5>1. registered[t] \in Made /\ actor[registered[t]].session = t /\ registered'[t] = registered[t]
          BY <1>1, <2>9, <3>1, <4>2 DEF ActorsKnown
        <5>2. registered[t] \in (1..MaxMade) \ {a}
          BY <2>3, <5>1 DEF Made
        <5>3. QED
          BY <2>9, <2>11, <5>1, <5>2
      <4>3. QED
        BY <4>1, <4>2
    <3>2. \A b \in 1..MaxMade : attempt'[b].state # "none" => b \in Made'
      BY <1>1, <2>9, <2>11 DEF ActorsKnown
    <3>3. \A d \in Requesters :
            request'[d].actor \in Made' \cup {NoActor} /\ (Pending(d)' => request'[d].actor \in Made')
      BY <1>1, <2>8, <2>11 DEF ActorsKnown, Pending
    <3>4. QED
      BY <2>11, <3>1, <3>2, <3>3 DEF ActorsKnown
  <2>13. ReadsSound'
    <3>1. ASSUME NEW b \in 1..MaxMade, attempt'[b].state = "reading"
          PROVE  /\ attempt'[b].since <= history'[actor'[b].session]
                 /\ attempt'[b].full # Unread =>
                      attempt'[b].full \in attempt'[b].since..history'[actor'[b].session]
      <4>1. CASE b = a
        BY <1>1, <1>2, <2>4, <2>9, <4>1, AttemptTyped
      <4>2. CASE b # a
        BY <1>1, <2>9, <3>1, <4>2 DEF ReadsSound
      <4>3. QED
        BY <4>1, <4>2
    <3>2. QED
      BY <3>1 DEF ReadsSound
  <2>14. CreatorsWait'
    <3>1. ASSUME NEW d \in Requesters, request'[d].stage \in {"leading", "joined"}
          PROVE  attempt'[request'[d].actor].state # "none"
      <4>1. CASE d = c
        BY <1>2, <2>8, <2>9, <4>1, AttemptTyped
      <4>2. CASE d # c
        <5>1. request'[d] = request[d] /\ Pending(d) /\ request[d].actor \in Made /\ request[d].actor \in 1..MaxMade
          BY <1>1, <2>8, <3>1, <4>2 DEF Pending, ActorsKnown, Made
        <5>2. attempt'[request[d].actor] = attempt[request[d].actor]
          BY <2>3, <2>9, <5>1
        <5>3. QED
          BY <1>1, <3>1, <5>1, <5>2 DEF CreatorsWait
      <4>3. QED
        BY <4>1, <4>2
    <3>2. ASSUME NEW t \in HeldSessions, registered'[t] # NoActor, actor'[registered'[t]].version = 0
          PROVE  \E d \in Requesters : /\ request'[d].actor = registered'[t] /\ request'[d].created
                                       /\ request'[d].stage \in {"leading", "leaving"}
      <4>1. CASE t = s
        BY <2>8, <2>9, <4>1
      <4>2. CASE t # s
        <5>1. registered'[t] = registered[t] /\ registered[t] \in (1..MaxMade) \ {a}
          BY <1>1, <2>3, <2>9, <3>2, <4>2 DEF ActorsKnown, Made
        <5>2. actor[registered[t]].version = 0
          BY <2>9, <3>2, <5>1
        <5>3. PICK d \in Requesters : /\ request[d].actor = registered[t] /\ request[d].created
                                      /\ request[d].stage \in {"leading", "leaving"}
          BY <1>1, <3>2, <5>1, <5>2 DEF CreatorsWait
        <5>4. d # c
          BY <1>1, <5>3 DEF Pending
        <5>5. QED
          BY <2>8, <5>1, <5>3, <5>4
      <4>3. QED
        BY <4>1, <4>2
    <3>3. QED
      BY <3>1, <3>2 DEF CreatorsWait
  <2>15. QED
    BY <2>10, <2>12, <2>13, <2>14 DEF RegistryInv
<1>6. QED
  BY <1>3, <1>4, <1>5 DEF GetActor

(* The source answers a read of actor a's attempt.                         *)
LEMMA SourceRead ==
  ASSUME RegistryInv, NEW a \in Made, ReadSource(a)
  PROVE  RegistryInv'
<1>1. /\ RegistryTyped /\ ActorsKnown /\ ReadsSound /\ CreatorsWait
      /\ attempt[a].state = "reading" /\ a \in 1..MaxMade
      /\ UNCHANGED <<registered, actor, request, history, snapshot, requests>>
  BY DEF RegistryInv, ReadSource, Made
<1>h. PICK h : h = attempt[a]
  OBVIOUS
<1>s. PICK s : s = actor[a].session
  OBVIOUS
<1>2. h \in [state : {"reading"}, since : 1..MaxHistory,
             snapshot : 0..Unread, full : 1..Unread, tail : 0..Unread]
  BY <1>1, <1>h, ReadingFields DEF RegistryTyped
<1>3. s \in HeldSessions /\ history[s] \in 1..MaxHistory /\ snapshot[s] \in 0..MaxHistory
  BY <1>1, <1>s DEF RegistryTyped, Made, MadeActor
<1>4. history[s] \in 1..Unread /\ history[s] \in 0..Unread /\ snapshot[s] \in 0..Unread
  BY <1>3, AttemptTyped
<1>5. PICK g : /\ attempt' = [attempt EXCEPT ![a] = g]
               /\ \/ g = [h EXCEPT !.snapshot = snapshot[s]]
                  \/ g = [h EXCEPT !.full = history[s]]
                  \/ g = [h EXCEPT !.tail = history[s]]
  BY <1>h, <1>s DEF ReadSource
<1>6. /\ g \in [state : {"reading"}, since : 1..MaxHistory,
                 snapshot : 0..Unread, full : 1..Unread, tail : 0..Unread]
      /\ g.state = "reading" /\ g.since = h.since
      /\ g.full = h.full \/ g.full = history[s]
  BY <1>2, <1>4, <1>5
<1>7. g \in Attempt
  BY <1>6 DEF Attempt
<1>8. /\ attempt' \in [1..MaxMade -> Attempt] /\ attempt'[a] = g
      /\ \A b \in (1..MaxMade) \ {a} : attempt'[b] = attempt[b]
  BY <1>1, <1>5, <1>7 DEF RegistryTyped
<1>9. RegistryTyped'
  BY <1>1, <1>8 DEF RegistryTyped
<1>10. Made' = Made
  BY <1>1 DEF Made
<1>11. ActorsKnown'
  <2>1. \A b \in 1..MaxMade : attempt'[b].state # "none" => b \in Made
    BY <1>1, <1>8 DEF ActorsKnown
  <2>2. QED
    BY <1>1, <1>10, <2>1 DEF ActorsKnown, Pending
<1>12. ReadsSound'
  <2>1. ASSUME NEW b \in 1..MaxMade, attempt'[b].state = "reading"
        PROVE  /\ attempt'[b].since <= history[actor[b].session]
               /\ attempt'[b].full # Unread =>
                    attempt'[b].full \in attempt'[b].since..history[actor[b].session]
    <3>1. CASE b = a
      <4>1. h.since <= history[s] /\ (h.full # Unread => h.full \in h.since..history[s])
        BY <1>1, <1>h, <1>s DEF ReadsSound
      <4>2. QED
        BY <1>2, <1>3, <1>6, <1>8, <1>s, <3>1, <4>1
    <3>2. CASE b # a
      BY <1>1, <1>8, <2>1, <3>2 DEF ReadsSound
    <3>3. QED
      BY <3>1, <3>2
  <2>2. QED
    BY <1>1, <2>1 DEF ReadsSound
<1>13. CreatorsWait'
  <2>1. ASSUME NEW d \in Requesters, request[d].stage \in {"leading", "joined"}
        PROVE  attempt'[request[d].actor].state # "none"
    <3>1. request[d].actor \in 1..MaxMade /\ attempt[request[d].actor].state # "none"
      BY <1>1, <2>1 DEF ActorsKnown, Pending, Made, CreatorsWait
    <3>2. QED
      BY <1>6, <1>8, <3>1
  <2>2. QED
    BY <1>1, <2>1 DEF CreatorsWait
<1>14. QED
  BY <1>9, <1>11, <1>12, <1>13 DEF RegistryInv

(* A hydration starts from a version that was committed since it began.    *)
LEMMA HydratedVersion ==
  ASSUME RegistryInv, NEW a \in Made, Hydrate(a)
  PROVE  /\ attempt[a].full \in attempt[a].since..history[actor[a].session]
         /\ attempt[a].full \in 1..MaxHistory /\ attempt[a].since \in 1..MaxHistory
         /\ actor' = [actor EXCEPT ![a] = [actor[a] EXCEPT !.version = attempt[a].full]]
         /\ actor[a] \in MadeActor
<1>1. /\ RegistryTyped /\ ReadsSound /\ a \in 1..MaxMade /\ actor[a] \in MadeActor
      /\ attempt[a].state = "reading"
  BY DEF RegistryInv, Hydrate, Made, RegistryTyped
<1>2. attempt[a].full # Unread
  BY DEF Hydrate, Verified
<1>3. history[actor[a].session] \in 1..MaxHistory
  BY <1>1 DEF RegistryTyped, MadeActor
<1>4. attempt[a].since \in 1..MaxHistory /\ attempt[a].full \in 1..Unread
  BY <1>1, ReadingFields DEF RegistryTyped
<1>5. attempt[a].full \in attempt[a].since..history[actor[a].session]
  BY <1>1, <1>2 DEF ReadsSound
<1>6. attempt[a].full \in 1..MaxHistory
  BY <1>3, <1>4, <1>5, AttemptTyped
<1>7. actor' = [actor EXCEPT ![a] = [actor[a] EXCEPT !.version = attempt[a].full]]
  BY DEF Hydrate
<1>8. QED
  BY <1>1, <1>4, <1>5, <1>6, <1>7

(* An attempt ends: the actor is hydrated, or its requests leave.          *)
LEMMA AttemptEnded ==
  ASSUME RegistryInv, NEW a \in Made, Hydrate(a) \/ ForgetAttempt(a)
  PROVE  RegistryInv'
<1>1. /\ RegistryTyped /\ ActorsKnown /\ ReadsSound /\ CreatorsWait
      /\ a \in 1..MaxMade /\ actor[a] \in MadeActor
      /\ attempt' = [attempt EXCEPT ![a] = NotHydrating]
      /\ UNCHANGED <<registered, history, snapshot>>
  BY DEF RegistryInv, Hydrate, ForgetAttempt, Made, RegistryTyped
<1>2. PICK v \in MadeActor :
        /\ actor' = [actor EXCEPT ![a] = v] /\ v.session = actor[a].session
        /\ Hydrate(a) => v.version # 0
        /\ ~Hydrate(a) => v = actor[a]
  <2>1. CASE Hydrate(a)
    <3>1. PICK v : v = [actor[a] EXCEPT !.version = attempt[a].full]
      OBVIOUS
    <3>2. /\ actor' = [actor EXCEPT ![a] = v]
          /\ attempt[a].full \in 1..MaxHistory /\ MaxHistory \in Nat
      BY <2>1, <3>1, HydratedVersion, AttemptTyped
    <3>3. v \in MadeActor /\ v.session = actor[a].session /\ v.version # 0
      BY <1>1, <3>1, <3>2 DEF MadeActor
    <3>4. QED
      BY <2>1, <3>2, <3>3
  <2>2. CASE ~Hydrate(a)
    <3>1. actor' = actor
      BY <2>2 DEF ForgetAttempt
    <3>2. actor' = [actor EXCEPT ![a] = actor[a]]
      BY <1>1, <3>1 DEF RegistryTyped
    <3>3. QED
      BY <1>1, <2>2, <3>2
  <2>3. QED
    BY <2>1, <2>2
<1>3. PICK stage \in {"held", "leaving"} :
        /\ request' = [c \in Requesters |->
                         IF request[c].actor = a /\ request[c].stage \in {"leading", "joined"}
                           THEN [request[c] EXCEPT !.stage = stage] ELSE request[c]]
        /\ ~Hydrate(a) => stage = "leaving"
  BY DEF Hydrate, ForgetAttempt
<1>4. ASSUME NEW c \in Requesters
      PROVE  /\ request'[c] \in Request
             /\ request'[c].actor = request[c].actor /\ request'[c].created = request[c].created
             /\ request'[c].stage =
                  IF request[c].actor = a /\ request[c].stage \in {"leading", "joined"}
                    THEN stage ELSE request[c].stage
  <2>1. request[c] \in Request
    BY <1>1 DEF RegistryTyped
  <2>2. /\ [request[c] EXCEPT !.stage = stage] \in Request
        /\ [request[c] EXCEPT !.stage = stage].actor = request[c].actor
        /\ [request[c] EXCEPT !.stage = stage].created = request[c].created
        /\ [request[c] EXCEPT !.stage = stage].stage = stage
    BY <2>1 DEF Request
  <2>3. QED
    BY <1>3, <2>1, <2>2
<1>5. /\ attempt' \in [1..MaxMade -> Attempt] /\ attempt'[a].state = "none"
      /\ \A b \in (1..MaxMade) \ {a} : attempt'[b] = attempt[b]
  BY <1>1, AttemptTyped DEF RegistryTyped
<1>6. /\ actor' \in [1..MaxMade -> MadeActor \cup {NoActor}] /\ actor'[a] = v
      /\ \A b \in (1..MaxMade) \ {a} : actor'[b] = actor[b]
  BY <1>1, <1>2 DEF RegistryTyped
<1>7. RegistryTyped'
  <2>1. request' \in [Requesters -> Request]
    BY <1>3, <1>4
  <2>2. QED
    BY <1>1, <1>5, <1>6, <2>1 DEF RegistryTyped
<1>8. Made' = Made
  <2>1. v # NoActor
    BY RegistryAssumption DEF MadeActor
  <2>2. QED
    BY <1>6, <2>1 DEF Made
<1>9. \A b \in 1..MaxMade : b \in Made => actor'[b].session = actor[b].session
  BY <1>2, <1>6
<1>10. ActorsKnown'
  <2>1. \A b \in 1..MaxMade : attempt'[b].state # "none" => b \in Made
    BY <1>1, <1>5 DEF ActorsKnown
  <2>2. \A c \in Requesters :
          request'[c].actor \in Made \cup {NoActor} /\ (Pending(c)' => request'[c].actor \in Made)
    BY <1>1, <1>4 DEF ActorsKnown, Pending
  <2>3. \A s \in HeldSessions : registered[s] # NoActor =>
          registered[s] \in Made /\ actor'[registered[s]].session = s
    BY <1>1, <1>9 DEF ActorsKnown, Made
  <2>4. QED
    BY <1>1, <1>8, <2>1, <2>2, <2>3 DEF ActorsKnown
<1>11. ReadsSound'
  <2>1. ASSUME NEW b \in 1..MaxMade, attempt'[b].state = "reading"
        PROVE  attempt'[b] = attempt[b] /\ actor'[b] = actor[b]
    BY <1>5, <1>6, <2>1
  <2>2. QED
    BY <1>1, <2>1 DEF ReadsSound
<1>12. CreatorsWait'
  <2>1. ASSUME NEW d \in Requesters, request'[d].stage \in {"leading", "joined"}
        PROVE  attempt'[request'[d].actor].state # "none"
    <3>1. request'[d].stage = request[d].stage /\ request[d].actor # a
      BY <1>3, <1>4, <2>1
    <3>2. request[d].actor \in 1..MaxMade /\ attempt[request[d].actor].state # "none"
      BY <1>1, <2>1, <3>1 DEF ActorsKnown, Pending, Made, CreatorsWait
    <3>3. QED
      BY <1>4, <1>5, <3>1, <3>2
  <2>2. ASSUME NEW t \in HeldSessions, registered[t] # NoActor, actor'[registered[t]].version = 0
        PROVE  \E d \in Requesters : /\ request'[d].actor = registered[t] /\ request'[d].created
                                     /\ request'[d].stage \in {"leading", "leaving"}
    <3>1. registered[t] \in 1..MaxMade
      BY <1>1, <2>2 DEF ActorsKnown, Made
    <3>2. actor[registered[t]].version = 0 /\ (registered[t] = a => stage = "leaving")
      BY <1>2, <1>3, <1>6, <2>2, <3>1
    <3>3. PICK d \in Requesters : /\ request[d].actor = registered[t] /\ request[d].created
                                  /\ request[d].stage \in {"leading", "leaving"}
      BY <1>1, <2>2, <3>2 DEF CreatorsWait
    <3>4. QED
      BY <1>4, <3>2, <3>3
  <2>3. QED
    BY <1>1, <2>1, <2>2 DEF CreatorsWait
<1>13. QED
  BY <1>7, <1>10, <1>11, <1>12 DEF RegistryInv

LEMMA HydrationFailed ==
  ASSUME RegistryInv, NEW a \in Made, FailHydration(a)
  PROVE  RegistryInv'
<1>1. /\ RegistryTyped /\ ActorsKnown /\ ReadsSound /\ CreatorsWait /\ a \in 1..MaxMade
      /\ attempt' = [attempt EXCEPT ![a] = [state |-> "failed"]]
      /\ UNCHANGED <<registered, actor, request, history, snapshot>>
  BY DEF RegistryInv, FailHydration, Made
<1>2. /\ attempt' \in [1..MaxMade -> Attempt] /\ attempt'[a].state = "failed"
      /\ \A b \in (1..MaxMade) \ {a} : attempt'[b] = attempt[b]
  BY <1>1, AttemptTyped DEF RegistryTyped
<1>3. RegistryTyped'
  BY <1>1, <1>2 DEF RegistryTyped
<1>4. Made' = Made
  BY <1>1 DEF Made
<1>5. ActorsKnown'
  <2>1. \A b \in 1..MaxMade : attempt'[b].state # "none" => b \in Made
    BY <1>1, <1>2 DEF ActorsKnown
  <2>2. QED
    BY <1>1, <1>4, <2>1 DEF ActorsKnown, Pending
<1>6. ReadsSound'
  BY <1>1, <1>2 DEF ReadsSound
<1>7. CreatorsWait'
  <2>1. ASSUME NEW d \in Requesters, request[d].stage \in {"leading", "joined"}
        PROVE  attempt'[request[d].actor].state # "none"
    <3>1. request[d].actor \in 1..MaxMade /\ attempt[request[d].actor].state # "none"
      BY <1>1, <2>1 DEF ActorsKnown, Pending, Made, CreatorsWait
    <3>2. QED
      BY <1>2, <3>1
  <2>2. QED
    BY <1>1, <2>1 DEF CreatorsWait
<1>8. QED
  BY <1>3, <1>5, <1>6, <1>7 DEF RegistryInv

(* The request that made the actor takes it out of the map as it leaves.   *)
LEMMA RequestLeft ==
  ASSUME RegistryInv, NEW c \in Requesters, LeaveFailed(c)
  PROVE  RegistryInv'
<1>a. PICK a : a = request[c].actor
  OBVIOUS
<1>1. /\ RegistryTyped /\ ActorsKnown /\ ReadsSound /\ CreatorsWait
      /\ Pending(c) /\ a \in Made /\ a \in 1..MaxMade
      /\ UNCHANGED <<actor, attempt, history, snapshot>>
  BY <1>a DEF RegistryInv, LeaveFailed, ActorsKnown, Pending, Made
<1>s. PICK s : s = actor[a].session
  OBVIOUS
<1>2. registered' = IF request[c].created /\ registered[s] = a
                      THEN [registered EXCEPT ![s] = NoActor] ELSE registered
  BY <1>a, <1>s DEF LeaveFailed
<1>3. s \in HeldSessions
  BY <1>1, <1>s DEF RegistryTyped, Made, MadeActor
<1>4. /\ registered' \in [HeldSessions -> Nat \cup {NoActor}]
      /\ \A t \in HeldSessions : registered'[t] \in {NoActor, registered[t]}
      /\ request[c].created /\ registered[s] = a => registered'[s] = NoActor
  BY <1>1, <1>2, <1>3 DEF RegistryTyped
<1>r. PICK r : r = [NoRequest EXCEPT !.stage = "failed"]
  OBVIOUS
<1>5. r \in Request /\ r.stage = "failed" /\ r.actor = NoActor
  BY <1>r DEF NoRequest, Request
<1>6. /\ request' \in [Requesters -> Request]
      /\ request'[c].stage = "failed" /\ request'[c].actor = NoActor
      /\ \A d \in Requesters \ {c} : request'[d] = request[d]
  <2>1. request' = [request EXCEPT ![c] = r]
    BY <1>r DEF LeaveFailed
  <2>2. QED
    BY <1>1, <1>5, <2>1 DEF RegistryTyped
<1>7. RegistryTyped'
  BY <1>1, <1>4, <1>6 DEF RegistryTyped
<1>8. Made' = Made
  BY <1>1 DEF Made
<1>9. ActorsKnown'
  <2>1. \A d \in Requesters :
          request'[d].actor \in Made \cup {NoActor} /\ (Pending(d)' => request'[d].actor \in Made)
    BY <1>1, <1>6 DEF ActorsKnown, Pending
  <2>2. \A t \in HeldSessions : registered'[t] # NoActor =>
          registered'[t] \in Made /\ actor[registered'[t]].session = t
    BY <1>1, <1>4 DEF ActorsKnown
  <2>3. QED
    BY <1>1, <1>8, <2>1, <2>2 DEF ActorsKnown
<1>10. ReadsSound'
  BY <1>1 DEF ReadsSound
<1>11. CreatorsWait'
  <2>1. ASSUME NEW d \in Requesters, request'[d].stage \in {"leading", "joined"}
        PROVE  attempt[request'[d].actor].state # "none"
    BY <1>1, <1>6, <2>1 DEF CreatorsWait
  <2>2. ASSUME NEW t \in HeldSessions, registered'[t] # NoActor, actor[registered'[t]].version = 0
        PROVE  \E d \in Requesters : /\ request'[d].actor = registered'[t] /\ request'[d].created
                                     /\ request'[d].stage \in {"leading", "leaving"}
    <3>1. registered'[t] = registered[t] /\ registered[t] # NoActor
      BY <1>4, <2>2
    <3>2. PICK d \in Requesters : /\ request[d].actor = registered[t] /\ request[d].created
                                  /\ request[d].stage \in {"leading", "leaving"}
      BY <1>1, <2>2, <3>1 DEF CreatorsWait
    <3>3. d # c
      <4>1. ASSUME d = c PROVE FALSE
        <5>1. registered[t] = a /\ request[c].created
          BY <1>a, <3>2, <4>1
        <5>2. t = s
          BY <1>1, <1>s, <3>1, <5>1 DEF ActorsKnown
        <5>3. QED
          BY <1>4, <2>2, <5>1, <5>2
      <4>2. QED
        BY <4>1
    <3>4. QED
      BY <1>6, <3>1, <3>2, <3>3
  <2>3. QED
    BY <1>1, <2>1, <2>2 DEF CreatorsWait
<1>12. QED
  BY <1>7, <1>9, <1>10, <1>11 DEF RegistryInv

(* Events are committed and snapshotted while the source is read.          *)
LEMMA SourceMoved ==
  ASSUME RegistryInv, NEW s \in HeldSessions, CommitHistory(s) \/ SaveSnapshot(s)
  PROVE  RegistryInv'
<1>1. /\ RegistryTyped /\ ActorsKnown /\ ReadsSound /\ CreatorsWait
      /\ UNCHANGED <<registered, actor, attempt, request>>
  BY DEF RegistryInv, CommitHistory, SaveSnapshot
<1>2. /\ history' \in [HeldSessions -> 1..MaxHistory]
      /\ \A t \in HeldSessions : history[t] <= history'[t]
  <2>1. history[s] \in 1..MaxHistory /\ MaxHistory \in Nat
    BY <1>1, AttemptTyped DEF RegistryTyped
  <2>2. CASE CommitHistory(s)
    <3>1. history' = [history EXCEPT ![s] = history[s] + 1] /\ history[s] < MaxHistory
      BY <2>2 DEF CommitHistory
    <3>2. history[s] + 1 \in 1..MaxHistory /\ \A t \in HeldSessions : history[t] \in Nat
      BY <1>1, <2>1, <3>1 DEF RegistryTyped
    <3>3. QED
      BY <1>1, <2>1, <3>1, <3>2 DEF RegistryTyped
  <2>3. CASE SaveSnapshot(s)
    BY <1>1, <2>1, <2>3 DEF SaveSnapshot, RegistryTyped
  <2>4. QED
    BY <2>2, <2>3
<1>3. snapshot' \in [HeldSessions -> 0..MaxHistory]
  <2>1. history[s] \in 0..MaxHistory
    BY <1>1 DEF RegistryTyped
  <2>2. QED
    BY <1>1, <2>1 DEF CommitHistory, SaveSnapshot, RegistryTyped
<1>4. RegistryTyped'
  BY <1>1, <1>2, <1>3 DEF RegistryTyped
<1>5. Made' = Made
  BY <1>1 DEF Made
<1>6. ActorsKnown' /\ CreatorsWait'
  BY <1>1, <1>5 DEF ActorsKnown, CreatorsWait, Pending
<1>7. ReadsSound'
  <2>1. ASSUME NEW a \in 1..MaxMade, attempt[a].state = "reading"
        PROVE  /\ attempt[a].since <= history'[actor[a].session]
               /\ attempt[a].full # Unread =>
                    attempt[a].full \in attempt[a].since..history'[actor[a].session]
    <3>1. a \in Made /\ actor[a].session \in HeldSessions
      BY <1>1, <2>1 DEF ActorsKnown, RegistryTyped, Made, MadeActor
    <3>2. /\ history[actor[a].session] \in 1..MaxHistory /\ history'[actor[a].session] \in 1..MaxHistory
          /\ history[actor[a].session] <= history'[actor[a].session]
      BY <1>1, <1>2, <3>1 DEF RegistryTyped
    <3>3. attempt[a].since \in 1..MaxHistory /\ attempt[a].full \in 1..Unread
      <4>1. attempt[a] \in Attempt
        BY <1>1 DEF RegistryTyped
      <4>2. QED
        BY <2>1, <4>1, ReadingFields
    <3>4. QED
      BY <1>1, <2>1, <3>2, <3>3 DEF ReadsSound
  <2>2. QED
    BY <1>1, <2>1 DEF ReadsSound
<1>8. QED
  BY <1>4, <1>6, <1>7 DEF RegistryInv

LEMMA RegistryInvInit == RegistryInit => RegistryInv
<1> SUFFICES ASSUME RegistryInit PROVE RegistryInv
  OBVIOUS
<1>1. MaxMade \in Nat /\ MaxHistory \in Nat \ {0} /\ 1 \in 1..MaxHistory
      /\ 0 \in 0..MaxHistory /\ 1 \in 0..MaxHistory
  BY RegistryAssumption
<1>2. NoRequest \in Request /\ NoRequest.stage = "none" /\ NoRequest.actor = NoActor
  BY DEF NoRequest, Request
<1>3. RegistryTyped
  <2>1. snapshot \in [HeldSessions -> 0..MaxHistory]
    BY <1>1 DEF RegistryInit
  <2>2. QED
    BY <1>1, <1>2, <2>1, AttemptTyped DEF RegistryInit, RegistryTyped
<1>4. Made = {}
  BY DEF RegistryInit, Made
<1>5. ActorsKnown
  <2>1. 0 \in 0..MaxMade /\ Made = 1..0
    BY <1>1, <1>4
  <2>2. \A a \in 1..MaxMade : attempt[a].state = "none"
    BY AttemptTyped DEF RegistryInit
  <2>3. \A c \in Requesters : request[c].actor = NoActor /\ ~Pending(c)
    BY <1>2 DEF RegistryInit, Pending
  <2>4. \A s \in HeldSessions : registered[s] = NoActor
    BY DEF RegistryInit
  <2>5. QED
    BY <2>1, <2>2, <2>3, <2>4 DEF ActorsKnown
<1>6. ReadsSound
  BY AttemptTyped DEF RegistryInit, ReadsSound
<1>7. CreatorsWait
  BY <1>2 DEF RegistryInit, CreatorsWait
<1>8. QED
  BY <1>3, <1>5, <1>6, <1>7 DEF RegistryInv

LEMMA RegistryInvNext == RegistryInv /\ [RegistryNext]_registryVars => RegistryInv'
<1> SUFFICES ASSUME RegistryInv, [RegistryNext]_registryVars PROVE RegistryInv'
  OBVIOUS
<1>1. ASSUME NEW c \in Requesters, NEW s \in HeldSessions, GetActor(c, s) PROVE RegistryInv'
  BY <1>1, ActorAsked
<1>2. ASSUME NEW a \in Made, ReadSource(a) PROVE RegistryInv'
  BY <1>2, SourceRead
<1>3. ASSUME NEW a \in Made, Hydrate(a) \/ ForgetAttempt(a) PROVE RegistryInv'
  BY <1>3, AttemptEnded
<1>4. ASSUME NEW a \in Made, FailHydration(a) PROVE RegistryInv'
  BY <1>4, HydrationFailed
<1>5. ASSUME NEW c \in Requesters, LeaveFailed(c) PROVE RegistryInv'
  BY <1>5, RequestLeft
<1>6. ASSUME NEW s \in HeldSessions, CommitHistory(s) \/ SaveSnapshot(s) PROVE RegistryInv'
  BY <1>6, SourceMoved
<1>7. CASE UNCHANGED registryVars
  BY <1>7 DEF registryVars, RegistryInv, RegistryTyped, ActorsKnown, ReadsSound, CreatorsWait,
     Made, Pending
<1>8. QED
  BY <1>1, <1>2, <1>3, <1>4, <1>5, <1>6, <1>7 DEF RegistryNext, RegistryProgress

LEMMA RegistryInductive == RegistrySpec => []RegistryInv
  BY RegistryInvInit, RegistryInvNext, PTL DEF RegistrySpec

(* The map, the requests and the attempts only ever name actors that were  *)
(* made, each for its own session (SessionActorRegistry.getActor).         *)
THEOREM RegistryTypeCorrect == RegistrySpec => []RegistryTypeOK
<1>1. RegistryInv => RegistryTypeOK
  <2> SUFFICES ASSUME RegistryInv PROVE RegistryTypeOK
    OBVIOUS
  <2>1. registered \in [HeldSessions -> Made \cup {NoActor}]
    BY DEF RegistryInv, RegistryTyped, ActorsKnown
  <2>2. \A a \in Made : actor[a].session \in HeldSessions /\ actor[a].version \in 0..MaxHistory
    BY DEF RegistryInv, RegistryTyped, Made, MadeActor
  <2>3. ASSUME NEW a \in DOMAIN attempt PROVE attempt[a].state \in {"none", "reading", "failed"}
    <3>1. attempt[a] \in Attempt
      BY DEF RegistryInv, RegistryTyped
    <3>2. QED
      BY <3>1 DEF Attempt, NotHydrating
  <2>4. ASSUME NEW c \in Requesters
        PROVE  request[c] \in [stage : {"none", "leading", "joined", "leaving", "held", "refused", "failed"},
                               actor : Made \cup {NoActor}, created : BOOLEAN]
    <3>1. request[c] \in Request /\ request[c].actor \in Made \cup {NoActor}
      BY DEF RegistryInv, RegistryTyped, ActorsKnown
    <3>2. QED
      BY <3>1 DEF Request
  <2>5. request \in [Requesters -> [stage : {"none", "leading", "joined", "leaving", "held", "refused", "failed"},
                                    actor : Made \cup {NoActor}, created : BOOLEAN]]
    BY <2>4 DEF RegistryInv, RegistryTyped
  <2>6. QED
    BY <2>1, <2>2, <2>3, <2>5 DEF RegistryTypeOK
<1>2. QED
  BY <1>1, RegistryInductive, PTL

(* No place of the registry is lost to a failed hydration: what is in the  *)
(* map and not hydrated is hydrating, or its maker is about to take it out *)
(* (getActor, ensureHydrated).                                             *)
THEOREM PlacesAreFreed == RegistrySpec => []RegisteredActorsLive
<1>1. RegistryInv => RegisteredActorsLive
  <2> SUFFICES ASSUME RegistryInv, NEW s \in HeldSessions, registered[s] # NoActor,
                      actor[registered[s]].version = 0, attempt[registered[s]].state = "none"
               PROVE  \E c \in Requesters : request[c].stage = "leaving" /\ request[c].created
                                             /\ request[c].actor = registered[s]
    BY DEF RegisteredActorsLive
  <2>1. PICK c \in Requesters : /\ request[c].actor = registered[s] /\ request[c].created
                                /\ request[c].stage \in {"leading", "leaving"}
    BY DEF RegistryInv, CreatorsWait
  <2>2. request[c].stage # "leading"
    BY <2>1 DEF RegistryInv, CreatorsWait
  <2>3. QED
    BY <2>1, <2>2
<1>2. QED
  BY <1>1, RegistryInductive, PTL

(* A hydrated actor starts from one committed version, none of whose       *)
(* events it misses that were committed before its hydration began,        *)
(* whatever is committed or snapshotted between the reads                  *)
(* (verifySessionReplay, #hydrate).                                        *)
THEOREM HydrationsFollowHistory == RegistrySpec => HydratesFromHistory
<1>1. RegistryInv /\ [RegistryNext]_registryVars
        => [\A a \in Made : actor'[a] # actor[a] =>
              actor'[a].version \in attempt[a].since..history[actor[a].session]]_registryVars
  <2> SUFFICES ASSUME RegistryInv, RegistryNext, NEW a \in Made, actor'[a] # actor[a]
               PROVE  actor'[a].version \in attempt[a].since..history[actor[a].session]
    OBVIOUS
  <2>1. a \in 1..MaxMade /\ actor \in [1..MaxMade -> MadeActor \cup {NoActor}]
    BY DEF Made, RegistryInv, RegistryTyped
  <2>2. ASSUME NEW b \in Made, Hydrate(b)
        PROVE  actor'[a].version \in attempt[a].since..history[actor[a].session]
    <3>1. /\ attempt[b].full \in attempt[b].since..history[actor[b].session]
          /\ actor' = [actor EXCEPT ![b] = [actor[b] EXCEPT !.version = attempt[b].full]]
          /\ actor[b] \in MadeActor
      BY <2>2, HydratedVersion
    <3>2. a = b
      BY <2>1, <3>1
    <3>3. actor'[a] = [actor[a] EXCEPT !.version = attempt[a].full]
      BY <2>1, <3>1, <3>2
    <3>4. [actor[a] EXCEPT !.version = attempt[a].full].version = attempt[a].full
      BY <3>1, <3>2 DEF MadeActor
    <3>5. QED
      BY <3>1, <3>2, <3>3, <3>4
  <2>3. ASSUME NEW c \in Requesters, NEW s \in HeldSessions, GetActor(c, s) PROVE FALSE
    <3>1. actor' # actor
      BY <2>1
    <3>2. Cardinality(Made) < MaxMade
          /\ actor' = [actor EXCEPT ![Cardinality(Made) + 1] = [session |-> s, version |-> 0]]
      BY <2>3, <3>1 DEF GetActor
    <3>3. PICK n \in 0..MaxMade : Made = 1..n
      BY DEF RegistryInv, ActorsKnown
    <3>4. Cardinality(Made) = n
      <4>1. MaxMade \in Nat
        BY RegistryAssumption
      <4>2. n \in Nat
        BY <4>1
      <4>3. Cardinality(1..n) = IF 1 > n THEN 0 ELSE n - 1 + 1
        BY <4>2, FS_Interval
      <4>4. Cardinality(1..n) = n
        BY <4>2, <4>3
      <4>5. QED
        BY <3>3, <4>4
    <3>5. a # Cardinality(Made) + 1
      <4>1. MaxMade \in Nat
        BY RegistryAssumption
      <4>2. n \in Nat
        BY <4>1
      <4>3. a \in 1..n
        BY <3>3
      <4>4. QED
        BY <3>4, <4>2, <4>3
    <3>6. QED
      BY <2>1, <3>2, <3>5
  <2>4. CASE /\ \A b \in Made : ~Hydrate(b)
             /\ \A c \in Requesters, s \in HeldSessions : ~GetActor(c, s)
    BY <2>4 DEF RegistryNext, RegistryProgress, ReadSource, FailHydration, ForgetAttempt, LeaveFailed,
       CommitHistory, SaveSnapshot
  <2>5. QED
    BY <2>2, <2>3, <2>4
<1>2. QED
  BY <1>1, RegistryInductive, PTL DEF RegistrySpec, HydratesFromHistory

-------------------------------------------------------------------------------
(* What runs for a live session, side by side.                             *)

(* Each part behaves as it does alone, so that whatever is proved of one   *)
(* holds next to the others.                                               *)
THEOREM PartsRunAlone == MCSpec => Spec /\ CoordinatorSpec /\ ActorSpec /\ RegistrySpec
<1>1. MCInit => Init /\ CoordinatorInit /\ ActorInit /\ RegistryInit
  BY DEF MCInit
<1>2. [MCNext]_mcVars => /\ [Next]_vars /\ [CoordinatorNext]_coordinatorVars
                         /\ [ActorNext]_actorVars /\ [RegistryNext]_registryVars
  BY DEF MCNext, mcVars
<1>3. QED
  BY <1>1, <1>2, PTL DEF MCSpec, Spec, CoordinatorSpec, ActorSpec, RegistrySpec

(* Nothing leaks, in any of the parts: windows, lanes and the registry's   *)
(* places stay within their capacity and hold what they may hold           *)
(* (evictSettledDeliveries, BoundedActorMailbox, getActor).                *)
THEOREM NothingLeaks == MCSpec => []BoundsHold
  BY PartsRunAlone, DriverTypeCorrect, ActorTypeCorrect, RegistryTypeCorrect, PlacesAreFreed, PTL
     DEF BoundsHold
===============================================================================
