------------------------------ MODULE ToolsProofs ------------------------------
(***************************************************************************)
(* Machine-checked proofs about the tool runtime and the catalog commands  *)
(* above it, for every set of intents, commands, sessions and every size   *)
(* of the ledgers.                                                         *)
(***************************************************************************)
EXTENDS MCActionRuntime, FiniteSetTheorems, TLAPS

(* The indexes have an execution exactly under its own names, while its    *)
(* promise is remembered.                                                  *)
Indexed ==
  /\ \A k \in Keys : executions[k] # NoIntent => Key(executions[k]) = k
  /\ \A d \in Identifiers :
       executionsByIntent[d] # NoIntent => Identifier(executionsByIntent[d]) = d
  /\ \A i \in Intents : job[i] # "none" <=> executions[Key(i)] = i
  /\ \A i \in Intents : job[i] # "none" <=> executionsByIntent[Identifier(i)] = i

Counted ==
  \A t \in ToolTenants :
    /\ IsFiniteSet(Registered(t))
    /\ ledgerCount[t] = Cardinality(Registered(t))
    /\ ledgerCount[t] <= MaxLedger

(* What waits to run has its operation to itself and no barrier before it; *)
(* a barrier is the one its own execution left.                            *)
Promised ==
  /\ \A i \in settling : job[i] \notin {"none", "queued"}
  /\ \A i \in Intents : job[i] = "queued" =>
       operationsInFlight[Operation(i)] = i /\ unknownOperations[Operation(i)] = NoIntent
  /\ \A o \in Operations : unknownOperations[o] # NoIntent =>
       Operation(unknownOperations[o]) = o /\ job[unknownOperations[o]] = "unknown"

RuntimeInv == RuntimeTypeOK /\ Indexed /\ Counted /\ Promised

LEMMA IntentPlaces ==
  ASSUME NEW i \in Intents
  PROVE  /\ Key(i) \in Keys /\ Identifier(i) \in Identifiers /\ Operation(i) \in Operations
         /\ i.tenant \in ToolTenants /\ Key(i)[1] = i.tenant /\ i # NoIntent
BY RuntimeAssumption DEF Keys, Identifiers, Operations, ToolTenants, Key

LEMMA RuntimeInvInit == RuntimeInit => RuntimeInv
<1> SUFFICES ASSUME RuntimeInit PROVE RuntimeInv
  OBVIOUS
<1>1. RuntimeTypeOK
  BY DEF RuntimeInit, RuntimeTypeOK
<1>2. Indexed
  BY IntentPlaces DEF RuntimeInit, Indexed
<1>3. Counted
  <2>1. \A t \in ToolTenants : Registered(t) = {}
    BY DEF RuntimeInit, Registered
  <2>2. QED
    BY <2>1, FS_EmptySet, RuntimeAssumption DEF RuntimeInit, Counted
<1>4. Promised
  BY DEF RuntimeInit, Promised
<1>5. QED
  BY <1>1, <1>2, <1>3, <1>4 DEF RuntimeInv

(* A submission that is accepted takes free names and a free operation.    *)
LEMMA SubmissionKept ==
  ASSUME RuntimeInv, NEW i \in Intents, SubmitActionIntent(i)
  PROVE  RuntimeInv'
<1>1. /\ executions[Key(i)] = NoIntent /\ executionsByIntent[Identifier(i)] = NoIntent
      /\ ledgerCount[i.tenant] < MaxLedger
      /\ unknownOperations[Operation(i)] = NoIntent
      /\ operationsInFlight[Operation(i)] = NoIntent
  BY DEF SubmitActionIntent, Accepts, Known
<1>2. /\ executions' = [executions EXCEPT ![Key(i)] = i]
      /\ executionsByIntent' = [executionsByIntent EXCEPT ![Identifier(i)] = i]
      /\ operationsInFlight' = [operationsInFlight EXCEPT ![Operation(i)] = i]
      /\ ledgerCount' = [ledgerCount EXCEPT ![i.tenant] = @ + 1]
      /\ job' = [job EXCEPT ![i] = "queued"]
      /\ UNCHANGED <<profile, unknownOperations, timedOut, settling, invocations>>
  BY DEF SubmitActionIntent
<1>3. RuntimeTypeOK
  BY DEF RuntimeInv
<1>4. job[i] = "none"
  BY <1>1, IntentPlaces DEF RuntimeInv, Indexed
<1>5. RuntimeTypeOK'
  BY <1>2, <1>3, IntentPlaces DEF RuntimeTypeOK
<1>6. Indexed'
  <2>1. /\ \A k \in Keys : executions'[k] # NoIntent => Key(executions'[k]) = k
        /\ \A d \in Identifiers :
             executionsByIntent'[d] # NoIntent => Identifier(executionsByIntent'[d]) = d
    BY <1>2, <1>3, IntentPlaces DEF RuntimeInv, Indexed, RuntimeTypeOK
  <2>2. ASSUME NEW j \in Intents
        PROVE  /\ job'[j] # "none" <=> executions'[Key(j)] = j
               /\ job'[j] # "none" <=> executionsByIntent'[Identifier(j)] = j
    <3>1. CASE j = i
      BY <1>2, <1>3, <3>1, IntentPlaces DEF RuntimeTypeOK
    <3>2. CASE j # i
      <4>1. job'[j] = job[j]
        BY <1>2, <1>3, <3>2 DEF RuntimeTypeOK
      <4>2. executions'[Key(j)] = j <=> executions[Key(j)] = j
        BY <1>1, <1>2, <1>3, <3>2, IntentPlaces DEF RuntimeTypeOK
      <4>3. executionsByIntent'[Identifier(j)] = j <=> executionsByIntent[Identifier(j)] = j
        BY <1>1, <1>2, <1>3, <3>2, IntentPlaces DEF RuntimeTypeOK
      <4>4. QED
        BY <4>1, <4>2, <4>3 DEF RuntimeInv, Indexed
    <3>3. QED
      BY <3>1, <3>2
  <2>3. QED
    BY <2>1, <2>2 DEF Indexed
<1>7. Counted'
  <2>1. ASSUME NEW t \in ToolTenants
        PROVE  /\ IsFiniteSet(Registered(t)') /\ ledgerCount'[t] = Cardinality(Registered(t)')
               /\ ledgerCount'[t] <= MaxLedger
    <3>1. IsFiniteSet(Registered(t)) /\ ledgerCount[t] = Cardinality(Registered(t))
          /\ ledgerCount[t] <= MaxLedger
      BY DEF RuntimeInv, Counted
    <3>2. CASE t = i.tenant
      <4>1. Registered(t)' = Registered(t) \cup {Key(i)}
        BY <1>2, <1>3, <3>2, IntentPlaces DEF Registered, RuntimeTypeOK
      <4>2. Key(i) \notin Registered(t)
        BY <1>1 DEF Registered
      <4>3. Cardinality(Registered(t)') = ledgerCount[t] + 1 /\ IsFiniteSet(Registered(t)')
        BY <3>1, <4>1, <4>2, FS_AddElement
      <4>4. ledgerCount'[t] = ledgerCount[t] + 1 /\ ledgerCount[t] \in Nat /\ ledgerCount[t] < MaxLedger
        BY <1>1, <1>2, <1>3, <3>2 DEF RuntimeTypeOK
      <4>5. QED
        BY <4>3, <4>4, RuntimeAssumption
    <3>3. CASE t # i.tenant
      <4>1. Registered(t)' = Registered(t)
        BY <1>2, <1>3, <3>3, IntentPlaces DEF Registered, RuntimeTypeOK
      <4>2. ledgerCount'[t] = ledgerCount[t]
        BY <1>2, <1>3, <3>3 DEF RuntimeTypeOK
      <4>3. QED
        BY <3>1, <4>1, <4>2
    <3>4. QED
      BY <3>2, <3>3
  <2>2. QED
    BY <2>1 DEF Counted
<1>8. Promised'
  <2>1. \A j \in settling' : job'[j] \notin {"none", "queued"}
    BY <1>2, <1>3, <1>4 DEF RuntimeInv, Promised, RuntimeTypeOK
  <2>2. ASSUME NEW j \in Intents, job'[j] = "queued"
        PROVE  operationsInFlight'[Operation(j)] = j /\ unknownOperations'[Operation(j)] = NoIntent
    <3>1. CASE j = i
      BY <1>1, <1>2, <1>3, <3>1, IntentPlaces DEF RuntimeTypeOK
    <3>2. CASE j # i
      <4>1. job[j] = "queued"
        BY <1>2, <1>3, <2>2, <3>2 DEF RuntimeTypeOK
      <4>2. operationsInFlight[Operation(j)] = j /\ unknownOperations[Operation(j)] = NoIntent
        BY <4>1 DEF RuntimeInv, Promised
      <4>3. Operation(j) # Operation(i)
        BY <1>1, <4>2, IntentPlaces
      <4>4. QED
        BY <1>2, <1>3, <4>2, <4>3, IntentPlaces DEF RuntimeTypeOK
    <3>3. QED
      BY <3>1, <3>2
  <2>3. ASSUME NEW o \in Operations, unknownOperations'[o] # NoIntent
        PROVE  Operation(unknownOperations'[o]) = o /\ job'[unknownOperations'[o]] = "unknown"
    <3>1. /\ unknownOperations'[o] = unknownOperations[o]
          /\ Operation(unknownOperations[o]) = o /\ job[unknownOperations[o]] = "unknown"
      BY <1>2, <2>3 DEF RuntimeInv, Promised
    <3>2. QED
      BY <1>2, <1>3, <1>4, <3>1 DEF RuntimeTypeOK
  <2>4. QED
    BY <2>1, <2>2, <2>3 DEF Promised
<1>9. QED
  BY <1>5, <1>6, <1>7, <1>8 DEF RuntimeInv

LEMMA ExecutionKept ==
  ASSUME RuntimeInv, NEW i \in Intents, ExecuteGovernedDecision(i)
  PROVE  RuntimeInv'
<1>1. PICK outcome \in Outcomes :
        /\ job' = [job EXCEPT ![i] = outcome]
        /\ unknownOperations' = IF outcome = "unknown"
                                  THEN [unknownOperations EXCEPT ![Operation(i)] = i]
                                  ELSE unknownOperations
        /\ timedOut' \in {timedOut, timedOut \cup {i.tenant}}
        /\ invocations' \in {invocations, [invocations EXCEPT ![Operation(i)] = @ + 1]}
  <2>1. GovernedOutcome(i) \in Outcomes
    BY DEF GovernedOutcome, Outcomes
  <2>2. QED
    BY <2>1 DEF ExecuteGovernedDecision
<1>2. /\ job[i] = "queued" /\ settling' = settling \cup {i}
      /\ UNCHANGED <<profile, executions, executionsByIntent, operationsInFlight, ledgerCount>>
  BY DEF ExecuteGovernedDecision
<1>3. RuntimeTypeOK
  BY DEF RuntimeInv
<1>4. outcome \notin {"none", "queued"}
  BY DEF Outcomes
<1>5. RuntimeTypeOK'
  <2>1. timedOut' \subseteq ToolTenants /\ settling' \subseteq Intents
    BY <1>1, <1>2, <1>3, IntentPlaces DEF RuntimeTypeOK
  <2>2. invocations' \in [Operations -> Nat]
    BY <1>1, <1>3, IntentPlaces DEF RuntimeTypeOK
  <2>3. unknownOperations' \in [Operations -> Intents \cup {NoIntent}]
    BY <1>1, <1>3, IntentPlaces DEF RuntimeTypeOK
  <2>4. job' \in [Intents -> Outcomes \cup {"none", "queued"}]
    BY <1>1, <1>3 DEF RuntimeTypeOK
  <2>5. QED
    BY <1>2, <1>3, <2>1, <2>2, <2>3, <2>4 DEF RuntimeTypeOK
<1>6. Indexed'
  <2>1. \A j \in Intents : job'[j] # "none" <=> job[j] # "none"
    BY <1>1, <1>2, <1>3, <1>4 DEF RuntimeTypeOK
  <2>2. QED
    BY <1>2, <2>1 DEF RuntimeInv, Indexed
<1>7. Counted'
  BY <1>2 DEF RuntimeInv, Counted, Registered
<1>8. Promised'
  <2>1. \A j \in settling' : job'[j] \notin {"none", "queued"}
    BY <1>1, <1>2, <1>3, <1>4 DEF RuntimeInv, Promised, RuntimeTypeOK
  <2>2. ASSUME NEW j \in Intents, job'[j] = "queued"
        PROVE  operationsInFlight'[Operation(j)] = j /\ unknownOperations'[Operation(j)] = NoIntent
    <3>1. j # i /\ job[j] = "queued"
      BY <1>1, <1>3, <1>4, <2>2 DEF RuntimeTypeOK
    <3>2. /\ operationsInFlight[Operation(j)] = j /\ unknownOperations[Operation(j)] = NoIntent
          /\ operationsInFlight[Operation(i)] = i
      BY <1>2, <3>1 DEF RuntimeInv, Promised
    <3>3. Operation(j) # Operation(i)
      BY <3>1, <3>2
    <3>4. unknownOperations'[Operation(j)] = unknownOperations[Operation(j)]
      BY <1>1, <1>3, <3>3, IntentPlaces DEF RuntimeTypeOK
    <3>5. QED
      BY <1>2, <3>2, <3>4
  <2>3. ASSUME NEW o \in Operations, unknownOperations'[o] # NoIntent
        PROVE  Operation(unknownOperations'[o]) = o /\ job'[unknownOperations'[o]] = "unknown"
    <3>1. CASE outcome = "unknown" /\ o = Operation(i)
      BY <1>1, <1>3, <3>1, IntentPlaces DEF RuntimeTypeOK
    <3>2. CASE ~(outcome = "unknown" /\ o = Operation(i))
      <4>1. unknownOperations'[o] = unknownOperations[o]
        BY <1>1, <1>3, <3>2 DEF RuntimeTypeOK
      <4>2. Operation(unknownOperations[o]) = o /\ job[unknownOperations[o]] = "unknown"
            /\ unknownOperations[o] \in Intents
        BY <1>3, <2>3, <4>1 DEF RuntimeInv, Promised, RuntimeTypeOK
      <4>3. unknownOperations[o] # i
        BY <1>2, <4>2
      <4>4. job'[unknownOperations[o]] = job[unknownOperations[o]]
        BY <1>1, <1>3, <4>2, <4>3 DEF RuntimeTypeOK
      <4>5. QED
        BY <4>1, <4>2, <4>4
    <3>3. QED
      BY <3>1, <3>2
  <2>4. QED
    BY <2>1, <2>2, <2>3 DEF Promised
<1>9. QED
  BY <1>5, <1>6, <1>7, <1>8 DEF RuntimeInv

LEMMA ReactionsKept ==
  ASSUME RuntimeInv, NEW i \in Intents, SettleExecution(i)
  PROVE  RuntimeInv'
<1>1. /\ i \in settling /\ settling' = settling \ {i}
      /\ UNCHANGED <<profile, unknownOperations, timedOut, invocations>>
      /\ operationsInFlight' = Release(operationsInFlight, Operation(i), i, NoIntent)
  BY DEF SettleExecution
<1>2. RuntimeTypeOK
  BY DEF RuntimeInv
<1>3. job[i] \notin {"none", "queued"}
  BY <1>1 DEF RuntimeInv, Promised
<1>4. /\ operationsInFlight' \in [Operations -> Intents \cup {NoIntent}]
      /\ \A o \in Operations : operationsInFlight'[o] =
           IF o = Operation(i) /\ operationsInFlight[o] = i THEN NoIntent ELSE operationsInFlight[o]
  BY <1>1, <1>2, IntentPlaces DEF RuntimeTypeOK, Release
<1>5. CASE job[i] # "rejected"
  <2>1. UNCHANGED <<executions, executionsByIntent, ledgerCount, job>>
    BY <1>5 DEF SettleExecution
  <2>2. RuntimeTypeOK'
    BY <1>1, <1>2, <1>4, <2>1 DEF RuntimeTypeOK
  <2>3. Indexed' /\ Counted'
    BY <2>1 DEF RuntimeInv, Indexed, Counted, Registered
  <2>4. ASSUME NEW j \in Intents, job[j] = "queued" PROVE operationsInFlight'[Operation(j)] = j
    <3>1. j # i /\ operationsInFlight[Operation(j)] = j
      BY <1>3, <2>4 DEF RuntimeInv, Promised
    <3>2. QED
      BY <1>4, <3>1, IntentPlaces
  <2>5. Promised'
    BY <1>1, <2>1, <2>4 DEF RuntimeInv, Promised
  <2>6. QED
    BY <2>2, <2>3, <2>5 DEF RuntimeInv
<1>6. CASE job[i] = "rejected"
  <2>1. /\ executions' = Release(executions, Key(i), i, NoIntent)
        /\ executionsByIntent' = Release(executionsByIntent, Identifier(i), i, NoIntent)
        /\ job' = [job EXCEPT ![i] = "none"]
        /\ ledgerCount' = [ledgerCount EXCEPT ![i.tenant] = @ - 1]
    BY <1>6 DEF SettleExecution, Forget
  <2>2. executions[Key(i)] = i /\ executionsByIntent[Identifier(i)] = i
    BY <1>3 DEF RuntimeInv, Indexed
  <2>3. /\ executions' = [executions EXCEPT ![Key(i)] = NoIntent]
        /\ executionsByIntent' = [executionsByIntent EXCEPT ![Identifier(i)] = NoIntent]
    BY <2>1, <2>2 DEF Release
  <2>4. ASSUME NEW t \in ToolTenants
        PROVE  /\ IsFiniteSet(Registered(t)') /\ ledgerCount'[t] = Cardinality(Registered(t)')
               /\ ledgerCount'[t] <= MaxLedger /\ ledgerCount'[t] \in Nat
    <3>1. IsFiniteSet(Registered(t)) /\ ledgerCount[t] = Cardinality(Registered(t))
          /\ ledgerCount[t] <= MaxLedger /\ ledgerCount[t] \in Nat
      BY <1>2 DEF RuntimeInv, Counted, RuntimeTypeOK
    <3>2. CASE t = i.tenant
      <4>1. Registered(t)' = Registered(t) \ {Key(i)}
        BY <1>2, <2>3, <3>2, IntentPlaces DEF Registered, RuntimeTypeOK
      <4>2. Key(i) \in Registered(t)
        BY <2>2, <3>2, IntentPlaces DEF Registered
      <4>3. Cardinality(Registered(t)') = ledgerCount[t] - 1 /\ IsFiniteSet(Registered(t)')
        BY <3>1, <4>1, <4>2, FS_RemoveElement
      <4>4. Cardinality(Registered(t)') \in Nat
        BY <4>3, FS_CardinalityType
      <4>5. ledgerCount'[t] = ledgerCount[t] - 1
        BY <1>2, <2>1, <3>2 DEF RuntimeTypeOK
      <4>6. QED
        BY <3>1, <4>3, <4>4, <4>5, RuntimeAssumption
    <3>3. CASE t # i.tenant
      <4>1. Registered(t)' = Registered(t)
        BY <1>2, <2>3, <3>3, IntentPlaces DEF Registered, RuntimeTypeOK
      <4>2. ledgerCount'[t] = ledgerCount[t]
        BY <1>2, <2>1, <3>3 DEF RuntimeTypeOK
      <4>3. QED
        BY <3>1, <4>1, <4>2
    <3>4. QED
      BY <3>2, <3>3
  <2>5. Counted'
    BY <2>4 DEF Counted
  <2>6. RuntimeTypeOK'
    <3>1. /\ executions' \in [Keys -> Intents \cup {NoIntent}]
          /\ executionsByIntent' \in [Identifiers -> Intents \cup {NoIntent}]
          /\ job' \in [Intents -> Outcomes \cup {"none", "queued"}]
      BY <1>2, <2>1, <2>3 DEF RuntimeTypeOK
    <3>2. ledgerCount' \in [ToolTenants -> Nat]
      BY <1>2, <2>1, <2>4 DEF RuntimeTypeOK
    <3>3. QED
      BY <1>1, <1>2, <1>4, <3>1, <3>2 DEF RuntimeTypeOK
  <2>7. Indexed'
    <3>1. /\ \A k \in Keys : executions'[k] # NoIntent => Key(executions'[k]) = k
          /\ \A d \in Identifiers :
               executionsByIntent'[d] # NoIntent => Identifier(executionsByIntent'[d]) = d
      BY <1>2, <2>3 DEF RuntimeInv, Indexed, RuntimeTypeOK
    <3>2. ASSUME NEW j \in Intents
          PROVE  /\ job'[j] # "none" <=> executions'[Key(j)] = j
                 /\ job'[j] # "none" <=> executionsByIntent'[Identifier(j)] = j
      <4>1. CASE j = i
        BY <1>2, <2>1, <2>3, <4>1, IntentPlaces DEF RuntimeTypeOK
      <4>2. CASE j # i
        <5>1. job'[j] = job[j]
          BY <1>2, <2>1, <4>2 DEF RuntimeTypeOK
        <5>2. executions'[Key(j)] = j <=> executions[Key(j)] = j
          BY <1>2, <2>2, <2>3, <4>2, IntentPlaces DEF RuntimeTypeOK
        <5>3. executionsByIntent'[Identifier(j)] = j <=> executionsByIntent[Identifier(j)] = j
          BY <1>2, <2>2, <2>3, <4>2, IntentPlaces DEF RuntimeTypeOK
        <5>4. QED
          BY <5>1, <5>2, <5>3 DEF RuntimeInv, Indexed
      <4>3. QED
        BY <4>1, <4>2
    <3>3. QED
      BY <3>1, <3>2 DEF Indexed
  <2>8. Promised'
    <3>1. \A j \in settling' : job'[j] \notin {"none", "queued"}
      BY <1>1, <1>2, <2>1 DEF RuntimeInv, Promised, RuntimeTypeOK
    <3>2. ASSUME NEW j \in Intents, job'[j] = "queued"
          PROVE  operationsInFlight'[Operation(j)] = j /\ unknownOperations'[Operation(j)] = NoIntent
      <4>1. j # i /\ job[j] = "queued"
        BY <1>2, <2>1, <3>2 DEF RuntimeTypeOK
      <4>2. operationsInFlight[Operation(j)] = j /\ unknownOperations[Operation(j)] = NoIntent
        BY <4>1 DEF RuntimeInv, Promised
      <4>3. QED
        BY <1>1, <1>4, <4>1, <4>2, IntentPlaces
    <3>3. ASSUME NEW o \in Operations, unknownOperations'[o] # NoIntent
          PROVE  Operation(unknownOperations'[o]) = o /\ job'[unknownOperations'[o]] = "unknown"
      <4>1. unknownOperations' = unknownOperations
        BY <1>1
      <4>2. Operation(unknownOperations[o]) = o /\ job[unknownOperations[o]] = "unknown"
        BY <3>3, <4>1 DEF RuntimeInv, Promised
      <4>3. job'[unknownOperations[o]] = "unknown"
        BY <1>2, <1>6, <2>1, <4>2 DEF RuntimeTypeOK
      <4>4. QED
        BY <4>1, <4>2, <4>3
    <3>4. QED
      BY <3>1, <3>2, <3>3 DEF Promised
  <2>9. QED
    BY <2>5, <2>6, <2>7, <2>8 DEF RuntimeInv
<1>7. QED
  BY <1>5, <1>6

(* Lifting a barrier.                                                      *)
LEMMA LiftedKept ==
  ASSUME RuntimeInv, NEW o \in Operations,
         unknownOperations' = [unknownOperations EXCEPT ![o] = NoIntent],
         UNCHANGED <<profile, executions, executionsByIntent, operationsInFlight, ledgerCount,
                     timedOut, job, settling, invocations>>
  PROVE  RuntimeInv'
<1>1. RuntimeTypeOK /\ RuntimeTypeOK'
  BY DEF RuntimeInv, RuntimeTypeOK
<1>2. Indexed' /\ Counted'
  BY DEF RuntimeInv, Indexed, Counted, Registered
<1>3. Promised'
  BY <1>1, IntentPlaces DEF RuntimeInv, Promised, RuntimeTypeOK
<1>4. QED
  BY <1>1, <1>2, <1>3 DEF RuntimeInv

LEMMA RuntimeIdle ==
  ASSUME RuntimeInv, UNCHANGED runtimeVars
  PROVE  RuntimeInv'
<1>1. RuntimeTypeOK'
  BY DEF RuntimeInv, RuntimeTypeOK, runtimeVars
<1>2. Indexed' /\ Promised'
  BY DEF RuntimeInv, Indexed, Promised, runtimeVars
<1>3. Counted'
  <2>1. \A t \in ToolTenants : Registered(t)' = Registered(t)
    BY DEF Registered, runtimeVars
  <2>2. QED
    BY <2>1 DEF RuntimeInv, Counted, runtimeVars
<1>4. QED
  BY <1>1, <1>2, <1>3 DEF RuntimeInv

-------------------------------------------------------------------------------
(* The coordinator.                                                        *)

InFlight == {"queued", "running", "resolved", "rejected"}
HoldsRow == {"queued", "running", "rejected"}

CommandsOf(t) == {c \in Commands : c.tenant = t /\ flowJob[c] # "none"}
RowsOf(s, phases) == {c \in Commands : c.session = s /\ flowJob[c] \in phases}

FlowTyped ==
  /\ commandsByQuestion \in [Questions -> Commands \cup {NoCommand}]
  /\ flowInFlight \in [FlowOperations -> Commands \cup {NoCommand}]
  /\ flowUnknown \in [FlowOperations -> Commands \cup {NoCommand}]
  /\ flowCount \in [ToolTenants -> Nat]
  /\ reservations \in [CatalogSessions -> Nat]
  /\ flowJob \in [Commands -> FlowPhases]
  /\ submissions \in 0..MaxSubmissions
  /\ reconciling \in [Reconcilers -> Commands \cup {NoCommand}]

(* A command that is remembered has its question and, until it settled,    *)
(* its operation.                                                          *)
CommandsIndexed ==
  /\ \A c \in Commands : flowJob[c] # "none" <=> commandsByQuestion[Question(c)] = c
  /\ \A c \in Commands : flowJob[c] \in InFlight <=> flowInFlight[CommandOperation(c)] = c

CommandsCounted ==
  \A t \in ToolTenants :
    /\ IsFiniteSet(CommandsOf(t)) /\ flowCount[t] = Cardinality(CommandsOf(t))
    /\ flowCount[t] <= MaxLedger

(* What the runtime did of a command, by where the command is.             *)
Dispatched ==
  \A c \in Commands :
    /\ flowJob[c] \in {"none", "queued", "rejected"} => job[IntentOf(c)] = "none"
    /\ flowJob[c] \in {"resolved", "done"} =>
         job[IntentOf(c)] \notin {"none", "queued"} /\ IntentOf(c) \notin settling

(* A barrier stands in both layers, or its command still has to answer.    *)
Barriers ==
  /\ \A o \in FlowOperations : flowUnknown[o] # NoCommand =>
       CommandOperation(flowUnknown[o]) = o /\ unknownOperations[o] = IntentOf(flowUnknown[o])
  /\ \A o \in FlowOperations : unknownOperations[o] # NoIntent /\ flowUnknown[o] = NoCommand =>
       /\ flowInFlight[o] # NoCommand
       /\ IntentOf(flowInFlight[o]) = unknownOperations[o]
       /\ flowJob[flowInFlight[o]] = "running"
  /\ \A c \in Commands : flowJob[c] = "running" /\ job[IntentOf(c)] = "unknown" =>
       unknownOperations[CommandOperation(c)] = IntentOf(c)

(* Rows are promised to the commands that may still need them.             *)
Rows ==
  \A s \in CatalogSessions :
    /\ IsFiniteSet(RowsOf(s, HoldsRow)) /\ reservations[s] = Cardinality(RowsOf(s, HoldsRow))
    /\ evidence[s] = {c.question : c \in RowsOf(s, {"resolved", "done"})}
    /\ IsFiniteSet(evidence[s]) /\ Cardinality(evidence[s]) + reservations[s] <= MaxEvidence
    /\ \A c \in RowsOf(s, FlowPhases \ {"none"}) : Authority[s].tenant = c.tenant

CommandsKnown == CommandsIndexed /\ Dispatched /\ Barriers

FlowInv ==
  /\ RuntimeInv /\ FlowTyped /\ CommandsKnown /\ CommandsCounted
  /\ evidence \in [CatalogSessions -> SUBSET {c.question : c \in Commands}] /\ Rows

LEMMA CommandPlaces ==
  ASSUME NEW c \in Commands
  PROVE  /\ IntentOf(c) \in Intents /\ IntentOf(c) # NoIntent /\ c # NoCommand
         /\ Question(c) \in Questions /\ CommandOperation(c) \in FlowOperations
         /\ CommandOperation(c) = Operation(IntentOf(c)) /\ CommandOperation(c) \in Operations
         /\ c.tenant \in ToolTenants
         /\ \A d \in Commands : IntentOf(c) = IntentOf(d) => c = d
<1>1. IntentOf(c) \in Intents
  BY DerivedAssumption
<1>2. /\ Operation(IntentOf(c)) \in Operations /\ IntentOf(c) # NoIntent
      /\ IntentOf(c).tenant \in ToolTenants
  BY <1>1, IntentPlaces
<1>3. IntentOf(c).tenant = c.tenant
  BY DEF IntentOf
<1>4. ASSUME NEW d \in Commands, IntentOf(c) = IntentOf(d) PROVE c = d
  <2>1. /\ c.tenant = d.tenant /\ c.question = d.question /\ c.session = d.session
        /\ c.plan = d.plan /\ c.actor = d.actor
    BY <1>4 DEF IntentOf
  <2>2. QED
    BY <2>1, FlowAssumption
<1>5. QED
  BY <1>1, <1>2, <1>3, <1>4, FlowAssumption DEF Questions, FlowOperations, CommandOperation

LEMMA FlowOperationsKnown == FlowOperations \subseteq Operations
  BY CommandPlaces DEF FlowOperations

LEMMA FlowInvInit == FlowInit => FlowInv
<1> SUFFICES ASSUME FlowInit PROVE FlowInv
  OBVIOUS
<1>1. RuntimeInv
  BY RuntimeInvInit DEF FlowInit
<1>2. FlowTyped
  BY FlowAssumption DEF FlowInit, FlowTyped, FlowPhases
<1>3. CommandsKnown
  BY CommandPlaces, FlowOperationsKnown
     DEF FlowInit, RuntimeInit, CommandsKnown, CommandsIndexed, Dispatched, Barriers,
        InFlight
<1>4. CommandsCounted
  <2>1. \A t \in ToolTenants : CommandsOf(t) = {}
    BY DEF FlowInit, CommandsOf
  <2>2. QED
    BY <2>1, FS_EmptySet, RuntimeAssumption DEF FlowInit, CommandsCounted
<1>5. evidence \in [CatalogSessions -> SUBSET {c.question : c \in Commands}] /\ Rows
  <2>1. \A s \in CatalogSessions :
          /\ RowsOf(s, HoldsRow) = {} /\ RowsOf(s, {"resolved", "done"}) = {}
          /\ RowsOf(s, FlowPhases \ {"none"}) = {}
    BY DEF FlowInit, RowsOf, HoldsRow
  <2>2. QED
    <3>1. evidence = [s \in CatalogSessions |-> {}] /\ reservations = [s \in CatalogSessions |-> 0]
      BY DEF FlowInit
    <3>2. evidence \in [CatalogSessions -> SUBSET {c.question : c \in Commands}]
      BY <3>1
    <3>3. MaxEvidence \in Nat /\ Cardinality({}) = 0 /\ IsFiniteSet({})
      BY FS_EmptySet, FlowAssumption
    <3>4. Rows
      <4>1. ASSUME NEW s \in CatalogSessions
            PROVE  /\ IsFiniteSet(RowsOf(s, HoldsRow))
                   /\ reservations[s] = Cardinality(RowsOf(s, HoldsRow))
                   /\ evidence[s] = {c.question : c \in RowsOf(s, {"resolved", "done"})}
                   /\ IsFiniteSet(evidence[s])
                   /\ Cardinality(evidence[s]) + reservations[s] <= MaxEvidence
                   /\ \A c \in RowsOf(s, FlowPhases \ {"none"}) : Authority[s].tenant = c.tenant
        <5>1. evidence[s] = {} /\ reservations[s] = 0
          BY <3>1
        <5>2. {c.question : c \in RowsOf(s, {"resolved", "done"})} = {}
          BY <2>1
        <5>3. Cardinality(evidence[s]) + reservations[s] <= MaxEvidence
          BY <3>3, <5>1
        <5>4. QED
          BY <2>1, <3>3, <5>1, <5>2, <5>3
      <4>2. QED
        BY <4>1 DEF Rows
    <3>5. QED
      BY <3>2, <3>4
<1>6. QED
  BY <1>1, <1>2, <1>3, <1>4, <1>5 DEF FlowInv

(* What a change of the phase of one command does to the sets it is in.    *)
LEMMA PhaseMoves ==
  ASSUME FlowTyped, NEW c \in Commands, NEW ph \in FlowPhases,
         flowJob' = [flowJob EXCEPT ![c] = ph]
  PROVE  /\ flowJob' \in [Commands -> FlowPhases]
         /\ \A d \in Commands : flowJob'[d] = IF d = c THEN ph ELSE flowJob[d]
         /\ \A t : CommandsOf(t)' = IF t = c.tenant
                                      THEN IF ph = "none" THEN CommandsOf(t) \ {c} ELSE CommandsOf(t) \cup {c}
                                      ELSE CommandsOf(t)
         /\ \A s, phases : RowsOf(s, phases)' =
              IF s = c.session
                THEN IF ph \in phases THEN RowsOf(s, phases) \cup {c} ELSE RowsOf(s, phases) \ {c}
                ELSE RowsOf(s, phases)
<1>1. /\ flowJob' \in [Commands -> FlowPhases]
      /\ \A d \in Commands : flowJob'[d] = IF d = c THEN ph ELSE flowJob[d]
  BY DEF FlowTyped
<1>2. ASSUME NEW t
      PROVE  CommandsOf(t)' = IF t = c.tenant
                                THEN IF ph = "none" THEN CommandsOf(t) \ {c} ELSE CommandsOf(t) \cup {c}
                                ELSE CommandsOf(t)
  BY <1>1 DEF CommandsOf
<1>3. ASSUME NEW s, NEW phases
      PROVE  RowsOf(s, phases)' =
               IF s = c.session
                 THEN IF ph \in phases THEN RowsOf(s, phases) \cup {c} ELSE RowsOf(s, phases) \ {c}
                 ELSE RowsOf(s, phases)
  BY <1>1 DEF RowsOf
<1>4. QED
  BY <1>1, <1>2, <1>3

(* A command that keeps its row, or has it in evidence already.            *)
LEMMA RowsStay ==
  ASSUME FlowTyped, Rows, CommandsCounted, NEW c \in Commands, NEW ph \in FlowPhases,
         \/ flowJob[c] \in HoldsRow /\ ph \in HoldsRow
         \/ flowJob[c] \in {"resolved", "done"} /\ ph \in {"resolved", "done"},
         flowJob' = [flowJob EXCEPT ![c] = ph],
         UNCHANGED <<evidence, reservations, flowCount>>
  PROVE  Rows' /\ CommandsCounted'
<1>1. \A s : /\ RowsOf(s, HoldsRow)' = RowsOf(s, HoldsRow)
             /\ RowsOf(s, {"resolved", "done"})' = RowsOf(s, {"resolved", "done"})
             /\ RowsOf(s, FlowPhases \ {"none"})' = RowsOf(s, FlowPhases \ {"none"})
  <2>1. \A d \in Commands : flowJob'[d] = IF d = c THEN ph ELSE flowJob[d]
    BY PhaseMoves
  <2>2. QED
    BY <2>1 DEF RowsOf, HoldsRow, FlowPhases
<1>2. \A t : CommandsOf(t)' = CommandsOf(t)
  <2>1. \A d \in Commands : flowJob'[d] = IF d = c THEN ph ELSE flowJob[d]
    BY PhaseMoves
  <2>2. QED
    BY <2>1 DEF CommandsOf, HoldsRow
<1>3. Rows'
  BY ZenonT(60), <1>1 DEF Rows
<1>4. CommandsCounted'
  BY <1>2 DEF CommandsCounted
<1>5. QED
  BY <1>3, <1>4

LEMMA CountedUp ==
  ASSUME NEW D, NEW count \in [D -> Nat], NEW x \in D
  PROVE  [count EXCEPT ![x] = @ + 1] \in [D -> Nat]
OBVIOUS

LEMMA CommandSubmitted ==
  ASSUME FlowInv, NEW c \in Commands, SubmitCatalogLookup(c)
  PROVE  FlowInv'
<1>1. /\ Authorized(c)
      /\ commandsByQuestion[Question(c)] = NoCommand
      /\ flowUnknown[CommandOperation(c)] = NoCommand
      /\ flowInFlight[CommandOperation(c)] = NoCommand
      /\ flowCount[c.tenant] < MaxLedger
      /\ Cardinality(evidence[c.session]) + reservations[c.session] < MaxEvidence
      /\ submissions < MaxSubmissions
  BY DEF SubmitCatalogLookup
<1>2. /\ reservations' = [reservations EXCEPT ![c.session] = @ + 1]
      /\ commandsByQuestion' = [commandsByQuestion EXCEPT ![Question(c)] = c]
      /\ flowInFlight' = [flowInFlight EXCEPT ![CommandOperation(c)] = c]
      /\ flowCount' = [flowCount EXCEPT ![c.tenant] = @ + 1]
      /\ flowJob' = [flowJob EXCEPT ![c] = "queued"]
      /\ submissions' = submissions + 1
      /\ UNCHANGED <<runtimeVars, flowUnknown, evidence, reconciling>>
  BY DEF SubmitCatalogLookup
<1>3. RuntimeInv'
  BY <1>2, RuntimeIdle DEF FlowInv
<1>t. FlowTyped /\ CommandsIndexed /\ Dispatched /\ Barriers
  BY DEF FlowInv, CommandsKnown
<1>4. flowJob[c] = "none"
  BY <1>1, <1>t, CommandPlaces DEF CommandsIndexed
<1>5. "queued" \in FlowPhases
  BY DEF FlowPhases
<1>6. FlowTyped'
  <2>1. submissions' \in 0..MaxSubmissions
    BY <1>1, <1>2, <1>t, FlowAssumption DEF FlowTyped
  <2>2. /\ commandsByQuestion' \in [Questions -> Commands \cup {NoCommand}]
        /\ flowInFlight' \in [FlowOperations -> Commands \cup {NoCommand}]
        /\ flowJob' \in [Commands -> FlowPhases]
    BY <1>2, <1>5, <1>t, CommandPlaces DEF FlowTyped
  <2>3. flowCount' \in [ToolTenants -> Nat] /\ reservations' \in [CatalogSessions -> Nat]
    <3>1. flowCount \in [ToolTenants -> Nat] /\ reservations \in [CatalogSessions -> Nat]
      BY <1>t DEF FlowTyped
    <3>2. flowCount' \in [ToolTenants -> Nat]
      BY <1>2, <3>1, CommandPlaces, CountedUp
    <3>3. reservations' \in [CatalogSessions -> Nat]
      BY <1>1, <1>2, <3>1, CountedUp DEF Authorized
    <3>4. QED
      BY <3>2, <3>3
  <2>4. QED
    BY <1>2, <1>t, <2>1, <2>2, <2>3 DEF FlowTyped
<1>7. \A d \in Commands : flowJob'[d] = IF d = c THEN "queued" ELSE flowJob[d]
  BY <1>2, <1>5, <1>t, PhaseMoves
<1>8. CommandsIndexed'
  <2>1. ASSUME NEW d \in Commands
        PROVE  /\ flowJob'[d] # "none" <=> commandsByQuestion'[Question(d)] = d
               /\ flowJob'[d] \in InFlight <=> flowInFlight'[CommandOperation(d)] = d
    <3>1. CASE d = c
      BY <1>2, <1>7, <1>t, <3>1, CommandPlaces DEF FlowTyped, InFlight
    <3>2. CASE d # c
      <4>1. commandsByQuestion'[Question(d)] = d <=> commandsByQuestion[Question(d)] = d
        BY <1>1, <1>2, <1>t, <3>2, CommandPlaces DEF FlowTyped
      <4>2. flowInFlight'[CommandOperation(d)] = d <=> flowInFlight[CommandOperation(d)] = d
        BY <1>1, <1>2, <1>t, <3>2, CommandPlaces DEF FlowTyped
      <4>3. QED
        BY <1>7, <1>t, <3>2, <4>1, <4>2 DEF CommandsIndexed
    <3>3. QED
      BY <3>1, <3>2
  <2>2. QED
    BY <2>1 DEF CommandsIndexed
<1>9. Dispatched'
  BY <1>2, <1>4, <1>7, <1>t DEF Dispatched, runtimeVars
<1>10. Barriers'
  <2>1. unknownOperations' = unknownOperations /\ flowUnknown' = flowUnknown /\ job' = job
    BY <1>2 DEF runtimeVars
  <2>2. ASSUME NEW o \in FlowOperations, unknownOperations[o] # NoIntent, flowUnknown[o] = NoCommand
        PROVE  /\ flowInFlight'[o] # NoCommand
               /\ IntentOf(flowInFlight'[o]) = unknownOperations[o]
               /\ flowJob'[flowInFlight'[o]] = "running"
    <3>1. /\ flowInFlight[o] # NoCommand
          /\ IntentOf(flowInFlight[o]) = unknownOperations[o]
          /\ flowJob[flowInFlight[o]] = "running"
      BY <1>t, <2>2 DEF Barriers
    <3>2. o # CommandOperation(c) /\ flowInFlight[o] # c /\ flowInFlight[o] \in Commands
      BY <1>1, <1>4, <1>t, <3>1 DEF FlowTyped
    <3>3. flowInFlight'[o] = flowInFlight[o]
      BY <1>2, <1>t, <3>2 DEF FlowTyped
    <3>4. QED
      BY <1>7, <3>1, <3>2, <3>3
  <2>3. \A d \in Commands : flowJob'[d] = "running" => flowJob[d] = "running"
    BY <1>7
  <2>4. QED
    BY <1>t, <2>1, <2>2, <2>3 DEF Barriers
<1>11. CommandsCounted'
  <2>1. ASSUME NEW t \in ToolTenants
        PROVE  /\ IsFiniteSet(CommandsOf(t)') /\ flowCount'[t] = Cardinality(CommandsOf(t)')
               /\ flowCount'[t] <= MaxLedger
    <3>1. /\ IsFiniteSet(CommandsOf(t)) /\ flowCount[t] = Cardinality(CommandsOf(t)) /\ c \notin CommandsOf(t)
          /\ flowCount[t] <= MaxLedger
      BY <1>4 DEF FlowInv, CommandsCounted, CommandsOf
    <3>2. CASE t = c.tenant
      <4>1. CommandsOf(t)' = CommandsOf(t) \cup {c}
        BY ZenonT(60), <1>2, <1>5, <1>t, <3>2, PhaseMoves
      <4>2. flowCount'[t] = flowCount[t] + 1 /\ flowCount[t] \in Nat /\ flowCount[t] < MaxLedger
        BY <1>1, <1>2, <1>t, <3>2 DEF FlowTyped
      <4>3. flowCount'[t] <= MaxLedger
        BY <4>2, RuntimeAssumption
      <4>4. QED
        BY <3>1, <4>1, <4>2, <4>3, FS_AddElement
    <3>3. CASE t # c.tenant
      <4>1. CommandsOf(t)' = CommandsOf(t)
        BY <1>2, <1>5, <1>t, <3>3, PhaseMoves
      <4>2. flowCount'[t] = flowCount[t]
        BY <1>2, <1>t, <3>3 DEF FlowTyped
      <4>3. QED
        BY <3>1, <4>1, <4>2
    <3>4. QED
      BY <3>2, <3>3
  <2>2. QED
    BY <2>1 DEF CommandsCounted
<1>12. Rows'
  <2>1. ASSUME NEW s \in CatalogSessions
        PROVE  /\ IsFiniteSet(RowsOf(s, HoldsRow)')
               /\ reservations'[s] = Cardinality(RowsOf(s, HoldsRow)')
               /\ evidence[s] = {d.question : d \in RowsOf(s, {"resolved", "done"})'}
               /\ Cardinality(evidence[s]) + reservations'[s] <= MaxEvidence
               /\ \A d \in RowsOf(s, FlowPhases \ {"none"})' : Authority[s].tenant = d.tenant
    <3>1. /\ IsFiniteSet(RowsOf(s, HoldsRow)) /\ reservations[s] = Cardinality(RowsOf(s, HoldsRow))
          /\ evidence[s] = {d.question : d \in RowsOf(s, {"resolved", "done"})}
          /\ IsFiniteSet(evidence[s]) /\ Cardinality(evidence[s]) + reservations[s] <= MaxEvidence
          /\ \A d \in RowsOf(s, FlowPhases \ {"none"}) : Authority[s].tenant = d.tenant
      BY DEF FlowInv, Rows
    <3>2. c \notin RowsOf(s, HoldsRow) /\ c \notin RowsOf(s, {"resolved", "done"})
      BY <1>4 DEF RowsOf, HoldsRow
    <3>3. RowsOf(s, {"resolved", "done"})' = RowsOf(s, {"resolved", "done"})
      BY <1>4, <1>7 DEF RowsOf
    <3>4. \A d \in RowsOf(s, FlowPhases \ {"none"})' : Authority[s].tenant = d.tenant
      BY <1>1, <1>7, <3>1 DEF RowsOf, Authorized
    <3>5. CASE s = c.session
      <4>1. RowsOf(s, HoldsRow)' = RowsOf(s, HoldsRow) \cup {c}
        BY <1>7, <3>5 DEF RowsOf, HoldsRow
      <4>2. reservations'[s] = reservations[s] + 1 /\ reservations[s] \in Nat
        BY <1>2, <1>t, <3>5 DEF FlowTyped
      <4>3. IsFiniteSet(RowsOf(s, HoldsRow)') /\ reservations'[s] = Cardinality(RowsOf(s, HoldsRow)')
        BY <3>1, <3>2, <4>1, <4>2, FS_AddElement
      <4>4. Cardinality(evidence[s]) \in Nat
        BY <3>1, FS_CardinalityType
      <4>5. Cardinality(evidence[s]) + reservations'[s] <= MaxEvidence
        BY <1>1, <3>5, <4>2, <4>4, FlowAssumption
      <4>6. QED
        BY <3>1, <3>3, <3>4, <4>3, <4>5
    <3>6. CASE s # c.session
      <4>1. RowsOf(s, HoldsRow)' = RowsOf(s, HoldsRow)
        BY <1>7, <3>6 DEF RowsOf, HoldsRow
      <4>2. reservations'[s] = reservations[s]
        BY <1>2, <1>t, <3>6 DEF FlowTyped
      <4>3. QED
        BY <3>1, <3>3, <3>4, <4>1, <4>2
    <3>7. QED
      BY <3>5, <3>6
  <2>2. IsFiniteSet({}) /\ \A s \in CatalogSessions : IsFiniteSet(evidence[s])
    BY FS_EmptySet DEF FlowInv, Rows
  <2>3. QED
    BY <1>2, <2>1, <2>2 DEF Rows
<1>13. QED
  BY <1>2, <1>3, <1>6, <1>8, <1>9, <1>10, <1>11, <1>12 DEF FlowInv, CommandsKnown

(* The promise hands over its intent, or finds that it may no longer.      *)
LEMMA CommandDispatched ==
  ASSUME FlowInv, NEW c \in Commands, DispatchIntent(c)
  PROVE  FlowInv'
<1>1. /\ flowJob[c] = "queued"
      /\ UNCHANGED <<commandsByQuestion, flowInFlight, flowUnknown, flowCount, evidence,
                     reservations, submissions, reconciling>>
  BY DEF DispatchIntent
<1>2. PICK ph \in {"running", "rejected"} :
        /\ flowJob' = [flowJob EXCEPT ![c] = ph]
        /\ ph = "running" => SubmitActionIntent(IntentOf(c))
        /\ ph = "rejected" => UNCHANGED runtimeVars
  BY DEF DispatchIntent
<1>t. RuntimeInv /\ FlowTyped /\ CommandsIndexed /\ Dispatched /\ Barriers /\ RuntimeTypeOK
  BY DEF FlowInv, CommandsKnown, RuntimeInv
<1>3. RuntimeInv'
  BY <1>2, <1>t, SubmissionKept, RuntimeIdle, CommandPlaces
<1>4. ph \in FlowPhases /\ ph \in HoldsRow /\ ph \in InFlight /\ ph # "none"
  BY DEF FlowPhases, HoldsRow, InFlight
<1>5. \A d \in Commands : flowJob'[d] = IF d = c THEN ph ELSE flowJob[d]
  BY <1>2, <1>4, <1>t, PhaseMoves
<1>6. FlowTyped'
  BY <1>1, <1>2, <1>4, <1>t DEF FlowTyped
<1>7. CommandsIndexed'
  BY <1>1, <1>4, <1>5, <1>t DEF CommandsIndexed, InFlight
<1>8. /\ unknownOperations' = unknownOperations /\ settling' = settling
      /\ \A d \in Commands : d # c => job'[IntentOf(d)] = job[IntentOf(d)]
      /\ ph = "running" => job'[IntentOf(c)] = "queued"
      /\ ph = "rejected" => job'[IntentOf(c)] = "none"
  <2>1. CASE ph = "running"
    <3>1. job' = [job EXCEPT ![IntentOf(c)] = "queued"]
          /\ UNCHANGED <<unknownOperations, settling>>
      BY <1>2, <2>1 DEF SubmitActionIntent
    <3>2. QED
      BY <1>t, <2>1, <3>1, CommandPlaces DEF RuntimeTypeOK
  <2>2. CASE ph = "rejected"
    BY <1>1, <1>2, <1>t, <2>2 DEF Dispatched, runtimeVars
  <2>3. QED
    BY <2>1, <2>2
<1>9. Dispatched'
  BY <1>5, <1>8, <1>t DEF Dispatched
<1>10. Barriers'
  <2>1. ASSUME NEW o \in FlowOperations, unknownOperations[o] # NoIntent, flowUnknown[o] = NoCommand
        PROVE  /\ flowInFlight[o] # NoCommand
               /\ IntentOf(flowInFlight[o]) = unknownOperations[o]
               /\ flowJob'[flowInFlight[o]] = "running"
    <3>1. /\ flowInFlight[o] # NoCommand /\ flowInFlight[o] \in Commands
          /\ IntentOf(flowInFlight[o]) = unknownOperations[o]
          /\ flowJob[flowInFlight[o]] = "running"
      BY <1>t, <2>1 DEF Barriers, FlowTyped
    <3>2. QED
      BY <1>1, <1>5, <3>1
  <2>2. ASSUME NEW d \in Commands, flowJob'[d] = "running", job'[IntentOf(d)] = "unknown"
        PROVE  unknownOperations[CommandOperation(d)] = IntentOf(d)
    <3>1. d # c
      BY <1>5, <1>8, <2>2
    <3>2. QED
      BY <1>5, <1>8, <1>t, <2>2, <3>1 DEF Barriers
  <2>3. QED
    BY <1>1, <1>8, <1>t, <2>1, <2>2 DEF Barriers
<1>11. Rows' /\ CommandsCounted'
  <2>1. flowJob[c] \in HoldsRow /\ Rows /\ CommandsCounted
    BY <1>1 DEF HoldsRow, FlowInv
  <2>2. QED
    BY <1>1, <1>2, <1>4, <1>t, <2>1, RowsStay
<1>12. QED
  BY <1>1, <1>3, <1>6, <1>7, <1>9, <1>10, <1>11 DEF FlowInv, CommandsKnown

(* The answer is there: a row, and a barrier when nobody knows the effect. *)
LEMMA ResultReceived ==
  ASSUME FlowInv, NEW c \in Commands, ReceiveResult(c)
  PROVE  FlowInv'
<1>1. /\ flowJob[c] = "running" /\ job[IntentOf(c)] # "queued" /\ IntentOf(c) \notin settling
      /\ UNCHANGED <<runtimeVars, commandsByQuestion, flowInFlight, flowCount, submissions, reconciling>>
  BY DEF ReceiveResult
<1>t. RuntimeInv /\ FlowTyped /\ CommandsIndexed /\ Dispatched /\ Barriers /\ RuntimeTypeOK
  BY DEF FlowInv, CommandsKnown, RuntimeInv
<1>2. RuntimeInv' /\ unknownOperations' = unknownOperations /\ job' = job /\ settling' = settling
  BY <1>1, <1>t, RuntimeIdle DEF runtimeVars
<1>3. CASE job[IntentOf(c)] = "none"
  <2>1. flowJob' = [flowJob EXCEPT ![c] = "rejected"] /\ UNCHANGED <<flowUnknown, evidence, reservations>>
    BY <1>3 DEF ReceiveResult
  <2>2. "rejected" \in FlowPhases /\ "rejected" \in HoldsRow /\ "rejected" \in InFlight
        /\ flowJob[c] \in HoldsRow
    BY <1>1 DEF FlowPhases, HoldsRow, InFlight
  <2>3. \A d \in Commands : flowJob'[d] = IF d = c THEN "rejected" ELSE flowJob[d]
    BY <1>t, <2>1, <2>2, PhaseMoves
  <2>4. FlowTyped'
    BY <1>1, <1>t, <2>1, <2>2 DEF FlowTyped
  <2>5. CommandsIndexed'
    BY <1>1, <1>t, <2>2, <2>3 DEF CommandsIndexed, InFlight
  <2>6. Dispatched'
    BY <1>2, <1>3, <1>t, <2>3 DEF Dispatched
  <2>7. Barriers'
    <3>1. ASSUME NEW o \in FlowOperations, unknownOperations[o] # NoIntent, flowUnknown[o] = NoCommand
          PROVE  /\ flowInFlight[o] # NoCommand
                 /\ IntentOf(flowInFlight[o]) = unknownOperations[o]
                 /\ flowJob'[flowInFlight[o]] = "running"
      <4>1. /\ flowInFlight[o] # NoCommand /\ flowInFlight[o] \in Commands
            /\ IntentOf(flowInFlight[o]) = unknownOperations[o]
            /\ flowJob[flowInFlight[o]] = "running"
        BY <1>t, <3>1 DEF Barriers, FlowTyped
      <4>2. job[unknownOperations[o]] = "unknown"
        BY <1>t, <3>1, FlowOperationsKnown DEF RuntimeInv, Promised
      <4>3. flowInFlight[o] # c
        BY <1>3, <4>1, <4>2
      <4>4. QED
        BY <2>3, <4>1, <4>3
    <3>2. QED
      BY <1>1, <1>2, <1>t, <2>1, <2>3, <3>1 DEF Barriers
  <2>8. Rows' /\ CommandsCounted'
    BY <1>1, <1>t, <2>1, <2>2, RowsStay DEF FlowInv
  <2>9. QED
    BY <1>2, <2>1, <2>4, <2>5, <2>6, <2>7, <2>8 DEF FlowInv, CommandsKnown
<1>4. CASE job[IntentOf(c)] # "none"
  <2>1. /\ flowUnknown' = IF job[IntentOf(c)] = "unknown"
                            THEN [flowUnknown EXCEPT ![CommandOperation(c)] = c] ELSE flowUnknown
        /\ evidence' = [evidence EXCEPT ![c.session] = @ \cup {c.question}]
        /\ reservations' = [reservations EXCEPT ![c.session] = @ - 1]
        /\ flowJob' = [flowJob EXCEPT ![c] = "resolved"]
    BY <1>4 DEF ReceiveResult
  <2>2. "resolved" \in FlowPhases /\ "resolved" \in InFlight /\ "resolved" \notin HoldsRow
        /\ flowJob[c] \in HoldsRow /\ flowJob[c] \in InFlight
    BY <1>1 DEF FlowPhases, HoldsRow, InFlight
  <2>3. \A d \in Commands : flowJob'[d] = IF d = c THEN "resolved" ELSE flowJob[d]
    BY <1>t, <2>1, <2>2, PhaseMoves
  <2>4. ASSUME NEW s \in CatalogSessions
        PROVE  /\ IsFiniteSet(RowsOf(s, HoldsRow)')
               /\ reservations'[s] = Cardinality(RowsOf(s, HoldsRow)') /\ reservations'[s] \in Nat
               /\ evidence'[s] = {d.question : d \in RowsOf(s, {"resolved", "done"})'}
               /\ IsFiniteSet(evidence'[s]) /\ Cardinality(evidence'[s]) + reservations'[s] <= MaxEvidence
               /\ \A d \in RowsOf(s, FlowPhases \ {"none"})' : Authority[s].tenant = d.tenant
    <3>1. /\ IsFiniteSet(RowsOf(s, HoldsRow)) /\ reservations[s] = Cardinality(RowsOf(s, HoldsRow))
          /\ evidence[s] = {d.question : d \in RowsOf(s, {"resolved", "done"})}
          /\ IsFiniteSet(evidence[s]) /\ Cardinality(evidence[s]) + reservations[s] <= MaxEvidence
          /\ \A d \in RowsOf(s, FlowPhases \ {"none"}) : Authority[s].tenant = d.tenant
      BY DEF FlowInv, Rows
    <3>2. reservations[s] \in Nat /\ Cardinality(evidence[s]) \in Nat
      BY <1>t, <3>1, FS_CardinalityType DEF FlowTyped
    <3>3. RowsOf(s, FlowPhases \ {"none"})' = RowsOf(s, FlowPhases \ {"none"})
      BY <1>1, <2>3 DEF RowsOf, FlowPhases
    <3>4. CASE s = c.session
      <4>1. RowsOf(s, HoldsRow)' = RowsOf(s, HoldsRow) \ {c} /\ c \in RowsOf(s, HoldsRow)
        BY <2>2, <2>3, <3>4 DEF RowsOf, HoldsRow
      <4>2. reservations'[s] = reservations[s] - 1
        BY <1>t, <2>1, <3>4 DEF FlowTyped
      <4>3. IsFiniteSet(RowsOf(s, HoldsRow)') /\ reservations'[s] = Cardinality(RowsOf(s, HoldsRow)')
        BY <3>1, <4>1, <4>2, FS_RemoveElement
      <4>4. reservations'[s] \in Nat
        BY <4>3, FS_CardinalityType
      <4>5. evidence'[s] = evidence[s] \cup {c.question}
        BY <2>1, <3>4 DEF FlowInv
      <4>6. RowsOf(s, {"resolved", "done"})' = RowsOf(s, {"resolved", "done"}) \cup {c}
        BY <2>3, <3>4 DEF RowsOf
      <4>7. evidence'[s] = {d.question : d \in RowsOf(s, {"resolved", "done"})'}
        BY <3>1, <4>5, <4>6
      <4>8. /\ IsFiniteSet(evidence'[s])
            /\ Cardinality(evidence'[s]) \in {Cardinality(evidence[s]), Cardinality(evidence[s]) + 1}
        <5>1. IsFiniteSet(evidence[s] \cup {c.question})
              /\ Cardinality(evidence[s] \cup {c.question}) =
                   IF c.question \in evidence[s] THEN Cardinality(evidence[s]) ELSE Cardinality(evidence[s]) + 1
          BY <3>1, FS_AddElement
        <5>2. QED
          BY <4>5, <5>1
      <4>9. Cardinality(evidence'[s]) + reservations'[s] <= MaxEvidence
        BY <3>1, <3>2, <4>2, <4>8, FlowAssumption
      <4>10. QED
        BY <3>1, <3>3, <4>3, <4>4, <4>7, <4>8, <4>9
    <3>5. CASE s # c.session
      <4>1. RowsOf(s, HoldsRow)' = RowsOf(s, HoldsRow)
        BY <2>3, <3>5 DEF RowsOf, HoldsRow
      <4>2. RowsOf(s, {"resolved", "done"})' = RowsOf(s, {"resolved", "done"})
        BY <2>3, <3>5 DEF RowsOf
      <4>3. evidence'[s] = evidence[s] /\ reservations'[s] = reservations[s]
        BY <1>t, <2>1, <3>5 DEF FlowInv, FlowTyped
      <4>4. QED
        BY <3>1, <3>2, <3>3, <4>1, <4>2, <4>3
    <3>6. QED
      BY <3>4, <3>5
  <2>5. Rows'
    BY <2>4 DEF Rows
  <2>6. CommandsCounted'
    <3>1. \A t : CommandsOf(t)' = CommandsOf(t)
      BY <1>1, <2>3 DEF CommandsOf
    <3>2. QED
      BY <1>1, <3>1 DEF FlowInv, CommandsCounted
  <2>7. FlowTyped'
    <3>1. reservations' \in [CatalogSessions -> Nat]
      BY <1>t, <2>1, <2>4 DEF FlowTyped
    <3>2. flowUnknown' \in [FlowOperations -> Commands \cup {NoCommand}]
      BY <1>t, <2>1, CommandPlaces DEF FlowTyped
    <3>3. QED
      BY <1>1, <1>t, <2>1, <2>2, <3>1, <3>2 DEF FlowTyped
  <2>8. CommandsIndexed'
    BY <1>1, <1>t, <2>2, <2>3 DEF CommandsIndexed, InFlight
  <2>9. Dispatched'
    BY <1>1, <1>2, <1>4, <1>t, <2>3 DEF Dispatched
  <2>10. Barriers'
    <3>1. flowInFlight[CommandOperation(c)] = c
      BY <1>t, <2>2 DEF CommandsIndexed
    <3>2. ASSUME NEW o \in FlowOperations, flowUnknown'[o] # NoCommand
          PROVE  CommandOperation(flowUnknown'[o]) = o /\ unknownOperations[o] = IntentOf(flowUnknown'[o])
      <4>1. CASE flowUnknown'[o] = flowUnknown[o]
        BY <1>t, <3>2, <4>1 DEF Barriers
      <4>2. CASE flowUnknown'[o] # flowUnknown[o]
        <5>1. o = CommandOperation(c) /\ flowUnknown'[o] = c /\ job[IntentOf(c)] = "unknown"
          BY <1>t, <2>1, <4>2 DEF FlowTyped
        <5>2. QED
          BY <1>1, <1>t, <5>1 DEF Barriers
      <4>3. QED
        BY <4>1, <4>2
    <3>3. ASSUME NEW o \in FlowOperations, unknownOperations[o] # NoIntent, flowUnknown'[o] = NoCommand
          PROVE  /\ flowInFlight[o] # NoCommand
                 /\ IntentOf(flowInFlight[o]) = unknownOperations[o]
                 /\ flowJob'[flowInFlight[o]] = "running"
      <4>1. flowUnknown[o] = NoCommand
        BY <1>t, <2>1, <3>3, CommandPlaces DEF FlowTyped
      <4>2. /\ flowInFlight[o] # NoCommand /\ flowInFlight[o] \in Commands
            /\ IntentOf(flowInFlight[o]) = unknownOperations[o]
            /\ flowJob[flowInFlight[o]] = "running"
        BY <1>t, <3>3, <4>1 DEF Barriers, FlowTyped
      <4>3. job[unknownOperations[o]] = "unknown"
        BY <1>t, <3>3, FlowOperationsKnown DEF RuntimeInv, Promised
      <4>4. flowInFlight[o] # c
        <5>1. SUFFICES ASSUME flowInFlight[o] = c PROVE FALSE
          OBVIOUS
        <5>2. job[IntentOf(c)] = "unknown"
          BY <4>2, <4>3, <5>1
        <5>3. Operation(unknownOperations[o]) = o
          BY <1>t, <3>3, FlowOperationsKnown DEF RuntimeInv, Promised
        <5>4. o = CommandOperation(c)
          BY <4>2, <5>1, <5>3, CommandPlaces
        <5>5. flowUnknown'[o] = c
          BY <1>t, <2>1, <5>2, <5>4 DEF FlowTyped
        <5>6. QED
          BY <3>3, <5>5, CommandPlaces
      <4>5. QED
        BY <2>3, <4>2, <4>4
    <3>4. \A d \in Commands : flowJob'[d] = "running" /\ job[IntentOf(d)] = "unknown" =>
            unknownOperations[CommandOperation(d)] = IntentOf(d)
      BY <1>t, <2>3 DEF Barriers
    <3>5. QED
      BY <1>1, <1>2, <3>2, <3>3, <3>4 DEF Barriers
  <2>11. evidence' \in [CatalogSessions -> SUBSET {d.question : d \in Commands}]
    <3>1. evidence \in [CatalogSessions -> SUBSET {d.question : d \in Commands}]
      BY DEF FlowInv
    <3>2. c.question \in {d.question : d \in Commands}
      OBVIOUS
    <3>3. QED
      BY <2>1, <3>1, <3>2
  <2>12. QED
    BY <1>2, <2>5, <2>6, <2>7, <2>8, <2>9, <2>10, <2>11 DEF FlowInv, CommandsKnown
<1>5. QED
  BY <1>3, <1>4

(* The reactions give the operation back; a rejection withdraws the rest.  *)
LEMMA CommandSettled ==
  ASSUME FlowInv, NEW c \in Commands, SettleCommand(c)
  PROVE  FlowInv'
<1>t. RuntimeInv /\ FlowTyped /\ CommandsIndexed /\ Dispatched /\ Barriers
  BY DEF FlowInv, CommandsKnown
<1>1. /\ flowJob[c] \in {"resolved", "rejected"}
      /\ UNCHANGED <<runtimeVars, flowUnknown, evidence, submissions>>
      /\ flowInFlight' = FreedOperation(c)
  BY DEF SettleCommand
<1>2. RuntimeInv' /\ unknownOperations' = unknownOperations /\ job' = job /\ settling' = settling
  BY <1>1, <1>t, RuntimeIdle DEF runtimeVars
<1>3. flowInFlight[CommandOperation(c)] = c /\ commandsByQuestion[Question(c)] = c
  BY <1>1, <1>t DEF CommandsIndexed, InFlight
<1>4. flowInFlight' = [flowInFlight EXCEPT ![CommandOperation(c)] = NoCommand]
  BY <1>1, <1>3 DEF FreedOperation, Release
<1>5. PICK ph \in {"done", "none"} : flowJob' = [flowJob EXCEPT ![c] = ph]
  BY DEF SettleCommand
<1>6. ph \in FlowPhases /\ ph \notin InFlight
  BY DEF FlowPhases, InFlight
<1>7. \A d \in Commands : flowJob'[d] = IF d = c THEN ph ELSE flowJob[d]
  BY <1>5, <1>6, <1>t, PhaseMoves
<1>8. /\ flowInFlight' \in [FlowOperations -> Commands \cup {NoCommand}]
      /\ flowJob' \in [Commands -> FlowPhases]
      /\ \A d \in Commands : flowJob'[d] \in InFlight <=> flowInFlight'[CommandOperation(d)] = d
  <2>1. ASSUME NEW d \in Commands
        PROVE  flowJob'[d] \in InFlight <=> flowInFlight'[CommandOperation(d)] = d
    <3>1. CASE d = c
      BY <1>4, <1>6, <1>7, <1>t, <3>1, CommandPlaces DEF FlowTyped
    <3>2. CASE d # c
      <4>1. flowInFlight'[CommandOperation(d)] = d <=> flowInFlight[CommandOperation(d)] = d
        BY <1>3, <1>4, <1>t, <3>2, CommandPlaces DEF FlowTyped
      <4>2. QED
        BY <1>7, <1>t, <3>2, <4>1 DEF CommandsIndexed
    <3>3. QED
      BY <3>1, <3>2
  <2>2. QED
    BY <1>4, <1>5, <1>6, <1>t, <2>1 DEF FlowTyped
<1>9. Barriers'
  <2>1. ASSUME NEW o \in FlowOperations, unknownOperations[o] # NoIntent, flowUnknown[o] = NoCommand
        PROVE  /\ flowInFlight'[o] # NoCommand
               /\ IntentOf(flowInFlight'[o]) = unknownOperations[o]
               /\ flowJob'[flowInFlight'[o]] = "running"
    <3>1. /\ flowInFlight[o] # NoCommand /\ flowInFlight[o] \in Commands
          /\ IntentOf(flowInFlight[o]) = unknownOperations[o]
          /\ flowJob[flowInFlight[o]] = "running"
      BY <1>t, <2>1 DEF Barriers, FlowTyped
    <3>2. flowInFlight'[o] = flowInFlight[o] /\ flowInFlight[o] # c
      BY <1>1, <1>3, <1>4, <1>t, <3>1 DEF FlowTyped
    <3>3. QED
      BY <1>7, <3>1, <3>2
  <2>2. \A d \in Commands : flowJob'[d] = "running" => flowJob[d] = "running"
    BY <1>5, <1>7
  <2>3. QED
    BY <1>1, <1>2, <1>t, <2>1, <2>2 DEF Barriers
<1>10. CASE flowJob[c] = "resolved"
  <2>1. /\ flowJob' = [flowJob EXCEPT ![c] = "done"]
        /\ UNCHANGED <<commandsByQuestion, flowCount, reservations, reconciling>>
    BY <1>10 DEF SettleCommand
  <2>2. "done" \in FlowPhases
    BY DEF FlowPhases
  <2>3. \A d \in Commands : flowJob'[d] = IF d = c THEN "done" ELSE flowJob[d]
    BY <1>t, <2>1, <2>2, PhaseMoves
  <2>4. Rows' /\ CommandsCounted'
    BY <1>1, <1>10, <1>t, <2>1, <2>2, RowsStay DEF FlowInv
  <2>5. FlowTyped' /\ evidence' \in [CatalogSessions -> SUBSET {d.question : d \in Commands}]
    BY <1>1, <1>8, <1>t, <2>1 DEF FlowTyped, FlowInv
  <2>6. CommandsIndexed'
    BY <1>8, <1>10, <1>t, <2>1, <2>3 DEF CommandsIndexed
  <2>7. Dispatched'
    BY <1>2, <1>10, <1>t, <2>3 DEF Dispatched
  <2>8. QED
    BY <1>2, <1>9, <2>4, <2>5, <2>6, <2>7 DEF FlowInv, CommandsKnown
<1>11. CASE flowJob[c] = "rejected"
  <2>1. /\ flowJob' = [flowJob EXCEPT ![c] = "none"] /\ Withdraw(c)
        /\ reconciling' = [r \in Reconcilers |->
                             IF reconciling[r] = c THEN NoCommand ELSE reconciling[r]]
    BY <1>11 DEF SettleCommand
  <2>2. /\ commandsByQuestion' = [commandsByQuestion EXCEPT ![Question(c)] = NoCommand]
        /\ flowCount' = [flowCount EXCEPT ![c.tenant] = @ - 1]
        /\ reservations' = [reservations EXCEPT ![c.session] = @ - 1]
    BY <1>3, <2>1 DEF Withdraw, Release
  <2>3. "none" \in FlowPhases /\ "none" \notin HoldsRow /\ "rejected" \in HoldsRow
    BY DEF FlowPhases, HoldsRow
  <2>4. \A d \in Commands : flowJob'[d] = IF d = c THEN "none" ELSE flowJob[d]
    BY <1>t, <2>1, <2>3, PhaseMoves
  <2>5. ASSUME NEW t \in ToolTenants
        PROVE  /\ IsFiniteSet(CommandsOf(t)') /\ flowCount'[t] = Cardinality(CommandsOf(t)')
               /\ flowCount'[t] <= MaxLedger
    <3>1. /\ IsFiniteSet(CommandsOf(t)) /\ flowCount[t] = Cardinality(CommandsOf(t))
          /\ flowCount[t] <= MaxLedger
      BY DEF FlowInv, CommandsCounted
    <3>2. CASE t = c.tenant
      <4>1. CommandsOf(t)' = CommandsOf(t) \ {c} /\ c \in CommandsOf(t)
        BY <1>11, <2>4, <3>2 DEF CommandsOf
      <4>2. flowCount'[t] = flowCount[t] - 1 /\ flowCount[t] \in Nat
        BY <1>t, <2>2, <3>2 DEF FlowTyped
      <4>3. flowCount'[t] <= MaxLedger
        BY <3>1, <4>2, RuntimeAssumption
      <4>4. QED
        BY <3>1, <4>1, <4>2, <4>3, FS_RemoveElement
    <3>3. CASE t # c.tenant
      <4>1. CommandsOf(t)' = CommandsOf(t)
        BY <2>4, <3>3 DEF CommandsOf
      <4>2. flowCount'[t] = flowCount[t]
        BY <1>t, <2>2, <3>3 DEF FlowTyped
      <4>3. QED
        BY <3>1, <4>1, <4>2
    <3>4. QED
      BY <3>2, <3>3
  <2>6. ASSUME NEW s \in CatalogSessions
        PROVE  /\ IsFiniteSet(RowsOf(s, HoldsRow)')
               /\ reservations'[s] = Cardinality(RowsOf(s, HoldsRow)')
               /\ evidence[s] = {d.question : d \in RowsOf(s, {"resolved", "done"})'}
               /\ Cardinality(evidence[s]) + reservations'[s] <= MaxEvidence
               /\ \A d \in RowsOf(s, FlowPhases \ {"none"})' : Authority[s].tenant = d.tenant
    <3>1. /\ IsFiniteSet(RowsOf(s, HoldsRow)) /\ reservations[s] = Cardinality(RowsOf(s, HoldsRow))
          /\ evidence[s] = {d.question : d \in RowsOf(s, {"resolved", "done"})}
          /\ IsFiniteSet(evidence[s]) /\ Cardinality(evidence[s]) + reservations[s] <= MaxEvidence
          /\ \A d \in RowsOf(s, FlowPhases \ {"none"}) : Authority[s].tenant = d.tenant
      BY DEF FlowInv, Rows
    <3>2. reservations[s] \in Nat /\ Cardinality(evidence[s]) \in Nat
      BY <1>t, <3>1, FS_CardinalityType DEF FlowTyped
    <3>3. RowsOf(s, {"resolved", "done"})' = RowsOf(s, {"resolved", "done"})
      BY <1>11, <2>4 DEF RowsOf
    <3>4. \A d \in RowsOf(s, FlowPhases \ {"none"})' : d \in RowsOf(s, FlowPhases \ {"none"})
      BY <2>4 DEF RowsOf
    <3>5. CASE s = c.session
      <4>1. RowsOf(s, HoldsRow)' = RowsOf(s, HoldsRow) \ {c} /\ c \in RowsOf(s, HoldsRow)
        BY <1>11, <2>3, <2>4, <3>5 DEF RowsOf
      <4>2. reservations'[s] = reservations[s] - 1
        BY <1>t, <2>2, <3>5 DEF FlowTyped
      <4>3. IsFiniteSet(RowsOf(s, HoldsRow)') /\ reservations'[s] = Cardinality(RowsOf(s, HoldsRow)')
        BY <3>1, <4>1, <4>2, FS_RemoveElement
      <4>4. Cardinality(evidence[s]) + reservations'[s] <= MaxEvidence
        BY <3>1, <3>2, <4>2, FlowAssumption
      <4>5. QED
        BY <3>1, <3>3, <3>4, <4>3, <4>4
    <3>6. CASE s # c.session
      <4>1. RowsOf(s, HoldsRow)' = RowsOf(s, HoldsRow)
        BY <2>4, <3>6 DEF RowsOf
      <4>2. reservations'[s] = reservations[s]
        BY <1>t, <2>2, <3>6 DEF FlowTyped
      <4>3. QED
        BY <3>1, <3>3, <3>4, <4>1, <4>2
    <3>7. QED
      BY <3>5, <3>6
  <2>7. Rows' /\ CommandsCounted'
    <3>1. \A s \in CatalogSessions : IsFiniteSet(evidence[s])
      BY DEF FlowInv, Rows
    <3>2. QED
      BY <1>1, <2>5, <2>6, <3>1 DEF Rows, CommandsCounted
  <2>8. FlowTyped'
    <3>1. ASSUME NEW t \in ToolTenants PROVE flowCount'[t] \in Nat
      BY <2>5, <3>1, FS_CardinalityType
    <3>2. ASSUME NEW s \in CatalogSessions PROVE reservations'[s] \in Nat
      BY <2>6, <3>2, FS_CardinalityType
    <3>3. flowCount' \in [ToolTenants -> Nat]
      <4>1. flowCount' = [t \in ToolTenants |-> flowCount'[t]]
        BY <1>t, <2>2 DEF FlowTyped
      <4>2. QED
        BY <3>1, <4>1
    <3>4. reservations' \in [CatalogSessions -> Nat]
      <4>1. reservations' = [s \in CatalogSessions |-> reservations'[s]]
        BY <1>t, <2>2 DEF FlowTyped
      <4>2. QED
        BY <3>2, <4>1
    <3>5. /\ reconciling' \in [Reconcilers -> Commands \cup {NoCommand}]
          /\ commandsByQuestion' \in [Questions -> Commands \cup {NoCommand}]
      BY <1>t, <2>1, <2>2 DEF FlowTyped
    <3>6. QED
      BY <1>1, <1>8, <1>t, <3>3, <3>4, <3>5 DEF FlowTyped
  <2>9. CommandsIndexed'
    <3>1. ASSUME NEW d \in Commands PROVE flowJob'[d] # "none" <=> commandsByQuestion'[Question(d)] = d
      <4>1. CASE d = c
        BY <1>t, <2>2, <2>4, <4>1, CommandPlaces DEF FlowTyped
      <4>2. CASE d # c
        <5>1. commandsByQuestion'[Question(d)] = d <=> commandsByQuestion[Question(d)] = d
          BY <1>3, <1>t, <2>2, <4>2, CommandPlaces DEF FlowTyped
        <5>2. QED
          BY <1>t, <2>4, <4>2, <5>1 DEF CommandsIndexed
      <4>3. QED
        BY <4>1, <4>2
    <3>2. QED
      BY <1>8, <3>1 DEF CommandsIndexed
  <2>10. Dispatched'
    BY <1>2, <1>11, <1>t, <2>4 DEF Dispatched
  <2>11. evidence' \in [CatalogSessions -> SUBSET {d.question : d \in Commands}]
    BY <1>1 DEF FlowInv
  <2>12. QED
    BY <1>2, <1>9, <2>7, <2>8, <2>9, <2>10, <2>11 DEF FlowInv, CommandsKnown
<1>12. QED
  BY <1>1, <1>10, <1>11

(* What the runtime does of a command's intent while the command waits.    *)
LEMMA RuntimeStepped ==
  ASSUME FlowInv, NEW c \in Commands, RuntimeSteps(IntentOf(c)), UNCHANGED flowVars
  PROVE  FlowInv'
<1> DEFINE i == IntentOf(c)
<1>t. RuntimeInv /\ RuntimeTypeOK /\ FlowTyped /\ CommandsIndexed /\ Dispatched /\ Barriers
  BY DEF FlowInv, CommandsKnown, RuntimeInv
<1>1. UNCHANGED <<commandsByQuestion, flowInFlight, flowUnknown, flowCount, evidence,
                  reservations, flowJob, submissions, reconciling>>
  BY DEF flowVars
<1>2. i \in Intents
  BY CommandPlaces
<1>3. RuntimeInv'
  BY <1>t, <1>2, ExecutionKept, ReactionsKept DEF RuntimeSteps
<1>4. FlowTyped' /\ CommandsIndexed'
  BY <1>1, <1>t DEF FlowTyped, CommandsIndexed
<1>5. CommandsCounted' /\ Rows' /\ evidence' \in [CatalogSessions -> SUBSET {d.question : d \in Commands}]
  <2>1. \A t : CommandsOf(t)' = CommandsOf(t)
    BY <1>1 DEF CommandsOf
  <2>2. \A s, phases : RowsOf(s, phases)' = RowsOf(s, phases)
    BY <1>1 DEF RowsOf
  <2>3. QED
    BY <1>1, <2>1, <2>2 DEF FlowInv, CommandsCounted, Rows
<1>6. CASE ExecuteGovernedDecision(i)
  <2>1. job[i] = "queued" /\ settling' = settling \cup {i}
    BY <1>6 DEF ExecuteGovernedDecision
  <2>2. PICK outcome \in Outcomes :
          /\ job' = [job EXCEPT ![i] = outcome]
          /\ unknownOperations' = IF outcome = "unknown"
                                    THEN [unknownOperations EXCEPT ![Operation(i)] = i]
                                    ELSE unknownOperations
    <3>1. GovernedOutcome(i) \in Outcomes
      BY DEF GovernedOutcome, Outcomes
    <3>2. QED
      BY <1>6, <3>1 DEF ExecuteGovernedDecision
  <2>3. flowJob[c] = "running"
    <3>1. flowJob[c] \notin {"none", "queued", "rejected", "resolved", "done"}
      BY <1>t, <2>1 DEF Dispatched
    <3>2. QED
      BY <1>t, <3>1 DEF FlowTyped, FlowPhases
  <2>4. /\ flowInFlight[CommandOperation(c)] = c
        /\ unknownOperations[CommandOperation(c)] = NoIntent
        /\ flowUnknown[CommandOperation(c)] = NoCommand
    <3>1. flowInFlight[CommandOperation(c)] = c
      BY <1>t, <2>3 DEF CommandsIndexed, InFlight
    <3>2. unknownOperations[CommandOperation(c)] = NoIntent
      BY <1>t, <1>2, <2>1, CommandPlaces DEF RuntimeInv, Promised
    <3>3. flowUnknown[CommandOperation(c)] = NoCommand
      BY <1>t, <3>2, CommandPlaces DEF Barriers, FlowTyped
    <3>4. QED
      BY <3>1, <3>2, <3>3
  <2>5. \A d \in Commands : d # c => job'[IntentOf(d)] = job[IntentOf(d)] /\ IntentOf(d) # i
    BY <1>t, <2>2, CommandPlaces DEF RuntimeTypeOK
  <2>6. job'[i] = outcome
    BY <1>t, <1>2, <2>2 DEF RuntimeTypeOK
  <2>7. Dispatched'
    BY <1>1, <1>t, <2>1, <2>3, <2>5 DEF Dispatched
  <2>8. Barriers'
    <3>1. \A o \in FlowOperations : o # CommandOperation(c) => unknownOperations'[o] = unknownOperations[o]
      BY <1>t, <2>2, CommandPlaces, FlowOperationsKnown DEF RuntimeTypeOK
    <3>2. unknownOperations'[CommandOperation(c)] = IF outcome = "unknown" THEN i ELSE NoIntent
      BY <1>t, <2>2, <2>4, CommandPlaces DEF RuntimeTypeOK
    <3>3. ASSUME NEW o \in FlowOperations, flowUnknown[o] # NoCommand
          PROVE  /\ CommandOperation(flowUnknown[o]) = o
                 /\ unknownOperations'[o] = IntentOf(flowUnknown[o])
      BY <1>t, <2>4, <3>1, <3>3 DEF Barriers
    <3>4. ASSUME NEW o \in FlowOperations, unknownOperations'[o] # NoIntent, flowUnknown[o] = NoCommand
          PROVE  /\ flowInFlight[o] # NoCommand
                 /\ IntentOf(flowInFlight[o]) = unknownOperations'[o]
                 /\ flowJob[flowInFlight[o]] = "running"
      <4>1. CASE o = CommandOperation(c)
        BY <2>3, <2>4, <3>2, <3>4, <4>1, CommandPlaces
      <4>2. CASE o # CommandOperation(c)
        BY <1>t, <3>1, <3>4, <4>2 DEF Barriers
      <4>3. QED
        BY <4>1, <4>2
    <3>5. ASSUME NEW d \in Commands, flowJob[d] = "running", job'[IntentOf(d)] = "unknown"
          PROVE  unknownOperations'[CommandOperation(d)] = IntentOf(d)
      <4>1. CASE d = c
        BY <2>6, <3>2, <3>5, <4>1
      <4>2. CASE d # c
        <5>1. flowInFlight[CommandOperation(d)] = d
          BY <1>t, <3>5 DEF CommandsIndexed, InFlight
        <5>2. CommandOperation(d) # CommandOperation(c)
          BY <2>4, <4>2, <5>1
        <5>3. QED
          BY <1>t, <2>5, <3>1, <3>5, <4>2, <5>2, CommandPlaces DEF Barriers
      <4>3. QED
        BY <4>1, <4>2
    <3>6. QED
      BY <1>1, <3>3, <3>4, <3>5 DEF Barriers
  <2>9. QED
    BY <1>3, <1>4, <1>5, <2>7, <2>8 DEF FlowInv, CommandsKnown
<1>7. CASE SettleExecution(i)
  <2>1. /\ i \in settling /\ settling' = settling \ {i}
        /\ unknownOperations' = unknownOperations
        /\ job' \in {job, [job EXCEPT ![i] = "none"]}
    BY <1>7 DEF SettleExecution, Forget
  <2>2. flowJob[c] = "running"
    <3>1. job[i] \notin {"none", "queued"}
      BY <1>t, <2>1 DEF RuntimeInv, Promised
    <3>2. flowJob[c] \notin {"none", "queued", "rejected", "resolved", "done"}
      BY <1>t, <2>1, <3>1 DEF Dispatched
    <3>3. QED
      BY <1>t, <3>2 DEF FlowTyped, FlowPhases
  <2>3. \A d \in Commands : d # c => job'[IntentOf(d)] = job[IntentOf(d)] /\ IntentOf(d) # i
    BY <1>t, <2>1, CommandPlaces DEF RuntimeTypeOK
  <2>4. Dispatched'
    BY <1>1, <1>t, <2>1, <2>2, <2>3 DEF Dispatched
  <2>5. \A d \in Commands : job'[IntentOf(d)] = "unknown" => job[IntentOf(d)] = "unknown"
    BY <1>t, <1>2, <2>1, <2>3 DEF RuntimeTypeOK
  <2>6. Barriers'
    BY <1>1, <1>t, <2>1, <2>5 DEF Barriers
  <2>7. QED
    BY <1>3, <1>4, <1>5, <2>4, <2>6 DEF FlowInv, CommandsKnown
<1>8. QED
  BY <1>6, <1>7 DEF RuntimeSteps

(* A reconciler waits for a command, and lifts both barriers or none.      *)
LEMMA ReconciliationStarted ==
  ASSUME FlowInv, NEW r \in Reconcilers, NEW c \in Commands, StartReconciliation(r, c)
  PROVE  FlowInv'
<1>1. /\ reconciling' = [reconciling EXCEPT ![r] = c]
      /\ UNCHANGED <<runtimeVars, commandsByQuestion, flowInFlight, flowUnknown, flowCount,
                     evidence, reservations, flowJob, submissions>>
  BY DEF StartReconciliation
<1>2. RuntimeInv'
  BY <1>1, RuntimeIdle DEF FlowInv
<1>3. FlowTyped'
  BY <1>1 DEF FlowInv, FlowTyped
<1>4. CommandsKnown'
  BY <1>1 DEF FlowInv, CommandsKnown, CommandsIndexed, Dispatched, Barriers, runtimeVars
<1>5. CommandsCounted' /\ Rows' /\ evidence' \in [CatalogSessions -> SUBSET {d.question : d \in Commands}]
  <2>1. \A t : CommandsOf(t)' = CommandsOf(t)
    BY <1>1 DEF CommandsOf
  <2>2. \A s, phases : RowsOf(s, phases)' = RowsOf(s, phases)
    BY <1>1 DEF RowsOf
  <2>3. QED
    BY <1>1, <2>1, <2>2 DEF FlowInv, CommandsCounted, Rows
<1>6. QED
  BY <1>2, <1>3, <1>4, <1>5 DEF FlowInv

LEMMA ReconciliationFinished ==
  ASSUME FlowInv, NEW r \in Reconcilers, FinishReconciliation(r)
  PROVE  FlowInv'
<1> DEFINE c == reconciling[r]
           o == CommandOperation(c)
           lift == flowUnknown[o] = c /\ unknownOperations[o] = IntentOf(c)
<1>t. RuntimeInv /\ RuntimeTypeOK /\ FlowTyped /\ CommandsIndexed /\ Dispatched /\ Barriers
  BY DEF FlowInv, CommandsKnown, RuntimeInv
<1>1. /\ c # NoCommand /\ flowJob[c] = "done"
      /\ reconciling' = [reconciling EXCEPT ![r] = NoCommand]
      /\ UNCHANGED <<profile, executions, executionsByIntent, operationsInFlight, ledgerCount,
                     timedOut, job, settling, invocations, commandsByQuestion, flowInFlight,
                     flowCount, evidence, reservations, flowJob, submissions>>
  BY DEF FinishReconciliation
<1>2. c \in Commands
  BY <1>1, <1>t DEF FlowTyped
<1>3. \/ /\ lift
         /\ unknownOperations' = [unknownOperations EXCEPT ![o] = NoIntent]
         /\ flowUnknown' = [flowUnknown EXCEPT ![o] = NoCommand]
      \/ UNCHANGED <<unknownOperations, flowUnknown>>
  BY <1>2, CommandPlaces DEF FinishReconciliation, ReconcilePrivateUnknown
<1>4. CommandsCounted' /\ Rows' /\ evidence' \in [CatalogSessions -> SUBSET {d.question : d \in Commands}]
  <2>1. \A t : CommandsOf(t)' = CommandsOf(t)
    BY <1>1 DEF CommandsOf
  <2>2. \A s, phases : RowsOf(s, phases)' = RowsOf(s, phases)
    BY <1>1 DEF RowsOf
  <2>3. QED
    BY <1>1, <2>1, <2>2 DEF FlowInv, CommandsCounted, Rows
<1>5. CommandsIndexed' /\ Dispatched'
  BY <1>1, <1>t DEF CommandsIndexed, Dispatched
<1>6. FlowTyped'
  BY <1>1, <1>3, <1>t DEF FlowTyped
<1>7. RuntimeInv'
  <2>1. CASE unknownOperations' = [unknownOperations EXCEPT ![o] = NoIntent]
    BY <1>1, <1>2, <1>t, <2>1, LiftedKept, CommandPlaces
  <2>2. CASE unknownOperations' = unknownOperations
    <3>1. UNCHANGED runtimeVars
      BY <1>1, <2>2 DEF runtimeVars
    <3>2. QED
      BY <1>t, <3>1, RuntimeIdle
  <2>3. QED
    BY <1>3, <2>1, <2>2
<1>8. Barriers'
  <2>1. CASE UNCHANGED <<unknownOperations, flowUnknown>>
    BY <1>1, <1>t, <2>1 DEF Barriers
  <2>2. CASE /\ lift
             /\ unknownOperations' = [unknownOperations EXCEPT ![o] = NoIntent]
             /\ flowUnknown' = [flowUnknown EXCEPT ![o] = NoCommand]
    <3>1. o \in FlowOperations /\ o \in Operations
      BY <1>2, CommandPlaces
    <3>2. /\ unknownOperations'[o] = NoIntent /\ flowUnknown'[o] = NoCommand
          /\ \A p \in FlowOperations : p # o => /\ unknownOperations'[p] = unknownOperations[p]
                                                /\ flowUnknown'[p] = flowUnknown[p]
      BY <1>t, <2>2, <3>1, FlowOperationsKnown DEF RuntimeTypeOK, FlowTyped
    <3>3. ASSUME NEW d \in Commands, flowJob[d] = "running", job[IntentOf(d)] = "unknown"
          PROVE  unknownOperations'[CommandOperation(d)] = IntentOf(d)
      <4>1. unknownOperations[CommandOperation(d)] = IntentOf(d)
        BY <1>t, <3>3 DEF Barriers
      <4>2. CommandOperation(d) # o
        <5>1. d # c
          BY <1>1, <3>3
        <5>2. QED
          BY <1>2, <2>2, <4>1, <5>1, CommandPlaces
      <4>3. QED
        BY <3>2, <4>1, <4>2, CommandPlaces
    <3>4. \A p \in FlowOperations : flowUnknown'[p] # NoCommand =>
            CommandOperation(flowUnknown'[p]) = p /\ unknownOperations'[p] = IntentOf(flowUnknown'[p])
      BY <1>t, <3>2 DEF Barriers
    <3>5. \A p \in FlowOperations : unknownOperations'[p] # NoIntent /\ flowUnknown'[p] = NoCommand =>
            /\ flowInFlight[p] # NoCommand
            /\ IntentOf(flowInFlight[p]) = unknownOperations'[p]
            /\ flowJob[flowInFlight[p]] = "running"
      BY <1>t, <3>2 DEF Barriers
    <3>6. QED
      BY <1>1, <3>3, <3>4, <3>5 DEF Barriers
  <2>3. QED
    BY <1>3, <2>1, <2>2
<1>9. QED
  BY <1>4, <1>5, <1>6, <1>7, <1>8 DEF FlowInv, CommandsKnown

LEMMA FlowInvNext ==
  ASSUME FlowInv, [FlowNext]_<<runtimeVars, flowVars>>
  PROVE  FlowInv'
<1>1. CASE \E c \in Commands : SubmitCatalogLookup(c)
  BY <1>1, CommandSubmitted
<1>2. CASE Microtask
  <2>1. PICK c \in Commands : FlowSteps(c) \/ (RuntimeSteps(IntentOf(c)) /\ UNCHANGED flowVars)
    BY <1>2 DEF Microtask
  <2>2. QED
    BY <2>1, CommandDispatched, ResultReceived, CommandSettled, RuntimeStepped DEF FlowSteps
<1>3. CASE \E r \in Reconcilers : \/ \E c \in Commands : StartReconciliation(r, c)
                                  \/ FinishReconciliation(r)
  BY <1>3, ReconciliationStarted, ReconciliationFinished
<1>4. CASE UNCHANGED <<runtimeVars, flowVars>>
  <2>1. UNCHANGED <<commandsByQuestion, flowInFlight, flowUnknown, flowCount, evidence,
                    reservations, flowJob, submissions, reconciling>>
    BY <1>4 DEF flowVars
  <2>2. RuntimeInv'
    BY <1>4, RuntimeIdle DEF FlowInv
  <2>3. FlowTyped'
    BY <2>1 DEF FlowInv, FlowTyped
  <2>4. CommandsKnown'
    BY <1>4, <2>1
       DEF FlowInv, CommandsKnown, CommandsIndexed, Dispatched, Barriers, runtimeVars
  <2>5. /\ CommandsCounted' /\ Rows'
        /\ evidence' \in [CatalogSessions -> SUBSET {d.question : d \in Commands}]
    <3>1. \A t : CommandsOf(t)' = CommandsOf(t)
      BY <2>1 DEF CommandsOf
    <3>2. \A s, phases : RowsOf(s, phases)' = RowsOf(s, phases)
      BY <2>1 DEF RowsOf
    <3>3. QED
      BY <2>1, <3>1, <3>2 DEF FlowInv, CommandsCounted, Rows
  <2>6. QED
    BY <2>2, <2>3, <2>4, <2>5 DEF FlowInv
<1>5. QED
  BY <1>1, <1>2, <1>3, <1>4 DEF FlowNext

LEMMA FlowInductive == FlowSpec => []FlowInv
<1>1. FlowInit => FlowInv
  BY FlowInvInit
<1>2. FlowInv /\ [FlowNext]_<<runtimeVars, flowVars>> => FlowInv'
  BY FlowInvNext
<1>3. QED
  BY <1>1, <1>2, PTL DEF FlowSpec

LEMMA RuntimeBalances == RuntimeInv => RuntimeTypeOK /\ LedgersBalance
<1> SUFFICES ASSUME RuntimeInv PROVE RuntimeTypeOK /\ LedgersBalance
  OBVIOUS
<1>1. \A t \in ToolTenants : ledgerCount[t] = Cardinality(Registered(t)) /\ ledgerCount[t] <= MaxLedger
  BY DEF RuntimeInv, Counted
<1>2. \A i \in Intents : /\ job[i] # "none" <=> executions[Key(i)] = i
                         /\ job[i] # "none" <=> executionsByIntent[Identifier(i)] = i
  BY DEF RuntimeInv, Indexed
<1>3. LedgersBalance
  BY <1>1, <1>2 DEF LedgersBalance
<1>4. QED
  BY <1>3 DEF RuntimeInv

(* An operation reaches the fixture only out of the promise that holds it, *)
(* with no barrier before it.                                              *)
LEMMA InvocationsAreGuarded ==
  ASSUME RuntimeInv, NEW i \in Intents, RuntimeSteps(i), NEW o \in Operations,
         invocations'[o] # invocations[o]
  PROVE  /\ unknownOperations[o] = NoIntent
         /\ \A j \in Intents : Operation(j) = o /\ job[j] = "queued" => operationsInFlight[o] = j
<1>1. ExecuteGovernedDecision(i)
  BY DEF RuntimeSteps, SettleExecution
<1>2. job[i] = "queued" /\ o = Operation(i)
  BY <1>1 DEF ExecuteGovernedDecision, RuntimeInv, RuntimeTypeOK
<1>3. QED
  BY <1>2 DEF RuntimeInv, Promised

(***************************************************************************)
(* The two ledgers and the evidence balance, whatever was rejected, asked  *)
(* again or reconciled (index.ts of tool-runtime and catalog-lookup-flow). *)
(***************************************************************************)
THEOREM BooksAlwaysBalance == FlowSpec => []BooksBalance
<1>1. FlowInv => BooksBalance
  <2> SUFFICES ASSUME FlowInv PROVE BooksBalance
    OBVIOUS
  <2>1. RuntimeTypeOK /\ LedgersBalance
    BY RuntimeBalances DEF FlowInv
  <2>2. FlowTypeOK
    BY <2>1 DEF FlowInv, FlowTyped, FlowTypeOK
  <2>3. EvidenceBalances
    <3>1. ASSUME NEW s \in CatalogSessions
          PROVE  /\ reservations[s] = Cardinality(RowsOf(s, {"queued", "running", "rejected"}))
                 /\ evidence[s] = {c.question : c \in RowsOf(s, {"resolved", "done"})}
                 /\ Cardinality(evidence[s]) + reservations[s] <= MaxEvidence
                 /\ \A c \in RowsOf(s, FlowPhases \ {"none"}) : Authority[s].tenant = c.tenant
      BY DEF FlowInv, Rows, HoldsRow
    <3>2. QED
      BY <3>1 DEF EvidenceBalances, RowsOf
  <2>4. CommandsBalance
    <3>1. \A t \in ToolTenants : flowCount[t] = Cardinality(CommandsOf(t)) /\ flowCount[t] <= MaxLedger
      BY DEF FlowInv, CommandsCounted
    <3>2. \A c \in Commands :
            /\ flowJob[c] # "none" <=> commandsByQuestion[Question(c)] = c
            /\ flowJob[c] \notin {"none", "done"} <=> flowInFlight[CommandOperation(c)] = c
      BY <2>2 DEF FlowInv, CommandsKnown, CommandsIndexed, InFlight, FlowTypeOK, FlowPhases
    <3>3. QED
      BY <3>1, <3>2 DEF CommandsBalance, CommandsOf
  <2>5. QED
    BY <2>1, <2>2, <2>3, <2>4 DEF BooksBalance
<1>2. QED
  BY <1>1, FlowInductive, PTL

(***************************************************************************)
(* A barrier of one layer always has its counterpart in the other or a     *)
(* command on its way to it, and what one forgot the other forgot.         *)
(***************************************************************************)
THEOREM LayersAlwaysAgree == FlowSpec => []LayersAgree
<1>1. FlowInv => LayersAgree
  BY DEF FlowInv, CommandsKnown, Barriers, Dispatched, LayersAgree
<1>2. QED
  BY <1>1, FlowInductive, PTL

(***************************************************************************)
(* Under the coordinator, with its forced timeouts and reconciliations, an *)
(* operation whose effect is unknown is not attempted again.               *)
(***************************************************************************)
THEOREM CoordinatorNeverRetriesBlindly == FlowSpec => NoBlindRetry
<1>1. ASSUME FlowInv, [FlowNext]_<<runtimeVars, flowVars>>, NEW o \in Operations,
             invocations'[o] # invocations[o]
      PROVE  /\ unknownOperations[o] = NoIntent
             /\ \A i \in Intents : Operation(i) = o /\ job[i] = "queued" => operationsInFlight[o] = i
  <2>1. PICK c \in Commands : RuntimeSteps(IntentOf(c))
    BY <1>1
       DEF FlowNext, Microtask, FlowSteps, SubmitCatalogLookup, DispatchIntent, SubmitActionIntent,
          ReceiveResult, SettleCommand, StartReconciliation, FinishReconciliation, runtimeVars
  <2>2. QED
    BY <1>1, <2>1, InvocationsAreGuarded, CommandPlaces DEF FlowInv
<1>2. FlowInv /\ [FlowNext]_<<runtimeVars, flowVars>> =>
        [\A o \in Operations : invocations'[o] # invocations[o] =>
          /\ unknownOperations[o] = NoIntent
          /\ \A i \in Intents : Operation(i) = o /\ job[i] = "queued" => operationsInFlight[o] = i]_runtimeVars
  BY <1>1
<1>3. QED
  BY <1>2, FlowInductive, PTL DEF FlowSpec, NoBlindRetry

(***************************************************************************)
(* The public runtime keeps its books too, on any intents handed to it.    *)
(***************************************************************************)
LEMMA DirectInductive == DirectSpec => []RuntimeInv
<1>1. DirectInit => RuntimeInv
  BY RuntimeInvInit DEF DirectInit
<1>2. RuntimeInv /\ [DirectNext]_runtimeVars => RuntimeInv'
  BY SubmissionKept, ExecutionKept, ReactionsKept, RuntimeIdle DEF DirectNext, RuntimeSteps
<1>3. QED
  BY <1>1, <1>2, PTL DEF DirectSpec

THEOREM LedgersAlwaysBalance == DirectSpec => [](RuntimeTypeOK /\ LedgersBalance)
BY DirectInductive, RuntimeBalances, PTL

(***************************************************************************)
(* The public runtime, without reconciliation, attempts no operation again *)
(* whose effect is unknown.                                                *)
(***************************************************************************)
THEOREM NothingIsRetriedBlindly == DirectSpec => NoBlindRetry
<1>1. ASSUME RuntimeInv, [DirectNext]_runtimeVars, NEW o \in Operations,
             invocations'[o] # invocations[o]
      PROVE  /\ unknownOperations[o] = NoIntent
             /\ \A i \in Intents : Operation(i) = o /\ job[i] = "queued" => operationsInFlight[o] = i
  <2>1. PICK i \in Intents : RuntimeSteps(i)
    BY <1>1 DEF DirectNext, SubmitActionIntent, runtimeVars
  <2>2. QED
    BY <1>1, <2>1, InvocationsAreGuarded
<1>2. RuntimeInv /\ [DirectNext]_runtimeVars =>
        [\A o \in Operations : invocations'[o] # invocations[o] =>
          /\ unknownOperations[o] = NoIntent
          /\ \A i \in Intents : Operation(i) = o /\ job[i] = "queued" => operationsInFlight[o] = i]_runtimeVars
  BY <1>1
<1>3. QED
  BY <1>2, DirectInductive, PTL DEF DirectSpec, NoBlindRetry

(***************************************************************************)
(* Either part of the tools run behaves as the component does alone, so    *)
(* that every theorem about the component is one about its part of it.     *)
(***************************************************************************)
LEMMA DirectPart == direct /\ [MCNext]_allVars =>
                      direct' /\ [DirectNext]_runtimeVars /\ UNCHANGED flowVars
  BY DirectAssumption DEF MCNext, allVars, DirectNext

LEMMA FlowPart == ~direct /\ [MCNext]_allVars =>
                    ~direct' /\ [FlowNext]_<<runtimeVars, flowVars>>
  BY DEF MCNext, allVars

THEOREM ToolPartsRunAlone == MCSpec => (direct => DirectSpec) /\ (~direct => FlowSpec)
<1>1. MCInit => FlowInit /\ (direct => DirectInit)
  BY DEF MCInit
<1>2. QED
  BY <1>1, DirectPart, FlowPart, PTL DEF MCSpec, DirectSpec, FlowSpec

(* Nothing above the public runtime moves while it is called directly.     *)
FlowAtRest ==
  /\ commandsByQuestion = [q \in Questions |-> NoCommand]
  /\ flowInFlight = [o \in FlowOperations |-> NoCommand]
  /\ flowUnknown = [o \in FlowOperations |-> NoCommand]
  /\ flowCount = [t \in ToolTenants |-> 0]
  /\ evidence = [s \in CatalogSessions |-> {}]
  /\ reservations = [s \in CatalogSessions |-> 0]
  /\ flowJob = [c \in Commands |-> "none"]
  /\ submissions = 0
  /\ reconciling = [r \in Reconcilers |-> NoCommand]

LEMMA RestIsBalanced == RuntimeInv /\ FlowAtRest => BooksBalance
<1> SUFFICES ASSUME RuntimeInv, FlowAtRest PROVE BooksBalance
  OBVIOUS
<1>1. RuntimeTypeOK /\ LedgersBalance
  BY RuntimeBalances
<1>2. FlowTypeOK
  BY <1>1, FlowAssumption DEF FlowAtRest, FlowTypeOK, FlowPhases
<1>3. EvidenceBalances
  <2>1. ASSUME NEW s, NEW phases, "none" \notin phases
        PROVE  RowsOf(s, phases) = {}
    BY <2>1 DEF FlowAtRest, RowsOf
  <2>2. ASSUME NEW s \in CatalogSessions
        PROVE  /\ reservations[s] = Cardinality(RowsOf(s, {"queued", "running", "rejected"}))
               /\ evidence[s] = {c.question : c \in RowsOf(s, {"resolved", "done"})}
               /\ Cardinality(evidence[s]) + reservations[s] <= MaxEvidence
               /\ \A c \in RowsOf(s, FlowPhases \ {"none"}) : Authority[s].tenant = c.tenant
    <3>1. evidence[s] = {} /\ reservations[s] = 0
      BY DEF FlowAtRest
    <3>2. Cardinality({}) = 0 /\ MaxEvidence \in Nat
      BY FS_EmptySet, FlowAssumption
    <3>3. /\ RowsOf(s, {"queued", "running", "rejected"}) = {}
          /\ RowsOf(s, {"resolved", "done"}) = {}
          /\ RowsOf(s, FlowPhases \ {"none"}) = {}
      BY <2>1
    <3>4. {c.question : c \in {}} = {}
      OBVIOUS
    <3>5. evidence[s] = {c.question : c \in RowsOf(s, {"resolved", "done"})}
      BY <3>1, <3>3, <3>4
    <3>6. /\ reservations[s] = Cardinality(RowsOf(s, {"queued", "running", "rejected"}))
          /\ Cardinality(evidence[s]) + reservations[s] <= MaxEvidence
      BY <3>1, <3>2, <3>3, FlowAssumption
    <3>7. QED
      BY <3>3, <3>5, <3>6
  <2>3. QED
    BY <2>2 DEF EvidenceBalances, RowsOf
<1>4. CommandsBalance
  <2>1. /\ \A t \in ToolTenants : flowCount[t] = 0
        /\ \A c \in Commands : /\ flowJob[c] = "none" /\ c # NoCommand
                               /\ commandsByQuestion[Question(c)] = NoCommand
                               /\ flowInFlight[CommandOperation(c)] = NoCommand
    BY CommandPlaces DEF FlowAtRest
  <2>2. \A t \in ToolTenants : {c \in Commands : c.tenant = t /\ flowJob[c] # "none"} = {}
    BY <2>1
  <2>3. Cardinality({}) = 0 /\ MaxLedger \in Nat /\ 0 <= MaxLedger
    BY FS_EmptySet, RuntimeAssumption
  <2>4. QED
    BY <2>1, <2>2, <2>3 DEF CommandsBalance
<1>5. QED
  BY <1>1, <1>2, <1>3, <1>4 DEF BooksBalance

(***************************************************************************)
(* The books balance and nothing is retried blindly whichever way the      *)
(* runtime is used: by direct callers or under the coordinator.            *)
(***************************************************************************)
THEOREM EveryBookBalances == MCSpec => [](BooksBalance /\ (~direct => LayersAgree))
<1>1. MCInit => \/ direct /\ RuntimeInv /\ FlowAtRest
                \/ ~direct /\ FlowInit
  BY RuntimeInvInit DEF MCInit, FlowInit, FlowAtRest
<1>2. direct /\ FlowAtRest /\ [MCNext]_allVars => direct' /\ FlowAtRest'
  BY DirectPart DEF FlowAtRest, flowVars
<1>3. QED
  BY <1>1, <1>2, FlowPart, RestIsBalanced, DirectInductive, ToolPartsRunAlone,
     BooksAlwaysBalance, LayersAlwaysAgree, PTL DEF MCSpec

THEOREM NothingIsEverRetriedBlindly == MCSpec => NoBlindRetry
<1>1. MCInit => direct \/ ~direct
  OBVIOUS
<1>2. QED
  BY <1>1, ToolPartsRunAlone, NothingIsRetriedBlindly, CoordinatorNeverRetriesBlindly, PTL
     DEF MCSpec
===============================================================================
