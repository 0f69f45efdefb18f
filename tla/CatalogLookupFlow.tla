---- MODULE CatalogLookupFlow ----
(* The catalog command coordinator over its private action runtime.  It keeps a second    *)
(* ledger, a second barrier and the evidence of every session; its own promise waits for  *)
(* the runtime's, so the two layers change in different microtasks.                       *)
EXTENDS ActionRuntime

CONSTANTS Commands,       \* records [tenant, question, session, plan, actor]
          NoCommand,
          Authority,      \* session -> [tenant, presenter]
          MaxEvidence,    \* evidence rows a session may hold (100 in the code)
          Reconcilers,    \* concurrent callers of the reconciliation
          MaxSubmissions  \* bound: how many commands are accepted

ASSUME FlowAssumption ==
    /\ NoCommand \notin Commands
    /\ \A c \in Commands :
          c = [tenant |-> c.tenant, question |-> c.question, session |-> c.session,
               plan |-> c.plan, actor |-> c.actor]
    /\ MaxEvidence \in Nat \ {0} /\ MaxSubmissions \in Nat

VARIABLES commandsByQuestion, flowInFlight, flowUnknown, flowCount,
          evidence,      \* per session: questions with a row
          reservations,  \* per session: rows promised to commands in flight
          flowJob, submissions,
          reconciling    \* the command whose promise a reconciler awaits

flowVars == <<commandsByQuestion, flowInFlight, flowUnknown, flowCount, evidence,
              reservations, flowJob, submissions, reconciling>>

CatalogSessions == DOMAIN Authority
Question(c) == <<c.tenant, c.question>>
Questions == {Question(c) : c \in Commands}
IntentOf(c) == [tenant |-> c.tenant, key |-> c.question, id |-> c.question,
                session |-> c.session, plan |-> c.plan, actor |-> c.actor]
ASSUME DerivedAssumption == \A c \in Commands : IntentOf(c) \in Intents

CommandOperation(c) == Operation(IntentOf(c))
FlowOperations == {CommandOperation(c) : c \in Commands}
FlowPhases == {"none", "queued", "running", "resolved", "rejected", "done"}

FlowInit ==
    /\ RuntimeInit
    /\ commandsByQuestion = [q \in Questions |-> NoCommand]
    /\ flowInFlight = [o \in FlowOperations |-> NoCommand]
    /\ flowUnknown = [o \in FlowOperations |-> NoCommand]
    /\ flowCount = [t \in ToolTenants |-> 0]
    /\ evidence = [s \in CatalogSessions |-> {}]
    /\ reservations = [s \in CatalogSessions |-> 0]
    /\ flowJob = [c \in Commands |-> "none"]
    /\ submissions = 0
    /\ reconciling = [r \in Reconcilers |-> NoCommand]

Authorized(c) ==
    /\ c.session \in CatalogSessions
    /\ Authority[c.session].tenant = c.tenant
    /\ Authority[c.session].presenter = c.actor

(* The synchronous part of submitCatalogLookup; a known question is answered from the     *)
(* ledger and changes nothing.                                                            *)
SubmitCatalogLookup(c) ==
    /\ Authorized(c)
    /\ commandsByQuestion[Question(c)] = NoCommand
    /\ flowUnknown[CommandOperation(c)] = NoCommand
    /\ flowInFlight[CommandOperation(c)] = NoCommand
    /\ flowCount[c.tenant] < MaxLedger
    /\ Cardinality(evidence[c.session]) + reservations[c.session] < MaxEvidence
    /\ submissions < MaxSubmissions
    /\ reservations' = [reservations EXCEPT ![c.session] = @ + 1]
    /\ commandsByQuestion' = [commandsByQuestion EXCEPT ![Question(c)] = c]
    /\ flowInFlight' = [flowInFlight EXCEPT ![CommandOperation(c)] = c]
    /\ flowCount' = [flowCount EXCEPT ![c.tenant] = @ + 1]
    /\ flowJob' = [flowJob EXCEPT ![c] = "queued"]
    /\ submissions' = submissions + 1
    /\ UNCHANGED <<runtimeVars, flowUnknown, evidence, reconciling>>

(* The promise hands its intent to the runtime, whose clock is read anew: the intent may  *)
(* no longer be active, and then the runtime throws.                                      *)
DispatchIntent(c) ==
    /\ flowJob[c] = "queued"
    /\ \/ /\ SubmitActionIntent(IntentOf(c))
          /\ flowJob' = [flowJob EXCEPT ![c] = "running"]
       \/ /\ flowJob' = [flowJob EXCEPT ![c] = "rejected"]
          /\ UNCHANGED runtimeVars
    /\ UNCHANGED <<commandsByQuestion, flowInFlight, flowUnknown, flowCount, evidence,
                   reservations, submissions, reconciling>>

(* The runtime's promise was settled and its reactions ran. *)
ReceiveResult(c) ==
    LET i == IntentOf(c) IN
    /\ flowJob[c] = "running"
    /\ job[i] # "queued" /\ i \notin settling
    /\ IF job[i] = "none"
         THEN /\ flowJob' = [flowJob EXCEPT ![c] = "rejected"]
              /\ UNCHANGED <<flowUnknown, evidence, reservations>>
         ELSE /\ flowUnknown' = IF job[i] = "unknown"
                                  THEN [flowUnknown EXCEPT ![CommandOperation(c)] = c] ELSE flowUnknown
              /\ evidence' = [evidence EXCEPT ![c.session] = @ \cup {c.question}]
              /\ reservations' = [reservations EXCEPT ![c.session] = @ - 1]
              /\ flowJob' = [flowJob EXCEPT ![c] = "resolved"]
    /\ UNCHANGED <<runtimeVars, commandsByQuestion, flowInFlight, flowCount, submissions, reconciling>>

FreedOperation_IfAnswered(c) ==
    IF flowJob[c] = "resolved" THEN Release(flowInFlight, CommandOperation(c), c, NoCommand)
                               ELSE flowInFlight

FreedOperation(c) == Release(flowInFlight, CommandOperation(c), c, NoCommand)

(* A rejected command gives back its question, its place in the ledger and its row. *)
Withdraw_PlaceKept(c) ==
    /\ commandsByQuestion' = Release(commandsByQuestion, Question(c), c, NoCommand)
    /\ reservations' = [reservations EXCEPT ![c.session] = @ - 1]
    /\ UNCHANGED flowCount

Withdraw(c) ==
    /\ commandsByQuestion' = Release(commandsByQuestion, Question(c), c, NoCommand)
    /\ flowCount' = [flowCount EXCEPT ![c.tenant] = @ - 1]
    /\ reservations' = [reservations EXCEPT ![c.session] = @ - 1]

(* The reactions of the coordinator's promise; a rejection reaches everyone awaiting it.  *)
SettleCommand(c) ==
    /\ flowJob[c] \in {"resolved", "rejected"}
    /\ flowInFlight' = FreedOperation(c)
    /\ \/ /\ flowJob[c] = "resolved"
          /\ flowJob' = [flowJob EXCEPT ![c] = "done"]
          /\ UNCHANGED <<commandsByQuestion, flowCount, reservations, reconciling>>
       \/ /\ flowJob[c] = "rejected"
          /\ flowJob' = [flowJob EXCEPT ![c] = "none"]
          /\ Withdraw(c)
          /\ reconciling' = [r \in Reconcilers |->
                               IF reconciling[r] = c THEN NoCommand ELSE reconciling[r]]
    /\ UNCHANGED <<runtimeVars, flowUnknown, evidence, submissions>>

StartReconciliation(r, c) ==
    /\ Authorized(c)
    /\ reconciling[r] = NoCommand
    /\ commandsByQuestion[Question(c)] = c
    /\ reconciling' = [reconciling EXCEPT ![r] = c]
    /\ UNCHANGED <<runtimeVars, commandsByQuestion, flowInFlight, flowUnknown, flowCount,
                   evidence, reservations, flowJob, submissions>>

(* After the await: lift both barriers of this very command, or throw. *)
FinishReconciliation(r) ==
    LET c == reconciling[r] IN
    /\ c # NoCommand
    /\ flowJob[c] = "done"
    /\ reconciling' = [reconciling EXCEPT ![r] = NoCommand]
    /\ IF flowUnknown[CommandOperation(c)] = c /\ unknownOperations[CommandOperation(c)] = IntentOf(c)
         THEN /\ ReconcilePrivateUnknown(IntentOf(c))
              /\ flowUnknown' = [flowUnknown EXCEPT ![CommandOperation(c)] = NoCommand]
         ELSE UNCHANGED <<unknownOperations, flowUnknown>>
    /\ UNCHANGED <<profile, executions, executionsByIntent, operationsInFlight, ledgerCount,
                   timedOut, job, settling, invocations, commandsByQuestion, flowInFlight,
                   flowCount, evidence, reservations, flowJob, submissions>>

FlowSteps(c) == DispatchIntent(c) \/ ReceiveResult(c) \/ SettleCommand(c)

(* The microtask queue is drained: while a registered promise can go on, one does. *)
Microtask == \E c \in Commands : FlowSteps(c) \/ (RuntimeSteps(IntentOf(c)) /\ UNCHANGED flowVars)

FlowNext ==
    \/ \E c \in Commands : SubmitCatalogLookup(c)
    \/ Microtask
    \/ \E r \in Reconcilers : \/ \E c \in Commands : StartReconciliation(r, c)
                              \/ FinishReconciliation(r)

FlowFairness == WF_<<runtimeVars, flowVars>>(Microtask)
FlowSpec == FlowInit /\ [][FlowNext]_<<runtimeVars, flowVars>>

----
(* Every map of both layers holds what it may hold; no count runs below zero. *)
FlowTypeOK ==
    /\ RuntimeTypeOK
    /\ commandsByQuestion \in [Questions -> Commands \cup {NoCommand}]
    /\ flowInFlight \in [FlowOperations -> Commands \cup {NoCommand}]
    /\ flowUnknown \in [FlowOperations -> Commands \cup {NoCommand}]
    /\ flowCount \in [ToolTenants -> Nat]
    /\ evidence \in [CatalogSessions -> SUBSET {c.question : c \in Commands}]
    /\ reservations \in [CatalogSessions -> Nat]
    /\ flowJob \in [Commands -> FlowPhases]
    /\ submissions \in 0..MaxSubmissions
    /\ reconciling \in [Reconcilers -> Commands \cup {NoCommand}]

(* The two layers never disagree for longer than a command is in flight: a barrier of the *)
(* coordinator has the runtime's barrier of the same intent below it, a runtime barrier   *)
(* has a coordinator's or a command on its way above it (or nobody could ever lift it),   *)
(* and a question the coordinator forgot was forgotten by the runtime too (or asking it   *)
(* again would be an idempotency conflict for ever).                                      *)
LayersAgree ==
    /\ \A o \in FlowOperations :
          /\ flowUnknown[o] # NoCommand => unknownOperations[o] = IntentOf(flowUnknown[o])
          /\ unknownOperations[o] # NoIntent =>
                \/ flowUnknown[o] # NoCommand
                \/ /\ flowInFlight[o] # NoCommand
                   /\ IntentOf(flowInFlight[o]) = unknownOperations[o]
    /\ \A c \in Commands : flowJob[c] = "none" => job[IntentOf(c)] = "none"

(* The coordinator's ledger tells the commands it remembers: a tenant is charged one place *)
(* for each of them, whatever was rejected, and each has its question and, until it        *)
(* settled, its operation.  A place that leaked would shut the tenant out for good, an     *)
(* index that lost a command would let the same question through a second time.            *)
CommandsBalance ==
    /\ \A t \in ToolTenants :
          /\ flowCount[t] = Cardinality({c \in Commands : c.tenant = t /\ flowJob[c] # "none"})
          /\ flowCount[t] <= MaxLedger
    /\ \A c \in Commands :
          /\ flowJob[c] # "none" <=> commandsByQuestion[Question(c)] = c
          /\ flowJob[c] \notin {"none", "done"} <=> flowInFlight[CommandOperation(c)] = c

(* Every row a session was promised is held by exactly one command in flight, and every   *)
(* answered question has its row, in a session of its own tenant.                         *)
EvidenceBalances ==
    \A s \in CatalogSessions :
        LET Of(phases) == {c \in Commands : c.session = s /\ flowJob[c] \in phases} IN
        /\ reservations[s] = Cardinality(Of({"queued", "running", "rejected"}))
        /\ evidence[s] = {c.question : c \in Of({"resolved", "done"})}
        /\ Cardinality(evidence[s]) + reservations[s] <= MaxEvidence
        /\ \A c \in Of(FlowPhases \ {"none"}) : Authority[s].tenant = c.tenant

(* The books of both layers balance: executions, commands and rows.                       *)
BooksBalance == FlowTypeOK /\ LedgersBalance /\ CommandsBalance /\ EvidenceBalances

(* No operation stays in progress: every registered command is settled and gives its      *)
(* operation back, answered or rejected.                                                  *)
OperationsAreReleased ==
    \A o \in FlowOperations : flowInFlight[o] # NoCommand ~> flowInFlight[o] = NoCommand
====
