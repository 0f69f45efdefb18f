---- MODULE SessionActor ----
(* One hydrated session actor (packages/session-runtime): a bounded mailbox that lets     *)
(* safety items pass, a window of deliveries that makes canonical events idempotent, one  *)
(* historical lookup for what fell out of it, and the generation whose answer may be      *)
(* spoken.  Code between two awaits is atomic; the mailbox runs one item per microtask.   *)
EXTENDS Naturals, Sequences, FiniteSets, SequencesExt

CONSTANTS Callers,
          MaxVersion,      \* committed events of the session; event v takes it to version v
          FloorEvents,     \* versions that change the presenter
          EndVersion,      \* the version that ends the session, or 0
          Foreign,         \* envelopes with version 1 that were never committed
          Commands,        \* identifiers of cancellation commands
          MailboxCapacity, MaxDedupe,
          MaxCalls         \* bound: calls made

Canonical == 1..MaxVersion

ASSUME ActorAssumption ==
    /\ MaxVersion \in Nat \ {0} /\ MaxCalls \in Nat
    /\ FloorEvents \subseteq Canonical /\ EndVersion \in {0, MaxVersion}
    /\ Foreign \cap Nat = {}
    /\ MailboxCapacity \in Nat /\ MailboxCapacity >= 2 /\ MaxDedupe \in Nat \ {0}

VARIABLES version,       \* #state, by its version
          deliveries,    \* the window, in order of insertion
          lookup,        \* the event looked up in the history, or 0
          mailbox,
          activeGeneration, nextGeneration,
          controls,      \* the window of cancellation commands
          call,          \* what each caller awaits, or was answered last
          calls,         \* bound: calls made so far
          silenced       \* history: generations that had begun when their cancellation ran, the
                         \* presenter changed or the session ended

actorVars == <<version, deliveries, lookup, mailbox, activeGeneration, nextGeneration,
               controls, call, calls, silenced>>

VersionOf(e) == IF e \in Foreign THEN 1 ELSE e
Generations == 1..MaxCalls
Ended(v) == EndVersion # 0 /\ v >= EndVersion
Idle == [on |-> "nothing", arg |-> 0, answer |-> "none"]
DeliveryStatuses == {"queued", "reduced", "rejected", "settled"}
ControlStatuses == {"queued", "cancelled", "stale", "settled"}

ActorInit ==
    /\ version \in Canonical
    /\ deliveries = [k \in 1..(IF version < MaxDedupe THEN version ELSE MaxDedupe) |->
                       [event |-> version - (IF version < MaxDedupe THEN version ELSE MaxDedupe) + k,
                        status |-> "settled"]]
    /\ lookup = 0 /\ mailbox = <<>> /\ controls = <<>>
    /\ activeGeneration = 0 /\ nextGeneration = 0 /\ silenced = {}
    /\ calls = 0
    /\ call = [c \in Callers |-> Idle]

Places(seq, field, value) == {k \in DOMAIN seq : seq[k][field] = value}
Normal == {k \in DOMAIN mailbox : mailbox[k].lane # "safety"}
Free(c) == call[c].answer # "waiting"
CountCall(c) == Free(c) /\ calls < MaxCalls /\ calls' = calls + 1
Await(c, on, arg) == call' = [call EXCEPT ![c] = [on |-> on, arg |-> arg, answer |-> "waiting"]]
Refuse(c, on, arg) == call' = [call EXCEPT ![c] = [on |-> on, arg |-> arg, answer |-> "refused"]]
Answer(on, arg, answer) ==
    [c \in Callers |-> IF call[c] = [on |-> on, arg |-> arg, answer |-> "waiting"]
                         THEN [call[c] EXCEPT !.answer = answer] ELSE call[c]]

IsSettled(record) == record.status = "settled"

(* Room for a new record: settled records leave the window, the oldest first. *)
Evicted(window) ==
    IF Len(window) < MaxDedupe \/ ~\E k \in DOMAIN window : IsSettled(window[k]) THEN window
    ELSE RemoveAt(window, CHOOSE k \in DOMAIN window :
                             IsSettled(window[k]) /\ \A j \in 1..(k - 1) : ~IsSettled(window[j]))

HasRoom(lane) ==
    IF lane = "safety" THEN Len(mailbox) < MailboxCapacity
                       ELSE Cardinality(Normal) < MailboxCapacity - 1
Enqueue(lane, op, arg) == mailbox' = Append(mailbox, [lane |-> lane, op |-> op, arg |-> arg])

DeliverFresh_RecordFirst(c, e) ==
    /\ VersionOf(e) > version
    /\ Len(Evicted(deliveries)) < MaxDedupe
    /\ deliveries' = Append(Evicted(deliveries), [event |-> e, status |-> "queued"])
    /\ IF HasRoom("canonical")
         THEN Enqueue("canonical", "reduce", e) /\ Await(c, "delivery", e)
         ELSE Refuse(c, "delivery", e) /\ UNCHANGED mailbox
    /\ UNCHANGED <<version, lookup, activeGeneration, nextGeneration, controls, silenced>>

DeliverFresh_NoEviction(c, e) ==
    /\ VersionOf(e) > version
    /\ IF HasRoom("canonical")
         THEN /\ deliveries' = Append(deliveries, [event |-> e, status |-> "queued"])
              /\ Enqueue("canonical", "reduce", e)
              /\ Await(c, "delivery", e)
         ELSE /\ Refuse(c, "delivery", e)
              /\ UNCHANGED <<deliveries, mailbox>>
    /\ UNCHANGED <<version, lookup, activeGeneration, nextGeneration, controls, silenced>>

(* applyCanonicalEvent on an event the window does not hold. *)
DeliverFresh(c, e) ==
    /\ VersionOf(e) > version
    /\ LET window == Evicted(deliveries) IN
         IF Len(window) < MaxDedupe /\ HasRoom("canonical")
           THEN /\ deliveries' = Append(window, [event |-> e, status |-> "queued"])
                /\ Enqueue("canonical", "reduce", e)
                /\ Await(c, "delivery", e)
           ELSE /\ deliveries' = window
                /\ Refuse(c, "delivery", e)
                /\ UNCHANGED mailbox
    /\ UNCHANGED <<version, lookup, activeGeneration, nextGeneration, controls, silenced>>

DeliverHistorical(c, e) ==
    /\ VersionOf(e) <= version
    /\ IF lookup \in {0, e} THEN lookup' = e /\ Await(c, "lookup", e)
                            ELSE UNCHANGED lookup /\ Refuse(c, "lookup", e)
    /\ UNCHANGED <<version, deliveries, mailbox, activeGeneration, nextGeneration, controls, silenced>>

ApplyCanonicalEvent(c, e) ==
    /\ CountCall(c)
    /\ IF Places(deliveries, "event", e) # {}
         THEN /\ IF \E k \in Places(deliveries, "event", e) : IsSettled(deliveries[k])
                   THEN call' = [call EXCEPT ![c] = [on |-> "delivery", arg |-> e, answer |-> "applied"]]
                   ELSE Await(c, "delivery", e)
              /\ UNCHANGED <<version, deliveries, lookup, mailbox, activeGeneration,
                             nextGeneration, controls, silenced>>
         ELSE DeliverFresh(c, e) \/ DeliverHistorical(c, e)

(* The source answers with the committed history, or fails or misses its deadline. *)
FinishLookup ==
    /\ lookup # 0
    /\ \E answer \in {"refused"} \cup (IF lookup \in Canonical THEN {"applied"} ELSE {}) :
          call' = Answer("lookup", lookup, answer)
    /\ lookup' = 0
    /\ UNCHANGED <<calls, version, deliveries, mailbox, activeGeneration, nextGeneration, controls, silenced>>

BeginGeneration(c) ==
    /\ CountCall(c)
    /\ IF HasRoom("control")
         THEN Enqueue("control", "begin", c) /\ Await(c, "begin", 0)
         ELSE Refuse(c, "begin", 0) /\ UNCHANGED mailbox
    /\ UNCHANGED <<version, deliveries, lookup, activeGeneration, nextGeneration, controls, silenced>>

(* A command names one generation, begun or not; a known command is answered from its     *)
(* record.                                                                                *)
CancelGeneration(c, m, g) ==
    /\ CountCall(c)
    /\ IF Places(controls, "command", m) # {}
         THEN /\ \A k \in Places(controls, "command", m) : controls[k].generation = g
              /\ IF \E k \in Places(controls, "command", m) : IsSettled(controls[k])
                   THEN call' = [call EXCEPT ![c] = [on |-> "cancel", arg |-> m, answer |-> "told"]]
                   ELSE Await(c, "cancel", m)
              /\ UNCHANGED <<controls, mailbox>>
         ELSE LET window == Evicted(controls) IN
              IF Len(window) < MaxDedupe /\ HasRoom("safety")
                THEN /\ controls' = Append(window, [command |-> m, generation |-> g, status |-> "queued"])
                     /\ Enqueue("safety", "cancel", m)
                     /\ Await(c, "cancel", m)
                ELSE /\ controls' = window
                     /\ Refuse(c, "cancel", m)
                     /\ UNCHANGED mailbox
    /\ UNCHANGED <<version, deliveries, lookup, activeGeneration, nextGeneration, silenced>>

(* What runOne takes: the first safety item, or else the oldest. *)
NextItem ==
    LET safety == Places(mailbox, "lane", "safety") IN
    IF safety # {} THEN CHOOSE k \in safety : \A j \in safety : k <= j ELSE 1

SetStatus(window, field, value, status) ==
    [k \in DOMAIN window |-> IF window[k][field] = value
                               THEN [window[k] EXCEPT !.status = status] ELSE window[k]]

ReduceCanonicalEvent_KeepsFloor(e) ==
    IF e = version + 1 /\ ~Ended(version)
      THEN /\ version' = e
           /\ silenced' = IF Ended(e) \/ e \in FloorEvents THEN 1..nextGeneration ELSE silenced
           /\ deliveries' = SetStatus(deliveries, "event", e, "reduced")
           /\ UNCHANGED activeGeneration
      ELSE /\ deliveries' = SetStatus(deliveries, "event", e, "rejected")
           /\ UNCHANGED <<version, activeGeneration, silenced>>

ReduceCanonicalEvent(e) ==
    IF e = version + 1 /\ ~Ended(version)
      THEN /\ version' = e
           /\ IF Ended(e) \/ e \in FloorEvents
                THEN activeGeneration' = 0 /\ silenced' = 1..nextGeneration
                ELSE UNCHANGED <<activeGeneration, silenced>>
           /\ deliveries' = SetStatus(deliveries, "event", e, "reduced")
      ELSE /\ deliveries' = SetStatus(deliveries, "event", e, "rejected")
           /\ UNCHANGED <<version, activeGeneration, silenced>>

RunBegin(c) ==
    IF Ended(version)
      THEN /\ call' = [call EXCEPT ![c].answer = "refused"]
           /\ UNCHANGED <<activeGeneration, nextGeneration>>
      ELSE /\ nextGeneration' = nextGeneration + 1
           /\ activeGeneration' = nextGeneration'
           /\ call' = [call EXCEPT ![c].answer = "begun"]

(* A cancelled generation, or a stale one; one that has not begun is stale too, and may    *)
(* begin later.                                                                           *)
RunCancel(m) ==
    LET g == controls[CHOOSE k \in Places(controls, "command", m) : TRUE].generation IN
    /\ controls' = SetStatus(controls, "command", m, IF activeGeneration = g THEN "cancelled" ELSE "stale")
    /\ activeGeneration' = IF activeGeneration = g THEN 0 ELSE activeGeneration
    /\ silenced' = silenced \cup ({g} \cap 1..nextGeneration)

RunOne ==
    /\ mailbox # <<>>
    /\ mailbox' = RemoveAt(mailbox, NextItem)
    /\ LET item == mailbox[NextItem] IN
         \/ /\ item.op = "reduce" /\ ReduceCanonicalEvent(item.arg)
            /\ UNCHANGED <<nextGeneration, controls, call>>
         \/ /\ item.op = "begin" /\ RunBegin(item.arg)
            /\ UNCHANGED <<version, deliveries, controls, silenced>>
         \/ /\ item.op = "cancel" /\ RunCancel(item.arg)
            /\ UNCHANGED <<version, deliveries, nextGeneration, call>>
    /\ UNCHANGED <<calls, lookup>>

(* The reactions of a delivery's promise: its record settles, or leaves the window. *)
SettleDelivery(k) ==
    LET record == deliveries[k] IN
    /\ record.status \in {"reduced", "rejected"}
    /\ deliveries' = IF record.status = "reduced" THEN [deliveries EXCEPT ![k].status = "settled"]
                                                  ELSE RemoveAt(deliveries, k)
    /\ call' = Answer("delivery", record.event, IF record.status = "reduced" THEN "applied" ELSE "refused")
    /\ UNCHANGED <<calls, version, lookup, mailbox, activeGeneration, nextGeneration, controls, silenced>>

SettleControl(k) ==
    LET record == controls[k] IN
    /\ record.status \in {"cancelled", "stale"}
    /\ controls' = [controls EXCEPT ![k].status = "settled"]
    /\ call' = Answer("cancel", record.command, "told")
    /\ UNCHANGED <<calls, version, deliveries, lookup, mailbox, activeGeneration, nextGeneration, silenced>>

ActorMicrotask ==
    \/ RunOne
    \/ \E k \in DOMAIN deliveries : SettleDelivery(k)
    \/ \E k \in DOMAIN controls : SettleControl(k)

ActorNext ==
    \/ \E c \in Callers :
          \/ \E e \in Canonical \cup Foreign : ApplyCanonicalEvent(c, e)
          \/ BeginGeneration(c)
          \/ \E m \in Commands, g \in Generations : CancelGeneration(c, m, g)
    \/ ActorMicrotask
    \/ FinishLookup

(* Microtasks are drained before anything else runs for long, and every read of the       *)
(* source has a deadline.                                                                 *)
ActorFairness == WF_actorVars(ActorMicrotask) /\ WF_actorVars(FinishLookup)
ActorSpec == ActorInit /\ [][ActorNext]_actorVars /\ ActorFairness

(* Whether generation g may publish now. *)
CanPublish(g) == activeGeneration = g /\ ~Ended(version)

----
(* Normal items leave one place of the mailbox free, and cancellations never fill more    *)
(* places than it has; normal items are admitted next to queued cancellations, so         *)
(* together they may be more than mailbox_capacity (BoundedActorMailbox.enqueue).         *)
MailboxBounded ==
    /\ Cardinality(Normal) < MailboxCapacity
    /\ Cardinality(Places(mailbox, "lane", "safety")) <= MailboxCapacity

(* Every variable holds what it may hold; the windows and both lanes of the mailbox stay  *)
(* bounded.                                                                               *)
ActorTypeOK ==
    /\ version \in Canonical
    /\ deliveries \in Seq([event : Canonical \cup Foreign, status : DeliveryStatuses])
    /\ controls \in Seq([command : Commands, generation : Generations, status : ControlStatuses])
    /\ Len(deliveries) <= MaxDedupe /\ Len(controls) <= MaxDedupe
    /\ lookup \in Canonical \cup Foreign \cup {0}
    /\ mailbox \in Seq([lane : {"canonical", "control", "safety"}, op : {"reduce", "begin", "cancel"},
                        arg : Canonical \cup Foreign \cup Callers \cup Commands])
    /\ MailboxBounded
    /\ activeGeneration \in 0..nextGeneration /\ nextGeneration \in 0..MaxCalls
    /\ silenced \subseteq Generations

(* The window and the mailbox tell the same story: an event has one record, a record is   *)
(* unsettled exactly while its item is queued or its promise still has to react, and what *)
(* was reduced is below the actor's version.  A record without an item would hold its     *)
(* place for ever and end every delivery.                                                 *)
WindowMatchesMailbox ==
    /\ \A e \in Canonical \cup Foreign :
          /\ Cardinality(Places(deliveries, "event", e)) <= 1
          /\ LET queued == {k \in Places(mailbox, "op", "reduce") : mailbox[k].arg = e}
                 records == {k \in Places(deliveries, "event", e) : deliveries[k].status = "queued"}
             IN Cardinality(queued) = Cardinality(records)
    /\ \A k \in DOMAIN deliveries :
          deliveries[k].status \in {"reduced", "settled"} => deliveries[k].event <= version
    /\ \A m \in Commands :
          Cardinality({k \in Places(mailbox, "op", "cancel") : mailbox[k].arg = m})
            = Cardinality({k \in Places(controls, "command", m) : controls[k].status = "queued"})

(* A delivery is answered as applied only for an event of the committed history that the  *)
(* actor's state has, however often it was delivered, evicted or retried.                 *)
AppliedMeansInState ==
    \A c \in Callers : call[c].answer = "applied" => /\ call[c].arg \in Canonical
                                                     /\ call[c].arg <= version

(* Exactly once, as long as it matters: what the windows remember and what callers were   *)
(* told agree with the state, after any order of deliveries, evictions and retries.       *)
DeliveriesAreRemembered == WindowMatchesMailbox /\ AppliedMeansInState

(* One mouth: a generation that had begun when its cancellation ran (whether that found   *)
(* it active or already superseded), when the presenter changed or when the session ended *)
(* never may publish again, whatever is queued, begun or cancelled after it.  The answer  *)
(* "stale" alone promises less: a generation that had not begun gets it as well.          *)
SilencedStaysSilent == \A g \in silenced : ~CanPublish(g)

(* Every caller is answered or refused.                                                   *)
EveryCallIsAnswered == \A c \in Callers : ~Free(c) ~> Free(c)
====
