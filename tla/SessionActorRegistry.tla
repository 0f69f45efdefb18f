---- MODULE SessionActorRegistry ----
(* The registry of session actors (packages/session-runtime): one map from a session to   *)
(* its actor, and the hydration that reads the committed history before the actor may be  *)
(* used.  A hydration that fails is forgotten by the request that led it, some microtasks *)
(* later: first the actor forgets the attempt, then the registry forgets the actor.       *)
EXTENDS Naturals, FiniteSets

CONSTANTS Requesters, HeldSessions,
          NoActor,
          MaxActors,       \* max_actors
          MaxMade,         \* bound: actors made
          MaxHistory,      \* bound: events committed per session
          MaxRequests      \* bound: calls of getActor

ASSUME RegistryAssumption ==
    /\ NoActor \notin Nat \cup [session : HeldSessions, version : 0..MaxHistory]
    /\ {MaxActors, MaxMade, MaxHistory, MaxRequests} \subseteq Nat \ {0}

VARIABLES registered,      \* actors: the map
          actor,           \* the actors made: their session, and #state by its version or 0
          attempt,         \* #hydrating of each actor
          request,         \* getActor of each requester
          history, snapshot,   \* the source: committed versions, and the latest snapshot or 0
          requests         \* bound: calls so far

registryVars == <<registered, actor, attempt, request, history, snapshot, requests>>

Unread == MaxHistory + 1
NotHydrating == [state |-> "none"]
Reading(since) == [state |-> "reading", since |-> since,
                   snapshot |-> Unread, full |-> Unread, tail |-> Unread]
NoRequest == [stage |-> "none", actor |-> NoActor, created |-> FALSE]
Pending(c) == request[c].stage \in {"leading", "joined", "leaving"}
(* Reads take longer than the few microtasks in which a failure is forgotten. *)
Drained == \A c \in Requesters : request[c].stage # "leaving"
Made == {a \in 1..MaxMade : actor[a] # NoActor}

RegistryInit ==
    /\ registered = [s \in HeldSessions |-> NoActor]
    /\ actor = [a \in 1..MaxMade |-> NoActor]
    /\ attempt = [a \in 1..MaxMade |-> NotHydrating]
    /\ request = [c \in Requesters |-> NoRequest]
    /\ history = [s \in HeldSessions |-> 1]
    /\ snapshot \in [HeldSessions -> {0, 1}]
    /\ requests = 0

Asks(c, a, stage, created) ==
    request' = [request EXCEPT ![c] = [stage |-> stage, actor |-> a, created |-> created]]

(* ensureHydrated of actor a for requester c. *)
EnsureHydrated(c, a, s, created) ==
    CASE ~created /\ actor[a].version # 0 -> Asks(c, a, "held", FALSE) /\ UNCHANGED attempt
      [] attempt[a].state # "none" -> Asks(c, a, "joined", FALSE) /\ UNCHANGED attempt
      [] OTHER -> /\ attempt' = [attempt EXCEPT ![a] = Reading(history[s])]
                  /\ Asks(c, a, "leading", created)

GetActor(c, s) ==
    /\ ~Pending(c)
    /\ requests < MaxRequests /\ requests' = requests + 1
    /\ \/ /\ registered[s] # NoActor
          /\ EnsureHydrated(c, registered[s], s, FALSE)
          /\ UNCHANGED <<registered, actor>>
       \/ /\ registered[s] = NoActor
          /\ Cardinality({t \in HeldSessions : registered[t] # NoActor}) >= MaxActors
          /\ Asks(c, NoActor, "refused", FALSE)
          /\ UNCHANGED <<registered, actor, attempt>>
       \/ /\ registered[s] = NoActor
          /\ Cardinality({t \in HeldSessions : registered[t] # NoActor}) < MaxActors
          /\ Cardinality(Made) < MaxMade
          /\ LET a == Cardinality(Made) + 1 IN
               /\ actor' = [actor EXCEPT ![a] = [session |-> s, version |-> 0]]
               /\ registered' = [registered EXCEPT ![s] = a]
               /\ EnsureHydrated(c, a, s, TRUE)
    /\ UNCHANGED <<history, snapshot>>

(* The reads of verifySessionReplay: snapshot and full history together, the tail after   *)
(* both; each sees the source as it is then.                                              *)
ReadSource(a) ==
    /\ Drained
    /\ attempt[a].state = "reading"
    /\ LET h == attempt[a]
           s == actor[a].session IN
         \/ /\ h.snapshot = Unread
            /\ attempt' = [attempt EXCEPT ![a].snapshot = snapshot[s]]
         \/ /\ h.full = Unread
            /\ attempt' = [attempt EXCEPT ![a].full = history[s]]
         \/ /\ Unread \notin {h.snapshot, h.full} /\ h.tail = Unread
            /\ h.snapshot \in 1..h.full
            /\ attempt' = [attempt EXCEPT ![a].tail = history[s]]
    /\ UNCHANGED <<registered, actor, request, history, snapshot, requests>>

(* Replay from zero agrees with the snapshot and the tail read after it. *)
Verified(h) ==
    /\ Unread \notin {h.snapshot, h.full}
    /\ h.snapshot # 0 => h.snapshot <= h.full /\ h.tail = h.full

Hydrate_FromTail(a) ==
    /\ Drained
    /\ attempt[a].state = "reading" /\ Verified(attempt[a])
    /\ actor' = [actor EXCEPT ![a].version =
                   IF attempt[a].snapshot # 0 THEN attempt[a].snapshot ELSE attempt[a].full]
    /\ attempt' = [attempt EXCEPT ![a] = NotHydrating]
    /\ request' = [c \in Requesters |-> IF request[c].actor = a /\ request[c].stage \in {"leading", "joined"}
                                          THEN [request[c] EXCEPT !.stage = "held"] ELSE request[c]]
    /\ UNCHANGED <<registered, history, snapshot, requests>>

Hydrate(a) ==
    /\ Drained
    /\ attempt[a].state = "reading" /\ Verified(attempt[a])
    /\ actor' = [actor EXCEPT ![a].version = attempt[a].full]
    /\ attempt' = [attempt EXCEPT ![a] = NotHydrating]
    /\ request' = [c \in Requesters |-> IF request[c].actor = a /\ request[c].stage \in {"leading", "joined"}
                                          THEN [request[c] EXCEPT !.stage = "held"] ELSE request[c]]
    /\ UNCHANGED <<registered, history, snapshot, requests>>

(* The source fails, its answers disagree, or the deadline passes first; an answer that   *)
(* comes later is dropped.                                                                *)
FailHydration(a) ==
    /\ Drained
    /\ attempt[a].state = "reading"
    /\ attempt' = [attempt EXCEPT ![a] = [state |-> "failed"]]
    /\ UNCHANGED <<registered, actor, request, history, snapshot, requests>>

ForgetAttempt_LeaderOnly(a) ==
    /\ attempt[a].state = "failed"
    /\ attempt' = [attempt EXCEPT ![a] = NotHydrating]
    /\ request' = [c \in Requesters |-> IF request[c].actor = a /\ request[c].stage = "leading"
                                          THEN [request[c] EXCEPT !.stage = "leaving"] ELSE request[c]]
    /\ UNCHANGED <<registered, actor, history, snapshot, requests>>

(* The finally of ensureHydrated. *)
ForgetAttempt(a) ==
    /\ attempt[a].state = "failed"
    /\ attempt' = [attempt EXCEPT ![a] = NotHydrating]
    /\ request' = [c \in Requesters |-> IF request[c].actor = a /\ request[c].stage \in {"leading", "joined"}
                                          THEN [request[c] EXCEPT !.stage = "leaving"] ELSE request[c]]
    /\ UNCHANGED <<registered, actor, history, snapshot, requests>>

(* The catch of getActor: the request that made the actor takes it out of the map; it     *)
(* awaited the attempt first, so it is the first to leave.                                *)
LeaveFailed(c) ==
    /\ request[c].stage = "leaving"
    /\ LET a == request[c].actor
           s == actor[a].session IN
         /\ \A d \in Requesters \ {c} : request[d].stage = "leaving" /\ request[d].actor = a => ~request[d].created
         /\ registered' = IF request[c].created /\ registered[s] = a
                            THEN [registered EXCEPT ![s] = NoActor] ELSE registered
    /\ request' = [request EXCEPT ![c] = [NoRequest EXCEPT !.stage = "failed"]]
    /\ UNCHANGED <<actor, attempt, history, snapshot, requests>>

CommitHistory(s) ==
    /\ Drained /\ history[s] < MaxHistory
    /\ history' = [history EXCEPT ![s] = @ + 1]
    /\ UNCHANGED <<registered, actor, attempt, request, snapshot, requests>>

SaveSnapshot(s) ==
    /\ Drained /\ snapshot[s] < history[s]
    /\ snapshot' = [snapshot EXCEPT ![s] = history[s]]
    /\ UNCHANGED <<registered, actor, attempt, request, history, requests>>

RegistryProgress ==
    \/ \E a \in Made : ReadSource(a) \/ Hydrate(a) \/ FailHydration(a) \/ ForgetAttempt(a)
    \/ \E c \in Requesters : LeaveFailed(c)

RegistryNext ==
    \/ \E c \in Requesters, s \in HeldSessions : GetActor(c, s)
    \/ RegistryProgress
    \/ \E s \in HeldSessions : CommitHistory(s) \/ SaveSnapshot(s)

(* Every read has a deadline, and the reactions of a promise run. *)
RegistryFairness == WF_registryVars(RegistryProgress)
RegistrySpec == RegistryInit /\ [][RegistryNext]_registryVars /\ RegistryFairness

----
(* Every variable holds what it may hold.                                                 *)
RegistryTypeOK ==
    /\ registered \in [HeldSessions -> Made \cup {NoActor}]
    /\ \A a \in Made : actor[a].session \in HeldSessions /\ actor[a].version \in 0..MaxHistory
    /\ \A a \in DOMAIN attempt : attempt[a].state \in {"none", "reading", "failed"}
    /\ request \in [Requesters -> [stage : {"none", "leading", "joined", "leaving", "held", "refused", "failed"},
                                   actor : Made \cup {NoActor}, created : BOOLEAN]]

(* A place of the registry is never lost to a failure: an actor in the map is hydrated,   *)
(* hydrating, or about to be taken out by the request that made it.                       *)
RegisteredActorsLive ==
    \A s \in HeldSessions : registered[s] # NoActor =>
        \/ actor[registered[s]].version # 0
        \/ attempt[registered[s]].state # "none"
        \/ \E c \in Requesters : request[c].stage = "leaving" /\ request[c].created
                                 /\ request[c].actor = registered[s]

(* A hydrated actor starts from one committed version, none of whose events it misses     *)
(* that were committed before its hydration began, whatever was committed or snapshotted  *)
(* while the source was read.                                                             *)
HydratesFromHistory ==
    [][\A a \in Made : actor'[a] # actor[a] =>
          actor'[a].version \in attempt[a].since..history[actor[a].session]]_registryVars

(* Whoever was given an actor of a session was given the same one: a session has one      *)
(* actor, with one mailbox and one sequence of generations.                               *)
OneActorPerSession ==
    \A c, d \in Requesters :
        /\ request[c].stage = "held" /\ request[d].stage = "held"
        /\ actor[request[c].actor].session = actor[request[d].actor].session
        => request[c].actor = request[d].actor

(* Every request for an actor is answered.                                                *)
EveryRequestReturns == \A c \in Requesters : Pending(c) ~> ~Pending(c)
====
