---------------------------- MODULE OrderedDelivery ----------------------------
(***************************************************************************)
(* What the outbox, its relays and the timeline promise together.  Each    *)
(* session has a log of committed events; its consumer sees a prefix of    *)
(* that log, each event exactly once and in order, and an event is settled *)
(* only after it was seen.  Claims, leases, retries and crashes are below  *)
(* this level.                                                             *)
(***************************************************************************)
EXTENDS Naturals, Sequences

CONSTANTS Sessions, EventIds, MaxBatch

VARIABLES
  log,         \* committed events of each session
  delivered,   \* events its consumer has applied
  settled      \* how many of them are acknowledged for good

vars == <<log, delivered, settled>>

Logged == UNION {{log[s][i] : i \in DOMAIN log[s]} : s \in Sessions}

Init ==
  /\ log       = [s \in Sessions |-> <<>>]
  /\ delivered = [s \in Sessions |-> <<>>]
  /\ settled   = [s \in Sessions |-> 0]

(* A batch of new events of one session is committed as a whole. *)
Commit(s) ==
  \E n \in 1..MaxBatch : \E batch \in [1..n -> EventIds \ Logged] :
    /\ \A i, j \in 1..n : batch[i] = batch[j] => i = j
    /\ log' = [log EXCEPT ![s] = @ \o batch]
    /\ UNCHANGED <<delivered, settled>>

(* The consumer applies the event after the last one it applied. *)
Deliver(s) ==
  /\ Len(delivered[s]) < Len(log[s])
  /\ delivered' = [delivered EXCEPT ![s] = Append(@, log[s][Len(@) + 1])]
  /\ UNCHANGED <<log, settled>>

(* The oldest unsettled event is settled, if the consumer has applied it. *)
Settle(s) ==
  /\ settled[s] < Len(delivered[s])
  /\ settled' = [settled EXCEPT ![s] = @ + 1]
  /\ UNCHANGED <<log, delivered>>

Next == \E s \in Sessions : Commit(s) \/ Deliver(s) \/ Settle(s)

Spec == Init /\ [][Next]_vars
===============================================================================
