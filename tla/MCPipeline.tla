---- MODULE MCPipeline ----
(* The path of an event: one interaction aggregate under every event the reducer knows,   *)
(* and the relays that carry the events of two sessions from the outbox to the timeline,  *)
(* side by side.  part names the one that runs; the other stays as it was made.           *)
EXTENDS MCEventRelay, InteractionSession

VARIABLE part

(* The relay without a workflow sink is configured with a smaller budget. *)
MCBudgets == [r \in Relays |-> IF r \in Dispatchers THEN 2 ELSE 1]

MCInit ==
    /\ part \in {"session", "relay"}
    /\ Init /\ RelayInit

MCNext ==
    \/ part = "session" /\ Next /\ UNCHANGED <<relayVars, part>>
    \/ part = "relay" /\ RelayNext /\ UNCHANGED <<interaction, part>>

MCSpec == MCInit /\ [][MCNext]_<<interaction, relayVars, part>>

(* Every variable of the aggregate, the outbox, the timeline and the relays holds what it *)
(* may hold.                                                                              *)
MCTypeOK == TypeOK /\ RelayTypeOK
====
