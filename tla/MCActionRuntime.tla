---- MODULE MCActionRuntime ----
(* Either the public runtime under direct callers, or the coordinator's private one. *)
EXTENDS CatalogLookupFlow, TLC
CONSTANTS DirectIntents
VARIABLE direct

ASSUME DirectAssumption == DirectIntents \subseteq Intents

MCCommands ==
    { [tenant |-> 1, question |-> 1, session |-> 1, plan |-> "starter", actor |-> "presenter"],
      [tenant |-> 1, question |-> 1, session |-> 1, plan |-> "growth", actor |-> "presenter"],
      [tenant |-> 1, question |-> 1, session |-> 3, plan |-> "starter", actor |-> "presenter"],
      [tenant |-> 1, question |-> 2, session |-> 1, plan |-> "starter", actor |-> "presenter"],
      [tenant |-> 2, question |-> 1, session |-> 2, plan |-> "starter", actor |-> "presenter"],
      [tenant |-> 2, question |-> 3, session |-> 1, plan |-> "starter", actor |-> "presenter"] }
MCAuthority == [s \in {1, 2, 3} |-> [tenant |-> IF s = 2 THEN 2 ELSE 1, presenter |-> "presenter"]]
MCDirectIntents ==
    { [tenant |-> 1, key |-> k, id |-> d, session |-> 1, plan |-> p, actor |-> "workflow"] :
        k \in {1, 2}, d \in {1, 2}, p \in {"starter", "unknown_effect"} }
    \cup { [tenant |-> 1, key |-> 3, id |-> 3, session |-> 1, plan |-> "transfer", actor |-> "workflow"],
           [tenant |-> 1, key |-> 4, id |-> 4, session |-> 1, plan |-> "starter", actor |-> "participant"] }
MCIntents == MCDirectIntents \cup {IntentOf(c) : c \in MCCommands}

allVars == <<direct, runtimeVars, flowVars>>
MCInit == FlowInit /\ direct \in BOOLEAN /\ (direct => DirectInit)
MCNext == /\ UNCHANGED direct
          /\ \/ direct /\ UNCHANGED flowVars /\ \E i \in DirectIntents : SubmitActionIntent(i) \/ RuntimeSteps(i)
             \/ ~direct /\ FlowNext
MCSpec == MCInit /\ [][MCNext]_allVars /\ FlowFairness
====
