---- MODULE MCWorkflow ----
(* The post-call runs and a data disposition request, side by side: part names the one    *)
(* that runs, the other stays as it was made.  Tokens are numbers and are drawn in order, *)
(* so that behaviours that differ only by the names of tokens are explored once.          *)
EXTENDS PostCallWorkflow, DataGovernance

VARIABLE part

MCCovered == [h \in LegalHolds |-> {2}]

InOrderTokens == \A t \in usedTokens, u \in Tokens : u < t => u \in usedTokens

MCInit ==
    /\ part \in {"runs", "disposition"}
    /\ Init /\ GovernanceInit

MCNext ==
    \/ part = "runs" /\ Next /\ UNCHANGED <<governanceVars, part>>
    \/ part = "disposition" /\ GovernanceNext /\ UNCHANGED <<vars, part>>

MCSpec == MCInit /\ [][MCNext]_<<vars, governanceVars, part>> /\ Fairness /\ GovernanceFairness

(* Nothing that was started is left behind, and what finished stays finished: every       *)
(* enqueued run finishes for good and every started disposition request converges,        *)
(* however many attempts and workers are lost (claimStep, claimNext, checkpoint).         *)
WorkFinishes == EveryRunFinishes /\ TerminalIsFinal /\ StartedRequestsConverge
====
