---- MODULE MCDataGovernance ----
(* One disposition request on its own, for the run that expects a violation. *)
EXTENDS DataGovernance

MCCovered == [h \in LegalHolds |-> {2}]
====
