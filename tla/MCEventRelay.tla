------------------------------ MODULE MCEventRelay ------------------------------
(* Instances of the relay pipeline: inputs, budgets and symmetry. *)
EXTENDS EventRelay, TLC

(* The shortest life of a session, with the sales extension the reducer     *)
(* accepts before and after its completion.                                 *)
MCInputs ==
  {[type |-> t] : t \in {"session.created", "session.prepared",
                         "session.completed", "sales.installed"}}

(* The life of a session whose consent is withdrawn while it is on stage.   *)
MCConsentInputs ==
  {[type |-> t] : t \in {"session.created", "session.prepared"}}
    \cup {[type |-> "disclosure.delivered", status |-> "delivered"]}
    \cup [type : {"consent.recorded"}, status : {"granted", "revoked"}]
    \cup [type : {"session.activated"}, presenter : Presenters]

\* The relays are numbered by their budgets.
MCMaxAttempts == [r \in Relays |-> r]

MCSymmetry == Permutations(EventIds) \cup Permutations(Tokens)

(* Identifiers are minted and tokens drawn in order: behaviours that differ *)
(* only by their names are explored once where symmetry may not be used.    *)
InOrderNames ==
  /\ \A e \in Committed, f \in EventIds : f < e =>
       /\ f \in Committed
       /\ outbox[f].session = outbox[e].session =>
            outbox[f].version < outbox[e].version
  /\ \A t \in usedTokens, u \in Tokens : u < t => u \in usedTokens

(* Two lives: all relays race for two events of any sessions, or relay 1    *)
(* carries one session as far as it gets, never lagging by more than two.   *)
RaceOrLongLife ==
  Cardinality(Committed) > 2 =>
    /\ \A e \in Committed : outbox[e].session = 1 /\ delivery[e].budget \in {0, 1}
    /\ \A r \in Relays \ {1} : relay[r].pc = "idle"
    /\ Cardinality({e \in Committed : outbox[e].status # "published"}) <= 2
=================================================================================
