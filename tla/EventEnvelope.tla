----------------------------- MODULE EventEnvelope -----------------------------
(***************************************************************************)
(* The canonical envelope an interaction event travels in, and the         *)
(* identities of one tenant the repositories share.  Every repository keys *)
(* its maps by tenant first, so one tenant is the whole story.             *)
(***************************************************************************)
EXTENDS InteractionReducer

CONSTANTS
  Sessions,     \* session (aggregate) identifiers, numbered in sort order
  EventIds      \* event identifiers

ASSUME SessionsAssumption == Sessions \subseteq Nat \ {0}

Envelope == [id : EventIds, session : Sessions, version : Nat, event : Event]
===============================================================================
