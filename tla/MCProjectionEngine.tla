------------------------- MODULE MCProjectionEngine -------------------------
(* Instances of ProjectionEngine: events are numbers. *)
EXTENDS ProjectionEngine

(* The timestamp of event n is n. *)
MCTs == [e \in Events |-> e]
=============================================================================
