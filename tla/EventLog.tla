------------------------------ MODULE EventLog ------------------------------
(***************************************************************************)
(* What the spool promises its callers: a published event is, one event at *)
(* a time, recorded in all of its tables or refused; what has been         *)
(* published, recorded or refused stays so, and nothing that was never     *)
(* published is recorded or refused.                                       *)
(***************************************************************************)
CONSTANT Events

VARIABLES
    published,  \* events handed to write_event
    recorded,   \* events in every table their type routes them to
    refused     \* events in failed/

vars == <<published, recorded, refused>>

Init == published = {} /\ recorded = {} /\ refused = {}

Publish(e) ==
    /\ published' = published \cup {e}
    /\ UNCHANGED <<recorded, refused>>

(* Recording is idempotent (INSERT OR IGNORE): a duplicate delivery is a
   stuttering step.  A refused event that is published again may be recorded. *)
Record(e) ==
    /\ e \in published
    /\ recorded' = recorded \cup {e}
    /\ UNCHANGED <<published, refused>>

Refuse(e) ==
    /\ e \in published
    /\ refused' = refused \cup {e}
    /\ UNCHANGED <<published, recorded>>

Next == \E e \in Events : Publish(e) \/ Record(e) \/ Refuse(e)

Spec == Init /\ [][Next]_vars

=============================================================================
