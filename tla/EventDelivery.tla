---------------------------- MODULE EventDelivery ----------------------------
(***************************************************************************)
(* What the webhook outbox promises for each event: once published it is   *)
(* accepted by its endpoint at least once and then settled as delivered,   *)
(* or it is given up and stays on record as a dead letter; a settled event *)
(* can be published again by hand.  Endpoints may see an event more than   *)
(* once ("Webhooks are at-least-once", webhook_outbox_service.py:284).     *)
(***************************************************************************)
CONSTANT Events

VARIABLES
    fate,      \* what became of the event
    reached    \* the events an endpoint has accepted at least once

vars == <<fate, reached>>

Init ==
    /\ fate = [e \in Events |-> "unpublished"]
    /\ reached = {}

Publish(e) ==
    /\ fate[e] # "queued"
    /\ fate' = [fate EXCEPT ![e] = "queued"]
    /\ UNCHANGED reached

(* A request that was given up may still reach the endpoint later.         *)
Reach(e) ==
    /\ fate[e] # "unpublished"
    /\ reached' = reached \cup {e}
    /\ UNCHANGED fate

(* One commit may settle several events: as delivered only those that have *)
(* reached their endpoint.                                                 *)
Settle ==
    \E S \in SUBSET Events :
        /\ S # {}
        /\ \E verdict \in [S -> {"delivered", "dead"}] :
            /\ \A e \in S : fate[e] = "queued" /\ (verdict[e] = "delivered" => e \in reached)
            /\ fate' = [e \in Events |-> IF e \in S THEN verdict[e] ELSE fate[e]]
        /\ UNCHANGED reached

Next == Settle \/ \E e \in Events : Publish(e) \/ Reach(e)

Spec == Init /\ [][Next]_vars
=============================================================================
