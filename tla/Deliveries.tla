----------------------------- MODULE Deliveries -----------------------------
(***************************************************************************)
(* Clients with the publishes it writes in view, and the mapping under      *)
(* which it implements Delivery.  The poll loop, the slots that are used    *)
(* again, the entries with holes in them and the counters are what the      *)
(* mapping hides: a step of the poll is one step of Delivery or none.       *)
(***************************************************************************)
EXTENDS Clients

VARIABLE sent   \* what emcuetiti_broker_publish has just written, to whom

deliveryVars == <<vars, sent>>

(* A publish is written while its handler runs, and only if the broker has  *)
(* the topic (client.c:126-135).                                            *)
Publishes == HandlePublish /\ pc' = "expire" /\ topic[cursor] # NULL

(* emcuetiti_broker_publish writes once to each slot it selects.            *)
Written == [topic |-> topic[cursor], to |-> {client[r] : r \in Receivers(topic[cursor])}]

DeliveryInit == Init /\ sent = NULL

DeliveryNext == Next /\ sent' = IF Publishes THEN Written ELSE NULL

DeliverySpec == DeliveryInit /\ [][DeliveryNext]_deliveryVars

-----------------------------------------------------------------------------
(* The refinement mapping.                                                  *)

SlotOf(h) == CHOOSE s \in Slots : client[s] = h

Here == {client[s] : s \in Occupied}
Open == {client[s] : s \in {r \in Slots : state[r] = "connected"}}
Grants == [h \in Handles |->
              IF h \in Here THEN due[SlotOf(h)] ELSE [t \in Topics |-> 0]]

Promise == INSTANCE Delivery WITH
               Clients <- Handles, Nobody <- NULL,
               here <- Here, open <- Open, grants <- Grants

(* The broker delivers as Delivery promises: the slots that change hands,   *)
(* the subscription tables with their holes and the order in which packets  *)
(* of several clients are served cannot be seen in who is sent what.        *)
DeliversAsPromised == Promise!Spec

=============================================================================
