---------------------------- MODULE MCDeliveries ----------------------------
(* A small instance of Deliveries, and so of Clients, for TLC.              *)
EXTENDS Deliveries, MCClients

=============================================================================
