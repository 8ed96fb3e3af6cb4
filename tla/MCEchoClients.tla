---------------------------- MODULE MCEchoClients ----------------------------
(* Instances of EchoClients for TLC: standard input, output and error are     *)
(* open, and there is a number for every client.                              *)
EXTENDS EchoClients

MCNumbers == 3..(2 + Cardinality(Clients))
=============================================================================
