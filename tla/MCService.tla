------------------------------ MODULE MCService ------------------------------
(* A small instance of Service for TLC. *)
EXTENDS Service, TLC

CONSTANTS c1, c2, c3

MCClients == {c1, c2, c3}
=============================================================================
