------------------------------ MODULE MCRelay ------------------------------
(* One connection of Chrome: the connections have nothing in common but     *)
(* await_closed(), and the theorems are about any number of them.           *)
EXTENDS Relay
=============================================================================
