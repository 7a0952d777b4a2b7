------------------------------ MODULE MCLeases ------------------------------
(* TLC instance of Leases: three agents, one resource and two connection
   threads as model values. *)
EXTENDS Leases
=============================================================================
