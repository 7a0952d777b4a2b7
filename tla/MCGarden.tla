------------------------------ MODULE MCGarden ------------------------------
(* TLC instance of Garden: one file of each chain. *)
EXTENDS Garden

=============================================================================
