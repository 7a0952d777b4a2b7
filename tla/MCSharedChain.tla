--------------------------- MODULE MCSharedChain ---------------------------
(* TLC instance of SharedChain: members are named by numbers. *)
EXTENDS SharedChain

=============================================================================
