--------------------------- MODULE MCKillRegistry ---------------------------
(* TLC instance of KillRegistry: agents do not interact here, so one agent and
   several generations of it. *)
EXTENDS KillRegistry
=============================================================================
