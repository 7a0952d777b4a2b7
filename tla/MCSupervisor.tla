---------------------------- MODULE MCSupervisor ----------------------------
(* TLC instance of Supervisor: a small roster, two NEXT ACTION texts and as
   many repository states as the excuses can tell apart. *)
EXTENDS Supervisor, TLC

Symmetry ==
    Permutations(Agents) \cup Permutations(NextActions) \cup Permutations(RepoKeys)
=============================================================================
