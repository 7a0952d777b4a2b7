----------------------------- MODULE MCFleetV2 -----------------------------
(* TLC instances of FleetV2: two members; a milestone and a task of one
   repository in the normal lane, an urgent task. *)
EXTENDS FleetV2

CONSTANTS a1, a2, m1, k1, u1, r1

TwoMembers == <<a1, a2>>
UrgentFirst == <<u1, k1, m1>>
OneRepo == [e \in Entries |-> r1]
NoLinks == [e \in Entries |-> {}]
(* The first member runs everything but the task: in one tick, from one list,
   the two may pick the two entries of the repository. *)
RunsDiffer == [a \in Agents |-> IF a = a1 THEN {m1, u1} ELSE Entries]
NoPins == [a \in Agents |-> None]
OneSlice == [e \in {m1} |-> <<"s1">>]
SubList == <<"s1">>

Play(verbs, exits, human, faults, left) ==
    [verbs |-> verbs, exits |-> exits, human |-> human, sets |-> {"queued", "deferred"},
     faults |-> faults, left |-> left]

(* Handoffs whose writes fail, starts that fail, growlightd dies. *)
FailingHandoffs ==
    Play({"roll", "new_scope", "complete_slice", "complete_entry", "block", "add_sub"},
         {"continues"}, {}, {"log", "write", "lost", "read", "claim_lost", "spawn", "restart"}, 3)
(* Rolls, urgent work and refused models; pauses fail, the link flaps. *)
FailingPauses ==
    Play({"roll"}, {"leaves", "refused"}, {}, {"pause", "pause_lost", "offline"}, 3)
(* Sessions that block and members that are stopped or held; parks and pauses
   fail. *)
FailingParks ==
    Play({"roll"}, {"leaves", "blocks"}, {"stop"}, {"pause", "pause_lost", "park", "hold"}, 2)
(* The human changes, drops and stops while members roll and defer. *)
HumanOnEntries == Play({"roll", "defer_entry"}, {}, {"entry", "drop", "stop"}, {}, 3)
(* Subs, and the human in the slice lists. *)
HumanOnSlices ==
    Play({"add_sub", "complete_slice", "defer_entry"}, {}, {"slice", "insert"}, {}, 4)
AllPlays == {FailingHandoffs, FailingPauses, FailingParks, HumanOnEntries, HumanOnSlices}
=============================================================================
