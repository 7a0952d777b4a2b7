---------------------------- MODULE MCFleetDrive ----------------------------
(* TLC instances of FleetDrive: two members, two queues. *)
EXTENDS FleetDrive, TLC

CONSTANTS a1, a2, p1, p2, p3, q1, q2

TwoMembers == <<a1, a2>>
TwoReversed == <<a2, a1>>
PinFirst == a1 :> q1 @@ a2 :> None
PinBoth == a1 :> q1 @@ a2 :> q1

(* One queue of two parts. *)
OneQueue == <<q1>>
Region2 == p1 :> q1 @@ p2 :> q1
Rows2 == q1 :> <<p1, p2>>

(* A second queue with one part. *)
TwoQueues == <<q1, q2>>
Region3 == p1 :> q1 @@ p2 :> q1 @@ p3 :> q2
Rows3 == q1 :> <<p1, p2>> @@ q2 :> <<p3>>

=============================================================================
