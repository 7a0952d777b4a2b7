----------------------------- MODULE MCReplica -----------------------------
(* TLC instance of Replica: two commits that share a subtree. *)
EXTENDS Replica, TLC

CONSTANTS r1, r2, d, x, y, s1, s2

RootDef == 1 :> r1 @@ 2 :> r2
ChildrenDef == r1 :> {d} @@ r2 :> {d, y} @@ d :> {x}

=============================================================================
