----------------------------- MODULE ItemStatus -----------------------------
(***************************************************************************)
(* keeperd's side of the legacy queue: the status of every backlog item    *)
(* (the garden's queue table) and the in-memory holder map (HolderStore).  *)
(* set_item_status runs under the daemon's lock, so a request is one step. *)
(* Its clients are growlightd, fleet members and the human.                *)
(***************************************************************************)
CONSTANTS
    Agents,      \* ids a claim can carry
    Parts,       \* backlog items
    Queues,      \* queue regions of the backlog document
    region_of,   \* the region an item resolves to (resolve_item_region)
    None         \* an absent Option

Statuses == {"queued", "active", "blocked", "deferred", "done"}
HandoffStatuses == {"done", "deferred", "blocked"}

ASSUME ItemStatusConstants ==
    /\ region_of \in [Parts -> Queues]
    /\ None \notin Agents
    /\ None \notin Statuses

VARIABLES
    status,   \* the queue table's status column
    holder    \* HolderStore.held

itemVars == <<status, holder>>

ItemInit ==
    /\ status \in [Parts -> Statuses \ {"active"}]
    /\ holder = [p \in Parts |-> None]

----------------------------------------------------------------------------
(* Mutant of gate: any claimant is granted. *)
gate_open(p, claimant) == IF claimant = None THEN "untracked" ELSE "grant"

(* HolderStore::gate. *)
gate(p, claimant) ==
    IF claimant = None THEN "untracked"
    ELSE IF holder[p] \notin {None, claimant} THEN "deny"
    ELSE "grant"

(* A member moves only the item it holds, and only to a handoff status. *)
MemberMay(p, new, member) ==
    member = None \/ (new \in HandoffStatuses /\ holder[p] = member)

(* The conditional form: if_status names the status the item must have. *)
Applies(p, if_status) == if_status = None \/ status[p] = if_status

(* Mutant of SingleActiveAllows: the other rows are not looked at. *)
SingleActiveAllows_always(p) == TRUE

(* No other item of the region is active. *)
SingleActiveAllows(p) ==
    \A o \in Parts \ {p} : region_of[o] = region_of[p] => status[o] # "active"

(* A write to active passes the holder's compare-and-set, and, unless it is
   the idempotent one, the single-active rule. *)
ClaimAllowed(p, new, claimant) ==
    new = "active" =>
        /\ gate(p, claimant) # "deny"
        /\ status[p] = "active" \/ SingleActiveAllows(p)

Accepted(p, new, claimant, member, if_status) ==
    /\ MemberMay(p, new, member)
    /\ Applies(p, if_status) => ClaimAllowed(p, new, claimant)

(* HolderOp: a granted claim is recorded, leaving `active` clears. *)
HolderAfter(p, new, claimant) ==
    IF new # "active" THEN None
    ELSE IF claimant = None THEN holder[p]
    ELSE claimant

(* set_item_status, accepted. An if_status mismatch and the idempotent re-set
   write no commit; the holder operation of the latter still applies. *)
set_item_status(p, new, claimant, member, if_status) ==
    /\ Accepted(p, new, claimant, member, if_status)
    /\ IF Applies(p, if_status)
         THEN /\ status' = [status EXCEPT ![p] = new]
              /\ holder' = [holder EXCEPT ![p] = HolderAfter(p, new, claimant)]
         ELSE UNCHANGED itemVars

(* A daemon cycle rebuilds the holder map empty; the table is on disk. *)
DaemonCycle ==
    /\ holder' = [p \in Parts |-> None]
    /\ UNCHANGED status

ItemNext ==
    \/ DaemonCycle
    \/ \E p \in Parts, new \in Statuses, claimant \in Agents \cup {None},
          member \in Agents \cup {None}, if_status \in Statuses \cup {None} :
            set_item_status(p, new, claimant, member, if_status)

(* keeperd for any client whatsoever. *)
ItemSpec == ItemInit /\ [][ItemNext]_itemVars

----------------------------------------------------------------------------
ItemTypeOK ==
    /\ status \in [Parts -> Statuses]
    /\ holder \in [Parts -> Agents \cup {None}]

(* A recorded holder always holds an active item, so that an item that comes
   back to the queue is anybody's first claim again (HolderStore::clear). *)
HolderMeansActive == \A p \in Parts : holder[p] # None => status[p] = "active"

(* At most one item per queue is active, whichever clients race for it. *)
SingleActive ==
    \A p, o \in Parts :
        (region_of[p] = region_of[o] /\ status[p] = "active" /\ status[o] = "active") => p = o

(* The holder's compare-and-set: a recorded holder is never replaced by
   another agent, only cleared first (the item left active, or a cycle). *)
HolderNotStolen ==
    [][\A p \in Parts : holder[p] # None => holder'[p] \in {holder[p], None}]_itemVars
=============================================================================
