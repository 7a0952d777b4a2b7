---------------------------- MODULE SchedulerV2 ----------------------------
(***************************************************************************)
(* The queue-v2 scheduler, pure over a view of the list: the status of     *)
(* each entry, the slice trees, and the holder the drive loop laid over    *)
(* each entry. Models and backends come down to Runs, the entries a        *)
(* member's backend may take; a project is its repository.                 *)
(***************************************************************************)
EXTENDS QueueV2

CONSTANTS
    Agents,
    Runs,         \* member to the entries its backend can run
    PinV2         \* member to the repository it is pinned to, or None

(* A unit: the tree it is in, and a slice id, "closeout" or "entry". *)
WholeEntry(e) == [at |-> <<e>>, id |-> "entry"]
CloseOut(t) == [at |-> t, id |-> "closeout"]
NoUnit == [at |-> <<>>, id |-> "none"]
SliceId(u) == IF u.id \in {"closeout", "entry"} THEN None ELSE u.id

(* The items of a list that are not rolled past; the first of them decides. *)
Open(list) == {i \in DOMAIN list : list[i].status \notin Closed}
Decider(list) == list[Min(Open(list))]

(* What a tree alone yields: its close-out when nothing is open, a slice, and
   nothing when a sub decides or a blocked item does. *)
UnitIn(trees, t) ==
    IF Open(trees[t]) = {} THEN CloseOut(t)
    ELSE LET it == Decider(trees[t])
         IN  IF it.sub \/ it.status = "blocked" THEN NoUnit ELSE [at |-> t, id |-> it.id]

(* A tree the walk of a milestone comes to: in each tree above it, what
   decides is its sub, and that is not blocked. *)
Descends(trees, t, sub) ==
    /\ t \in DOMAIN trees /\ Open(trees[t]) # {}
    /\ LET it == Decider(trees[t]) IN it.sub /\ it.status # "blocked" /\ it.id = sub
Walked(trees, m) ==
    {t \in DOMAIN trees :
       Top(t) = m /\ \A n \in 1 .. Len(t) - 1 : Descends(trees, SubSeq(t, 1, n), t[n + 1])}

(* walk_tree: of the trees walked, only the last can yield a unit, and it
   does unless it is blocked or the sub that decides in it has no tree. *)
OnlyUnit(units) == IF units = {} THEN NoUnit ELSE CHOOSE u \in units : TRUE
walk_tree(trees, m) == OnlyUnit({UnitIn(trees, t) : t \in Walked(trees, m)} \ {NoUnit})

next_unit(view, e) ==
    IF e \in Milestones THEN walk_tree(view.items, e) ELSE WholeEntry(e)

eligible(view, a, e) ==
    /\ view.status[e] \in {"queued", "active", "paused"}
    /\ \A x \in After[e] : view.status[x] = "done"
    /\ e \notin Urgent =>
         \A o \in Entries \ (Urgent \cup {e}) :
            Repo[o] = Repo[e] => view.status[o] \notin {"active", "paused"}
    /\ view.status[e] = "active" => view.holder[e] \in {None, a}
    /\ e \in Runs[a]
    /\ next_unit(view, e) # NoUnit

(* The entry at the first, or at the last, of some places in the file order. *)
Earliest(places) == IF places = {} THEN None ELSE EntryOrder[Min(places)]
Latest(places) == IF places = {} THEN None ELSE EntryOrder[Max(places)]

(* The member's own entry: the last active one if it may take it, else the
   last paused one it may take. The places in `able` are those it may take. *)
Mine(view, a, st) ==
    {i \in DOMAIN EntryOrder :
       view.holder[EntryOrder[i]] = a /\ view.status[EntryOrder[i]] = st}
own_active(view, a, able) ==
    LET e == Latest(Mine(view, a, "active")) IN Earliest({i \in able : EntryOrder[i] = e})
own_paused(view, a, able) == Latest(Mine(view, a, "paused") \cap able)

scan_lane(able, lane, pin) ==
    Earliest({i \in able : EntryOrder[i] \in lane /\ pin \in {None, Repo[EntryOrder[i]]}})

(* pick_v2: the urgent lane, the member's own entry, the normal lane; then
   both lanes again without the pin. *)
FirstFound(tries) ==
    LET found == {i \in DOMAIN tries : tries[i] # None}
    IN  IF found = {} THEN None ELSE tries[Min(found)]
PickFrom(view, a, able) ==
    LET Normal == Entries \ Urgent
    IN  FirstFound(<<scan_lane(able, Urgent, PinV2[a]),
                     own_active(view, a, able), own_paused(view, a, able),
                     scan_lane(able, Normal, PinV2[a]),
                     scan_lane(able, Urgent, None), scan_lane(able, Normal, None)>>)
pick_v2(view, a) ==
    PickFrom(view, a, {i \in DOMAIN EntryOrder : eligible(view, a, EntryOrder[i])})
=============================================================================
