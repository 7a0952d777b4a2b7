------------------------------ MODULE QueueV2 ------------------------------
(***************************************************************************)
(* keeperd's queue-v2 tables: the rows of queue.toml and of its archive,   *)
(* the slices.toml of every milestone and sub-milestone, and the operations*)
(* on them. Each verb runs under keeperd's one lock and lands in one       *)
(* commit, so each is one action; its guard is what the verb refuses.      *)
(* growlightd's operations and the human's verbs share the tables.         *)
(***************************************************************************)
EXTENDS Naturals, Sequences, FiniteSets, SequencesExt

CONSTANTS
    Entries,      \* entry ids
    EntryOrder,   \* the entries in file order, the urgent lane first
    Urgent,       \* the entries of the urgent lane
    Repo,         \* entry to its repository
    After,        \* entry to the entries its `after` links name
    Slices,       \* milestone to its slice ids, in file order
    NewSlices,    \* ids for slices inserted later (bounds the inserts)
    SubSlugs,     \* slugs for sub-milestones (bounds how many there are)
    SubSlices,    \* the slice ids a sub-milestone is filed with, in file order
    Unstarted,    \* the statuses entries may have at first
    MaxDepth,     \* how deep subs nest below an entry (2 in the code)
    None

Milestones == DOMAIN Slices

ASSUME QueueConstants ==
    /\ EntryOrder \in Seq(Entries) /\ IsInjective(EntryOrder)
    /\ \A e \in Entries : \E i \in DOMAIN EntryOrder : EntryOrder[i] = e
    /\ \A i, j \in DOMAIN EntryOrder :
          i < j /\ EntryOrder[j] \in Urgent => EntryOrder[i] \in Urgent
    /\ Urgent \subseteq Entries /\ Milestones \subseteq Entries
    /\ DOMAIN Repo = Entries /\ After \in [Entries -> SUBSET Entries]
    /\ Unstarted \subseteq {"queued", "blocked", "deferred"}
    /\ MaxDepth \in Nat /\ None \notin Entries
ASSUME SlicesDistinct ==
    \A l \in Range(Slices) \cup {SubSlices} : l \in Seq(Range(l)) /\ IsInjective(l)

VARIABLES
    rows,         \* entry to its row: status, pending_status, follow_ups
    items         \* identity of a slice tree to its items, in file order

queueVars == <<rows, items>>

(* A row in the archive is "done" or "dropped". *)
Archived == {"done", "dropped"}
EntryStatus == {"queued", "active", "paused", "blocked", "deferred"} \cup Archived
SliceStatus == {"queued", "active", "done", "split", "blocked", "deferred"}
Closed == {"done", "split", "deferred"}

Live(e) == rows[e].status \notin Archived

(* An identity is <<entry>> or <<entry, sub, ...>>. *)
Top(t) == t[1]
Parent(t) == Front(t)

SliceItem(id) == [id |-> id, sub |-> FALSE, status |-> "queued", ups |-> 0]
SubItem(id) == [id |-> id, sub |-> TRUE, status |-> "queued", ups |-> 0]
NewList(ids) == [i \in DOMAIN ids |-> SliceItem(ids[i])]

(* The position of an item, 0 when the list has none of that id. *)
Pos(t, id) ==
    IF t \in DOMAIN items /\ \E i \in DOMAIN items[t] : items[t][i].id = id
    THEN CHOOSE i \in DOMAIN items[t] : items[t][i].id = id
    ELSE 0
Item(t, id) == items[t][Pos(t, id)]
SetItem(t, id, it) == [items EXCEPT ![t][Pos(t, id)] = it]

QueueInit ==
    /\ rows \in [Entries -> {[status |-> s, pending |-> None, ups |-> 0] :
                               s \in Unstarted}]
    /\ items = [t \in {<<m>> : m \in Milestones} |-> NewList(Slices[Top(t)])]

QueueTypeOK ==
    /\ rows \in [Entries -> [status : EntryStatus, ups : Nat,
                             pending : {None, "queued", "blocked", "deferred"}]]
    /\ \A t \in DOMAIN items :
          /\ Top(t) \in Milestones /\ Len(t) <= MaxDepth + 1
          /\ \A i \in DOMAIN items[t] : items[t][i].status \in SliceStatus

(* QueueToml::validate on a list in which only e's status changed. *)
Started(e) == rows[e].status \in {"active", "paused"}
RepoFree(e) ==
    e \in Urgent \/ \A o \in Entries \ (Urgent \cup {e}) : Repo[o] = Repo[e] => ~Started(o)

----------------------------------------------------------------------------
(* growlightd's operations. *)

(* Mutant of ClaimOk: without the backstop and the double assignment check. *)
ClaimOk_unchecked(t, id) ==
    /\ rows[Top(t)].status \in {"queued", "paused", "active"}
    /\ id # None => Pos(t, id) # 0 /\ Item(t, id).status \in {"queued", "active"}

(* queue_v2_claim; id is None for a task, a restack and a close-out. *)
ClaimOk(t, id) ==
    /\ rows[Top(t)].status \in {"queued", "paused", "active"}
    /\ id # None =>
         /\ Pos(t, id) # 0
         /\ Item(t, id).status \in {"queued", "active"}
         /\ \A i \in DOMAIN items[t] : i # Pos(t, id) => items[t][i].status # "active"
    /\ RepoFree(Top(t))
queue_v2_claim(t, id) ==
    /\ ClaimOk(t, id)
    /\ rows' = [rows EXCEPT ![Top(t)].status = "active"]
    /\ items' = IF id = None THEN items
                ELSE SetItem(t, id, [Item(t, id) EXCEPT !.status = "active"])

(* queue_v2_set_status on an entry: done archives the row, a pending human
   change wins over every other status but blocked. *)
SetEntryOk(e) == rows[e].status = "active"
EntryLands(e, new) ==
    IF new \in {"done", "blocked"} \/ rows[e].pending = None THEN new ELSE rows[e].pending
SetEntry(e, new) ==
    /\ SetEntryOk(e)
    /\ rows' = [rows EXCEPT ![e].status = EntryLands(e, new), ![e].pending = None]
    /\ UNCHANGED items

(* check_sub_close: an open sub over a tree with nothing open. *)
check_sub_close(t, sub, new) ==
    /\ new \in {"done", "deferred"}
    /\ Item(t, sub).status \in {"queued", "active"}
    /\ Append(t, sub) \in DOMAIN items
    /\ \A i \in DOMAIN items[Append(t, sub)] : items[Append(t, sub)][i].status \in Closed

(* queue_v2_set_status on an item. *)
SetUnitOk(t, id, new) ==
    /\ Pos(t, id) # 0
    /\ IF Item(t, id).sub THEN check_sub_close(t, id, new) ELSE Item(t, id).status = "active"
SetUnit(t, id, new) ==
    /\ SetUnitOk(t, id, new)
    /\ items' = SetItem(t, id, [Item(t, id) EXCEPT !.status = new,
                                  !.ups = IF new = "done" THEN 0 ELSE @])
    /\ UNCHANGED rows

(* queue_v2_follow_ups: a slice's counter, or the entry's own. *)
FollowUpsOk(t, id) ==
    IF id = None THEN Live(Top(t)) ELSE Pos(t, id) # 0 /\ ~Item(t, id).sub
queue_v2_follow_ups(t, id, count) ==
    /\ FollowUpsOk(t, id)
    /\ IF id = None
         THEN rows' = [rows EXCEPT ![Top(t)].ups = count] /\ UNCHANGED items
         ELSE /\ items' = SetItem(t, id, [Item(t, id) EXCEPT !.ups = count])
              /\ UNCHANGED rows

(* queue_v2_add_sub: an active slice gives its work to a sub-milestone, born
   with a list of its own, right after it or at the end. *)
AddSubOk(t, slice, slug) ==
    /\ Len(t) <= MaxDepth
    /\ Append(t, slug) \notin DOMAIN items
    /\ Pos(t, slice) # 0 /\ Pos(t, slug) = 0
    /\ ~Item(t, slice).sub /\ Item(t, slice).status = "active"
queue_v2_add_sub(t, slice, slug, at_end) ==
    /\ AddSubOk(t, slice, slug)
    /\ LET split == SetItem(t, slice, [Item(t, slice) EXCEPT !.status = "split"])[t]
           at    == IF at_end THEN Len(split) + 1 ELSE Pos(t, slice) + 1
           grown == [items EXCEPT ![t] = InsertAt(split, at, SubItem(slug))]
       IN  items' = [x \in DOMAIN items \cup {Append(t, slug)} |->
                       IF x = Append(t, slug) THEN NewList(SubSlices) ELSE grown[x]]
    /\ UNCHANGED rows

(* slice_insert: a fresh number, anywhere in the list. *)
Unused(t) == {id \in NewSlices : Pos(t, id) = 0}
InsertOk(t) == t \in DOMAIN items /\ Unused(t) # {}
slice_insert(t, at) ==
    /\ InsertOk(t)
    /\ at \in 1 .. Len(items[t]) + 1
    /\ items' = [items EXCEPT ![t] = InsertAt(@, at, SliceItem(CHOOSE id \in Unused(t) : TRUE))]
    /\ UNCHANGED rows

----------------------------------------------------------------------------
(* The human's verbs. *)

(* Mutant of queue_update_entry: a change of a running entry lands at once. *)
queue_update_entry_now(e, new) ==
    /\ Live(e)
    /\ new = "done" => rows[e].status # "active"
    /\ rows' = [rows EXCEPT ![e].status = new]
    /\ UNCHANGED items

(* queue_update_entry, the status part: done is refused while the entry runs,
   another change of a running entry waits for its next handshake. *)
queue_update_entry(e, new) ==
    /\ Live(e)
    /\ new = "done" => rows[e].status # "active"
    /\ rows' = IF rows[e].status = "active" THEN [rows EXCEPT ![e].pending = new]
               ELSE [rows EXCEPT ![e].status = new]
    /\ UNCHANGED items

(* queue_drop: no live entry links to it, and it is not running. *)
queue_drop(e) ==
    /\ Live(e) /\ rows[e].status # "active"
    /\ \A o \in Entries : Live(o) => e \notin After[o]
    /\ rows' = [rows EXCEPT ![e].status = "dropped"]
    /\ UNCHANGED items

(* slice_update: a status, whatever the item's own was. *)
UpdateSlice(t, id, new) ==
    /\ Pos(t, id) # 0
    /\ items' = SetItem(t, id, [Item(t, id) EXCEPT !.status = new,
                                  !.ups = IF new = "done" THEN 0 ELSE @])
    /\ UNCHANGED rows

(* slice_update: a move, refused for an item that has started. *)
MoveSlice(t, id, at) ==
    /\ Pos(t, id) # 0
    /\ Item(t, id).status \notin {"active", "done", "split"}
    /\ LET rest == RemoveAt(items[t], Pos(t, id))
       IN  /\ at \in 1 .. Len(rest) + 1
           /\ items' = [items EXCEPT ![t] = InsertAt(rest, at, Item(t, id))]
    /\ UNCHANGED rows
=============================================================================
