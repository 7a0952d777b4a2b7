----------------------------- MODULE Scheduler ------------------------------
(***************************************************************************)
(* growlightd's queue scheduler: what one snapshot of the queues offers an *)
(* agent. A view gives each part its status in the snapshot, "held" for a  *)
(* queued part with a claim hold, "absent" when the read failed.           *)
(***************************************************************************)
EXTENDS Naturals, Sequences, FiniteSetsExt

CONSTANTS
    Rows,         \* queue to its rows, in table order
    QueueOrder,   \* the queues, in snapshot order
    NoPart        \* Option::None for a part or a pin

(* Mutant of Deciding: a blocked row is rolled past. *)
Deciding_past_blocked(view, queue) ==
    {i \in DOMAIN Rows[queue] : view[Rows[queue][i]] \in {"active", "queued"}}

(* The rows that decide a queue's state; the others are rolled past. *)
Deciding(view, queue) ==
    {i \in DOMAIN Rows[queue] : view[Rows[queue][i]] \in {"active", "queued", "blocked"}}

(* classify_queue: the head row and its status. *)
head_part(view, queue) ==
    IF Deciding(view, queue) = {} THEN NoPart
    ELSE Rows[queue][Min(Deciding(view, queue))]

classify_queue(view, queue) ==
    IF head_part(view, queue) = NoPart THEN "empty" ELSE view[head_part(view, queue)]

(* pick_for: the pinned queue's active or queued head, else the first other
   queue, in snapshot order, with a queued head nobody has reserved. *)
pick_for(view, pin, reserved) ==
    IF pin # NoPart /\ classify_queue(view, pin) \in {"active", "queued"}
      THEN head_part(view, pin)
      ELSE LET ready == {i \in DOMAIN QueueOrder :
                           /\ QueueOrder[i] \notin reserved \cup {pin}
                           /\ classify_queue(view, QueueOrder[i]) = "queued"}
           IN  IF ready = {} THEN NoPart ELSE head_part(view, QueueOrder[Min(ready)])
=============================================================================
