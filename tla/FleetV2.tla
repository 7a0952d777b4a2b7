------------------------------ MODULE FleetV2 ------------------------------
(***************************************************************************)
(* growlightd on queue v2: the drive loop's tick, the member verbs served  *)
(* while it runs, and the human, over keeperd's tables (QueueV2). A verb   *)
(* is a plan of several keeperd writes; every round-trip to keeperd, of a  *)
(* verb or of the tick, is a step of its own, may fail, and may land with  *)
(* its answer lost. growlightd may die at any point. What only the         *)
(* supervisor sees (streaks, backoff, the cap) is in module Supervisor: a  *)
(* session that is over is one of four exits, a member that is down or may *)
(* not start can be held for a while.                                      *)
(***************************************************************************)
EXTENDS SchedulerV2

CONSTANTS
    Fleet,          \* the roster, in its order
    FollowUpCap,    \* FOLLOW_UP_CAP (5 in the code)
    Plays           \* what may happen around the loop, see PlayType

VerbKinds == {"roll", "new_scope", "complete_slice", "complete_entry", "defer_entry",
              "block", "add_sub"}
ExitKinds == {"continues", "leaves", "blocks", "refused"}   \* classify's answers
HumanKinds == {"entry", "drop", "slice", "insert", "stop"}
FaultKinds == {"log", "write", "lost", "pause", "pause_lost", "park", "read", "claim_lost",
               "spawn", "restart", "offline", "hold"}

(* A play bounds a behaviour: the verbs, exits, human verbs and failing
   round-trips it may use, the statuses the human sets, and how many verbs,
   human verbs and failures are left. *)
PlayType == [verbs : SUBSET VerbKinds, exits : SUBSET ExitKinds, human : SUBSET HumanKinds,
             sets : SUBSET {"queued", "blocked", "deferred", "done"},
             faults : SUBSET FaultKinds, left : Nat]

ASSUME FleetV2Constants ==
    /\ Fleet \in Seq(Agents) /\ None \notin Agents
    /\ Runs \in [Agents -> SUBSET Entries] /\ DOMAIN PinV2 = Agents
    /\ FollowUpCap \in Nat /\ \A play \in Plays : play \in PlayType
ASSUME RosterDistinct == IsInjective(Fleet)

VARIABLES
    session,      \* each member's session, see SessionStates
    asg,          \* DriveLoop.v2_assignments: [entry, unit], or NoAsg
    rolled,       \* v2_rolled: the entry the member handed off and still holds
    toPause,      \* v2_to_pause: entry to the member whose pause has not landed
    pausedBy,     \* v2_paused_by: entry to the member that paused it
    stop,         \* boundary stop: "no", "pending", "retiring", "stopped"
    mirror,       \* V2Mirror.assignments, published by the last tick
    handoff,      \* V2Mirror.handoffs, with what its thread has still to do
    tick,         \* where the drive loop is in its tick, and its locals
    play          \* this behaviour's play

loopVars == <<session, asg, rolled, toPause, pausedBy, stop>>
vars == <<queueVars, loopVars, mirror, handoff, tick, play>>

(* "out": not in the supervisor; "live": not seen to be over; "down": waiting
   for its re-roll; "parked": its model was refused. A member that is
   registered without an assignment is one whose model was refused, latched
   for reconcile_model_refused; it may have been re-rolled since. *)
SessionStates == {"out", "live", "down", "parked"}
Registered(a) == session[a] # "out"
Holds(a, e) == asg[a].entry = e

NoAsg == [entry |-> None, unit |-> NoUnit]
NoHandoff == [state |-> "none", ops |-> <<>>, asg |-> NoAsg, continues |-> FALSE,
              warned |-> FALSE]
NewTick == [pc |-> "poll", todo |-> Fleet, view |-> None, open |-> FALSE, pauses |-> {},
            spoken |-> {}, fresh |-> {}]

Init ==
    /\ QueueInit
    /\ session = [a \in Agents |-> "out"]
    /\ asg = [a \in Agents |-> NoAsg]
    /\ rolled = [a \in Agents |-> None]
    /\ toPause = [e \in Entries |-> None]
    /\ pausedBy = [e \in Entries |-> None]
    /\ stop = [a \in Agents |-> "no"]
    /\ mirror = [a \in Agents |-> NoAsg]
    /\ handoff = [a \in Agents |-> NoHandoff]
    /\ tick = NewTick
    /\ play \in Plays

(* One more event; a round-trip of this kind fails; the human's verb. *)
Event == play.left > 0 /\ play' = [play EXCEPT !.left = @ - 1]
Fails(kind) == kind \in play.faults /\ Event
Edits(kind) == kind \in play.human /\ Event

----------------------------------------------------------------------------
(* The environment: the human, a death of growlightd. *)

HumanSetsEntry(e) ==
    /\ Edits("entry")
    /\ \E new \in play.sets : queue_update_entry(e, new)
    /\ UNCHANGED <<loopVars, mirror, handoff, tick>>
HumanDrops(e) ==
    /\ Edits("drop")
    /\ queue_drop(e)
    /\ UNCHANGED <<loopVars, mirror, handoff, tick>>

(* The human's slice verbs; a member's go through growlightd's checks to the
   same two verbs and can do less. *)
EditsSlices(t) ==
    \/ /\ Edits("slice")
       /\ \E i \in DOMAIN items[t] : \E new \in play.sets :
             UpdateSlice(t, items[t][i].id, new)
    \/ /\ Edits("slice")
       /\ \E i, at \in DOMAIN items[t] : MoveSlice(t, items[t][i].id, at)
    \/ /\ Edits("insert")
       /\ \E at \in 1 .. Len(items[t]) + 1 : slice_insert(t, at)
HumanEditsSlices(t) ==
    EditsSlices(t) /\ UNCHANGED <<loopVars, mirror, handoff, tick>>

RequestStop(a) ==
    /\ Edits("stop")
    /\ stop[a] = "no"
    /\ stop' = [stop EXCEPT ![a] = "pending"]
    /\ UNCHANGED <<queueVars, session, asg, rolled, toPause, pausedBy, mirror, handoff, tick>>

(* growlightd dies and boots: the reaper kills the strays, every map of the
   loop and of the mirror is empty, a verb stops between two writes. *)
Restart ==
    /\ Fails("restart")
    /\ session' = [a \in Agents |-> "out"]
    /\ asg' = [a \in Agents |-> NoAsg] /\ mirror' = asg' /\ rolled' = [a \in Agents |-> None]
    /\ toPause' = [e \in Entries |-> None] /\ pausedBy' = toPause'
    /\ stop' = [a \in Agents |-> "no"]
    /\ handoff' = [a \in Agents |-> NoHandoff]
    /\ tick' = NewTick
    /\ UNCHANGED queueVars

----------------------------------------------------------------------------
(* The member verbs: validate, then plan. *)

Count(u) == IF SliceId(u) = None THEN rows[Top(u.at)].ups ELSE Item(u.at, u.id).ups

SetEntryOp(e, new) == [op |-> "entry", at |-> <<e>>, id |-> None, arg |-> new]
SetUnitOp(t, id, new) == [op |-> "unit", at |-> t, id |-> id, arg |-> new]
UpsOp(u, n) == [op |-> "ups", at |-> u.at, id |-> SliceId(u), arg |-> n]
InsertOp(u) == [op |-> "insert", at |-> u.at, id |-> u.id, arg |-> None]
SubOp(u, slug, end) == [op |-> "sub", at |-> u.at, id |-> u.id, arg |-> <<slug, end>>]

(* assignment_match against the list as it is now. *)
assignment_match(m) ==
    /\ rows[m.entry].status = "active"
    /\ SliceId(m.unit) # None =>
         /\ Pos(m.unit.at, m.unit.id) # 0 /\ ~Item(m.unit.at, m.unit.id).sub
         /\ Item(m.unit.at, m.unit.id).status = "active"

(* check_reason, check_cap, check_sub_placement. *)
OpenItems(t) == Open(items[t])
Allowed(u, verb) ==
    /\ verb \in {"new_scope", "complete_slice", "add_sub"} => SliceId(u) # None
    /\ verb \in {"complete_entry", "defer_entry"} =>
         SliceId(u) = None /\ (u.id = "closeout" => OpenItems(u.at) = {})
    /\ verb \in {"roll", "new_scope"} => Count(u) < FollowUpCap
    /\ verb = "add_sub" => Len(u.at) <= MaxDepth

(* Mutant of NewScope: the insert goes first. *)
NewScope_insert_first(u) ==
    <<InsertOp(u), SetUnitOp(u.at, u.id, "queued"), UpsOp(u, Count(u) + 1)>>
(* A new slice in front of this one, which goes back to the queue first. *)
NewScope(u) ==
    <<SetUnitOp(u.at, u.id, "queued"), InsertOp(u), UpsOp(u, Count(u) + 1)>>

(* The counter a completion resets, if it is not 0 already. *)
ResetUps(u) == IF rows[Top(u.at)].ups > 0 THEN <<UpsOp(CloseOut(u.at), 0)>> ELSE <<>>
SubClose(u) == u.id = "closeout" /\ Len(u.at) > 1

(* plan: the writes after the log, without a pending change. A write of the
   entry's own status names the entry of the assignment m. *)
Writes(m, verb, slug, end) ==
    LET u == m.unit
        outcome == IF verb = "defer_entry" THEN "deferred" ELSE "done"
    IN
    CASE verb = "roll" -> <<UpsOp(u, Count(u) + 1)>>
      [] verb = "new_scope" -> NewScope(u)
      [] verb = "complete_slice" -> <<SetUnitOp(u.at, u.id, "done")>>
      [] verb = "add_sub" -> <<SubOp(u, slug, end)>>
      [] verb = "block" -> <<SetEntryOp(m.entry, "blocked")>>
      [] verb \in {"complete_entry", "defer_entry"} /\ SubClose(u) ->
           ResetUps(u) \o <<SetUnitOp(Parent(u.at), Last(u.at), outcome)>>
      [] verb = "complete_entry" /\ ~SubClose(u) -> <<SetEntryOp(m.entry, outcome)>>
      [] verb = "defer_entry" /\ ~SubClose(u) ->
           ResetUps(u) \o <<SetEntryOp(m.entry, outcome)>>

Continues(u, verb) ==
    \/ verb \in {"roll", "new_scope", "complete_slice", "add_sub"}
    \/ verb \in {"complete_entry", "defer_entry"} /\ SubClose(u)

(* apply_pending: a pending change of an entry that stays active goes last. *)
apply_pending(e) == IF rows[e].pending = None THEN <<>> ELSE <<SetEntryOp(e, rows[e].pending)>>

(* member_verb up to begin_v2_handoff. A session started in this very tick
   calls no verb before the tick has published its assignment. *)
VerbBegins(a) ==
    /\ Event
    /\ session[a] = "live" /\ a \notin tick.fresh
    /\ mirror[a] # NoAsg /\ handoff[a].state = "none"
    /\ assignment_match(mirror[a])
    /\ \E verb \in play.verbs, slug \in SubSlugs, end \in BOOLEAN :
         LET u == mirror[a].unit IN
         /\ Allowed(u, verb)
         /\ IF verb = "add_sub" THEN Pos(u.at, slug) = 0
            ELSE end /\ slug = CHOOSE s \in SubSlugs : TRUE
         /\ handoff' = [handoff EXCEPT ![a] =
              [state |-> "logs", asg |-> mirror[a], warned |-> FALSE,
               continues |-> Continues(u, verb),
               ops |-> Writes(mirror[a], verb, slug, end)
                        \o (IF Continues(u, verb) THEN apply_pending(mirror[a].entry) ELSE <<>>)]]
    /\ mirror' = [mirror EXCEPT ![a] = NoAsg]
    /\ UNCHANGED <<queueVars, loopVars, tick>>

(* The session log is the commit point. If it fails, the session keeps its
   assignment and runs on. *)
VerbLogs(a) ==
    /\ handoff[a].state = "logs"
    /\ handoff' = [handoff EXCEPT ![a].state = "writes"]
    /\ UNCHANGED <<queueVars, loopVars, mirror, tick, play>>
VerbAborts(a) ==
    /\ handoff[a].state = "logs"
    /\ Fails("log")
    /\ mirror' = [mirror EXCEPT ![a] = handoff[a].asg]
    /\ handoff' = [handoff EXCEPT ![a] = NoHandoff]
    /\ UNCHANGED <<queueVars, loopVars, tick>>

(* One write of the plan at keeperd. *)
OpOk(o) ==
    CASE o.op = "entry" -> SetEntryOk(Top(o.at))
      [] o.op = "unit" -> SetUnitOk(o.at, o.id, o.arg)
      [] o.op = "ups" -> FollowUpsOk(o.at, o.id)
      [] o.op = "insert" -> InsertOk(o.at) /\ Pos(o.at, o.id) # 0
      [] o.op = "sub" -> AddSubOk(o.at, o.id, o.arg[1])
Lands(o) ==
    /\ OpOk(o)
    /\ \/ o.op = "entry" /\ SetEntry(Top(o.at), o.arg)
       \/ o.op = "unit" /\ SetUnit(o.at, o.id, o.arg)
       \/ o.op = "ups" /\ queue_v2_follow_ups(o.at, o.id, o.arg)
       \/ o.op = "insert" /\ slice_insert(o.at, Pos(o.at, o.id))
       \/ o.op = "sub" /\ queue_v2_add_sub(o.at, o.id, o.arg[1], o.arg[2])

(* execute's loop: a failure after the log is only a warning in the verb's
   answer; an entry status that landed takes the entry out of active work. *)
VerbWrites(a) ==
    /\ handoff[a].state = "writes" /\ handoff[a].ops # <<>>
    /\ LET o == Head(handoff[a].ops)
           landed == [handoff[a] EXCEPT !.ops = Tail(@), !.continues = @ /\ o.op # "entry"]
           warns  == [handoff[a] EXCEPT !.ops = Tail(@), !.warned = TRUE]
       IN  \/ /\ Lands(o) /\ UNCHANGED play
              /\ handoff' = [handoff EXCEPT ![a] = landed]
           \/ /\ \/ ~OpOk(o) /\ UNCHANGED <<queueVars, play>>
                 \/ Fails("write") /\ UNCHANGED queueVars
                 \/ Fails("lost") /\ Lands(o)
              /\ handoff' = [handoff EXCEPT ![a] = warns]
    /\ UNCHANGED <<loopVars, mirror, tick>>

(* The baton is stored and the handoff is the drive loop's. *)
VerbCommits(a) ==
    /\ handoff[a].state = "writes" /\ handoff[a].ops = <<>>
    /\ handoff' = [handoff EXCEPT ![a].state = "committed"]
    /\ UNCHANGED <<queueVars, loopVars, mirror, tick, play>>
----------------------------------------------------------------------------
(* The drive loop, step 1: control and health, member by member. *)

(* The loop is at member a; a pending stop is taken first. *)
At(pc, a) == tick.pc = pc /\ tick.todo # <<>> /\ Head(tick.todo) = a
Stopping(a) == stop[a] \in {"pending", "retiring"}
NextMember == tick' = [tick EXCEPT !.todo = Tail(@)]
StopAfter(a, retired) ==
    stop' = [stop EXCEPT ![a] = IF ~Stopping(a) THEN @
                                ELSE IF retired THEN "stopped" ELSE "retiring"]

(* pause_v2_entry: one write; a failure is kept to be retried. *)
pause_v2_entry(e, a) ==
    \/ /\ SetEntry(e, "paused")
       /\ toPause' = [toPause EXCEPT ![e] = None]
       /\ pausedBy' = [pausedBy EXCEPT ![e] = a]
       /\ UNCHANGED play
    \/ /\ \/ ~SetEntryOk(e) /\ UNCHANGED <<queueVars, play>>
          \/ Fails("pause") /\ UNCHANGED queueVars
          \/ Fails("pause_lost") /\ SetEntry(e, "paused")
       /\ toPause' = [toPause EXCEPT ![e] = a]
       /\ UNCHANGED pausedBy

(* Nothing to classify: alive (in the grace of its handoff, too), idle, or
   down already. *)
PollQuiet(a) ==
    /\ At("poll", a)
    /\ \/ session[a] = "live"
       \/ session[a] = "out"
       \/ session[a] \in {"down", "parked"} /\ ~Stopping(a)
    /\ NextMember /\ StopAfter(a, FALSE)
    /\ UNCHANGED <<queueVars, session, asg, rolled, toPause, pausedBy, mirror, handoff, play>>

(* The poll finds the session over. A session that waits for the answer of
   its verb is not. *)
Over(a, exit) ==
    At("poll", a) /\ session[a] = "live" /\ handoff[a].state = "none" /\ exit \in play.exits

(* The session is over, or its grace is: the member is released, and holds
   an entry that goes on until its next pick; a stop pauses it instead. *)
end_handed_off_session(a) ==
    /\ At("poll", a) /\ handoff[a].state = "committed"
    /\ handoff' = [handoff EXCEPT ![a] = NoHandoff]
    /\ session' = [session EXCEPT ![a] = "out"]
    /\ asg' = [asg EXCEPT ![a] = NoAsg]
    /\ LET e == handoff[a].asg.entry IN
       IF handoff[a].continues /\ Stopping(a)
       THEN pause_v2_entry(e, a) /\ UNCHANGED rolled
       ELSE /\ rolled' = IF handoff[a].continues THEN [rolled EXCEPT ![a] = e] ELSE rolled
            /\ UNCHANGED <<queueVars, toPause, pausedBy, play>>
    /\ NextMember /\ StopAfter(a, TRUE)
    /\ UNCHANGED mirror

(* A crash, a continue status, a network or rate-limit death: the member
   stays registered with its assignment, unless it is stopping. *)
PollDown(a) ==
    /\ \/ Over(a, "continues")
       \/ At("poll", a) /\ session[a] \in {"down", "parked"} /\ Stopping(a)
    /\ session' = [session EXCEPT ![a] = IF Stopping(a) THEN "out" ELSE "down"]
    /\ asg' = IF Stopping(a) THEN [asg EXCEPT ![a] = NoAsg] ELSE asg
    /\ NextMember /\ StopAfter(a, TRUE)
    /\ UNCHANGED <<queueVars, rolled, toPause, pausedBy, mirror, handoff, play>>

(* QUEUE_EMPTY, ITEM_COMPLETE, ITEM_DEFERRED: released with no write. *)
PollLeaves(a) ==
    /\ Over(a, "leaves")
    /\ session' = [session EXCEPT ![a] = "out"]
    /\ asg' = [asg EXCEPT ![a] = NoAsg]
    /\ NextMember /\ StopAfter(a, TRUE)
    /\ UNCHANGED <<queueVars, rolled, toPause, pausedBy, mirror, handoff, play>>

(* The latched exit of a refused model is polled again, with the device
   offline: it is taken for a lost connection (Reconnecting), and the member
   waits for its re-roll like any that is down. It has no assignment. *)
PollParked(a) ==
    /\ At("poll", a) /\ session[a] = "parked" /\ ~Stopping(a)
    /\ "offline" \in play.faults
    /\ session' = [session EXCEPT ![a] = "down"]
    /\ NextMember
    /\ UNCHANGED <<queueVars, asg, rolled, toPause, pausedBy, stop, mirror, handoff, play>>

(* park_entry_v2, fail-soft. *)
park_entry_v2(e) ==
    \/ SetEntry(e, "blocked") /\ UNCHANGED play
    \/ ~SetEntryOk(e) /\ UNCHANGED <<queueVars, play>>
    \/ Fails("park") /\ UNCHANGED queueVars

(* A human block: released, its entry, if it has one, parked. *)
PollBlocks(a) ==
    /\ Over(a, "blocks")
    /\ IF asg[a] = NoAsg THEN UNCHANGED <<queueVars, play>> ELSE park_entry_v2(asg[a].entry)
    /\ session' = [session EXCEPT ![a] = "out"]
    /\ asg' = [asg EXCEPT ![a] = NoAsg]
    /\ NextMember /\ StopAfter(a, TRUE)
    /\ UNCHANGED <<rolled, toPause, pausedBy, mirror, handoff>>

(* A refused model: its entry, if it has one, is paused and the member stays
   registered. *)
PollRefused(a) ==
    /\ Over(a, "refused")
    /\ IF asg[a] = NoAsg THEN UNCHANGED <<queueVars, toPause, pausedBy, play>>
       ELSE pause_v2_entry(asg[a].entry, a)
    /\ session' = [session EXCEPT ![a] = IF Stopping(a) THEN "out" ELSE "parked"]
    /\ asg' = [asg EXCEPT ![a] = NoAsg]
    /\ NextMember /\ StopAfter(a, TRUE)
    /\ UNCHANGED <<rolled, mirror, handoff>>

----------------------------------------------------------------------------
(* Steps 2 and 3: the list is read once, then pauses, re-rolls and starts. *)

Table == [status |-> [e \in Entries |-> rows[e].status], items |-> items]

(* Members whose model was edited are freed, a running one of them too (its
   child is killed). *)
reconcile_model_refused ==
    \E edited \in SUBSET {a \in Agents : Registered(a) /\ asg[a] = NoAsg} :
       session' = [a \in Agents |-> IF a \in edited THEN "out" ELSE session[a]]

(* Then the v2 list is read; `open` is whether the gates (paused, offline,
   superseded) let the loop spawn this tick. *)
LoadsList(open) ==
    /\ tick.pc = "poll" /\ tick.todo = <<>>
    /\ reconcile_model_refused
    /\ tick' = [tick EXCEPT !.pc = "pauses", !.view = Table, !.open = open,
                            !.pauses = {e \in Entries : toPause[e] # None}]
    /\ UNCHANGED <<queueVars, asg, rolled, toPause, pausedBy, stop, mirror, handoff, play>>
LoadFails ==
    /\ tick.pc = "poll" /\ tick.todo = <<>>
    /\ Fails("read")
    /\ reconcile_model_refused
    /\ tick' = [tick EXCEPT !.pc = "publish"]
    /\ UNCHANGED <<queueVars, asg, rolled, toPause, pausedBy, stop, mirror, handoff>>

(* retry_v2_pauses. *)
RetriesPause(e) ==
    /\ tick.pc = "pauses" /\ e \in tick.pauses
    /\ pause_v2_entry(e, toPause[e])
    /\ tick' = [tick EXCEPT !.pauses = @ \ {e}]
    /\ UNCHANGED <<session, asg, rolled, stop, mirror, handoff>>

(* Mutant of Holder: a member that is down, or has handed off, holds nothing. *)
Holder_live(view, by, e) ==
    IF \E a \in Agents : Holds(a, e) /\ session[a] = "live"
    THEN CHOOSE a \in Agents : Holds(a, e) /\ session[a] = "live"
    ELSE None

(* v2_overlay: the later kind of hold wins. *)
Holder(view, by, e) ==
    IF view.status[e] = "paused" /\ by[e] # None THEN by[e]
    ELSE IF view.status[e] = "active" /\ toPause[e] # None THEN toPause[e]
    ELSE IF view.status[e] = "active" /\ \E a \in Agents : rolled[a] = e
      THEN CHOOSE a \in Agents : rolled[a] = e
    ELSE IF \E a \in Agents : Registered(a) /\ Holds(a, e)
      THEN CHOOSE a \in Agents : Registered(a) /\ Holds(a, e)
    ELSE None

(* The pausers of entries no longer paused are forgotten. *)
Pausers == [e \in Entries |-> IF tick.view.status[e] = "paused" THEN pausedBy[e] ELSE None]
apply_v2_overlay(by) ==
    [status |-> tick.view.status, items |-> tick.view.items,
     holder |-> [e \in Entries |-> Holder(tick.view, by, e)]]

Workable(view, a) ==
    \/ asg[a] # NoAsg /\ view.status[asg[a].entry] = "active"
    \/ pick_v2(view, a) # None

(* The overlay, then Supervisor::tick: any of the down members that are
   workable (a rate-limit hold of its own may keep a member down, too). *)
Rerolls(members) ==
    /\ tick.pc = "pauses" /\ tick.pauses = {} /\ tick.open
    /\ LET view == apply_v2_overlay(Pausers)
       IN  /\ \A a \in members : session[a] = "down" /\ Workable(view, a)
           /\ tick' = [tick EXCEPT !.pc = "start", !.todo = Fleet, !.view = view]
    /\ session' = [a \in Agents |-> IF a \in members THEN "live" ELSE session[a]]
    /\ pausedBy' = Pausers
    /\ UNCHANGED <<queueVars, asg, rolled, toPause, stop, mirror, handoff, play>>

(* Paused, offline or superseded: no re-roll and no start this tick. *)
GateShut ==
    /\ tick.pc = "pauses" /\ tick.pauses = {} /\ ~tick.open
    /\ pausedBy' = Pausers
    /\ tick' = [tick EXCEPT !.pc = "publish"]
    /\ UNCHANGED <<queueVars, session, asg, rolled, toPause, stop, mirror, handoff, play>>

(* Mutant of SpokenFor: this tick's failed spawns and starts are not counted. *)
SpokenFor_stale(e) == tick.view.status[e] = "active" /\ \E a \in Agents : Holds(a, e)
SpokenFor(e) == e \in tick.spoken \/ \E a \in Agents : Holds(a, e)

MayPick(a) == stop[a] \notin {"retiring", "stopped"} /\ ~Registered(a)

(* A member whose every profile is held by a rate limit, before anything else
   is looked at; a stopping, registered or idle member, or one whose pick is
   taken. *)
StartSkips(a) ==
    /\ At("start", a)
    /\ \/ "hold" \in play.faults
       \/ stop[a] \in {"retiring", "stopped"} /\ rolled[a] = None
       \/ stop[a] \notin {"retiring", "stopped"} /\ Registered(a)
       \/ /\ MayPick(a)
          /\ LET e == pick_v2(tick.view, a)
             IN  /\ rolled[a] \in {None, e}
                 /\ e = None \/ SpokenFor(e)
    /\ NextMember
    /\ UNCHANGED <<queueVars, loopVars, mirror, handoff, play>>

(* The entry handed off is not the one the member goes on with. *)
StartPauses(a) ==
    /\ At("start", a) /\ rolled[a] # None
    /\ \/ stop[a] \in {"retiring", "stopped"}
       \/ MayPick(a) /\ pick_v2(tick.view, a) # rolled[a]
    /\ pause_v2_entry(rolled[a], a)
    /\ rolled' = [rolled EXCEPT ![a] = None]
    /\ UNCHANGED <<session, asg, stop, mirror, handoff, tick>>

(* Past the picks and pauses, up to start_claiming. *)
Starting(a) ==
    /\ At("start", a) /\ MayPick(a)
    /\ LET e == pick_v2(tick.view, a)
       IN  e \in Entries /\ rolled[a] \in {None, e} /\ ~SpokenFor(e)

(* Admission queues or refuses, or the claim is refused or not confirmed. *)
StartHeld(a) ==
    /\ Starting(a)
    /\ LET u == next_unit(tick.view, pick_v2(tick.view, a)) IN
       \/ UNCHANGED <<queueVars, play>>
       \/ Fails("claim_lost") /\ queue_v2_claim(u.at, SliceId(u))
    /\ NextMember
    /\ UNCHANGED <<loopVars, mirror, handoff>>

(* The claim landed and the spawn failed, or its picker holds. *)
SpawnFails(a) ==
    /\ Fails("spawn") /\ Starting(a)
    /\ LET e == pick_v2(tick.view, a)
           u == next_unit(tick.view, e)
       IN  /\ queue_v2_claim(u.at, SliceId(u))
           /\ tick' = [tick EXCEPT !.todo = Tail(@), !.spoken = @ \cup {e}]
    /\ UNCHANGED <<loopVars, mirror, handoff>>

Starts(a) ==
    /\ Starting(a)
    /\ LET e == pick_v2(tick.view, a)
           u == next_unit(tick.view, e)
       IN  /\ queue_v2_claim(u.at, SliceId(u))
           /\ asg' = [asg EXCEPT ![a] = [entry |-> e, unit |-> u]]
           /\ pausedBy' = [pausedBy EXCEPT ![e] = None]
    /\ session' = [session EXCEPT ![a] = "live"]
    /\ rolled' = [rolled EXCEPT ![a] = None]
    /\ tick' = [tick EXCEPT !.todo = Tail(@), !.fresh = @ \cup {a}]
    /\ UNCHANGED <<toPause, stop, mirror, handoff, play>>

StartsOver == tick.pc = "start" /\ tick.todo = <<>>

(* publish_v2_assignments: not those of members with a handoff. *)
Publishes ==
    /\ StartsOver \/ tick.pc = "publish"
    /\ mirror' = [a \in Agents |-> IF handoff[a].state = "none" THEN asg[a] ELSE NoAsg]
    /\ tick' = NewTick
    /\ UNCHANGED <<queueVars, loopVars, handoff, play>>

PollStep(a) ==
    \/ PollQuiet(a) \/ end_handed_off_session(a) \/ PollDown(a) \/ PollParked(a)
    \/ PollLeaves(a) \/ PollBlocks(a) \/ PollRefused(a)
StartStep(a) ==
    \/ StartSkips(a) \/ StartPauses(a) \/ StartHeld(a) \/ SpawnFails(a) \/ Starts(a)
LoopStep ==
    \/ \E a \in Agents : PollStep(a) \/ StartStep(a)
    \/ \E open \in BOOLEAN : LoadsList(open)
    \/ LoadFails
    \/ \E e \in Entries : RetriesPause(e)
    \/ \E members \in SUBSET Agents : Rerolls(members)
    \/ GateShut
    \/ Publishes
VerbStep(a) == VerbLogs(a) \/ VerbAborts(a) \/ VerbWrites(a) \/ VerbCommits(a)

Next ==
    \/ LoopStep
    \/ \E a \in Agents : VerbBegins(a) \/ VerbStep(a) \/ RequestStop(a)
    \/ \E e \in Entries : HumanSetsEntry(e) \/ HumanDrops(e)
    \/ \E t \in DOMAIN items : HumanEditsSlices(t)
    \/ Restart

Spec == Init /\ [][Next]_vars
----------------------------------------------------------------------------
(* Properties. *)

(* Type correctness. *)
TypeOK ==
    /\ QueueTypeOK
    /\ session \in [Agents -> SessionStates]
    /\ \A a \in Agents : asg[a] # NoAsg => asg[a].entry \in Entries
    /\ rolled \in [Agents -> Entries \cup {None}]
    /\ toPause \in [Entries -> Agents \cup {None}]
    /\ pausedBy \in [Entries -> Agents \cup {None}]
    /\ stop \in [Agents -> {"no", "pending", "retiring", "stopped"}]
    /\ \A a \in Agents : handoff[a].state \in {"none", "logs", "writes", "committed"}

(* No entry is worked on by two sessions, and no repository by two sessions
   of normal-lane entries that have not handed off and that keeperd counts as
   started: the overlay, spoken_for and keeperd's backstop together, whatever
   was read when. A session re-rolled out of a refused model's park is on no
   entry of the list. *)
Working(a) == session[a] = "live" /\ asg[a] # NoAsg /\ handoff[a].state = "none"
InLane(a) == Working(a) /\ asg[a].entry \notin Urgent /\ Started(asg[a].entry)
SessionsApart ==
    \A a, b \in Agents : a # b =>
      /\ \A e \in Entries : ~(Holds(a, e) /\ Holds(b, e))
      /\ InLane(a) /\ InLane(b) => Repo[asg[a].entry] # Repo[asg[b].entry]

(* A step that takes the entry of a session that has not handed off out of
   `active`, so that the session's own verbs are refused, is a pause for a
   hold the loop never crossed off: no human change, no verb of another
   member and no claim does it. *)
OnlyOldHoldsInterrupt ==
    [][\A a \in Agents :
         Working(a) /\ Working(a)' /\ asg'[a] = asg[a] /\ rows[asg[a].entry].status = "active" =>
           \/ rows'[asg[a].entry].status = "active"
           \/ toPause[asg[a].entry] # None
           \/ \E b \in Agents \ {a} : rolled[b] = asg[a].entry]_vars

(* A list in which what is active is what the walk comes to first: in any
   other one keeperd refuses the claim of every unit the walk yields. *)
Coherent(t) ==
    \A i \in DOMAIN items[t] : items[t][i].status = "active" => \A j \in OpenItems(t) : i <= j

(* What breaks a list is a human edit of it, a claim of a unit such an edit
   displaced after the tick had read the list, and one failure of a handoff:
   new_scope's insert lands although putting its slice back did not, so that
   the slice is still active behind the new one. No other write of a handoff
   does, whichever writes before it failed or were cut off by a restart; the
   comment on the order of the writes promises it of every failure. *)
ClaimsDisplaced(t) ==
    /\ tick.pc = "start" /\ tick' # tick
    /\ walk_tree(tick.view.items, Top(t)) # walk_tree(items, Top(t))
InsertsPastActive(t) ==
    \E a \in Agents :
       /\ handoff[a].warned /\ handoff[a].ops # <<>> /\ handoff'[a] # handoff[a]
       /\ Head(handoff[a].ops).op = "insert" /\ Head(handoff[a].ops).at = t
       /\ \E i \in DOMAIN items[t] : items[t][i].status = "active"
HandoffsKeepListsCoherent ==
    [][\A t \in DOMAIN items :
         Coherent(t) => \/ Coherent(t)'
                        \/ UNCHANGED <<handoff, tick>>
                        \/ ClaimsDisplaced(t)
                        \/ InsertsPastActive(t)]_vars

(* An entry a member handed off, and holds until its next pick, goes to no
   other member while keeperd has it active, when the tick read the list and
   at the claim: only an older pause that is still owed outranks the hold, and
   only a member that has handed the entry off too is as good. *)
KeptForItsMember ==
    [][\A a, b \in Agents, e \in Entries :
         /\ a # b /\ rolled[a] = e /\ rolled[b] # e /\ toPause[e] = None
         /\ tick.view # None /\ tick.view.status[e] = "active" /\ rows[e].status = "active"
         /\ Holds(b, e)'
         => Holds(b, e)]_vars
=============================================================================
