----------------------------- MODULE FleetDrive -----------------------------
(***************************************************************************)
(* growlightd's drive loop on the legacy queue, against keeperd's item     *)
(* table (ItemStatus) and the scheduler: which member works on which part. *)
(* Every keeperd round-trip of the loop is a step of its own, so members,  *)
(* the human, resume requests, a keeperd cycle and a restart of growlightd *)
(* fall between any two of them. What only the Supervisor sees (streaks,   *)
(* backoff, the cap) is in module Supervisor; here a session that is over  *)
(* is one of five exits and a member that is down may be held for a while. *)
(***************************************************************************)
EXTENDS ItemStatus, Naturals, Sequences

CONSTANTS
    Rows,         \* queue to its rows, in table order
    QueueOrder,   \* the queues, in snapshot order
    Fleet,        \* the roster, in its order
    Pin,          \* member to its pinned queue, or None
    Marked,       \* parts whose doc holds them for the human (claim_hold)
    Handoffs,     \* the handoff statuses members use (a subset, to bound runs)
    ExitsUsed,    \* the ways sessions end (a subset, to bound runs)
    Env,          \* what the environment does, see EnvKinds
    Faults,       \* which round-trips can fail, see FaultKinds
    MaxFaults     \* bound: how many of them do

(* How a session ends, as its poll will see it. *)
Exits == {"continues", "crashed", "leaves", "blocks", "refused"}

EnvKinds == {"human", "resume", "cycle", "restart", "stop", "gate", "offline"}
FaultKinds == {"read", "claim", "spawn", "park", "reassert", "reset"}

ASSUME FleetConstants ==
    /\ Rows \in [Queues -> Seq(Parts)] /\ QueueOrder \in Seq(Queues)
    /\ \A q \in Queues : \A i, j \in DOMAIN Rows[q] :
          region_of[Rows[q][i]] = q /\ (Rows[q][i] = Rows[q][j] => i = j)
    /\ Fleet \in Seq(Agents) /\ Pin \in [Agents -> Queues \cup {None}]
    /\ None \notin Parts \cup Queues
    /\ Marked \subseteq Parts
    /\ Handoffs \subseteq HandoffStatuses /\ ExitsUsed \subseteq Exits
    /\ Env \subseteq EnvKinds /\ Faults \subseteq FaultKinds /\ MaxFaults \in Nat

(* validate_fleet_member_ids: a roster that names a member twice is refused. *)
ASSUME RosterDistinct == \A i, j \in DOMAIN Fleet : Fleet[i] = Fleet[j] => i = j

INSTANCE Scheduler WITH NoPart <- None

VARIABLES
    session,      \* each member's session, see SessionStates
    assignment,   \* DriveLoop.assignments: the part, or None
    stop,         \* boundary stop: none, pending in Control, retiring, stopped
    holds,        \* DriveLoop.holds: parts whose marker was read recently
    refused,      \* members latched on a refused model: model_refused_items
    tick,         \* where the drive loop is in its tick, and its locals
    resuming,     \* resume_item requests that have read `blocked`
    faults        \* round-trips that failed so far

loopVars == <<session, assignment, stop, holds, refused>>
vars == <<itemVars, loopVars, tick, resuming, faults>>

(* "out": not in the supervisor; "live"; the unpolled exits; "down": waiting
   for its re-roll; "parked": model refused, never re-rolled as it stands. *)
SessionStates == Exits \cup {"out", "live", "down", "parked"}
Registered(a) == session[a] # "out"

NoView == [p \in Parts |-> "absent"]
Idle == [pc |-> "idle", todo |-> <<>>, view |-> NoView, draining |-> {}, toBlock |-> {},
         rerolled |-> <<>>, spoken |-> {}, unpinned |-> FALSE, claimed |-> None,
         reset |-> {}]

Init ==
    /\ status = [p \in Parts |-> "queued"]
    /\ holder = [p \in Parts |-> None]
    /\ session = [a \in Agents |-> "out"]
    /\ assignment = [a \in Agents |-> None]
    /\ stop = [a \in Agents |-> "no"]
    /\ holds = {} /\ refused = {}
    /\ tick = Idle
    /\ resuming = {}
    /\ faults = 0

(* A round-trip of this kind fails now. *)
Fails(kind) == kind \in Faults /\ faults < MaxFaults /\ faults' = faults + 1

----------------------------------------------------------------------------
(* The environment. *)

SessionEnds(a) ==
    /\ session[a] = "live"
    /\ \E e \in ExitsUsed : session' = [session EXCEPT ![a] = e]
    /\ UNCHANGED <<itemVars, assignment, stop, holds, refused, tick, resuming, faults>>

(* A live member hands off; keeperd checks that it holds the part. *)
MemberSets(a, p) ==
    /\ session[a] = "live"
    /\ \E new \in Handoffs : set_item_status(p, new, None, a, None)
    /\ UNCHANGED <<loopVars, tick, resuming, faults>>

(* The human, or a semi-automatic session, over the CLI: no holder. *)
HumanSets(p) ==
    /\ "human" \in Env
    /\ \E new \in {"queued", "active"} \cup Handoffs : set_item_status(p, new, None, None, None)
    /\ UNCHANGED <<loopVars, tick, resuming, faults>>

(* resume_item reads, guards on `blocked`, then writes: two round-trips. *)
ResumeReads(p) ==
    /\ "resume" \in Env /\ p \notin resuming
    /\ status[p] = "blocked"
    /\ resuming' = resuming \cup {p}
    /\ UNCHANGED <<itemVars, loopVars, tick, faults>>
ResumeWrites(p) ==
    /\ p \in resuming
    /\ set_item_status(p, "queued", None, None, None)
    /\ \/ resuming' = resuming \ {p}
       \/ UNCHANGED resuming    \* another request that read `blocked` is left
    /\ UNCHANGED <<loopVars, tick, faults>>

KeeperdCycles ==
    /\ "cycle" \in Env
    /\ DaemonCycle
    /\ UNCHANGED <<loopVars, tick, resuming, faults>>

RequestStop(a) ==
    /\ "stop" \in Env
    /\ stop[a] = "no"
    /\ stop' = [stop EXCEPT ![a] = "pending"]
    /\ UNCHANGED <<itemVars, session, assignment, holds, refused, tick, resuming, faults>>

(* orphaned_active, read once; a failed read skips the reap. *)
orphaned_active == {p \in Parts : status[p] = "active"}

(* growlightd dies at any point of its tick and boots: the strays are killed,
   nothing of its memory is left, the backlog is read. *)
Restart ==
    /\ "restart" \in Env
    /\ session' = [a \in Agents |-> "out"]
    /\ assignment' = [a \in Agents |-> None]
    /\ stop' = [a \in Agents |-> "no"]
    /\ holds' = {} /\ refused' = {} /\ resuming' = {}
    /\ \/ /\ tick' = [Idle EXCEPT !.pc = "boot", !.reset = orphaned_active]
          /\ UNCHANGED faults
       \/ Fails("read") /\ tick' = Idle
    /\ UNCHANGED itemVars

(* reset_to_queued, one write per orphan; a failed one is only logged. *)
ResetOrphan(p) ==
    /\ tick.pc = "boot" /\ p \in tick.reset
    /\ tick' = [tick EXCEPT !.reset = @ \ {p}]
    /\ \/ set_item_status(p, "queued", None, None, None) /\ UNCHANGED faults
       \/ Fails("reset") /\ UNCHANGED itemVars
    /\ UNCHANGED <<loopVars, resuming>>

Booted ==
    /\ tick.pc = "boot" /\ tick.reset = {}
    /\ tick' = Idle
    /\ UNCHANGED <<itemVars, loopVars, resuming, faults>>

----------------------------------------------------------------------------
(* DriveLoop::tick, the poll pass. *)

InLoop(pc, a) == tick.pc = pc /\ tick.todo # <<>> /\ a = Head(tick.todo)
Advance == [tick EXCEPT !.todo = Tail(@), !.unpinned = FALSE]
QueueEnd(pc) == tick.pc = pc /\ tick.todo = <<>>

Assigned == {assignment[a] : a \in Agents} \ {None}
Draining == {<<a, region_of[assignment[a]]>> : a \in {b \in Agents : assignment[b] # None}}

BeginTick ==
    /\ tick.pc = "idle"
    /\ tick' = [Idle EXCEPT !.pc = "poll", !.todo = Fleet, !.draining = Draining]
    /\ UNCHANGED <<itemVars, loopVars, resuming, faults>>

(* take_pending_stop, at the head of each member's poll. *)
StopTaken(a) == IF stop[a] = "pending" THEN "retiring" ELSE stop[a]

(* The session is over: the member goes to s, its assignment stays or goes;
   at a boundary a retiring member is retired for good. The latch of a refused
   model goes with the supervisor's record. *)
Settle(a, s, keepsPart, latched) ==
    LET retires == StopTaken(a) = "retiring"
        gone    == retires \/ s = "out"
    IN  /\ session' = [session EXCEPT ![a] = IF gone THEN "out" ELSE s]
        /\ assignment' = [assignment EXCEPT ![a] = IF retires \/ ~keepsPart THEN None ELSE @]
        /\ stop' = [stop EXCEPT ![a] = IF retires THEN "stopped" ELSE @]
        /\ refused' = IF gone THEN latched \ {a} ELSE latched

PollQuiet(a) ==
    /\ InLoop("poll", a) /\ session[a] \in {"out", "live"}
    /\ stop' = [stop EXCEPT ![a] = StopTaken(a)]
    /\ tick' = Advance
    /\ UNCHANGED <<itemVars, session, assignment, holds, refused, resuming, faults>>

(* Rolling, Crashed, Reconnecting, a rate-limit exit: down, part kept; and a
   consumed exit seen again (Down). *)
PollDown(a) ==
    /\ InLoop("poll", a) /\ session[a] \in {"continues", "crashed", "down"}
    /\ Settle(a, "down", TRUE, refused)
    /\ tick' = Advance
    /\ UNCHANGED <<itemVars, holds, resuming, faults>>

(* A refused model's exit seen again: inert (Down); but polled while the device
   is offline it is taken for a lost connection (Reconnecting), and the member
   is to be re-rolled like any that is down. It has no part. *)
PollParked(a) ==
    /\ InLoop("poll", a) /\ session[a] = "parked"
    /\ \E s \in {"parked"} \cup IF "offline" \in Env THEN {"down"} ELSE {} :
          Settle(a, s, TRUE, refused)
    /\ tick' = Advance
    /\ UNCHANGED <<itemVars, holds, resuming, faults>>

(* Completed, Retired (QUEUE_EMPTY): the member leaves its part as it is. *)
PollLeaves(a) ==
    /\ InLoop("poll", a) /\ session[a] = "leaves"
    /\ Settle(a, "out", FALSE, refused)
    /\ tick' = Advance
    /\ UNCHANGED <<itemVars, holds, resuming, faults>>

(* park_item: unconditional, and its failure is ignored. *)
park_item(p) ==
    \/ set_item_status(p, "blocked", None, None, None) /\ UNCHANGED faults
    \/ Fails("park") /\ UNCHANGED itemVars

(* Blocked (a human block, STUCK, the spin guard): the item is parked in
   keeperd and in this tick's view, the member is free. One that was re-rolled
   out of a refused model's park has no item. *)
PollBlocks(a) ==
    /\ InLoop("poll", a) /\ session[a] = "blocks"
    /\ IF assignment[a] = None THEN UNCHANGED <<itemVars, faults>> ELSE park_item(assignment[a])
    /\ Settle(a, "out", FALSE, refused)
    /\ tick' = [Advance EXCEPT !.toBlock = @ \cup ({assignment[a]} \ {None})]
    /\ UNCHANGED <<holds, resuming>>

(* Mutant of PollRefused: the item is parked and not latched. *)
PollRefused_no_latch(a) ==
    /\ InLoop("poll", a) /\ session[a] = "refused"
    /\ IF assignment[a] = None THEN UNCHANGED <<itemVars, faults>> ELSE park_item(assignment[a])
    /\ Settle(a, "parked", FALSE, refused)
    /\ tick' = Advance
    /\ UNCHANGED <<holds, resuming>>

(* ModelRefused: the item is parked and latched, the member stays registered;
   without an item nothing is latched. *)
PollRefused(a) ==
    /\ InLoop("poll", a) /\ session[a] = "refused"
    /\ IF assignment[a] = None
         THEN /\ Settle(a, "parked", FALSE, refused)
              /\ UNCHANGED <<itemVars, faults>>
         ELSE /\ Settle(a, "parked", FALSE, refused \cup {a})
              /\ park_item(assignment[a])
    /\ tick' = Advance
    /\ UNCHANGED <<holds, resuming>>

(* reconcile_model_refused lets the latched members go whose resolution was
   edited, in whatever state they are; then one read of the queues, with this
   tick's parks and the holds still trusted put into it. *)
ReadSnapshot ==
    /\ QueueEnd("poll")
    /\ \E edited \in SUBSET refused :
          /\ session' = [a \in Agents |-> IF a \in edited THEN "out" ELSE session[a]]
          /\ refused' = refused \ edited
    /\ \E kept \in SUBSET holds, gated \in IF "gate" \in Env THEN BOOLEAN ELSE {FALSE} :
          LET view == [p \in Parts |->
                          IF p \in tick.toBlock THEN "blocked"
                          ELSE IF status[p] = "queued" /\ p \in kept THEN "held"
                          ELSE status[p]]
          IN  /\ holds' = kept
              /\ \E v \in {view, NoView} :
                    /\ IF v = view THEN UNCHANGED faults ELSE Fails("read")
                    /\ tick' = [tick EXCEPT !.pc = IF gated THEN "start" ELSE "roll",
                                            !.todo = IF gated THEN <<>> ELSE Fleet,
                                            !.view = v, !.toBlock = {}]
    /\ UNCHANGED <<itemVars, assignment, stop, resuming>>

----------------------------------------------------------------------------
(* The re-roll pass and the claim heartbeat. *)

(* Mutant of reserved_queues: only the members live on their queue now. *)
reserved_queues_live(a) ==
    {Pin[m] : m \in {b \in Agents \ {a} :
        /\ stop[b] \notin {"retiring", "stopped"}
        /\ <<b, Pin[b]>> \in Draining}}

(* reserved_queues: queues of other pinned members that are on them now or
   were when the tick began, and are not stopping. *)
reserved_queues(a) ==
    {Pin[m] : m \in {b \in Agents \ {a} :
        /\ stop[b] \notin {"retiring", "stopped"}
        /\ <<b, Pin[b]>> \in tick.draining \cup Draining}}

resumes_own(a) ==
    /\ assignment[a] # None
    /\ LET q == region_of[assignment[a]]
       IN  classify_queue(tick.view, q) = "active" /\ head_part(tick.view, q) = assignment[a]

workable(a) == resumes_own(a) \/ pick_for(tick.view, Pin[a], reserved_queues(a)) # None

(* Not down, no work, or held by its backoff, admission or the backend. *)
RollHeld(a) ==
    /\ InLoop("roll", a)
    /\ tick' = Advance
    /\ UNCHANGED <<itemVars, loopVars, resuming, faults>>

Rerolled(a) ==
    /\ InLoop("roll", a) /\ session[a] = "down" /\ workable(a)
    /\ session' = [session EXCEPT ![a] = "live"]
    /\ tick' = [Advance EXCEPT !.rerolled = Append(@, a)]
    /\ UNCHANGED <<itemVars, assignment, stop, holds, refused, resuming, faults>>

EndRolls ==
    /\ QueueEnd("roll")
    /\ tick' = [tick EXCEPT !.pc = "rebeat", !.todo = tick.rerolled, !.rerolled = <<>>]
    /\ UNCHANGED <<itemVars, loopVars, resuming, faults>>

(* Mutant of reassert: unconditional, like a claim. *)
reassert_unconditional(a) ==
    LET p == assignment[a]
    IN  \/ set_item_status(p, "active", a, None, None) /\ UNCHANGED faults
        \/ ~Accepted(p, "active", a, None, None) /\ UNCHANGED <<itemVars, faults>>

(* reassert: the claim again, while the part is still active. *)
reassert(a) ==
    LET p == assignment[a]
    IN  \/ set_item_status(p, "active", a, None, "active") /\ UNCHANGED faults
        \/ ~Accepted(p, "active", a, None, "active") /\ UNCHANGED <<itemVars, faults>>
        \/ Fails("reassert") /\ UNCHANGED itemVars

(* Mutant of Reasserts: only the members that are down are beaten for. *)
Reasserts_down(a) ==
    /\ InLoop("rebeat", a) \/ InLoop("beat", a)
    /\ IF assignment[a] # None /\ session[a] = "down"
         THEN reassert(a)
         ELSE UNCHANGED <<itemVars, faults>>
    /\ tick' = Advance
    /\ UNCHANGED <<loopVars, resuming>>

(* reassert_claim: after a re-roll, and in the heartbeat, for every member
   that is registered and has a part. *)
Reasserts(a) ==
    /\ InLoop("rebeat", a) \/ InLoop("beat", a)
    /\ IF assignment[a] # None /\ Registered(a)
         THEN reassert(a)
         ELSE UNCHANGED <<itemVars, faults>>
    /\ tick' = Advance
    /\ UNCHANGED <<loopVars, resuming>>

BeginStarts ==
    /\ QueueEnd("rebeat")
    /\ tick' = [tick EXCEPT !.pc = "start", !.todo = Fleet]
    /\ UNCHANGED <<itemVars, loopVars, resuming, faults>>

----------------------------------------------------------------------------
(* Fresh starts: pick, claim, spawn. *)

Startable(a) == stop[a] \notin {"retiring", "stopped"} /\ ~Registered(a)

(* Not startable; or held by the rate limit or by admission. *)
StartSkips(a) ==
    /\ InLoop("start", a)
    /\ ~Startable(a) \/ "gate" \in Env
    /\ tick' = Advance
    /\ UNCHANGED <<itemVars, loopVars, resuming, faults>>

picked(a) ==
    pick_for(tick.view, IF tick.unpinned THEN None ELSE Pin[a], reserved_queues(a))

(* Mutant of spoken_for: this tick's claims only. *)
spoken_for_tick == tick.spoken
(* Parts held by members, and parts claimed in this tick. *)
spoken_for == Assigned \cup tick.spoken

(* No workable part, or one that is spoken for. *)
StartsNothing(a) ==
    /\ InLoop("start", a) /\ Startable(a)
    /\ picked(a) \in {None} \cup spoken_for
    /\ tick' = Advance
    /\ UNCHANGED <<itemVars, loopVars, resuming, faults>>

(* Mutant of SkipsForeign: the member waits behind the foreign part. *)
SkipsForeign_waits(a) ==
    /\ InLoop("start", a) /\ Startable(a)
    /\ picked(a) \notin {None} \cup spoken_for
    /\ tick.view[picked(a)] # "queued"
    /\ tick' = Advance
    /\ UNCHANGED <<itemVars, loopVars, resuming, faults>>

(* An active head nobody here holds is foreign: fall back, past the pin. *)
SkipsForeign(a) ==
    /\ InLoop("start", a) /\ Startable(a)
    /\ picked(a) \notin {None} \cup spoken_for
    /\ tick.view[picked(a)] # "queued"
    /\ tick' = [tick EXCEPT !.unpinned = TRUE]
    /\ UNCHANGED <<itemVars, loopVars, resuming, faults>>

(* A queued part that is not spoken for. *)
Fresh(p) == p \in Parts \ spoken_for /\ tick.view[p] = "queued"

(* claim_hold: the part's doc holds it for the human; pick again past it. *)
SkipsMarked(a) ==
    /\ InLoop("start", a) /\ Startable(a)
    /\ Fresh(picked(a)) /\ picked(a) \in Marked
    /\ holds' = holds \cup {picked(a)}
    /\ tick' = [tick EXCEPT !.view[picked(a)] = "held"]
    /\ UNCHANGED <<itemVars, session, assignment, stop, refused, resuming, faults>>

(* start_claiming, admitted: the claim. Confirmed, it goes on to the spawn;
   refused or unconfirmed (whether it landed or not), the start is off. *)
Claims(a) ==
    /\ InLoop("start", a) /\ Startable(a)
    /\ Fresh(picked(a)) /\ picked(a) \notin Marked
    /\ LET p == picked(a)
       IN  \/ /\ set_item_status(p, "active", a, None, None)
              /\ tick' = [tick EXCEPT !.pc = "spawn", !.claimed = p]
              /\ UNCHANGED faults
           \/ /\ ~Accepted(p, "active", a, None, None)
              /\ tick' = Advance
              /\ UNCHANGED <<itemVars, faults>>
           \/ /\ Fails("claim")
              /\ UNCHANGED itemVars \/ set_item_status(p, "active", a, None, None)
              /\ tick' = Advance
    /\ UNCHANGED <<loopVars, resuming>>

ClaimSettled ==
    [Advance EXCEPT !.pc = "start", !.claimed = None, !.view[tick.claimed] = "active",
                    !.spoken = @ \cup {tick.claimed}]

Spawned(a) ==
    /\ InLoop("spawn", a)
    /\ session' = [session EXCEPT ![a] = "live"]
    /\ assignment' = [assignment EXCEPT ![a] = tick.claimed]
    /\ refused' = refused \ {a}    \* a new record
    /\ tick' = ClaimSettled
    /\ UNCHANGED <<itemVars, stop, holds, resuming, faults>>

(* SpawnFailed and Hold: the part is claimed, nobody works on it. *)
SpawnFails(a) ==
    /\ InLoop("spawn", a)
    /\ Fails("spawn")
    /\ tick' = ClaimSettled
    /\ UNCHANGED <<itemVars, loopVars, resuming>>

(* CLAIM_REASSERT_SECS have passed: the heartbeat. *)
BeginBeat ==
    /\ QueueEnd("start")
    /\ tick' = [Idle EXCEPT !.pc = "beat", !.todo = Fleet]
    /\ UNCHANGED <<itemVars, loopVars, resuming, faults>>

EndTick ==
    /\ QueueEnd("start") \/ QueueEnd("beat")
    /\ tick' = Idle
    /\ UNCHANGED <<itemVars, loopVars, resuming, faults>>

DriveStep ==
    \/ BeginTick \/ ReadSnapshot \/ EndRolls \/ BeginStarts \/ BeginBeat \/ EndTick \/ Booted
    \/ \E p \in Parts : ResetOrphan(p)
    \/ \E a \in Agents :
         \/ PollQuiet(a) \/ PollDown(a) \/ PollParked(a) \/ PollLeaves(a)
         \/ PollBlocks(a) \/ PollRefused(a)
         \/ RollHeld(a) \/ Rerolled(a) \/ Reasserts(a)
         \/ StartSkips(a) \/ StartsNothing(a) \/ SkipsForeign(a) \/ SkipsMarked(a)
         \/ Claims(a) \/ Spawned(a) \/ SpawnFails(a)

Environment ==
    \/ KeeperdCycles \/ Restart
    \/ \E p \in Parts : HumanSets(p) \/ ResumeReads(p) \/ ResumeWrites(p)
    \/ \E a \in Agents : SessionEnds(a) \/ RequestStop(a) \/ \E p \in Parts : MemberSets(a, p)

Next == DriveStep \/ Environment

(* The drive thread keeps ticking, and the heartbeat falls due again and
   again: whenever a tick's starts are over, CLAIM_REASSERT_SECS may be. *)
Fairness == WF_vars(DriveStep) /\ SF_vars(BeginBeat)

Spec == Init /\ [][Next]_vars
FairSpec == Spec /\ Fairness

----------------------------------------------------------------------------
TickType ==
    [pc : {"boot", "idle", "poll", "roll", "rebeat", "start", "spawn", "beat"},
     todo : Seq(Agents), view : [Parts -> Statuses \cup {"held", "absent"}],
     draining : SUBSET (Agents \X Queues), toBlock : SUBSET Parts, rerolled : Seq(Agents),
     spoken : SUBSET Parts, unpinned : BOOLEAN, claimed : Parts \cup {None},
     reset : SUBSET Parts]

(* The loop's maps, its locals and the item table keep their types. *)
TypeOK ==
    /\ ItemTypeOK
    /\ session \in [Agents -> SessionStates]
    /\ assignment \in [Agents -> Parts \cup {None}]
    /\ stop \in [Agents -> {"no", "pending", "retiring", "stopped"}]
    /\ holds \subseteq Marked /\ refused \subseteq Agents
    /\ resuming \subseteq Parts
    /\ faults \in 0..MaxFaults
    /\ tick \in TickType

(* A registered member either has a part, which an exit on a human block
   parks, or is latched on the model it was refused, by which
   reconcile_model_refused can let it go: never neither, the park that nothing
   ends, and never both. It survives a park that is polled offline, whose
   member is re-rolled without a part and exits again in any way. *)
PartOrLatch ==
    \A a \in Agents : Registered(a) => (assignment[a] = None <=> a \in refused)

(* Between its claim and its spawn a part is nobody's assignment. *)
ClaimInHand == tick.pc = "spawn" => tick.claimed \in Parts \ Assigned

(* No two members are assigned one part, whatever the human, a late resume, lost
   answers, a keeperd cycle or a restart do to its status meanwhile. *)
OneMemberPerPart ==
    \A a, b \in Agents : (assignment[a] # None /\ assignment[a] = assignment[b]) => a = b

(* keeperd never counts somebody else as the holder of a part a member works
   on: at worst, after a cycle, nobody. *)
HolderIsTheMember ==
    \A a \in Agents : assignment[a] # None => holder[assignment[a]] \in {a, None}

(* Fallback leaves a queue to the member pinned to it: no other member takes
   a part of it while that member is on it, or left it in this tick. *)
PinnedQueueKept ==
    [][\A a, m \in Agents :
          (m # a /\ Pin[m] # None /\ Pin[m] # Pin[a] /\ stop[m] = "no"
             /\ assignment'[a] # None /\ assignment'[a] # assignment[a]
             /\ region_of[assignment'[a]] = Pin[m])
          => <<m, Pin[m]>> \notin tick.draining \cup Draining]_vars

(* A queue is worked in row order: a member starts on a part only when every
   row before it is finished, deferred, or held for the human. *)
PartsInOrder ==
    [][\A a \in Agents :
          (assignment'[a] # assignment[a] /\ assignment'[a] # None) =>
             LET rows == Rows[region_of[assignment'[a]]]
                 at == CHOOSE i \in DOMAIN rows : rows[i] = assignment'[a]
             IN  \A i \in 1..(at - 1) :
                    \/ status[rows[i]] \in {"done", "deferred"}
                    \/ rows[i] \in Marked /\ status[rows[i]] = "queued"]_vars

(* The drive loop never revives a part: one that is done or deferred is made
   active again only by the human. *)
HandoffKept ==
    [][\A p \in Parts : (status[p] \in {"done", "deferred"} /\ status'[p] = "active")
          => tick' = tick]_vars

(* After a keeperd cycle a working member is recorded as the holder of its
   part again, so that its handoff is accepted. *)
HolderRestored ==
    \A a \in Agents, p \in Parts :
        (session[a] = "live" /\ assignment[a] = p /\ status[p] = "active" /\ holder[p] = None)
            ~> (holder[p] = a \/ status[p] # "active" \/ assignment[a] # p)

(* A free member and a queued head of a queue that is not reserved. A member
   whose pinned queue a peer is working on waits for that peer ("part already
   claimed"): it is not free. *)
Offered(p, a) ==
    /\ session[a] = "out" /\ stop[a] = "no"
    /\ ~\E b \in Agents \ {a} : <<b, Pin[a]>> \in Draining
    /\ region_of[p] \notin {Pin[m] : m \in {b \in Agents \ {a} : <<b, Pin[b]>> \in Draining}}
    /\ head_part([o \in Parts |-> IF o \in Marked /\ status[o] = "queued" THEN "held"
                                  ELSE status[o]], region_of[p]) = p
    /\ status[p] = "queued"

(* Work and a free member do not wait for each other for ever. *)
WorkTaken == \A p \in Parts, a \in Agents : Offered(p, a) ~> ~Offered(p, a)
=============================================================================
