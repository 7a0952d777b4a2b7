----------------------------- MODULE Supervisor -----------------------------
(***************************************************************************)
(* growlightd's Supervisor (spawn, poll, back off, re-roll, retire) under  *)
(* the drive loop that calls it: one tick polls every member, reconciles   *)
(* the model-refused parks, then re-rolls the members that are down and    *)
(* starts the ones that are not registered.                                *)
(*                                                                         *)
(* Time. The code keeps `not_before`, an absolute second, and only ever    *)
(* compares it with `now` or sets it to `now + delay`. The model keeps     *)
(* wait = max(0, not_before - now), which TimePasses counts down; a tick   *)
(* works with one `now`, so time passes between ticks only.                *)
(***************************************************************************)
EXTENDS Naturals, FiniteSets

CONSTANTS
    Agents,          \* the fleet roster
    MaxConcurrent,   \* Policy.max_concurrent_agents
    BaseSecs,        \* Backoff.base_secs
    CapSecs,         \* Backoff.cap_secs
    MaxFailures,     \* bound: the streak saturates here (delay is at its cap)
    StallLimit,      \* STALL_LIMIT
    ExcuseLimit,     \* REPO_EXCUSE_LIMIT
    NextActions,     \* the texts a baton's NEXT ACTION can have
    RepoKeys,        \* RepoState::progress_key values
    None,            \* Option::None
    Bounds,          \* the bounded runs configured: iteration counts, or None
    NetworkFlaps,    \* TRUE: the device can go offline and lose connections
    Operator         \* TRUE: the operator pauses, resumes and stops members

ASSUME SupervisorConstants ==
    /\ IsFiniteSet(Agents)
    /\ MaxConcurrent \in Nat
    /\ BaseSecs \in Nat \ {0} /\ CapSecs \in Nat /\ CapSecs >= BaseSecs
    /\ MaxFailures \in Nat \ {0}
    /\ StallLimit \in Nat \ {0} /\ ExcuseLimit \in Nat
    /\ None \notin NextActions /\ None \notin RepoKeys
    /\ Bounds \subseteq (Nat \ {0}) \cup {None}    \* 0 is refused by the config
    /\ NetworkFlaps \in BOOLEAN /\ Operator \in BOOLEAN

VARIABLES
    sup,           \* Supervisor.agents: the Supervised record, or Absent
    health,        \* the backend's health cell, latched until the next spawn
    reconnecting,  \* DriveLoop.reconnecting
    refusedItems,  \* DriveLoop.model_refused_items
    assigned,      \* members with an entry in DriveLoop.assignments
    pending,       \* members with a pending boundary stop in Control
    retiring,      \* DriveLoop.retiring
    stopped,       \* DriveLoop.stopped
    online,        \* Connectivity::online
    paused,        \* Control.paused
    tick,          \* where the drive loop is in its tick
    max_iterations, \* DriveLoop.max_iterations, fixed at boot
    iterations,    \* DriveLoop.iterations_completed
    chunks,        \* history: the boundaries a bounded run counts, stragglers too
    due,           \* history: what is left of the last failure's backoff
    same           \* history: continue-exits in a row on one NEXT ACTION

runVars == <<max_iterations, iterations, chunks>>
fleetVars == <<sup, health, reconnecting, refusedItems, assigned, retiring, stopped, due, same,
               runVars>>
vars == <<fleetVars, pending, online, paused, tick>>

(* i64::MAX, as a wait that no passing of time counts down. *)
Forever == CapSecs + 1

(* Health: "none" before the first spawn; "alive"/"hung" while the process
   runs; otherwise the latched exit with the evidence left behind: exit 0, a
   plain non-zero exit, a network signature on stderr, a rate-limit error or
   a refused model in the stream. *)
CleanExit == "clean"
ErrorExits == {"crash", "network", "ratelimit", "refused"}
Exits == ErrorExits \cup {CleanExit}

Absent == [registered |-> FALSE]
Fresh == [registered |-> TRUE, child |-> TRUE, failures |-> 0, wait |-> 0,
          lastAction |-> None, streak |-> 0, seenRepo |-> {}, excused |-> 0,
          refused |-> FALSE]

Registered == {a \in Agents : sup[a].registered}
Down == {a \in Registered : ~sup[a].child}
committed_count == Cardinality(Registered)
live_count == Cardinality(Registered \ Down)

----------------------------------------------------------------------------
(* Pure helpers. *)

(* Mutant of delay: no cap. *)
delay_uncapped(failures) == IF failures = 0 THEN 0 ELSE BaseSecs * 2^(failures - 1)

(* Backoff::delay: base doubled per failure after the first, capped. *)
delay(failures) ==
    IF failures = 0 THEN 0
    ELSE LET doubled == BaseSecs * 2^(failures - 1)
         IN  IF doubled \in 0..CapSecs THEN doubled ELSE CapSecs

(* One more failure: the streak and the backoff it arms. *)
Failed(s) ==
    LET n == IF s.failures < MaxFailures THEN s.failures + 1 ELSE MaxFailures
    IN  [s EXCEPT !.child = FALSE, !.failures = n, !.wait = delay(n)]

(* The spin guard forgets the run of equal NEXT ACTIONs. *)
ResetSpin(s) ==
    [s EXCEPT !.lastAction = None, !.streak = 0, !.seenRepo = {}, !.excused = 0]

(* Mutant of Counted: a moved repository always excuses the repeat. *)
Counted_unlimited(s, action, key) ==
    LET repeat  == s.lastAction # None /\ s.lastAction = action
        excuse  == key # None /\ key \notin s.seenRepo
    IN  [(IF ~repeat
            THEN [s EXCEPT !.streak = 1, !.seenRepo = {key} \ {None}, !.excused = 0]
          ELSE IF excuse
            THEN [s EXCEPT !.streak = 1, !.excused = 1]
          ELSE [s EXCEPT !.streak = @ + 1])
         EXCEPT !.lastAction = action]

(* roll_or_spin: the streak after a continue-exit that handed `action` with
   the repository at `key` (read only when there is an action). *)
Counted(s, action, key) ==
    LET repeat  == s.lastAction # None /\ s.lastAction = action
        excuse  == key # None /\ key \notin s.seenRepo /\ s.excused < ExcuseLimit
    IN  [(IF ~repeat
            THEN [s EXCEPT !.streak = 1, !.seenRepo = {key} \ {None}, !.excused = 0]
          ELSE IF excuse
            THEN [s EXCEPT !.streak = 1, !.seenRepo = @ \cup {key}, !.excused = @ + 1]
          ELSE [s EXCEPT !.streak = @ + 1])
         EXCEPT !.lastAction = action]

(* AdmissionGovernor::decide: a refusal (budget or rate rails) stops both
   intents, the concurrency cap stops fresh starts only. *)
AdmitRoll(refuse) == ~refuse

(* Mutant of AdmitStart: gates on live children. *)
AdmitStart_live(refuse) == ~refuse /\ live_count < MaxConcurrent
AdmitStart(refuse) == ~refuse /\ committed_count < MaxConcurrent

----------------------------------------------------------------------------
Init ==
    /\ sup = [a \in Agents |-> Absent]
    /\ health = [a \in Agents |-> "none"]
    /\ reconnecting = {} /\ refusedItems = {} /\ assigned = {}
    /\ pending = {} /\ retiring = {} /\ stopped = {}
    /\ online = TRUE /\ paused = FALSE
    /\ tick = [pc |-> "idle", todo |-> {}, gated |-> FALSE]
    /\ max_iterations \in Bounds
    /\ iterations = 0 /\ chunks = 0
    /\ due = [a \in Agents |-> 0]
    /\ same = [a \in Agents |-> 0]

(* The environment: children, the network, the operator, the clock. *)

ChildActs(a) ==
    /\ a \in Registered /\ sup[a].child /\ health[a] \in {"alive", "hung"}
    /\ \E h \in Exits \cup {"alive", "hung"} :
         /\ h # health[a]
         /\ h = "network" => NetworkFlaps
         /\ health' = [health EXCEPT ![a] = h]
    /\ UNCHANGED <<sup, reconnecting, refusedItems, assigned, retiring, stopped,
                   due, same, runVars, pending, online, paused, tick>>

(* The reader thread reaps a hung child the supervisor killed. *)
KilledChildReaped(a) ==
    /\ ~(a \in Registered /\ sup[a].child) /\ health[a] \in {"alive", "hung"}
    /\ health' = [health EXCEPT ![a] = "crash"]
    /\ UNCHANGED <<sup, reconnecting, refusedItems, assigned, retiring, stopped,
                   due, same, runVars, pending, online, paused, tick>>

NetworkChanges ==
    /\ NetworkFlaps
    /\ online' = ~online
    /\ UNCHANGED <<fleetVars, pending, paused, tick>>

(* The pause/resume verbs, and force_stop at a boundary. *)
PauseOrResume ==
    /\ Operator
    /\ paused' = ~paused
    /\ UNCHANGED <<fleetVars, pending, online, tick>>

RequestStop(a) ==
    /\ Operator
    /\ a \notin pending
    /\ pending' = pending \cup {a}
    /\ UNCHANGED <<fleetVars, online, paused, tick>>

CountDown(n) == IF n \in 1..CapSecs THEN n - 1 ELSE n
TimePasses ==
    /\ tick.pc = "idle"
    /\ \E a \in Agents : due[a] > 0 \/ (a \in Registered /\ sup[a].wait \in 1..CapSecs)
    /\ sup' = [a \in Agents |-> IF a \in Registered
                                  THEN [sup[a] EXCEPT !.wait = CountDown(@)] ELSE Absent]
    /\ due' = [a \in Agents |-> CountDown(due[a])]
    /\ UNCHANGED <<health, reconnecting, refusedItems, assigned, retiring, stopped,
                   same, runVars, pending, online, paused, tick>>

----------------------------------------------------------------------------
(* DriveLoop::tick. *)

BeginTick ==
    /\ tick.pc = "idle"
    /\ tick' = [pc |-> "poll", todo |-> Agents, gated |-> paused \/ ~online]
    /\ UNCHANGED <<fleetVars, pending, online, paused>>

Polling(a) == tick.pc = "poll" /\ a \in tick.todo
Done(a) == tick' = [tick EXCEPT !.todo = @ \ {a}]

(* The poll pass first moves a pending stop into `retiring`. *)
Stopping(a) == a \in pending \/ a \in retiring

(* The common tail of a poll arm whose session is over: the member's record
   becomes s; its assignment stays or goes; a member that stops is retired. *)
Settle(a, s, keepsPart, stops) ==
    /\ sup' = [sup EXCEPT ![a] = IF stops THEN Absent ELSE s]
    /\ assigned' = IF stops \/ ~keepsPart THEN assigned \ {a} ELSE assigned
    /\ stopped' = IF stops THEN stopped \cup {a} ELSE stopped
    /\ retiring' = retiring \ {a}
    /\ pending' = pending \ {a}
    /\ Done(a)
    /\ UNCHANGED <<health, online, paused>>

(* iteration_bound_reached: the fleet is spent, no session starts any more. *)
Spent == max_iterations # None /\ iterations >= max_iterations

(* record_iteration, at a boundary where the member does not stop anyway. *)
record_iteration(stopping) ==
    IF stopping \/ max_iterations = None
      THEN UNCHANGED runVars
      ELSE /\ iterations' = IF Spent THEN iterations ELSE iterations + 1
           /\ chunks' = chunks + 1
           /\ UNCHANGED max_iterations

(* No outcome: the member is healthy, unknown, or was never spawned. *)
PollQuiet(a) ==
    /\ Polling(a)
    /\ a \notin Registered \/ health[a] = "alive"
    /\ retiring' = IF a \in pending THEN retiring \cup {a} ELSE retiring
    /\ pending' = pending \ {a}
    /\ reconnecting' = IF health[a] = "none" THEN reconnecting ELSE reconnecting \ {a}
    /\ Done(a)
    /\ UNCHANGED <<sup, health, refusedItems, assigned, stopped, due, same, runVars, online, paused>>

CleanlyExited(a) == a \in Registered /\ health[a] = CleanExit /\ sup[a].child

(* on_clean_exit, a baton that continues: roll (an iteration of a bounded run,
   the last one retires), unless the spin guard trips and the part is parked
   blocked. *)
PollContinue(a) ==
    /\ Polling(a) /\ CleanlyExited(a)
    /\ \E action \in NextActions \cup {None}, key \in RepoKeys \cup {None} :
         LET s == Counted(sup[a], action, IF action = None THEN None ELSE key)
             trips == s.streak >= StallLimit
             stops == Stopping(a) \/ (~trips /\ Spent')
         IN  /\ IF trips THEN UNCHANGED runVars ELSE record_iteration(Stopping(a))
             /\ Settle(a, IF trips THEN Absent
                          ELSE [s EXCEPT !.child = FALSE, !.failures = 0, !.wait = 0],
                       ~trips, stops)
             /\ same' = [same EXCEPT ![a] =
                   IF trips \/ action = None THEN 0
                   ELSE IF action = sup[a].lastAction THEN @ + 1 ELSE 1]
             /\ refusedItems' = IF stops THEN refusedItems \ {a} ELSE refusedItems
    /\ reconnecting' = reconnecting \ {a}
    /\ due' = [due EXCEPT ![a] = 0]

(* on_clean_exit, an ITEM boundary: the member and its part leave the fleet,
   for its next part; an iteration of a bounded run too. *)
PollCompleted(a) ==
    /\ Polling(a) /\ CleanlyExited(a)
    /\ record_iteration(Stopping(a))
    /\ LET stops == Stopping(a) \/ Spent'
       IN  /\ Settle(a, Absent, FALSE, stops)
           /\ refusedItems' = IF stops THEN refusedItems \ {a} ELSE refusedItems
    /\ reconnecting' = reconnecting \ {a}
    /\ due' = [due EXCEPT ![a] = 0]
    /\ same' = [same EXCEPT ![a] = 0]

(* on_clean_exit, QUEUE_EMPTY, blocked on a human or STUCK: as above, and no
   iteration. *)
PollLeaves(a) ==
    /\ Polling(a) /\ CleanlyExited(a)
    /\ Settle(a, Absent, FALSE, Stopping(a))
    /\ reconnecting' = reconnecting \ {a}
    /\ refusedItems' = IF Stopping(a) THEN refusedItems \ {a} ELSE refusedItems
    /\ due' = [due EXCEPT ![a] = 0]
    /\ same' = [same EXCEPT ![a] = 0]
    /\ UNCHANGED runVars

(* on_clean_exit, HALTED_RATE_LIMIT: down but registered. *)
PollRateParked(a) ==
    /\ Polling(a) /\ CleanlyExited(a)
    /\ Settle(a, [ResetSpin(sup[a]) EXCEPT !.child = FALSE], TRUE, Stopping(a))
    /\ reconnecting' = reconnecting \ {a}
    /\ refusedItems' = IF Stopping(a) THEN refusedItems \ {a} ELSE refusedItems
    /\ same' = [same EXCEPT ![a] = 0]
    /\ UNCHANGED <<due, runVars>>

(* The network classifier: an exit (never a hang) of a member already deemed
   reconnecting, or seen while offline, or with a network signature. *)
network_exit(a) ==
    /\ health[a] \in ErrorExits
    /\ a \in reconnecting \/ ~online \/ health[a] = "network"

ErroredOrHung(a) == a \in Registered /\ health[a] \in ErrorExits \cup {"hung"}

(* on_network_exit, looked at before the consumed-exit guard. *)
PollReconnecting(a) ==
    /\ Polling(a) /\ ErroredOrHung(a) /\ network_exit(a)
    /\ Settle(a, [sup[a] EXCEPT !.child = FALSE, !.wait = 0], TRUE, Stopping(a))
    /\ reconnecting' = IF Stopping(a) THEN reconnecting \ {a} ELSE reconnecting \cup {a}
    /\ refusedItems' = IF Stopping(a) THEN refusedItems \ {a} ELSE refusedItems
    /\ UNCHANGED <<due, same, runVars>>

(* Mutant of PollDown: the consumed exit is not retired at its boundary. *)
PollDown_ignores_stop(a) ==
    /\ Polling(a) /\ a \in Down /\ health[a] \in Exits \cup {"hung"} /\ ~network_exit(a)
    /\ retiring' = IF a \in pending THEN retiring \cup {a} ELSE retiring
    /\ pending' = pending \ {a}
    /\ reconnecting' = reconnecting \ {a}
    /\ Done(a)
    /\ UNCHANGED <<sup, assigned, stopped, refusedItems, due, same, runVars, health, online, paused>>

(* Mutant of PollDown: runs the crash path on every sighting of the exit. *)
PollDown_recrashes(a) ==
    /\ Polling(a) /\ a \in Down /\ health[a] \in Exits \cup {"hung"} /\ ~network_exit(a)
    /\ Settle(a, Failed(sup[a]), TRUE, Stopping(a))
    /\ reconnecting' = reconnecting \ {a}
    /\ UNCHANGED <<refusedItems, due, same, runVars>>

(* A consumed exit seen again: inert, but a boundary for a pending stop. *)
PollDown(a) ==
    /\ Polling(a) /\ a \in Down /\ health[a] \in Exits \cup {"hung"} /\ ~network_exit(a)
    /\ Settle(a, sup[a], TRUE, Stopping(a))
    /\ reconnecting' = reconnecting \ {a}
    /\ refusedItems' = IF Stopping(a) THEN refusedItems \ {a} ELSE refusedItems
    /\ UNCHANGED <<due, same, runVars>>

DiedNow(a) == ErroredOrHung(a) /\ sup[a].child /\ ~network_exit(a)

(* on_rate_limit_exit: like the clean park, with the wait cleared. *)
PollRateLimitDeath(a) ==
    /\ Polling(a) /\ DiedNow(a) /\ health[a] = "ratelimit"
    /\ Settle(a, [ResetSpin(sup[a]) EXCEPT !.child = FALSE, !.wait = 0], TRUE, Stopping(a))
    /\ reconnecting' = reconnecting \ {a}
    /\ refusedItems' = IF Stopping(a) THEN refusedItems \ {a} ELSE refusedItems
    /\ same' = [same EXCEPT ![a] = 0]
    /\ due' = [due EXCEPT ![a] = 0]
    /\ UNCHANGED runVars

(* Mutant of PollModelRefused: parked without the endless wait. *)
PollModelRefused_no_wait(a) ==
    /\ Polling(a) /\ DiedNow(a) /\ health[a] = "refused"
    /\ Settle(a, [ResetSpin(sup[a]) EXCEPT !.child = FALSE, !.wait = 0,
                                           !.refused = TRUE], FALSE, Stopping(a))
    /\ reconnecting' = reconnecting \ {a}
    /\ refusedItems' = IF Stopping(a) THEN refusedItems \ {a}
                       ELSE IF a \in assigned THEN refusedItems \cup {a} ELSE refusedItems
    /\ same' = [same EXCEPT ![a] = 0]
    /\ due' = [due EXCEPT ![a] = 0]
    /\ UNCHANGED runVars

(* on_model_refused_exit: parked for ever; the part is parked blocked and
   latched for the reconcile pass. *)
PollModelRefused(a) ==
    /\ Polling(a) /\ DiedNow(a) /\ health[a] = "refused"
    /\ Settle(a, [ResetSpin(sup[a]) EXCEPT !.child = FALSE, !.wait = Forever,
                                           !.refused = TRUE], FALSE, Stopping(a))
    /\ reconnecting' = reconnecting \ {a}
    /\ refusedItems' = IF Stopping(a) THEN refusedItems \ {a}
                       ELSE IF a \in assigned THEN refusedItems \cup {a} ELSE refusedItems
    /\ same' = [same EXCEPT ![a] = 0]
    /\ due' = [due EXCEPT ![a] = 0]
    /\ UNCHANGED runVars

(* on_crash: a plain non-zero exit, or a hang (whose child is killed). *)
PollCrashed(a) ==
    /\ Polling(a) /\ DiedNow(a) /\ health[a] \in {"crash", "hung"}
    /\ Settle(a, Failed(sup[a]), TRUE, Stopping(a))
    /\ reconnecting' = reconnecting \ {a}
    /\ refusedItems' = IF Stopping(a) THEN refusedItems \ {a} ELSE refusedItems
    /\ due' = [due EXCEPT ![a] = Failed(sup[a]).wait]
    /\ UNCHANGED <<same, runVars>>

Poll(a) ==
    \/ PollQuiet(a) \/ PollContinue(a) \/ PollCompleted(a) \/ PollLeaves(a)
    \/ PollRateParked(a) \/ PollReconnecting(a) \/ PollDown(a) \/ PollRateLimitDeath(a)
    \/ PollModelRefused(a) \/ PollCrashed(a)

(* Mutant of Gated: the bound is not a gate. *)
Gated_unbounded == tick.gated

(* The gates on the tick's spawn half: paused or offline as it began, or the
   bounded run is over now. *)
Gated == tick.gated \/ Spent

(* reconcile_model_refused: parked members whose model resolution has moved
   off the refused one leave the fleet, to be started afresh. Then the tick's
   spawn half, unless it is gated. *)
Reconcile ==
    /\ tick.pc = "poll" /\ tick.todo = {}
    /\ \E edited \in SUBSET {a \in refusedItems \cap Registered : sup[a].refused} :
         /\ sup' = [a \in Agents |-> IF a \in edited THEN Absent ELSE sup[a]]
         /\ reconnecting' = reconnecting \ edited
         /\ refusedItems' = refusedItems \ edited
         /\ tick' = IF Gated THEN [tick EXCEPT !.pc = "idle"]
                    ELSE [tick EXCEPT !.pc = "roll", !.todo = Down \ edited]
    /\ UNCHANGED <<health, assigned, retiring, stopped, due, same, runVars, pending, online, paused>>

Rolling(a) == tick.pc = "roll" /\ a \in tick.todo

(* tick_with: held by the backoff, by the queue, by admission, or by the
   backend's slots (SpawnKind::Hold). The last three hold a member whose
   backoff is over; they depend on state outside this module. *)
RollHeld(a) ==
    /\ Rolling(a)
    /\ Done(a)
    /\ UNCHANGED <<fleetVars, pending, online, paused>>

(* Mutant of Rerolled: looks at the registration only. *)
Rerolled_early(a) ==
    /\ Rolling(a)
    /\ sup[a].wait # Forever
    /\ \E refuse \in BOOLEAN : AdmitRoll(refuse)
    /\ sup' = [sup EXCEPT ![a].child = TRUE]
    /\ health' = [health EXCEPT ![a] = "alive"]
    /\ reconnecting' = reconnecting \ {a}
    /\ due' = [due EXCEPT ![a] = 0]
    /\ Done(a)
    /\ UNCHANGED <<refusedItems, assigned, retiring, stopped, same, runVars, pending, online, paused>>

(* tick_with, admitted and spawned: the failure streak survives. *)
Rerolled(a) ==
    /\ Rolling(a)
    /\ sup[a].wait = 0
    /\ \E refuse \in BOOLEAN : AdmitRoll(refuse)
    /\ sup' = [sup EXCEPT ![a].child = TRUE]
    /\ health' = [health EXCEPT ![a] = "alive"]
    /\ reconnecting' = reconnecting \ {a}
    /\ due' = [due EXCEPT ![a] = 0]
    /\ Done(a)
    /\ UNCHANGED <<refusedItems, assigned, retiring, stopped, same, runVars, pending, online, paused>>

(* tick_with, the spawn fails: one more failure. *)
RollSpawnFailed(a) ==
    /\ Rolling(a)
    /\ sup[a].wait = 0
    /\ \E refuse \in BOOLEAN : AdmitRoll(refuse)
    /\ sup' = [sup EXCEPT ![a] = Failed(@)]
    /\ due' = [due EXCEPT ![a] = Failed(sup[a]).wait]
    /\ Done(a)
    /\ UNCHANGED <<health, reconnecting, refusedItems, assigned, retiring, stopped, same,
                   runVars, pending, online, paused>>

BeginStarts ==
    /\ tick.pc = "roll" /\ tick.todo = {}
    /\ tick' = [tick EXCEPT !.pc = "start", !.todo = Agents \ Registered]
    /\ UNCHANGED <<fleetVars, pending, online, paused>>

Starting(a) == tick.pc = "start" /\ a \in tick.todo

(* Nothing to start, or start_claiming said Queued, Refused, ClaimFailed,
   SpawnFailed or Hold: the member stays unregistered. *)
StartHeld(a) ==
    /\ Starting(a)
    /\ Done(a)
    /\ UNCHANGED <<fleetVars, pending, online, paused>>

(* start_claiming: admitted, claimed, spawned. *)
Started(a) ==
    /\ Starting(a)
    /\ a \notin retiring \cup stopped
    /\ \E refuse \in BOOLEAN : AdmitStart(refuse)
    /\ sup' = [sup EXCEPT ![a] = Fresh]
    /\ health' = [health EXCEPT ![a] = "alive"]
    /\ assigned' = assigned \cup {a}
    /\ due' = [due EXCEPT ![a] = 0]
    /\ same' = [same EXCEPT ![a] = 0]
    /\ Done(a)
    /\ UNCHANGED <<reconnecting, refusedItems, retiring, stopped, runVars, pending, online, paused>>

EndTick ==
    /\ tick.pc = "start" /\ tick.todo = {}
    /\ tick' = [pc |-> "idle", todo |-> {}, gated |-> FALSE]
    /\ UNCHANGED <<fleetVars, pending, online, paused>>

DriveStep ==
    \/ BeginTick \/ Reconcile \/ BeginStarts \/ EndTick
    \/ \E a \in Agents :
         \/ Poll(a)
         \/ RollHeld(a) \/ Rerolled(a) \/ RollSpawnFailed(a)
         \/ StartHeld(a) \/ Started(a)

Environment ==
    \/ \E a \in Agents : ChildActs(a) \/ KilledChildReaped(a) \/ RequestStop(a)
    \/ NetworkChanges \/ PauseOrResume

Next == DriveStep \/ Environment \/ TimePasses

(* The drive loop's thread keeps ticking. The clock runs during ticks too, so
   its steps, taken between ticks, are never put off for ever. *)
Fairness == WF_vars(DriveStep) /\ SF_vars(TimePasses)

Spec == Init /\ [][Next]_vars
FairSpec == Spec /\ Fairness
----------------------------------------------------------------------------
Supervised ==
    [registered : {TRUE}, child : BOOLEAN, failures : 0..MaxFailures, wait : 0..Forever,
     lastAction : NextActions \cup {None}, streak : 0..StallLimit,
     seenRepo : SUBSET RepoKeys, excused : 0..ExcuseLimit, refused : BOOLEAN]

(* Every record has its type; in particular the streaks stay below the limits
   that end them and the backoff below its cap. *)
TypeOK ==
    /\ sup \in [Agents -> Supervised \cup {Absent}]
    /\ health \in [Agents -> Exits \cup {"none", "alive", "hung"}]
    /\ reconnecting \subseteq Agents /\ refusedItems \subseteq Agents
    /\ assigned \subseteq Agents /\ pending \subseteq Agents
    /\ retiring \subseteq Agents /\ stopped \subseteq Agents
    /\ online \in BOOLEAN /\ paused \in BOOLEAN
    /\ tick \in [pc : {"idle", "poll", "roll", "start"}, todo : SUBSET Agents, gated : BOOLEAN]
    /\ max_iterations \in Bounds
    /\ iterations \in 0..(IF max_iterations = None THEN 0 ELSE max_iterations)
    /\ chunks \in Nat /\ chunks >= iterations
    /\ due \in [Agents -> 0..CapSecs]
    /\ same \in [Agents -> Nat]

(* The per-device cap holds however starts, crashes and re-rolls interleave:
   a member that is down keeps its slot (committed_count). *)
CapRespected == committed_count <= MaxConcurrent

(* A stopped member never comes back, and one that is being retired is in a
   live session: its boundary is the next exit, so it is no re-roll candidate
   (the boundary stop of PollOutcome::Down). *)
StopHonoured ==
    /\ stopped \cap Registered = {}
    /\ retiring \cap Down = {}

(* The spin guard lets one NEXT ACTION through a bounded number of sessions,
   however the repository moves: STALL_LIMIT - 1 per excuse, and the excuses
   are REPO_EXCUSE_LIMIT. *)
SpinBounded == \A a \in Agents : same[a] <= (ExcuseLimit + 1) * (StallLimit - 1)

(* A bounded run ends: from the fleet's last counted iteration only members
   that are in a session then finish one more, whatever crashes and re-rolls. *)
BoundedRun == max_iterations # None => chunks <= max_iterations + MaxConcurrent - 1

(* A member latched on a refused model is given no session by a tick, with one
   exception: the latched exit was taken for a lost connection, because it was
   polled while the device was offline. PollReconnecting looks before the
   consumed-exit guard, and on_network_exit replaces the endless wait by none,
   so that `tick` re-rolls a member which on_model_refused_exit says it never
   re-rolls. An edit of the roster or of the item ends the park otherwise, by
   taking the member out of the fleet. *)
ParkedNotRerolled ==
    [][\A a \in Down :
           health[a] = "refused" /\ sup'[a].registered /\ sup'[a].child
               => a \in reconnecting]_vars

(* A member that failed is not given a session before the backoff that failure
   armed has run out, with the same exception: an exit taken for a lost
   connection, then or on a later poll, cancels the backoff, also the one a
   failed re-spawn of the reconnecting member armed. *)
BackoffHonoured ==
    [][\A a \in Down :
           sup'[a].registered /\ sup'[a].child
               => due[a] = 0 \/ a \in reconnecting]_vars

(* The backoff of a member that is down does run out, although the latched
   exit is polled on every tick: an exit is consumed once. *)
BackoffExpires ==
    \A a \in Agents :
        (a \in Down /\ ~sup[a].refused)
            ~> (a \notin Down \/ sup[a].wait = 0)
=============================================================================
