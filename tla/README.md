# A TLA+ verification project for soft-fig

soft-fig keeps a "garden" (a directory of Markdown and source files) on a set of
paired devices and runs a fleet of coding agents over it. This directory holds
TLA+ models of the parts of it that several processes and threads work on at
once, the TLC configurations that check them, and proofs that TLAPS checks.
Paths below are relative to the repository root; `growlightd/` abbreviates
`crates/softfig-growlightd/src/`, `keeperd/` `crates/softfig-keeperd/src/`.

Contents: 1 inventory; 2 plan; 3 modules and code; 4 runs; 5 bounds;
6 fairness; 7 proofs; 8 findings and observations; 9 not modelled;
10 how to run.

## 1. Inventory

Two daemons do the work. **keeperd** owns the garden: it holds the unlocked
vault, writes the working tree, commits it to an encrypted history, and answers
verbs over a Unix socket, one at a time under its lock. **growlightd** supervises
the agents: a drive thread ticks, polls the agents' processes, reads the work
queues from keeperd, claims parts and spawns sessions; connection threads serve
the operator's and the agents' verbs. Everything between the daemons is a
round-trip that may fail before or after it took effect.

### growlightd

| component | state | operations | talks to | hard behaviour | correct when |
|---|---|---|---|---|---|
| lease arbitration (`leases.rs`, `daemon.rs`) | per key a holder and a FIFO of waiters; kill handles | `request_lease`, `release_lease`, `request_restart` | connection threads; harness (hard kill) | each verb takes the daemon lock two or three times and acts in between | one holder; FIFO; a reply sent after the lock was dropped is true; a restart excludes other restarts of its target and strands nobody |
| supervisor, admission (`supervisor.rs`, `admission.rs`) | per member: child, failure streak, `not_before`, spin counters, park | `poll` (nine outcomes), `tick`/re-roll, start, `stop`, backoff | drive loop; harness; baton; connectivity | exits stay latched and are polled again; time; going offline and back | cap respected; a backoff is waited out and ends; a park stays; the spin guard bounds repeats; a stop is honoured |
| agent harness (`agent_harness.rs`) | `live_scopes`, `kill_handles`, child per generation | spawn, reap, hard kill, kill of a hung child | drive thread, reader threads, connection threads | an old generation's reader cleans up after the new one was spawned | the running child is always registered; no stale entry; killed by one caller |
| drive loop, legacy queue (`drive_loop.rs`, `claim.rs`) | assignments, retiring/stopped, claim holds, tick locals | tick = poll pass, park, snapshot, re-roll, claim, spawn, heartbeat | keeperd (read, `set_item_status`), supervisor, scheduler, control | the snapshot is stale when a claim is written; claims and parks half fail | no two members on one part; members and keeperd's holders agree; work in row order; work is taken |
| scheduler (`scheduler.rs`, `queue_source.rs`) | none (pure) | `classify_queue`, `pick_for` | drive loop | pins, fallback, reserved queues | the head decides, a pin is preferred, a reserved queue is left alone |
| boot reconcile (`reconcile.rs`) | none | kill strays, reset orphaned `active` items | keeperd | crash between claim and reset; failed read or write | nothing is assigned twice across a restart |
| resume (`resume.rs`) | none | read, guard on `blocked`, write `queued` | keeperd | two round-trips, concurrent requests | never takes work away from a member in the fleet's view |
| operator control (`control.rs`) | pause flag, pending stops, inject lane | pause, resume, stop, inject | drive loop | a stop posted while the member is down | a stopped member does not come back |
| drive loop, queue v2 (`scheduler_v2.rs`, `v2_source.rs`, v2 branch of `drive_loop.rs`) | assignments (entry and unit), rolled entries, owed pauses, pausers, the mirror connection threads read | poll, end of a handoff, pause and its retry, overlay, pick, claim, spawn, publish | keeperd v2, connection threads | one list per tick, changed by verbs and the human before the claims; four kinds of hold over it | no entry and no repository worked on twice; an entry handed off is kept for its member; a session is not interrupted |
| member verbs and handoff (`member_verbs.rs`, `member_handoff.rs`, `member_slices.rs`, `server.rs`) | handoff per member | validate, log, a plan of several keeperd writes, commit | keeperd v2, drive loop | a write of the plan fails or lands unanswered; growlightd dies between two of them | the slice list stays one the scheduler can go on with |
| rate-limit holds, budgets (`rate_limit_holds.rs`, `profile_budget.rs`, `usage*.rs`) | holds with expiry, usage | note a limit, gate a spawn | supervisor | expiry against retries | a hold ends, and is kept until then |
| hub, bus, notifications (`hub.rs`, `bus.rs`, `notify_dispatch.rs`) | subscriber queues, cooldowns | publish, subscribe, dispatch | connection threads | full queue, slow subscriber | no subscriber blocks the daemon; cooldowns hold |
| backends, fleet assembly, batons | command lines, TOML, baton files | launch, parse, seed | harness | text and I/O | inputs of the models |

### keeperd and the libraries

| component | state | operations | hard behaviour | correct when |
|---|---|---|---|---|
| item status and holders (`actions/growlight/mod.rs`, `holders.rs`) | the queue table's status column (on disk), the holder map (in memory) | `set_item_status` with claimant, member and `if_status`; daemon cycle | clients race; a restart empties the holder map only | one active part per queue; a holder holds an active part; a holder is not replaced |
| queue v2 (`actions/growlight/v2`, `actions/growlight/queue_verbs.rs`, `crates/softfig-ipc/src/queue_v2`) | rows of `queue.toml`, slice lists per milestone | claim, statuses, follow-ups, sub-milestones, the human's entry and slice verbs | growlightd and the human write the same rows; a change of a running entry must wait | one started normal-lane entry per repository; a running entry changes hands only at a boundary |
| backlog and garden actions | Markdown | add, order, archive, batch | text editing | - |
| daemon, lock, watcher (`watcher.rs`, `fuse_sink.rs`, `actions/mod.rs`) | dirty paths, retry deadline, the daemon lock | flush, requeue, `commit_now` | two threads flush one buffer; a flush fails half-way; writes go on meanwhile | no write is dropped, no edit forgotten, every edit committed in the end |
| replica (`keeperd/replica.rs`, `net.rs`; `crates/softfig-net/src/replica.rs`) | mirror: commits, trees, objects, tip; owner's push loop and health | announce, walk, fetch, store, advance | a pull breaks off anywhere; two pulls of one owner overlap | the mirror is closed at every moment; it catches up or the host alarms |
| sharing (`net.rs`, `actions/shared_pull.rs`, `actions/sync_conflict.rs`) | each member's tip, pushes under way | sweep, adopt, resolve a conflict | pushes fail, repeat and are passed on; clocks disagree | members converge, no version is lost |
| vault (`crates/softfig-vault`) | wrapped keys, escrow shares | re-wrap, recover | crash between two files | some door opens |
| version control, object store (`crates/softfig-vcs`, `crates/softfig-store`) | commits, refs per chain, objects | commit, adopt a tree, collect, check | crash, collection against commit | reachable objects stay |
| network protocols (`crates/softfig-net`) | pairing, ceremony, turn | handshakes | lost and repeated messages | both sides agree |
| FUSE view (`crates/softfig-fuse`) | overlay with generations, composed view | write, snapshot, rotate | a rotation prunes the overlay while writes go on | the mount shows the newest write |
| deploy (`crates/softfig-deploy`) | plan | apply | interruption | plan and disk agree |
| wire protocol, clients, CLI, TUI, GUI, MCP | connection | one call, reconnect | ambiguous outcome of a call | - |

How they interact in the modelled part:

    operator/agents --verbs--> connection threads --lock--> Leases, Control
    drive thread: poll (Supervisor) -> snapshot (keeperd) -> re-roll -> claim
                  (keeperd) -> spawn (harness) -> heartbeat (keeperd)
    reader threads: reap a child, latch its exit, clear its registry entries
    keeperd: ItemStatus, one request at a time; may restart at any time
    human and members: set_item_status, directly on keeperd
    queue v2: connection threads run a member's verb as several keeperd writes,
              the drive thread ends the session and picks again
    keeperd: FUSE writes -> overlay -> flush threads -> commit -> rotate the view
             commit -> push loop -> replica host; sweep -> members of a chain

`PROJECT.json` lists the components with their status, and every hazard at its
line with the properties aimed at it.

## 2. Plan

Order: what decides whether two agents can be given the same work comes first,
then what keeps a session alive or stops it, then the rest of keeperd.

1. Done: `Leases`, `KillRegistry`, `Supervisor`; `ItemStatus` as the abstract
   specification of keeperd's item table; `FleetDrive`, which composes
   `ItemStatus` and `Scheduler` with the drive loop.
2. Done: `Replica`, a pull interrupted after every row, and overlapping pulls.
3. Done: `SharedChain`, pushes and conflict resolution between members, and
   `Garden`, from a write of the mounted garden to the commit.
4. Done: `QueueV2` (keeperd's tables), `SchedulerV2` (the pick) and `FleetV2`
   (drive loop, member verbs, human), which composes them.
5. Done: proofs of every safety property the runs check, invariant and action
   property alike (7). Next, the refinements: `Leases` as a FIFO lock per key,
   the two schedulers against the walk and the scans the code makes, and the
   remaining types of `FleetV2`.
6. Liveness of queue v2: a queued entry is taken by a free member. It needs the
   coherence of the slice lists as a hypothesis (8).
7. Later modules: `Vault` (re-wrap, escrow and recovery as file writes with a
   crash between any two; some door always opens), collection and check of the
   version control, the write turn, `RateLimitHolds`, `Hub` (bounded subscriber
   queues, cooldowns, the inject lane), `Deploy`, pairing and ceremony.

Each component gets one run with its safety properties and at most one with its
liveness.

## 3. Modules and code

| module | models | state | extends / uses |
|---|---|---|---|
| `Leases` | `growlightd/leases.rs`, the lease and restart verbs of `daemon.rs`, threads of `server.rs` | `held`, `threads`, `handles`, `reply`, `crossed` | |
| `Supervisor` | `supervisor.rs`, `admission.rs`, the tick of `drive_loop.rs` around them, `control.rs` | `sup`, `health`, `assigned`, `pending`, `retiring`, `stopped`, `tick`, ... | |
| `KillRegistry` | spawn, reader and kill of `agent_harness.rs` and `daemon.rs` | `gen`, `proc`, `child`, `spawning`, `scopes`, `handles`, `taken` | |
| `ItemStatus` | `keeperd/actions/growlight/mod.rs` `set_item_status`, `holders.rs` | `status`, `holder` | |
| `Scheduler` | `scheduler.rs` (operators only) | | |
| `FleetDrive` | `drive_loop.rs` (legacy queue), `claim.rs`, `reconcile.rs`, `resume.rs` | `session`, `assignment`, `stop`, `holds`, `refused`, `tick`, `resuming`, `faults` | EXTENDS `ItemStatus`, INSTANCE `Scheduler` |
| `QueueV2` | `keeperd/actions/growlight/v2/ops.rs`, `queue_verbs.rs`, `ipc/queue_v2/validate.rs` | `rows`, `items` | |
| `SchedulerV2` | `scheduler_v2.rs` (operators only) | | EXTENDS `QueueV2` |
| `FleetV2` | v2 branch of `drive_loop.rs`, `member_verbs.rs`, `member_handoff.rs`, the v2 mirror of `daemon.rs`, `server.rs` | `session`, `asg`, `rolled`, `toPause`, `pausedBy`, `stop`, `mirror`, `handoff`, `tick`, `play` | EXTENDS `SchedulerV2` |
| `Replica` | push loop of `keeperd/net.rs`, `keeperd/replica.rs`, `softfig-net/src/replica.rs` | owner, mirror, `sess`, `ingest`, `ended`, `faults` | |
| `SharedChain` | sweep and receiver of `keeperd/net.rs`, `shared_pull.rs`, `sync_conflict.rs` | `tip`, `wire`, `clock`, `edits`, `events`, `over`, `dropped` | |
| `Garden` | `keeperd/watcher.rs`, `fuse_sink.rs`, `actions/mod.rs`, `softfig-fuse/src/fs.rs`, `overlay.rs`, chains of `softfig-vcs` | `overlay`, `view`, `tip`, `buffer`, `armed`, `nudged`, `stoodDown`, `handler`, `job`, ... | |
| `LeasesProofs`, `KillRegistryProofs`, `SupervisorProofs`, `FleetDriveProofs` (with `ItemStatus`), `FleetV2Proofs` (with `QueueV2` and `SchedulerV2`), `ReplicaProofs`, `SharedChainProofs`, `GardenProofs` | proofs | | each EXTENDS its component |
| `MCLeases`, `MCSupervisor`, `MCKillRegistry`, `MCFleetDrive`, `MCFleetV2`, `MCReplica`, `MCSharedChain`, `MCGarden` | TLC instances | | |

**Leases.** Each lock section of a verb is a step. `RequestLease` is the section
that calls `LeaseTable::request`; `AnswerGranted` and `AnswerWaiting` are what
follows it (the waiting answer re-reads the holder). `RequestRestart` takes the
restart key, `HardKill` takes the kill handle outside the daemon lock,
`DrainRestart` releases the key and everybody queued behind it. `RegisterHandle`
and `DropHandle` are the harness as this module sees it. `Cycle` is a restart of
growlightd. Keys are opaque; that agents do not name `restart:` keys themselves
is an assumption. Every connection has a thread of its own, so an agent may have
several calls in flight, two restarts of one target among them. `crossed` is a
history variable: the threads whose key another call of their own agent has drained
or given up meanwhile.

**Supervisor.** A tick polls every member (`Poll*`, one action per
`PollOutcome`), reconciles model-refused parks (`Reconcile`), re-rolls
(`Rerolled`, `RollSpawnFailed`, `RollHeld`) and starts (`Started`, `StartHeld`).
`ChildActs` and `KilledChildReaped` are the processes, `NetworkChanges` the link,
`PauseOrResume` and `RequestStop` the operator. `not_before` is kept relative to
the clock (`wait`); `i64::MAX` is `Forever`, which time does not count down.
A latched exit is polled again on every tick, and while the link is down
`PollReconnecting` takes it for a lost connection, whatever the member waits for.
`paused` stands for every gate that only keeps spawns back (pause, a superseded
binary); rate budgets are one nondeterministic refusal. The bounded run
(`max_iterations`) is modelled here and not in `FleetDrive`. `due`, `same` and
`chunks` are history variables that only properties read.

**KillRegistry.** A spawn is three steps (`Launch`, `RecordScope`,
`RegisterKill`), a reader thread after end of file three more (`RecordExit`,
`DropScope`, `DropHandle`), a hard kill two (`TakeHandle`, `HardKill`): these are
the points where the code holds no lock.

**ItemStatus.** `set_item_status` with its guards in the code's order: the member
guard, `if_status`, the holder's compare-and-set, the single-active rule. A
refused request changes nothing and is no step. `DaemonCycle` empties the
holder map. `ItemSpec` lets any client send any request: it is the contract.

**FleetDrive.** One tick is: `BeginTick`; per member a `Poll*` action, in roster
order, with the park of its item; `ReadSnapshot`; per member `Rerolled` or
`RollHeld`; the re-assertion for the re-rolled (`Reasserts` in "rebeat"); per
member one of `StartSkips`, `StartsNothing`, `SkipsForeign`, `SkipsMarked`,
`Claims` and then `Spawned` or `SpawnFails`; and, when due, the heartbeat
(`BeginBeat`, `Reasserts`). A failed round-trip (`Fails`) may or may not have
taken effect where the code cannot tell (claims); a read that fails gives the
empty view. `Restart` loses everything growlightd keeps in memory and goes
through `ResetOrphan`. `refused` is the latch of a refused model: the exit records
it when the member had a part, and `ReadSnapshot` frees members whose model was
edited. With "offline" in `Env` the latched exit of a parked member may be polled
while the device is offline (`PollParked`): it goes to reconnecting and is re-rolled
without a part. Streaks, backoff and the cap are left to `Supervisor`:
`RollHeld` and `StartSkips` stand for all the reasons to wait. A member whose
pinned queue's head a peer works on idles, in the code as in the model.

**QueueV2.** One operator per verb of keeperd, with the verb's refusals as its
guard; each verb runs under keeperd's lock and lands in one commit. `rows` holds
status, pending change and follow-up count of each entry, `items` the slice list
of each milestone and sub-milestone, by its path. `RepoFree` is the validator's
rule that a repository has one started entry in the normal lane; `EntryLands` is
how a pending human change wins at the next boundary. Left out: adding, moving
and restacking entries (their order is fixed), the session log and the
deferred-tests file, which change no row.

**SchedulerV2.** The code finds the next unit of a milestone by recursion, a
sub-milestone's list in its place, and the entry by loops over the lanes. The
module says what they find: `Walked` are the trees the recursion comes to, and the
last of them yields the unit (`walk_tree`); `able` are the places in the file order
the member may take, and each lane and the member's own entries choose among them
(`pick_v2`). The form can be proved about without induction over the trees. That
it agrees with the recursion and the loops was compared with TLC on 42,700 views:
every status and holder of four entries, and every shape of a milestone's lists down
to a sub of a sub. A project is its repository; models and backends come down to
`Runs`, the entries a member can run.

**FleetV2.** A verb is `VerbBegins` (validation against the published
assignment and the list as it is now, and the plan), `VerbLogs` or `VerbAborts`,
one `VerbWrites` per keeperd write, `VerbCommits`. A write may be refused, fail,
or land with its answer lost; after the log that is a warning (`warned`). The
tick is: per member a `Poll*` action (`PollParked` as in `FleetDrive`) or
`end_handed_off_session`; `LoadsList` or `LoadFails`, both after
`reconcile_model_refused`; `RetriesPause` per owed pause; `Rerolls` (with the overlay) or
`GateShut`; per member `StartSkips` (with the rate-limit hold, which comes before
everything else), `StartPauses`, `StartHeld`, `SpawnFails` or
`Starts`; `Publishes`. `Restart` is a death of growlightd at any point. The
iteration bound, backoff and cap are in `Supervisor`. Two assumptions: a session
does not end while it waits for the answer of its verb, and a session started in
a tick calls no verb before that tick's publish (`drive_loop.rs:3243`). An exit is
seen at the poll; what happened before it is the same as if it came later.
Members have an assignment or `NoAsg`. The plan of a verb (`Writes`) is computed
from the assignment the mirror published and the lists as they are then.

**Replica.** The owner's chain is 1, 2, ...; it pushes from one thread. The host
serves each connection in a thread of its own: it reads the grant (`IgnoresGrant`
with the host's role off or a grant that does not verify, `AcceptsGrant` with the
opening of the mirror, which may fail), then `GetTip`, `Walk`, `CheckBase`, then
the pipelined fetch (`RecvTree`, `RecvObject`, `StoreTree`) and `StoreCommit`,
`AdvanceTip`. Every stored row is a step, so `HostCrash`, `StoreFails`,
`ReadFails` and `HangUp` come between any two. After `HangUp` the owner may dial
again while the old thread still stores. `ended` is a history variable: how the
host's end of the newest push ended.

**SharedChain.** `Push` is one message of the sweep with the tip's tree and its
parent's; `Receive` is the receiver's section of the daemon lock: already there,
fast-forward (`Adopt`, which passes the push on), or conflict (`Resolve`). Each
device stamps with its own clock. `over` and `dropped` are history variables: the
edits somebody who had them wrote over, and the ones a resolution gave up
(`GivenUp`: what the device held under other names and does not hold any more). The
write turn, which orders local commits of
members that reach each other and never stops a pull, is left out.

**Garden.** A FUSE write is `EditStage`, `EditPush`, `EditNudge`. A flush thread
is `Take`, `clear_retry`, `Begin`, then with verbs the common commit steps
`Snapshot`, `Commit` per chain, `Finish`, and the failure of each; `EndFlush`
requeues what failed and arms the retry. A verb stages and commits
(`VerbStage`, `commit_now`) or fails half-way (`VerbFails`). `Pull` is a peer's
edit of the shared chain; `set_registry` recomposes the view without a commit. The
watcher's `process_batch` may come at any time, because every commit writes below
the watched state directory. `Absorbed` and `rotate_tip` prune the overlay by
generation. `newest`, `edited` and `stoodDown` (the edits whose retry was cancelled
by a thread that did not take them) are history variables.

## 4. Runs

| run | asks | size |
|---|---|---|
| `leases` | the table under interleaved verbs and daemon restarts. `TableWellFormed`, `FifoHandOver`: hand-over keeps everybody's place. `AnswersTrue`: replies sent after the lock. `RestartHeld`, `NoPhantomRestartHolder`: a restart excludes other requesters from grant to drain and leaves no holder whose call is over. `RestartRepeatable`: a granted restart frees its key again | 94,406 states |
| `kill_registry` | `RunningIsRegistered`: old readers, new spawns and hard kills in any order. `EntriesCleared`: an ended process leaves no entry, a taken kill lands | 17 thousand |
| `supervisor` | three members under a cap of two, all exits, unbounded and bounded to two iterations. `CapRespected`; `TypeOK`, with the saturating backoff; `BoundedRun`: how far a bounded run overshoots | 959,195 |
| `supervisor_offline` | one member, a link that comes and goes, operator pauses and stops, a repository that moves. `StopHonoured`, `SpinBounded`, `BackoffExpires`. `ParkedNotRerolled`, `BackoffHonoured`: nothing but an exit taken for a lost connection cuts a park or a backoff short | 269,112 |
| `fleet` | two members pinned to one queue; human, resume, keeperd cycles, restarts and a failure between any two round-trips. `OneMemberPerPart`, `HolderIsTheMember`; keeperd's `SingleActive`, `HolderNotStolen` | 487,932 |
| `fleet_order` | pins, fallback, a held part, stops, every exit and handoff, polls off line, four kinds of failure. `PinnedQueueKept`, `PartsInOrder`, `HandoffKept`; `PartOrLatch`: a registered member has a part or the latch of the model it was refused | 499,385 |
| `fleet_live` | fair drive loop, keeperd cycles, failed claims, spawns and heartbeats. `HolderRestored`, `WorkTaken` | 44,200 |
| `fleet_v2` | two members on queue v2; an urgent task, a task and a milestone of one repository; five plays of verbs, exits, faults and human verbs. `SessionsApart`: no entry and no repository worked on twice. `OnlyOldHoldsInterrupt`: nothing but an owed pause or an old roll takes a running session's entry away. `HandoffsKeepListsCoherent`: a handoff, whole, warned or cut short, leaves a list the scheduler can go on with, but for one named write. `KeptForItsMember`: an entry handed off goes to nobody else | 1,293,987 |
| `replica` | two connections, overlapping after a hang-up, and two faults between any two rows. `MirrorComplete`: what is stored is closed. `HonestPushMirrored`: all that an "ok" of the owner can mean. `RecoversOrAlarms`: after faults the mirror catches up, or pulls are turned away for ever | 996,105 |
| `shared_chain` | three members, two writers, two files, clocks that disagree, lost pushes. `NoEditVanishes`: what somebody wrote is on some member's chain until it is written over by one who had it, or given up by a resolution about another file. `LoneEditSpreads` | 141,286 |
| `garden` | editor writes, verbs, two flush threads, pulls, a failing step. `WriteKept`: no rotation drops a write. `EditTracked`: no flush forgets a path. `EditSaved`: an edit is committed, unless the other thread cancelled its retry | 387,101 |
| `shared_split` | expected violation of `Converges`, see 8 | |

Every property of a passing run has a mutant in `PROJECT.json`: a definition of
the model changed the way a bug in that code would change it, under which TLC
finds the property violated. The mutated definitions stand in the modules just
before the ones they replace.

Some properties need the environment of their run and say so by where they are
checked. `PartsInOrder` is checked without resume requests, because a resumed row
is behind parts that were started meanwhile.
Where the code breaks a sentence of its own comments, the property does not leave
the case out of the run: it names the case, and says that there is no other
(`RestartHeld`, `ParkedNotRerolled`, `BackoffHonoured`, `HandoffsKeepListsCoherent`,
`HonestPushMirrored`, `NoEditVanishes`, `EditSaved`; 8 quotes the comments).

## 5. Bounds

- `leases`: three agents make a holder, a waiter and one behind it, or two
  requesters and a target; two threads make every pair of lock sections meet, of two agents and
  of one; one agent is supervised, the target of restarts; one
  resource is enough because no step relates two resource keys.
- `kill_registry`: four generations give an old reader, a current child, a
  respawn during a pending kill and one more; agents do not share entries.
- `supervisor`: three members over a cap of two is the least that can overshoot;
  `MaxFailures` is past the streak at which the doubled delay meets the cap.
  `supervisor_offline`: `StallLimit` 2 and one excuse reach the guard and its
  excuse; two NEXT ACTION texts and two repository keys tell "same" from "other".
  Symmetry is used only in `supervisor`, which has no liveness property.
- `fleet*`: two members compete; two parts give a head and a successor; a second
  queue gives the fallback. `Init` is a queued backlog and an empty fleet: other
  backlogs are reached through handoffs, the human and restarts.
  `MaxFaults` 1: a single failure at every round-trip.
- `fleet_v2`: two members compete; one repository with two normal-lane entries,
  of which one member can run only one, lets both be picked from one list, so
  that keeperd's backstop decides; the urgent task makes members move on and
  pause; one slice, one insert and one sub-milestone give every shape of list a
  plan can make. Entries start queued: the other statuses are reached. A *play*
  names the verbs, exits, human verbs and failing round-trips a behaviour may use
  and how many of them (3, 3, 2, 3 and 4): all at once is past TLC. Follow-ups go
  to 2: with a cap of 1 no two members ever hold one entry at a time (8). Plays that mix
  all verbs with the human in the lists and with failures of every kind were also
  run (4 to 8 million states, the largest ones not to the end) without an error.
- `replica`: two commits that share a subtree, one with an object of its own, make
  the short-circuits of the pull matter; two connections overlap; two faults let
  a recovery be interrupted again.
- `shared_chain`: the third member makes pushes passed on; two writers make a
  conflict, a second file makes the loss of the loser's other files visible, a clock
  of two values makes ties and wrong orders. `MaxEvents` 3 bounds edits, ticks of
  clocks and lost pushes together: two edits that conflict and one thing more.
  `NoEditVanishes` was also checked with 4 (3.7 million states).
- `garden`: one path of each chain; three writes (a staged one, one after the
  snapshot, one more), one fault.
- `ExitsUsed`, `Handoffs`, `Env` and `Faults` choose what a run lets happen;
  between them the runs let everything happen. The proofs assume nothing about
  them beyond their types.
- `CHECK_DEADLOCK FALSE` appears in `kill_registry`, where the bound on
  generations ends the behaviour, and in `shared_chain`: once the events are used up
  without an edit, members at their first commit have nothing to push. All the
  others run for ever.

## 6. Fairness

- `Leases`: weak fairness of each connection thread's next section. Threads
  compute and take a short lock; none of them waits for another.
- `KillRegistry`: reader and kill threads are scheduled, a spawn that began
  returns. Nothing makes a process exit.
- `Supervisor`: the drive thread ticks until the daemon shuts down
  (`spawn_drive_loop`), so `DriveStep` is weakly fair. The clock is
  strongly fair: in the model it moves between ticks only, in the code it also
  runs during them, so a tick always in the way must not stop it.
- `FleetDrive`: the same drive thread; and the heartbeat, due every
  `CLAIM_REASSERT_SECS`, is taken if ticks reach the point for it again and
  again. Sessions, the human, keeperd cycles and failures are never fair.

- `FleetV2` states no fairness: its run checks safety only.
- `Replica`: the push loop and every ingest thread keep going while the process
  lives; commits and faults are not fair.
- `SharedChain`: each member's sweep is repeated for each other member (strong
  fairness: `MaxWire` bounds what is under way and may disable it in between), and
  what arrives is served. Edits, clocks and losses are not fair.
- `Garden`: the FUSE session, the flush loop and threads that hold or wait for the
  daemon lock go on. The watcher's own wake-up is not fair: it needs events.

## 7. Proofs

Every invariant and every action property of the passing runs is proved as a
theorem of its specification (`PROJECT.json`, "theorems"); the runs check the same
formulas on the instances.

**From what.** The theorems hold for all agents, parts, queues, entries, trees,
paths, devices and connections, any limits and any bounds, that satisfy the named
assumptions of the modules. Those say no more than types, but for these:
`RosterDistinct` in `FleetDrive` and `FleetV2`
(members have different ids, `growlightd/fleet.rs:737`); `SlicesDistinct`
(keeperd refuses two slices with one id, `ipc/queue_v2/validate.rs:364-366`);
`QueueConstants` (the urgent lane comes first in the file order);
`SupervisorConstants` (the longest backoff is no shorter than the first, a bounded
run counts from 1); `ReplicaAssumption` (trees and blobs are different objects).
`MaxWrites`, `MaxGen`, `MaxCommits` and the like are arbitrary numbers: a theorem
holds for each of them, so for behaviours of any length.

**LeasesProofs.** `TypeOK` says too little for the table: that a release
promotes a waiter without leaving it in the queue needs that nobody waits twice.
With `TableWellFormed` it gives `FifoHandOver`. `RestartHeld`,
`NoPhantomRestartHolder` and `AnswersTrue` follow from the inductive `LeaseInv`:
types, table, `KeysByKind` (a thread in a kill or drain has a restart key),
`InFlight` (what a thread between two lock sections has been told is still so, unless
a call of its own agent crossed it) and `NoPhantomRestartHolder`. `InFlight` is
inductive because a key leaves its holder only by a call of that holder, and such a
call puts the other threads of that agent and key into `crossed`.

**KillRegistryProofs.** `RegistryInv` says per agent that the supervisor's child is
the newest generation, that generations not spawned yet have no reader, and that
from the scope's insert until its own reader clears it the scope entry is the
newest generation's. A late reader compares tokens before it clears, so it finds
a newer one and leaves it: the argument for `RunningIsRegistered`.

**SupervisorProofs.** `TickInv`: the members a tick still has to re-roll are down
and the ones to start are not registered, so each step of the spawn half finds the
record it writes. It carries `TypeOK` and `CapRespected` (a member that is down
keeps its slot). `StopInv` adds that a member that is down is never latched
"alive", without which a quiet poll could count a stopped one as retired. `RunInv`
is `BoundedRun` with the boundaries already counted: before the last counted
iteration every boundary is counted, from then on each straggler leaves the fleet.
`SpinInv` bounds the repeats of one NEXT ACTION by what the excuses and the streak
account for. `WaitInv` (what is left of a backoff is waited for, and a refused member
is down and waits for ever, unless it is marked as reconnecting) gives
`ParkedNotRerolled` and `BackoffHonoured` for any link.

**FleetDriveProofs.** keeperd first: `HoldersActive`, `OneActivePerQueue`
and `HoldersKept` hold for `ItemSpec`, that is, for any clients. The fleet writes
keeperd's table by its verbs only (`FleetIsClient`, which holds by the way the model
is built), so these hold of it too (`FleetOneActive`). `FleetInv` is `TypeOK`,
`PartOrLatch`, `ClaimInHand` and `OneMemberPerPart`. `PartOrLatch` is inductive
because the first exit on a refused model records the latch with the loss of the
part, and a later one of a member without a part leaves it. `ClaimInHand` (between its
claim and its spawn a part is nobody's assignment) is there for the induction: the
check that a part is not spoken for happens at the claim, the assignment only at the
spawn. On top of it, one invariant per property, each about what a claim leaves to
the spawn or what a snapshot still means: `ClaimHeld` for `HolderIsTheMember`;
`PinInv` for `PinnedQueueKept`; `OrderInv` for `PartsInOrder` (what the snapshot
shows as finished still is, so the part claimed is the first one it does not roll
past); `HandInv` for `HandoffKept` (a part the snapshot shows queued is untaken, or
taken by a claim of this tick whose member has no session yet). `PartsInOrder`
assumes no human and no late resume, `HandoffKept` no human: their writes are
what an unconditional claim does not see (8).

**FleetV2Proofs.** `IInv` is inductive and carries `SessionsApart` and
`OnlyOldHoldsInterrupt`: records and types, `RepoInv` (keeperd's own promise: one
started normal-lane entry per repository), `LoopInv` (a member has an assignment
exactly while it has work; only a member that is out holds a handed-off entry),
`ApartInv` (no entry in two assignments), `TickInv` (a pause to retry is owed),
`MirrorInv` and `HandoffInv` (a handoff belongs to a live session, is about its
assignment, and sets the status of no entry but its own). `SessionsApart` needs both
keeperd's promise, across claims from an old list, and the loop's own `spoken`.
`FullInv` adds what the two properties about handoffs need: `PendInv` (no pending
change is "active"), `ListsInv` (ids of a list are distinct and at most one item
is active), `UnitInv` (an assigned unit is in a tree of its entry), `PlanInv` (an
insert of a plan comes right after the write that takes the active slice off, or
finds its list quiet, or its session has been warned), `TodoInv`
(the members still to start are different) and `KeptInv` (while the starts
run, an entry handed off is laid over a member that may have it, or is not active
any more). `HandoffsKeepListsCoherent` follows write by write, for every plan and
every point at which it fails or is cut short; `KeptForItsMember` from the overlay and the
fact that the picked entry is one the member may take (`PickEligible`).

**ReplicaProofs.** `MirrorInv` is `MirrorComplete` with, per connection, what its
thread has in hand: a child that is not stored is waited for (`OpenInv`), the root
of the next commit is stored or in hand (`RootInv`), the gathered gap reaches from
the base to the announce (`ChainInv`). Others only add rows, so a thread's part
survives overlapping connections. `HonestPushMirrored` needs two more: `HonestInv`
(while nothing has failed there is one connection at a time, it works for the newest
announce and the host has no reason to refuse it, but it may ignore its grant) and,
with faults or without, `EndedInv` (announces grow; a push that ended well has left
the mirror at what it announced, unless the thread of a connection the owner had
given up moved the tip since, and its commit is there in any case).

**GardenProofs.** `LockInv` (one thread between snapshot and end), `KeepInv` (a
path's newest write is staged, or in the chain's ref and in the view; a captured
snapshot has it, or it came after the cut and is staged) gives `WriteKept`.
`TrackInv` gives `EditTracked`: when a flush is done with a path that is still
uncommitted, somebody else answers for it.

**SharedChainProofs.** `NoEditVanishes` alone is not inductive: a fast-forward
replaces a tip by a tree that may lack what the tip held. `VanishInv` adds `AllBuild`:
a commit with a base, on a chain or on its way, holds all that its base holds, but for
what was written over or given up. A fast-forward is from that base, so it loses no
more; a resolution keeps both versions of its file (`ResolutionKeeps`) and gives up
what `GivenUp` says.

**Only model-checked.** `RestartRepeatable`, `BackoffExpires`, `EntriesCleared`,
`HolderRestored`, `WorkTaken`, `RecoversOrAlarms`, `LoneEditSpreads` and
`EditSaved`: liveness under fairness, which TLAPS does not do here. So is
`Converges`, which a run refutes. `TypeOK` of `FleetV2` holds on the instance of
`fleet_v2` and is not proved: `IInv` has the types its proofs need.
`HolderMeansActive` and the type invariants of `Leases`, `KillRegistry`, `FleetDrive`,
`Replica`, `Garden` and `SharedChain` are proved and not checked by a run of their
own.

## 8. Findings and observations

One run shows a disagreement between the code and what its comments say:

- `shared_split`. "**Convergence is by construction.**"
  (`keeperd/actions/sync_conflict.rs:14`) and "a third member catches up as a
  normal fast-forward" (19-20). A push carries the tip's tree and its parent's
  only (`keeperd/net.rs:3104`). A member that missed a push holds a tree that is
  neither, cannot resolve the conflict, and stays behind although every later push
  arrives. The run has one writer, one reader and two edits between two pushes.

What was seen while modelling, without a run of its own:

Leases, supervisor, legacy queue

- two restarts of one target by one requester on two connections are both granted,
  and the one that drains second finds nothing: "the requester just held the restart
  lease, so its drain must succeed" (`daemon.rs:708-710`, a `debug_assert`). Between
  the two drains another requester may be granted. `RestartHeld` excepts those
  threads (`crossed`) and holds of all others;
- a waiting reply may name the caller itself, or nobody, when the key changed
  hands before the second lock section (`daemon.rs:621`, against
  `crates/softfig-ipc/src/growlightd.rs:846-856`); `AnswersTrue` says what does hold;
- a bounded run described as "EXACTLY" (`drive_loop.rs:1580-1581`) overshoots by
  up to the cap minus one; `BoundedRun` states the bound that holds;
- "Pin `not_before` past every reasonable now so `tick` never re-rolls this agent"
  (`supervisor.rs:1264-1265`): a parked member's exit is polled on every tick, and
  while the device is offline the network path comes before the consumed-exit guard
  (1212) and sets `not_before` to now, so the member is re-rolled when the link is
  back. The same path cancels a crash's backoff, against "tick owns the re-roll once
  the already-armed backoff elapses" (548-552). `ParkedNotRerolled` and
  `BackoffHonoured` are checked with a link that comes and goes, and say that this is
  the only way;
- the member so re-rolled has no assignment (`drive_loop.rs:2420-2449`). Its session
  works on the part that was parked as blocked, in keeperd's view nobody's, and a
  resume may hand that part to another member meanwhile. Its latch stays, so
  `PartOrLatch` holds and an edit of the model frees, and kills, it;
- "An ambiguous claim that actually landed is harmless" (`claim.rs:34-36`): an
  active head in no assignment is foreign to the drive loop and skipped, so nobody
  takes the part up before growlightd restarts. A failed spawn
  (`drive_loop.rs:3146-3147`) and a failed park (205-208) end the same way;
- the claim is unconditional, so a part the human made active after the snapshot
  is claimed (`drive_loop.rs:3029-3030`, `claim.rs:136`);
- a late resume write re-queues a part that has been done or active since
  (`resume.rs:34`, `39-40`, `250`); the fleet's own invariants survive it.

Queue v2

- `new_scope`: when the write that re-queues the slice fails (a warning) and the
  insert lands, the list is [new queued, old active] and every later claim is
  refused, against "ordered so a later failure leaves the list coherent"
  (`member_handoff.rs:25-29`). It is the only write of any handoff that does so, which
  `HandoffsKeepListsCoherent` says (`InsertsPastActive`). A human insert, un-defer or move in front of the
  active slice does the same, and so does one between the tick's read and its claim;
- an owed pause is not crossed off when its entry is resumed
  (`drive_loop.rs:2748-2763`, "bookkeeping for this entry is spent"). After one lost
  pause answer, or two failed pauses, the retry pauses the entry under the session
  that runs it, whose verbs are then refused; if the human then re-queues or defers
  the entry, another session starts in the same repository. The owed pause also
  outranks another member's roll in the overlay. `OnlyOldHoldsInterrupt`,
  `KeptForItsMember` and the third condition of `SessionsApart` are about exactly
  this;
- two members may hold one entry at a time. A pause lands with its answer lost and
  stays owed; the entry is resumed by a member, which rolls it on while the owed
  pause is retried and lands; another member then resumes the paused entry at a
  claim that finds it paused, the first one's pick is refused as claimed and keeps
  its `v2_rolled` (`drive_loop.rs:2632-2663`), and when the second rolls too, both
  hold it, the later one in the map outranking the other in the overlay (3755).
  `KeptForItsMember` therefore excepts a member that has handed the entry off too;
  it is false without that;
- the pauses are retried after the list was read, and the pauser of an entry the
  list shows active is dropped at once (`drive_loop.rs:2539-2545`);
- a session that exits before its verb is answered leaves the verb's writes under
  way: they may block or complete the entry under another member's session, and
  `end_handed_off_session` does not compare assignments. `FleetV2` assumes this away;
- a lost answer of the session log makes "nothing was written" false, and the
  retry logs twice (`member_handoff.rs:18-24`);
- a session that blocked or completed its entry lives through the grace, so the
  next entry of its repository may start beside it: `SessionsApart` counts sessions
  that have not handed off;
- `slice_update` changes an active slice at once, where `queue_update_entry` waits
  for the boundary; exits by baton never apply a pending change.

Replica

- a crash, disk error or hang-up between the first stored commit and the new tip
  leaves stored commits that are not the tip; every later pull is then refused as
  a fork: a false alarm that does not end. `RecoversOrAlarms` allows it;
- `advance_tip` looks at nothing, so the thread of a dead connection can move the
  tip back after its successor moved it on, and the same refusals follow;
- the owner takes the end of a connection for success: a host whose role is off, that
  rejects the grant, cannot open its mirror or refuses the pull
  (`keeperd/net.rs:2171-2192`) is recorded as `PushOutcome::Ok` (3027-3029), against
  "A full round-trip succeeded — commits were served, or the host was already at our
  tip" (`replica_health.rs:62-64`). `HonestPushMirrored` lists all that "ok" can mean.

Sharing

- with one writer only, a peer's sweep can push the writer's old tip back to it:
  a conflict, a sidecar and, as above, a split;
- a sweep stamps again with the time of the sweeping device, against "LWW key must
  survive relays intact" (`keeperd/net.rs:2407`);
- "without losing work" (`sync_conflict.rs:2`) holds of the one file a push names:
  the winner's whole tree is taken, and the loser's edits of other files, its earlier
  sidecars and a sidecar of the same name go. `NoEditVanishes` counts exactly these
  out (`GivenUp`, `dropped`); they occur in the run;
- two fast-forwards that cross can swap two members' trees again and again.

Garden

- the watcher takes an empty buffer, the FUSE flush fails, requeues and arms the
  retry, the watcher's `clear_retry` disarms it, and the requeued write waits for the
  next event, against a retry "with no new filesystem event" (`watcher.rs:43-46`,
  541-547). `EditSaved` names this race (`stoodDown`) and is violated without the
  exception;
- a verb's write that was deferred on a write turn, or staged by a verb that
  failed, has no dirty event: it is committed with the next commit of its chain;
- after a pull whose recomposition failed the view is stale, and the next commit
  of another path of that chain takes the peer's edit back; a pull over a staged
  write of the same path is overwritten by the next flush without a conflict;
- a shutdown drops the edits of the last debounce window (`watcher.rs:295`).

## 9. Not modelled

- **Text and I/O**: backends, configuration, fleet assembly, batons, Markdown
  editing, the user interfaces and bridges, message formats, the object store. What
  the models need of them (exits, rosters, statuses, rows) enters as inputs. They
  are most of the repository's lines; a model of them would restate them.
- **External**: cryptography, SQLite, systemd, the kernel's side of FUSE.
- **In the plan**: vault, collection and check of the version control, the write
  turn, rate-limit holds and budgets, hub and notifications, deploy, pairing and
  ceremony; liveness of queue v2.
- **Left out of modelled parts**: token counting and the stderr ring of the
  harness; the Markdown of the legacy queue table, and adding or reordering its rows
  while the fleet runs; adding, moving and restacking entries of queue v2, accepted
  model changes and alerts; directories, renames and deletions in the mounted
  garden; unlock, relock and shutdown of keeperd; health rows of chains and replicas;
  more than one owner per host.

## 10. How to run

    tlc -workers 2 -config MCFleetDrive.cfg MCFleetDrive
    tlapm FleetDriveProofs.tla

`PROJECT.json` names the module and configuration of each run; `map` gives, for
every definition, the lines it models.
