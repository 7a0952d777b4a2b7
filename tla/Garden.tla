------------------------------- MODULE Garden -------------------------------
(***************************************************************************)
(* How an edit of the mounted garden becomes a commit:                     *)
(*   - the FUSE write handler stages it in the overlay and reports the     *)
(*     path (softfig-fuse/src/fs.rs, overlay.rs),                          *)
(*   - the flush threads drain the reported paths into commits             *)
(*     (softfig-keeperd/src/watcher.rs, fuse_sink.rs),                     *)
(*   - the action verbs stage and commit on their own (actions/mod.rs),    *)
(*   - a peer's edit of a shared chain moves its ref (shared_pull.rs), and *)
(*   - every moved ref rotates the mounted view (fs.rs, rotate_tip).       *)
(*                                                                         *)
(* The daemon is unlocked and not stopping.  The garden is the device      *)
(* chain with one shared chain grafted in.  The FUSE session serves one    *)
(* request at a time; verbs, flushes and pulls hold the daemon lock.  (The *)
(* session takes that lock only to reload a changed .softfigignore, which  *)
(* is not part of the model: no modelled path is ignored.)                 *)
(***************************************************************************)
EXTENDS Naturals, FiniteSets

CONSTANTS
    Paths,       \* the files of the garden
    SharedPaths, \* the ones under the mount point of the shared chain
    MaxWrites,   \* bound on writes staged
    MaxFaults,   \* bound on failed steps and refused write turns
    Peer         \* content that came from a peer

ASSUME GardenAssumption ==
    /\ SharedPaths \subseteq Paths /\ Paths # {}
    /\ MaxWrites \in Nat /\ MaxFaults \in Nat /\ Peer \notin Nat

Flushers == {"fuse", "watch"}
Actors == Flushers \cup {"verb"}

VARIABLES
    overlay, \* staged writes by path, 0 when there is none; a write is named
             \* by the overlay generation it got
    gen,     \* the overlay's generation
    view,    \* the composed tips, as the mount serves them
    tip,     \* what the refs of the two chains hold
    buffer,  \* reported paths: the DirtySetAccumulator
    armed,   \* a retry deadline is set
    nudged,  \* a flush was asked for: last_nudge
    handler, \* the FUSE write in progress
    job,     \* what each committing thread is doing
    faults,
    stoodDown, \* (history) reported paths in the buffer whose retry a thread
             \* that did not take them has cancelled
    newest,  \* (history) the newest local write of each path, 0 once a
             \* peer's edit replaced it
    edited   \* (history) paths with an editor's write that is not committed

garden == <<overlay, gen, view, tip, newest, edited>>
flushing == <<buffer, armed, nudged, stoodDown>>
vars == <<garden, flushing, handler, job, faults>>

owning_chain(p) == IF p \in SharedPaths THEN "shared" ELSE "device"
Owned(c) == {p \in Paths : owning_chain(p) = c}
Shown(p) == IF overlay[p] # 0 THEN overlay[p] ELSE view[p]

NoHandler == [pc |-> "idle", path |-> CHOOSE p \in Paths : TRUE]
Blank == [p \in Paths |-> 0]
NoJob == [pc |-> "idle", dirty |-> {}, snap |-> Blank, cutoff |-> 0,
          todo |-> {}, failed |-> {}]

Init ==
    /\ overlay = Blank /\ gen = 0 /\ view = Blank /\ tip = Blank
    /\ buffer = {} /\ armed = FALSE /\ nudged = FALSE /\ stoodDown = {}
    /\ handler = NoHandler
    /\ job = [a \in Actors |-> NoJob]
    /\ faults = 0
    /\ newest = Blank /\ edited = {}

(* The daemon lock is held from the snapshot to the end of the job. *)
LockFree == \A a \in Actors : job[a].pc \notin {"staging", "snapshot", "commit"}

Fault == faults < MaxFaults /\ faults' = faults + 1
NoFault == UNCHANGED faults

---------------------------------------------------------------------------
(* The FUSE write handler: stage, report the path, ask for a flush.        *)

Stage(p) ==
    /\ gen < MaxWrites
    /\ gen' = gen + 1
    /\ overlay' = [overlay EXCEPT ![p] = gen + 1]
    /\ newest' = [newest EXCEPT ![p] = gen + 1]
    /\ UNCHANGED <<view, tip>>

EditStage(p) ==
    /\ handler.pc = "idle"
    /\ Stage(p)
    /\ edited' = edited \cup {p}
    /\ handler' = [pc |-> "push", path |-> p]
    /\ UNCHANGED <<flushing, job, faults>>

EditPush ==
    /\ handler.pc = "push"
    /\ buffer' = buffer \cup {handler.path}
    /\ handler' = [handler EXCEPT !.pc = "nudge"]
    /\ UNCHANGED <<garden, armed, nudged, stoodDown, job, faults>>

EditNudge ==
    /\ handler.pc = "nudge"
    /\ nudged' = TRUE
    /\ handler' = NoHandler
    /\ UNCHANGED <<garden, buffer, armed, stoodDown, job, faults>>

---------------------------------------------------------------------------
(* Waking up for a flush. *)

Wake(f) == /\ job[f].pc = "idle"
           /\ job' = [job EXCEPT ![f].pc = "take"]
           /\ UNCHANGED <<garden, buffer, stoodDown, handler, faults>>

(* One tick of the FUSE flush loop: the nudge and the retry deadline are   *)
(* each consumed when due.                                                 *)
run_flush_loop ==
    /\ Wake("fuse")
    /\ \E nudge_due \in {nudged, FALSE}, retry_due \in {armed, FALSE} :
         /\ nudge_due \/ retry_due
         /\ nudged' = (nudged /\ ~nudge_due)
         /\ armed' = (armed /\ ~retry_due)

(* The watcher thread, which in a mounted garden watches the state         *)
(* directory, where every commit writes: a batch reports nothing there and *)
(* flushes all the same.                                                   *)
process_batch == Wake("watch") /\ UNCHANGED <<armed, nudged>>

(* The poll every 100 ms without a batch. *)
WatchTimeout ==
    /\ Wake("watch")
    /\ armed /\ armed' = FALSE
    /\ UNCHANGED nudged

---------------------------------------------------------------------------
(* A flush. *)

(* The retry is cancelled, whoever armed it and whatever is in the buffer. *)
StandDown ==
    /\ armed' = FALSE
    /\ stoodDown' = stoodDown \cup (IF armed THEN buffer ELSE {})

(* The buffer is drained; an empty one stands the retry down, which is a   *)
(* step of its own as neither lock covers both.                            *)
Take(f) ==
    /\ job[f].pc = "take"
    /\ buffer' = {}
    /\ job' = [job EXCEPT ![f].dirty = buffer,
                          ![f].pc = IF buffer = {} THEN "clear" ELSE "wait"]
    /\ stoodDown' = {}
    /\ UNCHANGED <<garden, armed, nudged, handler, faults>>

clear_retry(f) ==
    /\ job[f].pc = "clear"
    /\ StandDown
    /\ job' = [job EXCEPT ![f] = NoJob]
    /\ UNCHANGED <<garden, buffer, nudged, handler, faults>>

(* The touched paths pick the chains this flush advances. *)
Begin(f) ==
    /\ job[f].pc = "wait" /\ LockFree
    /\ job' = [job EXCEPT ![f].pc = "snapshot",
                          ![f].todo = {owning_chain(p) : p \in job[f].dirty}]
    /\ UNCHANGED <<garden, flushing, handler, faults>>

(* Mutant: a chain refused its write turn is skipped, not requeued. *)
requeue_events_device(f, failed) ==
    {p \in job[f].dirty : owning_chain(p) \in failed \cap {"device"}}

(* Mutant: the paths are requeued, but nothing wakes the flush again. *)
EndFlush_unarmed(f, failed) ==
    /\ buffer' = buffer \cup {p \in job[f].dirty : owning_chain(p) \in failed}
    /\ IF failed # {} THEN UNCHANGED <<armed, stoodDown>> ELSE StandDown
    /\ job' = [job EXCEPT ![f] = NoJob]
    /\ UNCHANGED nudged

(* A failed chain's paths go back into the buffer and the retry is armed;  *)
(* with no failure the retry is stood down.                                *)
requeue_events(f, failed) == {p \in job[f].dirty : owning_chain(p) \in failed}

EndFlush(f, failed) ==
    /\ buffer' = buffer \cup requeue_events(f, failed)
    /\ IF failed # {} THEN armed' = TRUE /\ UNCHANGED stoodDown ELSE StandDown
    /\ job' = [job EXCEPT ![f] = NoJob]
    /\ UNCHANGED nudged

---------------------------------------------------------------------------
(* An action verb: it stages under the daemon lock, reports no path, and   *)
(* commits every chain that has something staged.                          *)

VerbStage(p) ==
    /\ job["verb"].pc = "staging" \/ LockFree
    /\ Stage(p)
    /\ edited' = edited \ {p}
    /\ job' = [job EXCEPT !["verb"].pc = "staging"]
    /\ UNCHANGED <<flushing, handler, faults>>

(* A later write of the verb fails: what it staged stays. *)
VerbFails ==
    /\ job["verb"].pc = "staging"
    /\ Fault
    /\ job' = [job EXCEPT !["verb"] = NoJob]
    /\ UNCHANGED <<garden, flushing, handler>>

commit_now ==
    /\ job["verb"].pc = "staging"
    /\ job' = [job EXCEPT !["verb"].pc = "snapshot",
                          !["verb"].todo = {owning_chain(p) : p \in {q \in Paths : overlay[q] # 0}}]
    /\ UNCHANGED <<garden, flushing, handler, faults>>

---------------------------------------------------------------------------
(* Committing, for flushes and verbs. *)

(* A flush that fails requeues, a verb reports the error. *)
GiveUp(a, failed) ==
    \/ a \in Flushers /\ EndFlush(a, failed)
    \/ a = "verb" /\ job' = [job EXCEPT ![a] = NoJob] /\ UNCHANGED flushing

(* The working tree is captured with the generation it is cut at, and the  *)
(* shared chain may be refused the write turn: a flush counts it as        *)
(* failed, a verb leaves it staged.                                        *)
Snapshot(a, deferred) ==
    /\ job[a].pc = "snapshot"
    /\ job' = [job EXCEPT ![a].pc = "commit",
                          ![a].snap = [p \in Paths |-> Shown(p)],
                          ![a].cutoff = gen,
                          ![a].todo = job[a].todo \ deferred,
                          ![a].failed = IF a \in Flushers THEN deferred ELSE {}]
    /\ IF deferred = {} THEN NoFault ELSE Fault
    /\ UNCHANGED <<garden, flushing, handler>>

SnapshotFails(a) ==
    /\ job[a].pc = "snapshot"
    /\ Fault
    /\ GiveUp(a, {"device", "shared"})
    /\ UNCHANGED <<garden, handler>>

(* The device chain is committed first. *)
Turn(a, c) ==
    /\ job[a].pc = "commit"
    /\ c \in job[a].todo
    /\ c = "shared" => "device" \notin job[a].todo

(* Mutant: every staged write of the chain goes, captured or not. *)
Absorbed_late(p, c, cutoff) == p \in Owned(c)

(* remove_absorbed: what the commit's snapshot held of the chain's paths. *)
Absorbed(p, c, cutoff) == overlay[p] <= cutoff /\ p \in Owned(c)

rotate_tip(c, cutoff) ==
    /\ view' = tip'
    /\ overlay' = [p \in Paths |-> IF Absorbed(p, c, cutoff) THEN 0 ELSE overlay[p]]

(* The recompose fails: the old view and the whole overlay are kept. *)
RotateFails == Fault /\ UNCHANGED <<view, overlay>>

(* A tree equal to the tip's is no commit and rotates nothing. *)
Commit(a, c) ==
    LET snap == job[a].snap
        changed == \E p \in Owned(c) : tip[p] # snap[p]
    IN
    /\ Turn(a, c)
    /\ tip' = [p \in Paths |-> IF p \in Owned(c) THEN snap[p] ELSE tip[p]]
    /\ IF changed
       THEN (rotate_tip(c, job[a].cutoff) /\ NoFault) \/ RotateFails
       ELSE UNCHANGED <<view, overlay, faults>>
    /\ edited' = edited \ {p \in Owned(c) : overlay[p] = snap[p]}
    /\ job' = [job EXCEPT ![a].todo = @ \ {c}]
    /\ UNCHANGED <<gen, newest, flushing, handler>>

(* The commit of one chain fails: a flush goes on with the next. *)
CommitFails(a, c) ==
    /\ Turn(a, c)
    /\ Fault
    /\ \/ a \in Flushers /\ UNCHANGED flushing
          /\ job' = [job EXCEPT ![a].todo = job[a].todo \ {c},
                             ![a].failed = job[a].failed \cup {c}]
       \/ a = "verb" /\ GiveUp(a, {})
    /\ UNCHANGED <<garden, handler>>

(* The tip's plaintext cannot be read before the device commit: the whole  *)
(* job ends there.                                                         *)
PriorTipFails(a) ==
    /\ Turn(a, "device")
    /\ Fault
    /\ GiveUp(a, {"device", "shared"})
    /\ UNCHANGED <<garden, handler>>

Finish(a) ==
    /\ job[a].pc = "commit" /\ job[a].todo = {}
    /\ GiveUp(a, job[a].failed)
    /\ UNCHANGED <<garden, handler, faults>>

---------------------------------------------------------------------------
(* A peer's edit of p is adopted: the view is recomposed, and a ref that   *)
(* moved without a snapshot absorbs nothing.                               *)
Pull(p) ==
    /\ LockFree
    /\ tip[p] # Peer
    /\ tip' = [tip EXCEPT ![p] = Peer]
    /\ (view' = tip' /\ NoFault) \/ (UNCHANGED view /\ Fault)
    /\ newest' = [newest EXCEPT ![p] = IF overlay[p] = 0 THEN 0 ELSE @]
    /\ UNCHANGED <<overlay, gen, edited, flushing, handler, job>>

(* The registry is refreshed without a change of the chains: the view is   *)
(* recomposed from the tips and absorbs nothing.                           *)
set_registry ==
    /\ LockFree
    /\ view # tip
    /\ view' = tip
    /\ UNCHANGED <<overlay, gen, tip, newest, edited, flushing, handler, job, faults>>

---------------------------------------------------------------------------
FlushStep(f) == Take(f) \/ clear_retry(f) \/ Begin(f)

CommitStep(a) ==
    \/ \E deferred \in SUBSET (job[a].todo \cap {"shared"}) : Snapshot(a, deferred)
    \/ SnapshotFails(a)
    \/ \E c \in job[a].todo : Commit(a, c) \/ CommitFails(a, c)
    \/ PriorTipFails(a)
    \/ Finish(a)

Next ==
    \/ \E p \in Paths : EditStage(p) \/ VerbStage(p)
    \/ EditPush \/ EditNudge
    \/ run_flush_loop \/ process_batch \/ WatchTimeout
    \/ \E f \in Flushers : FlushStep(f)
    \/ VerbFails \/ commit_now
    \/ \E a \in Actors : CommitStep(a)
    \/ \E p \in SharedPaths : Pull(p)
    \/ set_registry

Spec == Init /\ [][Next]_vars

(* Threads run.  Nothing obliges an editor to write, a verb to come, a     *)
(* peer to push or the state directory to change.                          *)
Fairness ==
    /\ WF_vars(EditPush) /\ WF_vars(EditNudge)
    /\ WF_vars(run_flush_loop)
    /\ \A f \in Flushers : WF_vars(Take(f)) /\ WF_vars(clear_retry(f)) /\ WF_vars(Begin(f))
    /\ \A a \in Actors : WF_vars(CommitStep(a))
    /\ WF_vars(commit_now)

FairSpec == Spec /\ Fairness

---------------------------------------------------------------------------
(* Properties. *)

Content == 0 .. MaxWrites \cup {Peer}
Chains == {"device", "shared"}

(* Every variable keeps its type, and at most one thread holds the daemon  *)
(* lock.                                                                   *)
TypeOK ==
    /\ overlay \in [Paths -> 0 .. gen] /\ gen \in 0 .. MaxWrites
    /\ view \in [Paths -> Content] /\ tip \in [Paths -> Content]
    /\ buffer \subseteq Paths /\ armed \in BOOLEAN /\ nudged \in BOOLEAN
    /\ stoodDown \subseteq Paths
    /\ handler \in [pc : {"idle", "push", "nudge"}, path : Paths]
    /\ \A a \in Actors :
         /\ job[a].pc \in {"idle", "take", "clear", "wait", "staging", "snapshot", "commit"}
         /\ job[a].dirty \subseteq Paths /\ job[a].snap \in [Paths -> Content]
         /\ job[a].cutoff \in 0 .. gen
         /\ job[a].todo \subseteq Chains /\ job[a].failed \subseteq Chains
    /\ Cardinality({a \in Actors : job[a].pc \in {"staging", "snapshot", "commit"}}) <= 1
    /\ faults \in 0 .. MaxFaults
    /\ newest \in [Paths -> 0 .. gen] /\ edited \subseteq Paths

(* No rotation drops a write: the mount shows the newest local write of    *)
(* every path, be it staged or committed, whatever commits, failures and   *)
(* pulls of either chain came between.                                     *)
WriteKept == \A p \in Paths : newest[p] # 0 => Shown(p) = newest[p]

(* No flush forgets an edit: while an editor's write is not committed its  *)
(* path is in the buffer, in the hands of a flush, or about to be reported.*)
EditTracked ==
    \A p \in edited :
        \/ p \in buffer
        \/ handler.pc = "push" /\ handler.path = p
        \/ \E f \in Flushers : p \in job[f].dirty

(* An edit is committed without anybody touching the garden again: flushes *)
(* that fail and refused turns are retried, while the state directory      *)
(* changes under the other thread.  The one exception is the race of the   *)
(* two flush threads: a retry is cancelled by a thread that did not take   *)
(* what it was armed for.  Those edits wait for the next flush, although   *)
(* the retry is to fire "with no new filesystem event" (watcher.rs:43-46,  *)
(* 541-547).                                                               *)
EditSaved ==
    \A p \in Paths : (p \in edited) ~> (p \notin edited \/ p \in stoodDown)

=============================================================================
