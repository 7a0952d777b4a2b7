---------------------------- MODULE GardenProofs ----------------------------
(***************************************************************************)
(* Proofs about Garden for any set of files, any split of them over the    *)
(* two chains and any number of writes and faults.                         *)
(***************************************************************************)
EXTENDS Garden, FiniteSetTheorems, TLAPS

JobType ==
    [pc : {"idle", "take", "clear", "wait", "staging", "snapshot", "commit"},
     dirty : SUBSET Paths, snap : [Paths -> Content], cutoff : Nat,
     todo : SUBSET Chains, failed : SUBSET Chains]

(* The types, with the jobs as a function of records. *)
GardenTypes ==
    /\ overlay \in [Paths -> Nat] /\ gen \in 0 .. MaxWrites
    /\ \A p \in Paths : overlay[p] <= gen
    /\ view \in [Paths -> Content] /\ tip \in [Paths -> Content]
    /\ newest \in [Paths -> Nat] /\ edited \subseteq Paths
    /\ \A p \in Paths : newest[p] <= gen
FlushTypes ==
    /\ buffer \subseteq Paths /\ armed \in BOOLEAN /\ nudged \in BOOLEAN
    /\ stoodDown \subseteq Paths
    /\ handler \in [pc : {"idle", "push", "nudge"}, path : Paths]
    /\ faults \in 0 .. MaxFaults
JobTypes ==
    /\ job \in [Actors -> JobType]
    /\ \A a \in Actors : job[a].cutoff <= gen

(* The daemon lock: who is between its snapshot and its end, and that there is
   one such thread at a time. *)
Holds(a) == job[a].pc \in {"staging", "snapshot", "commit"}
LockInv == \A a, b \in Actors : Holds(a) /\ Holds(b) => a = b

Types == GardenTypes /\ FlushTypes /\ JobTypes

(* A path's content by where it is: a staged write is the newest one; the
   newest one, once not staged, is in the chain's ref and in the view; an
   editor's write that is not committed is staged. *)
PathInv(p) ==
    /\ overlay[p] # 0 => overlay[p] = newest[p]
    /\ overlay[p] = 0 /\ newest[p] # 0 => tip[p] = newest[p] /\ view[p] = newest[p]
    /\ p \in edited => overlay[p] # 0

(* A captured snapshot against the paths of the chains still to commit: it has
   the newest write, or that write came after the cut and is staged. *)
SnapInv(a, p) ==
    (job[a].pc = "commit" /\ owning_chain(p) \in job[a].todo /\ newest[p] # 0) =>
        IF newest[p] <= job[a].cutoff THEN job[a].snap[p] = newest[p]
        ELSE overlay[p] = newest[p]

KeepInv == \A p \in Paths : PathInv(p) /\ \A a \in Actors : SnapInv(a, p)

(* Somebody other than flusher f answers for path p. *)
TrackedElse(p, f) ==
    \/ p \in buffer
    \/ handler.pc = "push" /\ handler.path = p
    \/ \E g \in Flushers : g # f /\ p \in job[g].dirty

(* What a flush has in hand: nothing before it takes the buffer, and at the
   snapshot a turn for the chain of each path. *)
HandInv(f) ==
    /\ job[f].pc \in {"idle", "take", "clear"} => job[f].dirty = {}
    /\ job[f].pc # "staging"
    /\ job[f].pc = "snapshot" => \A p \in job[f].dirty : owning_chain(p) \in job[f].todo

(* When a committing flush is done with a path that is still uncommitted, or
   never captured its write, somebody else answers for the path. *)
LeftInv(f, p) ==
    (job[f].pc = "commit" /\ p \in edited) =>
        /\ (p \in job[f].dirty /\ owning_chain(p) \notin job[f].todo \cup job[f].failed)
              => TrackedElse(p, f)
        /\ newest[p] > job[f].cutoff => TrackedElse(p, f)

TrackInv ==
    /\ EditTracked
    /\ \A f \in Flushers : HandInv(f) /\ \A p \in Paths : LeftInv(f, p)

----------------------------------------------------------------------------
(* A job register is one record per thread. *)
LEMMA NoJobType ==
    /\ NoJob \in JobType /\ NoJob.cutoff = 0
    /\ NoJob.pc = "idle" /\ NoJob.dirty = {} /\ NoJob.todo = {} /\ NoJob.failed = {}
    /\ Blank \in [Paths -> Content] /\ Blank \in [Paths -> Nat]
<1>1. Blank \in [Paths -> Content] /\ Blank \in [Paths -> Nat]
  BY GardenAssumption DEF Blank, Content
<1> QED BY <1>1 DEF NoJob, JobType

LEMMA PathFacts ==
    /\ \A p \in Paths : owning_chain(p) \in Chains
    /\ \A p \in Paths, c \in Chains : p \in Owned(c) <=> owning_chain(p) = c
    /\ "device" \in Chains /\ "shared" \in Chains
    /\ "device" # "shared"
BY DEF owning_chain, Owned, Chains

LEMMA ActorFacts ==
    /\ Flushers \subseteq Actors /\ "verb" \in Actors /\ "verb" \notin Flushers
    /\ "fuse" \in Flushers /\ "watch" \in Flushers
    /\ \A a \in Actors : a \in Flushers \/ a = "verb"
BY DEF Actors, Flushers

(* What each step does to the acting thread's job; the other threads' jobs stay. *)
OthersKeep(a) == \A b \in Actors : b # a => job'[b] = job[b]

LEMMA JobReset ==
    ASSUME JobTypes, NEW a \in Actors, job' = [job EXCEPT ![a] = NoJob]
    PROVE  /\ job' \in [Actors -> JobType] /\ OthersKeep(a) /\ job'[a] = NoJob
BY NoJobType DEF JobTypes, OthersKeep

LEMMA JobPc ==
    ASSUME JobTypes, NEW a \in Actors,
           NEW x \in {"idle", "take", "clear", "wait", "staging", "snapshot", "commit"},
           job' = [job EXCEPT ![a].pc = x]
    PROVE  /\ job' \in [Actors -> JobType] /\ OthersKeep(a)
           /\ job'[a].pc = x /\ job'[a].dirty = job[a].dirty /\ job'[a].snap = job[a].snap
           /\ job'[a].cutoff = job[a].cutoff /\ job'[a].todo = job[a].todo
           /\ job'[a].failed = job[a].failed
BY DEF JobTypes, JobType, OthersKeep

LEMMA JobPcTodo ==
    ASSUME JobTypes, NEW a \in Actors, NEW t \in SUBSET Chains,
           NEW x \in {"idle", "take", "clear", "wait", "staging", "snapshot", "commit"},
           job' = [job EXCEPT ![a].pc = x, ![a].todo = t]
    PROVE  /\ job' \in [Actors -> JobType] /\ OthersKeep(a)
           /\ job'[a].pc = x /\ job'[a].dirty = job[a].dirty /\ job'[a].snap = job[a].snap
           /\ job'[a].cutoff = job[a].cutoff /\ job'[a].todo = t
           /\ job'[a].failed = job[a].failed
BY DEF JobTypes, JobType, OthersKeep

LEMMA JobDirtyPc ==
    ASSUME JobTypes, NEW a \in Actors, NEW d \in SUBSET Paths,
           NEW x \in {"idle", "take", "clear", "wait", "staging", "snapshot", "commit"},
           job' = [job EXCEPT ![a].dirty = d, ![a].pc = x]
    PROVE  /\ job' \in [Actors -> JobType] /\ OthersKeep(a)
           /\ job'[a].pc = x /\ job'[a].dirty = d /\ job'[a].snap = job[a].snap
           /\ job'[a].cutoff = job[a].cutoff /\ job'[a].todo = job[a].todo
           /\ job'[a].failed = job[a].failed
BY DEF JobTypes, JobType, OthersKeep

LEMMA JobTodo ==
    ASSUME JobTypes, NEW a \in Actors, NEW t \in SUBSET Chains,
           job' = [job EXCEPT ![a].todo = t]
    PROVE  /\ job' \in [Actors -> JobType] /\ OthersKeep(a)
           /\ job'[a].pc = job[a].pc /\ job'[a].dirty = job[a].dirty /\ job'[a].snap = job[a].snap
           /\ job'[a].cutoff = job[a].cutoff /\ job'[a].todo = t
           /\ job'[a].failed = job[a].failed
BY DEF JobTypes, JobType, OthersKeep

(* The job register's type and the lock's exclusion, from what the acting
   thread did. *)
LEMMA JobsKept ==
    ASSUME Types, LockInv, NEW a \in Actors, job' \in [Actors -> JobType], OthersKeep(a),
           job'[a].cutoff <= gen', gen' \in Nat, gen <= gen',
           job'[a].pc \in {"staging", "snapshot", "commit"} => Holds(a) \/ LockFree
    PROVE  JobTypes' /\ LockInv'
<1>1. JobTypes'
  <2>1. \A b \in Actors : job[b].cutoff \in Nat /\ job[b].cutoff <= gen
    BY DEF Types, JobTypes, JobType
  <2>2. gen \in Nat
    BY GardenAssumption DEF Types, GardenTypes
  <2>3. ASSUME NEW b \in Actors, b # a PROVE job'[b].cutoff <= gen'
    <3>1. job'[b].cutoff = job[b].cutoff
      BY <2>3 DEF OthersKeep
    <3> QED BY <2>1, <2>2, <3>1
  <2> QED BY <2>3 DEF JobTypes
<1>2. LockInv'
  BY DEF LockInv, Holds, LockFree, OthersKeep
<1> QED BY <1>1, <1>2

LEMMA StageTypes ==
    ASSUME Types, NEW p \in Paths, Stage(p), edited' \subseteq Paths
    PROVE  /\ GardenTypes' /\ gen' = gen + 1 /\ gen \in Nat /\ gen' \in Nat
           /\ gen <= gen'
<1>1. gen \in Nat /\ gen' = gen + 1 /\ gen' \in 0 .. MaxWrites
  BY GardenAssumption DEF Stage, Types, GardenTypes
<1>2. overlay' \in [Paths -> Nat] /\ newest' \in [Paths -> Nat]
  BY <1>1 DEF Stage, Types, GardenTypes
<1>3. \A q \in Paths : overlay'[q] <= gen' /\ newest'[q] <= gen'
  <2> TAKE q \in Paths
  <2>1. overlay[q] \in Nat /\ newest[q] \in Nat /\ overlay[q] <= gen /\ newest[q] <= gen
    BY DEF Types, GardenTypes
  <2>2. overlay'[q] \in {overlay[q], gen + 1} /\ newest'[q] \in {newest[q], gen + 1}
    BY DEF Stage, Types, GardenTypes
  <2> QED BY <1>1, <2>1, <2>2
<1> QED BY <1>1, <1>2, <1>3 DEF Stage, Types, GardenTypes

LEMMA EditTypes ==
    ASSUME Types, LockInv,
           (\E p \in Paths : EditStage(p)) \/ EditPush \/ EditNudge
    PROVE  Types' /\ LockInv' /\ job' = job
<1>1. job' = job
  BY DEF EditStage, EditPush, EditNudge
<1>2. LockInv'
  BY <1>1 DEF LockInv, Holds
<1>3. ASSUME NEW p \in Paths, EditStage(p) PROVE Types'
  <2>1. GardenTypes' /\ gen \in Nat /\ gen' \in Nat /\ gen <= gen'
    <3>1. edited' \subseteq Paths
      BY <1>3 DEF EditStage, Types, GardenTypes
    <3> QED BY <1>3, <3>1, StageTypes DEF EditStage
  <2>2. FlushTypes'
    BY <1>3 DEF EditStage, Types, FlushTypes, flushing
  <2>3. JobTypes'
    <3>1. \A a \in Actors : job[a].cutoff \in Nat /\ job[a].cutoff <= gen
      BY DEF Types, JobTypes, JobType
    <3>2. \A a \in Actors : job[a].cutoff <= gen'
      BY <2>1, <3>1
    <3> QED BY <1>1, <3>2 DEF Types, JobTypes
  <2> QED BY <2>1, <2>2, <2>3 DEF Types
<1>4. CASE EditPush
  <2>1. FlushTypes'
    BY <1>4 DEF EditPush, Types, FlushTypes
  <2>2. GardenTypes'
    BY <1>4 DEF EditPush, Types, GardenTypes, garden
  <2>3. JobTypes'
    BY <1>1, <1>4 DEF EditPush, Types, JobTypes, garden
  <2> QED BY <1>1, <1>2, <2>1, <2>2, <2>3 DEF Types
<1>5. CASE EditNudge
  <2>1. FlushTypes'
    <3>1. NoHandler \in [pc : {"idle", "push", "nudge"}, path : Paths]
      BY GardenAssumption DEF NoHandler
    <3> QED BY <1>5, <3>1 DEF EditNudge, Types, FlushTypes
  <2>2. GardenTypes'
    BY <1>5 DEF EditNudge, Types, GardenTypes, garden
  <2>3. JobTypes'
    BY <1>1, <1>5 DEF EditNudge, Types, JobTypes, garden
  <2> QED BY <1>1, <1>2, <2>1, <2>2, <2>3 DEF Types
<1> QED BY <1>1, <1>2, <1>3, <1>4, <1>5

LEMMA WakeEffect ==
    ASSUME Types, LockInv, NEW f \in Flushers, Wake(f),
           armed' \in BOOLEAN, nudged' \in BOOLEAN
    PROVE  /\ Types' /\ LockInv' /\ OthersKeep(f) /\ UNCHANGED <<garden, buffer, handler>>
           /\ job[f].pc = "idle" /\ job'[f].pc = "take" /\ job'[f].dirty = job[f].dirty
<1>0. f \in Actors /\ JobTypes
  BY ActorFacts DEF Types
<1>1. job[f].pc = "idle" /\ job' = [job EXCEPT ![f].pc = "take"]
      /\ UNCHANGED <<garden, buffer, stoodDown, handler, faults>>
  BY DEF Wake
<1>2. /\ job' \in [Actors -> JobType] /\ OthersKeep(f) /\ job'[f].pc = "take"
      /\ job'[f].dirty = job[f].dirty /\ job'[f].cutoff = job[f].cutoff
  BY <1>0, <1>1, JobPc
<1>3. GardenTypes' /\ gen' = gen /\ gen \in Nat
  BY <1>1, GardenAssumption DEF Types, GardenTypes, garden
<1>4. FlushTypes'
  BY <1>1 DEF Types, FlushTypes
<1>5. job'[f].cutoff <= gen' /\ gen <= gen'
  BY <1>0, <1>2, <1>3 DEF JobTypes
<1>6. JobTypes' /\ LockInv'
  BY <1>0, <1>2, <1>3, <1>5, JobsKept
<1> QED BY <1>1, <1>2, <1>3, <1>4, <1>6 DEF Types

LEMMA WakeupEffect ==
    ASSUME Types, LockInv, run_flush_loop \/ process_batch \/ WatchTimeout
    PROVE  \E f \in Flushers :
           /\ Types' /\ LockInv' /\ OthersKeep(f) /\ UNCHANGED <<garden, buffer, handler>>
           /\ job[f].pc = "idle" /\ job'[f].pc = "take" /\ job'[f].dirty = job[f].dirty
<1>1. armed' \in BOOLEAN /\ nudged' \in BOOLEAN
  BY DEF run_flush_loop, process_batch, WatchTimeout, Types, FlushTypes
<1>2. CASE Wake("fuse")
  BY <1>1, <1>2, WakeEffect, ActorFacts
<1>3. CASE Wake("watch")
  BY <1>1, <1>3, WakeEffect, ActorFacts
<1> QED BY <1>2, <1>3 DEF run_flush_loop, process_batch, WatchTimeout

LEMMA TakeEffect ==
    ASSUME Types, LockInv, NEW f \in Flushers, Take(f)
    PROVE  /\ Types' /\ LockInv' /\ OthersKeep(f) /\ UNCHANGED <<garden, handler>>
           /\ job[f].pc = "take" /\ buffer' = {}
           /\ job'[f].dirty = buffer
           /\ job'[f].pc = IF buffer = {} THEN "clear" ELSE "wait"
<1>0. f \in Actors /\ JobTypes /\ buffer \in SUBSET Paths
  BY ActorFacts DEF Types, FlushTypes
<1> DEFINE x == IF buffer = {} THEN "clear" ELSE "wait"
<1>1. /\ job[f].pc = "take" /\ job' = [job EXCEPT ![f].dirty = buffer, ![f].pc = x]
      /\ UNCHANGED <<garden, armed, nudged, handler, faults>>
      /\ buffer' = {} /\ stoodDown' = {}
  BY DEF Take
<1>2. x \in {"idle", "take", "clear", "wait", "staging", "snapshot", "commit"}
      /\ x \notin {"staging", "snapshot", "commit"}
  OBVIOUS
<1> HIDE DEF x
<1>3. /\ job' \in [Actors -> JobType] /\ OthersKeep(f) /\ job'[f].pc = x
      /\ job'[f].dirty = buffer /\ job'[f].cutoff = job[f].cutoff
  BY <1>0, <1>1, <1>2, JobDirtyPc
<1>4. GardenTypes' /\ gen' = gen /\ gen \in Nat
  BY <1>1, GardenAssumption DEF Types, GardenTypes, garden
<1>5. FlushTypes'
  BY <1>1 DEF Types, FlushTypes
<1>6. job'[f].cutoff <= gen' /\ gen <= gen'
  BY <1>0, <1>3, <1>4 DEF JobTypes
<1>7. JobTypes' /\ LockInv'
  BY <1>0, <1>2, <1>3, <1>4, <1>6, JobsKept
<1> QED BY <1>1, <1>3, <1>4, <1>5, <1>7 DEF Types, x

(* The end of a job: the thread forgets it. *)
LEMMA ResetEffect ==
    ASSUME Types, LockInv, NEW a \in Actors, job' = [job EXCEPT ![a] = NoJob],
           UNCHANGED <<garden, handler>>, buffer' \subseteq Paths, stoodDown' \subseteq Paths,
           armed' \in BOOLEAN, nudged' \in BOOLEAN, faults' \in 0 .. MaxFaults
    PROVE  /\ Types' /\ LockInv' /\ OthersKeep(a) /\ job'[a].pc = "idle" /\ job'[a].dirty = {}
<1>1. job' \in [Actors -> JobType] /\ OthersKeep(a) /\ job'[a] = NoJob
  BY JobReset DEF Types
<1>2. job'[a].pc = "idle" /\ job'[a].dirty = {} /\ job'[a].cutoff = 0
  BY <1>1, NoJobType
<1>3. GardenTypes' /\ gen' = gen /\ gen \in Nat
  BY GardenAssumption DEF Types, GardenTypes, garden
<1>4. FlushTypes'
  BY DEF Types, FlushTypes
<1>5. job'[a].cutoff <= gen' /\ gen <= gen'
  BY <1>2, <1>3
<1>6. JobTypes' /\ LockInv'
  BY <1>1, <1>2, <1>3, <1>5, JobsKept
<1> QED BY <1>1, <1>2, <1>3, <1>4, <1>6 DEF Types

LEMMA ClearEffect ==
    ASSUME Types, LockInv, NEW f \in Flushers, clear_retry(f)
    PROVE  /\ Types' /\ LockInv' /\ OthersKeep(f) /\ UNCHANGED <<garden, handler, buffer>>
           /\ job[f].pc = "clear" /\ job'[f].pc = "idle" /\ job'[f].dirty = {}
<1>1. /\ f \in Actors /\ job' = [job EXCEPT ![f] = NoJob] /\ buffer' \subseteq Paths
      /\ UNCHANGED <<garden, handler>> /\ stoodDown' \subseteq Paths
      /\ armed' \in BOOLEAN /\ nudged' \in BOOLEAN /\ faults' \in 0 .. MaxFaults
  BY ActorFacts DEF clear_retry, StandDown, Types, FlushTypes
<1> QED BY <1>1, ResetEffect DEF clear_retry

LEMMA BeginEffect ==
    ASSUME Types, LockInv, NEW f \in Flushers, Begin(f)
    PROVE  /\ Types' /\ LockInv' /\ OthersKeep(f) /\ UNCHANGED <<garden, handler, buffer>>
           /\ job[f].pc = "wait" /\ job'[f].pc = "snapshot" /\ job'[f].dirty = job[f].dirty
           /\ job'[f].todo = {owning_chain(p) : p \in job[f].dirty} /\ LockFree
<1>0. f \in Actors /\ JobTypes /\ job[f].dirty \subseteq Paths
  BY ActorFacts DEF Types, JobTypes, JobType
<1> DEFINE t == {owning_chain(p) : p \in job[f].dirty}
<1>1. /\ job[f].pc = "wait" /\ job' = [job EXCEPT ![f].pc = "snapshot", ![f].todo = t]
      /\ UNCHANGED <<garden, flushing, handler, faults>> /\ LockFree
  BY DEF Begin
<1>2. t \in SUBSET Chains
  BY <1>0, PathFacts
<1> HIDE DEF t
<1>3. /\ job' \in [Actors -> JobType] /\ OthersKeep(f) /\ job'[f].pc = "snapshot"
      /\ job'[f].dirty = job[f].dirty /\ job'[f].cutoff = job[f].cutoff /\ job'[f].todo = t
  BY <1>0, <1>1, <1>2, JobPcTodo
<1>4. GardenTypes' /\ gen' = gen /\ gen \in Nat
  BY <1>1, GardenAssumption DEF Types, GardenTypes, garden
<1>5. FlushTypes'
  BY <1>1 DEF Types, FlushTypes, flushing
<1>6. job'[f].cutoff <= gen' /\ gen <= gen'
  BY <1>0, <1>3, <1>4 DEF JobTypes
<1>7. JobTypes' /\ LockInv'
  BY <1>0, <1>1, <1>3, <1>4, <1>6, JobsKept
<1>8. UNCHANGED <<garden, handler, buffer>>
  BY <1>1 DEF flushing
<1> QED BY <1>1, <1>3, <1>4, <1>5, <1>7, <1>8 DEF Types, t

LEMMA VerbStageEffect ==
    ASSUME Types, LockInv, NEW p \in Paths, VerbStage(p)
    PROVE  /\ Types' /\ LockInv' /\ OthersKeep("verb") /\ UNCHANGED <<handler, buffer>>
           /\ Stage(p) /\ edited' = edited \ {p}
           /\ job'["verb"].pc = "staging" /\ (LockFree \/ job["verb"].pc = "staging")
<1>0. "verb" \in Actors /\ JobTypes
  BY ActorFacts DEF Types
<1>1. /\ job["verb"].pc = "staging" \/ LockFree
      /\ job' = [job EXCEPT !["verb"].pc = "staging"] /\ Stage(p)
      /\ edited' = edited \ {p} /\ UNCHANGED <<flushing, handler, faults>>
  BY DEF VerbStage
<1>2. /\ job' \in [Actors -> JobType] /\ OthersKeep("verb") /\ job'["verb"].pc = "staging"
      /\ job'["verb"].cutoff = job["verb"].cutoff
  BY <1>0, <1>1, JobPc
<1>3. GardenTypes' /\ gen' \in Nat /\ gen \in Nat /\ gen <= gen'
  <2>1. edited' \subseteq Paths
    BY <1>1 DEF Types, GardenTypes
  <2> QED BY <1>1, <2>1, StageTypes
<1>4. FlushTypes'
  BY <1>1 DEF Types, FlushTypes, flushing
<1>5. job'["verb"].cutoff <= gen'
  <2>1. job["verb"].cutoff \in Nat /\ job["verb"].cutoff <= gen
    BY <1>0 DEF JobTypes, JobType
  <2> QED BY <1>2, <1>3, <2>1
<1>6. JobTypes' /\ LockInv'
  BY <1>0, <1>1, <1>2, <1>3, <1>5, JobsKept DEF Holds
<1>7. UNCHANGED <<handler, buffer>>
  BY <1>1 DEF flushing
<1> QED BY <1>1, <1>2, <1>3, <1>4, <1>6, <1>7 DEF Types

LEMMA VerbFailsEffect ==
    ASSUME Types, LockInv, VerbFails
    PROVE  /\ Types' /\ LockInv' /\ OthersKeep("verb") /\ UNCHANGED <<garden, handler, buffer>>
           /\ job'["verb"].pc = "idle"
<1>1. /\ "verb" \in Actors /\ job' = [job EXCEPT !["verb"] = NoJob] /\ buffer' = buffer
      /\ UNCHANGED <<garden, handler>> /\ buffer' \subseteq Paths /\ stoodDown' \subseteq Paths
      /\ armed' \in BOOLEAN /\ nudged' \in BOOLEAN
  BY ActorFacts DEF VerbFails, Types, FlushTypes, flushing
<1>2. faults' \in 0 .. MaxFaults
  BY GardenAssumption DEF VerbFails, Fault, Types, FlushTypes
<1> QED BY <1>1, <1>2, ResetEffect

LEMMA CommitNowEffect ==
    ASSUME Types, LockInv, commit_now
    PROVE  /\ Types' /\ LockInv' /\ OthersKeep("verb") /\ UNCHANGED <<garden, handler, buffer>>
           /\ job'["verb"].pc = "snapshot" /\ job["verb"].pc = "staging"
<1>0. "verb" \in Actors /\ JobTypes
  BY ActorFacts DEF Types
<1> DEFINE t == {owning_chain(p) : p \in {q \in Paths : overlay[q] # 0}}
<1>1. /\ job["verb"].pc = "staging" /\ UNCHANGED <<garden, flushing, handler, faults>>
      /\ job' = [job EXCEPT !["verb"].pc = "snapshot", !["verb"].todo = t]
  BY DEF commit_now
<1>2. t \in SUBSET Chains
  BY PathFacts
<1> HIDE DEF t
<1>3. /\ job' \in [Actors -> JobType] /\ OthersKeep("verb") /\ job'["verb"].pc = "snapshot"
      /\ job'["verb"].cutoff = job["verb"].cutoff
  BY <1>0, <1>1, <1>2, JobPcTodo
<1>4. GardenTypes' /\ gen' = gen /\ gen \in Nat
  BY <1>1, GardenAssumption DEF Types, GardenTypes, garden
<1>5. FlushTypes'
  BY <1>1 DEF Types, FlushTypes, flushing
<1>6. job'["verb"].cutoff <= gen' /\ gen <= gen'
  BY <1>0, <1>3, <1>4 DEF JobTypes
<1>7. JobTypes' /\ LockInv'
  BY <1>0, <1>1, <1>3, <1>4, <1>6, JobsKept DEF Holds
<1>8. UNCHANGED <<garden, handler, buffer>>
  BY <1>1 DEF flushing
<1> QED BY <1>1, <1>3, <1>4, <1>5, <1>7, <1>8 DEF Types

(* A thread gives its job up: a flush puts the failed chains' paths back. *)
LEMMA GiveUpEffect ==
    ASSUME Types, LockInv, NEW a \in Actors, NEW failed, GiveUp(a, failed),
           UNCHANGED <<garden, handler>>, faults' \in 0 .. MaxFaults
    PROVE  /\ Types' /\ LockInv' /\ OthersKeep(a) /\ job'[a].pc = "idle" /\ job'[a].dirty = {}
           /\ buffer \subseteq buffer'
           /\ a \in Flushers => requeue_events(a, failed) \subseteq buffer'
<1>1. job' = [job EXCEPT ![a] = NoJob]
  BY DEF GiveUp, EndFlush
<1>2. job[a].dirty \subseteq Paths
  BY DEF Types, JobTypes, JobType
<1>3. /\ buffer' \subseteq Paths /\ armed' \in BOOLEAN /\ nudged' \in BOOLEAN
      /\ buffer \subseteq buffer' /\ stoodDown' \subseteq Paths
  BY <1>2 DEF GiveUp, EndFlush, StandDown, requeue_events, Types, FlushTypes, flushing
<1>4. a \in Flushers => requeue_events(a, failed) \subseteq buffer'
  BY ActorFacts DEF GiveUp, EndFlush
<1> QED BY <1>1, <1>3, <1>4, ResetEffect

LEMMA FaultTypes ==
    ASSUME Types, Fault \/ UNCHANGED faults
    PROVE  faults' \in 0 .. MaxFaults
BY GardenAssumption DEF Fault, Types, FlushTypes

LEMMA SnapshotEffect ==
    ASSUME Types, LockInv, NEW a \in Actors, NEW deferred \in SUBSET (job[a].todo \cap {"shared"}),
           Snapshot(a, deferred)
    PROVE  /\ Types' /\ LockInv' /\ OthersKeep(a) /\ UNCHANGED <<garden, handler, buffer>>
           /\ job[a].pc = "snapshot" /\ job'[a].pc = "commit" /\ job'[a].dirty = job[a].dirty
           /\ job'[a].snap = [p \in Paths |-> Shown(p)] /\ job'[a].cutoff = gen
           /\ job'[a].todo = job[a].todo \ deferred
           /\ a \in Flushers => job'[a].failed = deferred
<1>0. JobTypes /\ job[a].todo \subseteq Chains /\ gen \in Nat
  BY GardenAssumption DEF Types, JobTypes, JobType, GardenTypes
<1> DEFINE t == job[a].todo \ deferred
           u == IF a \in Flushers THEN deferred ELSE {}
           s == [p \in Paths |-> Shown(p)]
<1>1. /\ job[a].pc = "snapshot" /\ UNCHANGED <<garden, flushing, handler>>
      /\ job' = [job EXCEPT ![a].pc = "commit", ![a].snap = s, ![a].cutoff = gen,
                            ![a].todo = t, ![a].failed = u]
      /\ Fault \/ UNCHANGED faults
  <2>1. job[a].pc = "snapshot" /\ UNCHANGED <<garden, flushing, handler>>
    BY DEF Snapshot
  <2>2. Fault \/ UNCHANGED faults
    BY DEF Snapshot, NoFault
  <2>3. job' = [job EXCEPT ![a].pc = "commit", ![a].snap = s, ![a].cutoff = gen,
                           ![a].todo = t, ![a].failed = u]
    BY DEF Snapshot
  <2> QED BY <2>1, <2>2, <2>3
<1>2. t \in SUBSET Chains /\ u \in SUBSET Chains
  BY <1>0
<1>3. s \in [Paths -> Content]
  <2>1. \A p \in Paths : overlay[p] \in Content /\ view[p] \in Content
    <3>1. \A p \in Paths : overlay[p] \in Nat /\ overlay[p] <= gen /\ gen <= MaxWrites
      BY GardenAssumption DEF Types, GardenTypes
    <3>2. \A p \in Paths : overlay[p] \in 0 .. MaxWrites
      BY <1>0, <3>1, GardenAssumption
    <3> QED BY <3>2 DEF Types, GardenTypes, Content
  <2> QED BY <2>1 DEF Shown
<1> HIDE DEF s, t, u
<1>4. /\ job' \in [Actors -> JobType] /\ OthersKeep(a)
      /\ job'[a].pc = "commit" /\ job'[a].dirty = job[a].dirty /\ job'[a].snap = s
      /\ job'[a].cutoff = gen /\ job'[a].todo = t /\ job'[a].failed = u
  <2> DEFINE j == [job[a] EXCEPT !.pc = "commit", !.snap = s, !.cutoff = gen,
                                 !.todo = t, !.failed = u]
  <2>1. job' = [job EXCEPT ![a] = j]
    BY <1>0, <1>1 DEF JobTypes
  <2>2. job[a] \in JobType
    BY <1>0 DEF JobTypes
  <2>3. /\ j \in JobType /\ j.pc = "commit" /\ j.dirty = job[a].dirty /\ j.snap = s
        /\ j.cutoff = gen /\ j.todo = t /\ j.failed = u
    BY <1>0, <1>2, <1>3, <2>2 DEF JobType
  <2> HIDE DEF j
  <2>4. job'[a] = j /\ job' \in [Actors -> JobType] /\ OthersKeep(a)
    <3>1. j \in JobType
      BY <2>3
    <3> QED BY <1>0, <2>1, <3>1 DEF JobTypes, OthersKeep
  <2> QED BY <2>3, <2>4
<1>5. GardenTypes' /\ gen' = gen
  BY <1>1 DEF Types, GardenTypes, garden
<1>6. FlushTypes'
  BY <1>1, FaultTypes DEF Types, FlushTypes, flushing
<1>7. job'[a].cutoff <= gen' /\ gen <= gen'
  BY <1>0, <1>4, <1>5
<1>8. JobTypes' /\ LockInv'
  BY <1>0, <1>1, <1>4, <1>5, <1>7, JobsKept DEF Holds
<1>9. UNCHANGED <<garden, handler, buffer>>
  BY <1>1 DEF flushing
<1> QED BY <1>1, <1>4, <1>5, <1>6, <1>8, <1>9 DEF Types, s, t, u

LEMMA CommitEffect ==
    ASSUME Types, LockInv, NEW a \in Actors, NEW c \in job[a].todo, Commit(a, c)
    PROVE  /\ Types' /\ LockInv' /\ OthersKeep(a)
           /\ UNCHANGED <<gen, newest, handler, buffer>>
           /\ job[a].pc = "commit" /\ job'[a].pc = "commit" /\ job'[a].dirty = job[a].dirty
           /\ job'[a].snap = job[a].snap /\ job'[a].cutoff = job[a].cutoff
           /\ job'[a].failed = job[a].failed /\ job'[a].todo = job[a].todo \ {c}
           /\ c \in Chains
           /\ edited' = edited \ {p \in Owned(c) : overlay[p] = job[a].snap[p]}
           /\ \A p \in Paths : tip'[p] = IF p \in Owned(c) THEN job[a].snap[p] ELSE tip[p]
           /\ \/ \A p \in Paths :
                   /\ view'[p] = tip'[p]
                   /\ overlay'[p] = IF Absorbed(p, c, job[a].cutoff) THEN 0 ELSE overlay[p]
              \/ UNCHANGED <<view, overlay>>
<1>0. /\ JobTypes /\ job[a].todo \subseteq Chains /\ job[a].failed \subseteq Chains
      /\ job[a].snap \in [Paths -> Content] /\ gen \in Nat
  BY GardenAssumption DEF Types, JobTypes, JobType, GardenTypes
<1>1. /\ job[a].pc = "commit" /\ UNCHANGED <<gen, newest, flushing, handler>>
      /\ job' = [job EXCEPT ![a].todo = job[a].todo \ {c}]
      /\ tip' = [p \in Paths |-> IF p \in Owned(c) THEN job[a].snap[p] ELSE tip[p]]
      /\ edited' = edited \ {p \in Owned(c) : overlay[p] = job[a].snap[p]}
  BY DEF Commit, Turn
<1>2. \/ rotate_tip(c, job[a].cutoff) /\ UNCHANGED faults
      \/ UNCHANGED <<view, overlay>> /\ (Fault \/ UNCHANGED faults)
  BY DEF Commit, NoFault, RotateFails
<1> DEFINE t == job[a].todo \ {c}
<1>3. t \in SUBSET Chains /\ c \in Chains
  BY <1>0
<1>4. job' = [job EXCEPT ![a].todo = t]
  BY <1>1
<1> HIDE DEF t
<1>6. /\ job' \in [Actors -> JobType] /\ OthersKeep(a)
      /\ job'[a].pc = job[a].pc /\ job'[a].dirty = job[a].dirty /\ job'[a].snap = job[a].snap
      /\ job'[a].cutoff = job[a].cutoff /\ job'[a].todo = t
      /\ job'[a].failed = job[a].failed
  BY <1>0, <1>3, <1>4, JobTodo
<1>7. tip' \in [Paths -> Content]
  BY <1>0, <1>1 DEF Types, GardenTypes
<1>8. /\ view' \in [Paths -> Content] /\ overlay' \in [Paths -> Nat]
      /\ \A p \in Paths : overlay'[p] <= gen
  <2>1. \A p \in Paths : 0 <= gen
    BY <1>0
  <2> QED BY <1>2, <1>7, <2>1 DEF Types, GardenTypes, rotate_tip
<1>9. GardenTypes'
  BY <1>1, <1>7, <1>8 DEF Types, GardenTypes
<1>10. FlushTypes'
  <2>1. faults' \in 0 .. MaxFaults
    BY <1>2, FaultTypes
  <2> QED BY <1>1, <2>1 DEF Types, FlushTypes, flushing
<1>11. job'[a].cutoff <= gen' /\ gen' = gen /\ gen <= gen'
  BY <1>0, <1>1, <1>6 DEF JobTypes
<1>12. JobTypes' /\ LockInv'
  BY <1>0, <1>1, <1>6, <1>11, JobsKept DEF Holds
<1>13. UNCHANGED <<gen, newest, handler, buffer>>
  BY <1>1 DEF flushing
<1>14. \/ \A p \in Paths :
             /\ view'[p] = tip'[p]
             /\ overlay'[p] = IF Absorbed(p, c, job[a].cutoff) THEN 0 ELSE overlay[p]
       \/ UNCHANGED <<view, overlay>>
  BY <1>2 DEF rotate_tip
<1>15. \A p \in Paths : tip'[p] = IF p \in Owned(c) THEN job[a].snap[p] ELSE tip[p]
  BY <1>1
<1> QED BY <1>1, <1>3, <1>6, <1>9, <1>10, <1>12, <1>13, <1>14, <1>15 DEF Types, t

LEMMA CommitFailsEffect ==
    ASSUME Types, LockInv, NEW a \in Actors, NEW c \in job[a].todo, CommitFails(a, c)
    PROVE  /\ Types' /\ LockInv' /\ OthersKeep(a) /\ UNCHANGED <<garden, handler, buffer>>
           /\ job[a].pc = "commit"
           /\ \/ /\ job'[a].pc = "commit" /\ job'[a].dirty = job[a].dirty
                 /\ job'[a].snap = job[a].snap /\ job'[a].cutoff = job[a].cutoff
                 /\ job'[a].todo = job[a].todo \ {c}
                 /\ job'[a].failed = job[a].failed \cup {c}
              \/ a = "verb" /\ job'[a].pc = "idle"
<1>0. /\ JobTypes /\ job[a].todo \subseteq Chains /\ job[a].failed \subseteq Chains
      /\ gen \in Nat
  BY GardenAssumption DEF Types, JobTypes, JobType, GardenTypes
<1>1. /\ job[a].pc = "commit" /\ UNCHANGED <<garden, handler>> /\ faults' \in 0 .. MaxFaults
  BY FaultTypes DEF CommitFails, Turn
<1>2. CASE /\ a \in Flushers /\ UNCHANGED flushing
           /\ job' = [job EXCEPT ![a].todo = job[a].todo \ {c},
                                 ![a].failed = job[a].failed \cup {c}]
  <2> DEFINE t == job[a].todo \ {c}
             u == job[a].failed \cup {c}
  <2>1. t \in SUBSET Chains /\ u \in SUBSET Chains
    BY <1>0
  <2>2. job' = [job EXCEPT ![a].todo = t, ![a].failed = u]
    BY <1>2
  <2> HIDE DEF t, u
  <2>3. /\ job' \in [Actors -> JobType] /\ OthersKeep(a)
        /\ job'[a].pc = job[a].pc /\ job'[a].dirty = job[a].dirty /\ job'[a].snap = job[a].snap
        /\ job'[a].cutoff = job[a].cutoff /\ job'[a].todo = t /\ job'[a].failed = u
    <3> DEFINE j == [job[a] EXCEPT !.todo = t, !.failed = u]
    <3>1. job' = [job EXCEPT ![a] = j]
      BY <1>0, <2>2 DEF JobTypes
    <3>2. job[a] \in JobType
      BY <1>0 DEF JobTypes
    <3>3. /\ j \in JobType /\ j.pc = job[a].pc /\ j.dirty = job[a].dirty /\ j.snap = job[a].snap
          /\ j.cutoff = job[a].cutoff /\ j.todo = t /\ j.failed = u
      BY <2>1, <3>2 DEF JobType
    <3> HIDE DEF j
    <3> QED BY <1>0, <3>1, <3>3 DEF JobTypes, OthersKeep
  <2>4. GardenTypes' /\ gen' = gen
    BY <1>1 DEF Types, GardenTypes, garden
  <2>5. FlushTypes'
    BY <1>1, <1>2 DEF Types, FlushTypes, flushing
  <2>6. job'[a].cutoff <= gen' /\ gen <= gen'
    BY <1>0, <2>3, <2>4 DEF JobTypes
  <2>7. JobTypes' /\ LockInv'
    BY <1>0, <1>1, <2>3, <2>4, <2>6, JobsKept DEF Holds
  <2>8. buffer' = buffer
    BY <1>2 DEF flushing
  <2> QED BY <1>1, <2>3, <2>4, <2>5, <2>7, <2>8 DEF Types, t, u
<1>3. CASE a = "verb" /\ GiveUp(a, {})
  <2>1. Types' /\ LockInv' /\ OthersKeep(a) /\ job'[a].pc = "idle"
    BY <1>1, <1>3, GiveUpEffect
  <2>2. buffer' = buffer
    BY <1>3, ActorFacts DEF GiveUp, flushing
  <2> QED BY <1>1, <1>3, <2>1, <2>2
<1> QED BY <1>2, <1>3 DEF CommitFails

LEMMA PullEffect ==
    ASSUME Types, LockInv, NEW q \in SharedPaths, Pull(q)
    PROVE  /\ Types' /\ LockInv' /\ LockFree
           /\ UNCHANGED <<overlay, gen, edited, handler, buffer, job>>
           /\ \A p \in Paths \ {q} : tip'[p] = tip[p] /\ newest'[p] = newest[p]
           /\ newest'[q] = IF overlay[q] = 0 THEN 0 ELSE newest[q]
           /\ view' = tip' \/ view' = view
<1>0. q \in Paths /\ gen \in Nat
  BY GardenAssumption DEF Types, GardenTypes
<1>1. /\ LockFree /\ UNCHANGED <<overlay, gen, edited, flushing, handler, job>>
      /\ tip' = [tip EXCEPT ![q] = Peer]
      /\ newest' = [newest EXCEPT ![q] = IF overlay[q] = 0 THEN 0 ELSE newest[q]]
  BY DEF Pull
<1>2. (view' = tip' /\ UNCHANGED faults) \/ (view' = view /\ Fault)
  BY DEF Pull, NoFault
<1>3. tip' \in [Paths -> Content] /\ view' \in [Paths -> Content]
  <2>1. Peer \in Content
    BY DEF Content
  <2> QED BY <1>1, <1>2, <2>1 DEF Types, GardenTypes
<1>4. /\ \A p \in Paths \ {q} : tip'[p] = tip[p] /\ newest'[p] = newest[p]
      /\ newest'[q] = IF overlay[q] = 0 THEN 0 ELSE newest[q]
      /\ newest' \in [Paths -> Nat]
  BY <1>0, <1>1 DEF Types, GardenTypes
<1>5. \A p \in Paths : newest'[p] <= gen
  BY <1>0, <1>4 DEF Types, GardenTypes
<1>6. GardenTypes'
  BY <1>1, <1>3, <1>4, <1>5 DEF Types, GardenTypes
<1>7. FlushTypes'
  <2>1. faults' \in 0 .. MaxFaults
    BY <1>2, FaultTypes
  <2> QED BY <1>1, <2>1 DEF Types, FlushTypes, flushing
<1>8. JobTypes' /\ LockInv' /\ buffer' = buffer
  BY <1>1 DEF Types, JobTypes, LockInv, Holds, flushing
<1> QED BY <1>1, <1>2, <1>4, <1>6, <1>7, <1>8 DEF Types

(* The three ways a job ends: the snapshot fails, the tip cannot be read, or
   every chain had its turn. *)
LEMMA EndEffect ==
    ASSUME Types, LockInv, NEW a \in Actors,
           SnapshotFails(a) \/ PriorTipFails(a) \/ Finish(a)
    PROVE  \E failed :
           /\ Types' /\ LockInv' /\ OthersKeep(a) /\ UNCHANGED <<garden, handler>>
           /\ job'[a].pc = "idle" /\ job'[a].dirty = {} /\ buffer \subseteq buffer'
           /\ a \in Flushers => requeue_events(a, failed) \subseteq buffer'
           /\ \/ Holds(a) /\ failed = Chains
              \/ job[a].pc = "commit" /\ job[a].todo = {} /\ failed = job[a].failed
<1>1. UNCHANGED <<garden, handler>> /\ faults' \in 0 .. MaxFaults /\ Holds(a)
  BY FaultTypes DEF SnapshotFails, PriorTipFails, Finish, Turn, Holds
<1>2. CASE GiveUp(a, Chains)
  BY <1>1, <1>2, GiveUpEffect
<1>3. CASE GiveUp(a, job[a].failed) /\ job[a].pc = "commit" /\ job[a].todo = {}
  BY <1>1, <1>3, GiveUpEffect
<1> QED BY <1>2, <1>3 DEF SnapshotFails, PriorTipFails, Finish, Chains

----------------------------------------------------------------------------
LEMMA TypesInit ==
    Init => Types /\ LockInv
<1> SUFFICES ASSUME Init PROVE Types /\ LockInv
  OBVIOUS
<1>1. Blank \in [Paths -> Nat] /\ Blank \in [Paths -> Content] /\ NoJob \in JobType
  BY NoJobType
<1>2. \A p \in Paths : Blank[p] <= 0
  BY DEF Blank
<1>3. GardenTypes
  BY <1>1, <1>2, GardenAssumption DEF Init, GardenTypes
<1>4. FlushTypes
  <2>1. NoHandler \in [pc : {"idle", "push", "nudge"}, path : Paths]
    BY GardenAssumption DEF NoHandler
  <2>2. faults \in 0 .. MaxFaults
    BY GardenAssumption DEF Init
  <2>3. armed \in BOOLEAN /\ nudged \in BOOLEAN
    BY Zenon DEF Init
  <2>4. buffer \subseteq Paths /\ stoodDown \subseteq Paths /\ handler = NoHandler
    BY DEF Init
  <2> QED BY <2>1, <2>2, <2>3, <2>4 DEF FlushTypes
<1>5. \A a \in Actors : job[a] = NoJob
  BY DEF Init
<1>6. JobTypes
  <2>1. \A a \in Actors : job[a].cutoff = 0
    BY <1>5, NoJobType
  <2> QED BY <1>1, <2>1 DEF Init, JobTypes
<1>7. LockInv
  <2>1. \A a \in Actors : job[a].pc = "idle"
    BY <1>5, NoJobType
  <2> QED BY <2>1 DEF LockInv, Holds
<1> QED BY <1>3, <1>4, <1>6, <1>7 DEF Types

LEMMA TypesStep ==
    ASSUME Types, LockInv, [Next]_vars
    PROVE  Types' /\ LockInv'
<1>1. CASE (\E p \in Paths : EditStage(p)) \/ EditPush \/ EditNudge
  BY <1>1, EditTypes
<1>2. ASSUME NEW p \in Paths, VerbStage(p) PROVE Types' /\ LockInv'
  BY <1>2, VerbStageEffect
<1>3. CASE run_flush_loop \/ process_batch \/ WatchTimeout
  BY <1>3, WakeupEffect
<1>4. ASSUME NEW f \in Flushers, FlushStep(f) PROVE Types' /\ LockInv'
  BY <1>4, TakeEffect, ClearEffect, BeginEffect DEF FlushStep
<1>5. CASE VerbFails
  BY <1>5, VerbFailsEffect
<1>6. CASE commit_now
  BY <1>6, CommitNowEffect
<1>7. ASSUME NEW a \in Actors, CommitStep(a) PROVE Types' /\ LockInv'
  <2>1. ASSUME NEW deferred \in SUBSET (job[a].todo \cap {"shared"}), Snapshot(a, deferred)
        PROVE  Types' /\ LockInv'
    BY <2>1, SnapshotEffect
  <2>2. CASE SnapshotFails(a) \/ PriorTipFails(a) \/ Finish(a)
    BY <2>2, EndEffect
  <2>3. ASSUME NEW c \in job[a].todo, Commit(a, c) PROVE Types' /\ LockInv'
    BY <2>3, CommitEffect
  <2>4. ASSUME NEW c \in job[a].todo, CommitFails(a, c) PROVE Types' /\ LockInv'
    BY <2>4, CommitFailsEffect
  <2> QED BY <1>7, <2>1, <2>2, <2>3, <2>4 DEF CommitStep
<1>8. ASSUME NEW p \in SharedPaths, Pull(p) PROVE Types' /\ LockInv'
  BY <1>8, PullEffect
<1>9. CASE set_registry
  BY <1>9 DEF set_registry, flushing, Types, GardenTypes, FlushTypes, JobTypes, LockInv, Holds
<1>10. CASE UNCHANGED vars
  BY <1>10 DEF vars, garden, flushing, Types, GardenTypes, FlushTypes, JobTypes, LockInv, Holds
<1> QED BY <1>1, <1>2, <1>3, <1>4, <1>5, <1>6, <1>7, <1>8, <1>9, <1>10 DEF Next

LEMMA TypesGiveTypeOK ==
    ASSUME Types, LockInv PROVE TypeOK
<1>1. gen \in Nat /\ gen \in 0 .. MaxWrites
  BY GardenAssumption DEF Types, GardenTypes
<1>2. overlay \in [Paths -> 0 .. gen] /\ newest \in [Paths -> 0 .. gen]
  <2>1. \A p \in Paths : overlay[p] \in 0 .. gen /\ newest[p] \in 0 .. gen
    BY <1>1 DEF Types, GardenTypes
  <2> QED BY <2>1 DEF Types, GardenTypes
<1>3. ASSUME NEW a \in Actors
      PROVE  /\ job[a].pc \in {"idle", "take", "clear", "wait", "staging", "snapshot", "commit"}
             /\ job[a].dirty \subseteq Paths /\ job[a].snap \in [Paths -> Content]
             /\ job[a].cutoff \in 0 .. gen
             /\ job[a].todo \subseteq Chains /\ job[a].failed \subseteq Chains
  <2>1. job[a] \in JobType /\ job[a].cutoff <= gen
    BY DEF Types, JobTypes
  <2>2. /\ job[a].pc \in {"idle", "take", "clear", "wait", "staging", "snapshot", "commit"}
        /\ job[a].dirty \subseteq Paths /\ job[a].snap \in [Paths -> Content]
        /\ job[a].cutoff \in Nat
        /\ job[a].todo \subseteq Chains /\ job[a].failed \subseteq Chains
    BY <2>1 DEF JobType
  <2> QED BY <1>1, <2>1, <2>2
<1> DEFINE H == {a \in Actors : job[a].pc \in {"staging", "snapshot", "commit"}}
<1>4. Cardinality(H) <= 1
  <2>1. CASE H = {}
    BY <2>1, FS_EmptySet
  <2>2. CASE \E a \in H : H = {a}
    <3>1. PICK a \in H : H = {a}
      BY <2>2
    <3>2. Cardinality({a}) = 1
      BY FS_Singleton
    <3> QED BY <3>1, <3>2
  <2>3. H = {} \/ \E a \in H : H = {a}
    BY DEF LockInv, Holds
  <2> QED BY <2>1, <2>2, <2>3
<1> QED BY <1>1, <1>2, <1>3, <1>4 DEF TypeOK, Types, GardenTypes, FlushTypes

(* Spec => []TypeOK: whatever edits, flushes, verbs, pulls and failures
   interleave, every variable keeps its type and at most one thread is inside
   the daemon lock. *)
THEOREM TypeCorrect == Spec => []TypeOK
<1>1. Types /\ LockInv /\ [Next]_vars => (Types /\ LockInv)'
  BY TypesStep
<1>2. Types /\ LockInv => TypeOK
  BY TypesGiveTypeOK
<1> QED BY <1>1, <1>2, TypesInit, PTL DEF Spec

----------------------------------------------------------------------------
(* No write is dropped. *)
LEMMA KeepInit ==
    Init => KeepInv
<1> SUFFICES ASSUME Init PROVE KeepInv
  OBVIOUS
<1>1. \A p \in Paths : overlay[p] = 0 /\ newest[p] = 0
  BY DEF Init, Blank
<1> QED BY <1>1 DEF Init, KeepInv, PathInv, SnapInv

(* A step that leaves the garden alone, and only goes on with the commits. *)
LEMMA KeepStable ==
    ASSUME KeepInv, UNCHANGED garden,
           \A a \in Actors : job'[a].pc = "commit" =>
               /\ job[a].pc = "commit" /\ job'[a].todo \subseteq job[a].todo
               /\ job'[a].cutoff = job[a].cutoff /\ job'[a].snap = job[a].snap
    PROVE  KeepInv'
<1> SUFFICES ASSUME NEW p \in Paths, NEW a \in Actors PROVE PathInv(p)' /\ SnapInv(a, p)'
  BY ActorFacts DEF KeepInv
<1>1. PathInv(p) /\ SnapInv(a, p)
  BY DEF KeepInv
<1> QED BY <1>1 DEF PathInv, SnapInv, garden

LEMMA KeepStage ==
    ASSUME Types, Types', KeepInv, NEW q \in Paths, Stage(q), edited' \subseteq edited \cup {q},
           \A a \in Actors : job'[a].pc = "commit" => job'[a] = job[a]
    PROVE  KeepInv'
<1> SUFFICES ASSUME NEW p \in Paths, NEW a \in Actors PROVE PathInv(p)' /\ SnapInv(a, p)'
  BY ActorFacts DEF KeepInv
<1>1. PathInv(p) /\ SnapInv(a, p)
  BY DEF KeepInv
<1>2. UNCHANGED <<view, tip>>
  BY DEF Stage
<1>3. CASE p = q
  <2>1. overlay'[p] = gen + 1 /\ newest'[p] = gen + 1 /\ gen \in Nat
    BY <1>3, GardenAssumption DEF Stage, Types, GardenTypes
  <2>2. job[a].cutoff \in Nat /\ job[a].cutoff <= gen
    BY DEF Types, JobTypes, JobType
  <2>3. overlay'[p] # 0 /\ overlay'[p] = newest'[p] /\ ~(newest'[p] <= job[a].cutoff)
    BY <2>1, <2>2
  <2> QED BY <2>3 DEF PathInv, SnapInv
<1>4. CASE p # q
  <2>1. overlay'[p] = overlay[p] /\ newest'[p] = newest[p] /\ (p \in edited' => p \in edited)
    BY <1>4 DEF Stage, Types, GardenTypes
  <2> QED BY <1>1, <1>2, <2>1 DEF PathInv, SnapInv
<1> QED BY <1>3, <1>4

LEMMA KeepSnapshot ==
    ASSUME Types, LockInv, KeepInv, NEW a \in Actors,
           NEW deferred \in SUBSET (job[a].todo \cap {"shared"}), Snapshot(a, deferred)
    PROVE  KeepInv'
<1> SUFFICES ASSUME NEW p \in Paths, NEW b \in Actors PROVE PathInv(p)' /\ SnapInv(b, p)'
  BY ActorFacts DEF KeepInv
<1>1. PathInv(p) /\ SnapInv(b, p)
  BY DEF KeepInv
<1>2. /\ UNCHANGED garden /\ OthersKeep(a)
      /\ job'[a].snap = [x \in Paths |-> Shown(x)] /\ job'[a].cutoff = gen
  BY SnapshotEffect
<1>3. newest[p] <= gen
  BY DEF Types, GardenTypes
<1>4. CASE b = a
  BY <1>1, <1>2, <1>3, <1>4 DEF PathInv, SnapInv, garden, Shown
<1>5. CASE b # a
  <2>1. job'[b] = job[b]
    BY <1>2, <1>5 DEF OthersKeep
  <2> QED BY <1>1, <1>2, <2>1 DEF PathInv, SnapInv, garden
<1> QED BY <1>4, <1>5

LEMMA KeepCommit ==
    ASSUME Types, LockInv, KeepInv, NEW a \in Actors, NEW c \in job[a].todo, Commit(a, c)
    PROVE  KeepInv'
<1> SUFFICES ASSUME NEW p \in Paths, NEW b \in Actors PROVE PathInv(p)' /\ SnapInv(b, p)'
  BY ActorFacts DEF KeepInv
<1>1. PathInv(p) /\ SnapInv(a, p)
  BY DEF KeepInv
<1>2. /\ OthersKeep(a) /\ UNCHANGED newest /\ c \in Chains /\ LockInv'
      /\ job[a].pc = "commit" /\ job'[a].pc = "commit" /\ job'[a].snap = job[a].snap
      /\ job'[a].cutoff = job[a].cutoff /\ job'[a].todo = job[a].todo \ {c}
      /\ edited' = edited \ {x \in Owned(c) : overlay[x] = job[a].snap[x]}
      /\ tip'[p] = IF p \in Owned(c) THEN job[a].snap[p] ELSE tip[p]
  BY CommitEffect
<1>3. \/ /\ view'[p] = tip'[p]
         /\ overlay'[p] = IF Absorbed(p, c, job[a].cutoff) THEN 0 ELSE overlay[p]
      \/ view'[p] = view[p] /\ overlay'[p] = overlay[p]
  <2>1. \/ \A x \in Paths :
             /\ view'[x] = tip'[x]
             /\ overlay'[x] = IF Absorbed(x, c, job[a].cutoff) THEN 0 ELSE overlay[x]
        \/ UNCHANGED <<view, overlay>>
    BY CommitEffect
  <2> QED BY <2>1
<1>4. p \in Owned(c) <=> owning_chain(p) = c
  BY <1>2, PathFacts
<1>5. /\ overlay[p] \in Nat /\ newest[p] \in Nat /\ job[a].cutoff \in Nat
  BY DEF Types, GardenTypes, JobTypes, JobType
<1>6. CASE p \in Owned(c)
  <2>1. newest[p] # 0 => IF newest[p] <= job[a].cutoff THEN job[a].snap[p] = newest[p]
                         ELSE overlay[p] = newest[p]
    BY <1>1, <1>2, <1>4, <1>6 DEF SnapInv
  <2>2. p \in edited' => p \in edited /\ overlay[p] # job[a].snap[p]
    BY <1>2, <1>6
  <2>3. tip'[p] = job[a].snap[p]
    BY <1>2, <1>6
  <2>4. \/ /\ overlay[p] <= job[a].cutoff /\ view'[p] = tip'[p] /\ overlay'[p] = 0
        \/ /\ ~(overlay[p] <= job[a].cutoff) /\ view'[p] = tip'[p] /\ overlay'[p] = overlay[p]
        \/ view'[p] = view[p] /\ overlay'[p] = overlay[p]
    BY <1>3, <1>6 DEF Absorbed
  <2>5. newest'[p] = newest[p]
    BY <1>2
  <2>6. PathInv(p)'
    BY <1>1, <1>5, <2>1, <2>2, <2>3, <2>4, <2>5 DEF PathInv
  <2>7. SnapInv(b, p)'
    <3>1. CASE b = a
      <4>1. owning_chain(p) \notin job'[a].todo
        BY <1>2, <1>4, <1>6
      <4> QED BY <3>1, <4>1 DEF SnapInv, owning_chain
    <3>2. CASE b # a
      <4>1. job'[b].pc # "commit"
        BY <1>2, <3>2 DEF LockInv, Holds
      <4> QED BY <4>1 DEF SnapInv
    <3> QED BY <3>1, <3>2
  <2> QED BY <2>6, <2>7
<1>7. CASE p \notin Owned(c)
  <2>1. /\ tip'[p] = tip[p] /\ overlay'[p] = overlay[p] /\ newest'[p] = newest[p]
        /\ p \in edited' => p \in edited
        /\ view'[p] = tip[p] \/ view'[p] = view[p]
    BY <1>2, <1>3, <1>7 DEF Absorbed
  <2>2. PathInv(p)'
    BY <1>1, <2>1 DEF PathInv
  <2>3. SnapInv(b, p)'
    <3>1. CASE b = a
      BY <1>1, <1>2, <2>1, <3>1 DEF SnapInv
    <3>2. CASE b # a
      <4>1. job'[b].pc # "commit"
        BY <1>2, <3>2 DEF LockInv, Holds
      <4> QED BY <4>1 DEF SnapInv
    <3> QED BY <3>1, <3>2
  <2> QED BY <2>2, <2>3
<1> QED BY <1>6, <1>7

LEMMA KeepPull ==
    ASSUME Types, LockInv, KeepInv, NEW q \in SharedPaths, Pull(q)
    PROVE  KeepInv'
<1> SUFFICES ASSUME NEW p \in Paths, NEW b \in Actors PROVE PathInv(p)' /\ SnapInv(b, p)'
  BY ActorFacts DEF KeepInv
<1>1. PathInv(p)
  BY DEF KeepInv
<1>2. /\ LockFree /\ UNCHANGED <<overlay, edited, job>>
      /\ \A x \in Paths \ {q} : tip'[x] = tip[x] /\ newest'[x] = newest[x]
      /\ newest'[q] = IF overlay[q] = 0 THEN 0 ELSE newest[q]
      /\ view' = tip' \/ view' = view
  BY PullEffect
<1>3. SnapInv(b, p)'
  BY <1>2 DEF SnapInv, LockFree
<1>4. PathInv(p)'
  <2>1. CASE p = q
    BY <1>1, <1>2, <2>1 DEF PathInv
  <2>2. CASE p # q
    BY <1>1, <1>2, <2>2 DEF PathInv
  <2> QED BY <2>1, <2>2
<1> QED BY <1>3, <1>4

LEMMA KeepStep ==
    ASSUME Types, LockInv, KeepInv, [Next]_vars
    PROVE  KeepInv'
<1>0. Types'
  BY TypesStep
<1>1. CASE \E p \in Paths : EditStage(p)
  <2>1. PICK q \in Paths : EditStage(q)
    BY <1>1
  <2>2. Stage(q) /\ edited' = edited \cup {q} /\ job' = job
    BY <2>1 DEF EditStage
  <2> QED BY <1>0, <2>2, KeepStage
<1>2. CASE EditPush \/ EditNudge
  BY <1>2, KeepStable DEF EditPush, EditNudge
<1>3. ASSUME NEW p \in Paths, VerbStage(p) PROVE KeepInv'
  <2>1. /\ Stage(p) /\ edited' = edited \ {p} /\ OthersKeep("verb")
        /\ job'["verb"].pc = "staging"
    BY <1>3, VerbStageEffect
  <2>2. \A a \in Actors : job'[a].pc = "commit" => job'[a] = job[a]
    BY <2>1 DEF OthersKeep
  <2>3. edited' \subseteq edited \cup {p}
    BY <2>1
  <2> QED BY <1>0, <2>1, <2>2, <2>3, KeepStage
<1>4. CASE run_flush_loop \/ process_batch \/ WatchTimeout
  <2>1. PICK f \in Flushers : UNCHANGED garden /\ OthersKeep(f) /\ job'[f].pc = "take"
    BY <1>4, WakeupEffect
  <2> QED BY <2>1, KeepStable DEF OthersKeep
<1>5. ASSUME NEW f \in Flushers, FlushStep(f) PROVE KeepInv'
  <2>1. UNCHANGED garden /\ OthersKeep(f) /\ job'[f].pc # "commit"
    BY <1>5, TakeEffect, ClearEffect, BeginEffect DEF FlushStep
  <2> QED BY <2>1, KeepStable DEF OthersKeep
<1>6. CASE VerbFails \/ commit_now
  <2>1. UNCHANGED garden /\ OthersKeep("verb") /\ job'["verb"].pc # "commit"
    BY <1>6, VerbFailsEffect, CommitNowEffect
  <2> QED BY <2>1, KeepStable DEF OthersKeep
<1>7. ASSUME NEW a \in Actors, CommitStep(a) PROVE KeepInv'
  <2>1. ASSUME NEW deferred \in SUBSET (job[a].todo \cap {"shared"}), Snapshot(a, deferred)
        PROVE  KeepInv'
    BY <2>1, KeepSnapshot
  <2>2. CASE SnapshotFails(a) \/ PriorTipFails(a) \/ Finish(a)
    <3>1. UNCHANGED garden /\ OthersKeep(a) /\ job'[a].pc = "idle"
      BY <2>2, EndEffect
    <3> QED BY <3>1, KeepStable DEF OthersKeep
  <2>3. ASSUME NEW c \in job[a].todo, Commit(a, c) PROVE KeepInv'
    BY <2>3, KeepCommit
  <2>4. ASSUME NEW c \in job[a].todo, CommitFails(a, c) PROVE KeepInv'
    <3>1. /\ UNCHANGED garden /\ OthersKeep(a) /\ job[a].pc = "commit"
          /\ \/ /\ job'[a].snap = job[a].snap /\ job'[a].cutoff = job[a].cutoff
                /\ job'[a].todo = job[a].todo \ {c}
             \/ job'[a].pc = "idle"
      BY <2>4, CommitFailsEffect
    <3> QED BY <3>1, KeepStable DEF OthersKeep
  <2> QED BY <1>7, <2>1, <2>2, <2>3, <2>4 DEF CommitStep
<1>8. ASSUME NEW p \in SharedPaths, Pull(p) PROVE KeepInv'
  BY <1>8, KeepPull
<1>9. CASE set_registry
  <2>1. UNCHANGED <<overlay, tip, newest, edited, job>> /\ view' = tip
    BY <1>9 DEF set_registry
  <2>2. ASSUME NEW p \in Paths PROVE PathInv(p)' /\ \A a \in Actors : SnapInv(a, p)'
    BY <2>1 DEF KeepInv, PathInv, SnapInv
  <2> QED BY <2>2 DEF KeepInv
<1>10. CASE UNCHANGED vars
  BY <1>10, KeepStable DEF vars
<1> QED BY <1>1, <1>2, <1>3, <1>4, <1>5, <1>6, <1>7, <1>8, <1>9, <1>10 DEF Next

(* Spec => []KeepInv: a staged write is the newest of its path, and a commit in
   progress either captured the newest write of each path it will advance or
   will leave that write staged. *)
THEOREM KeepInvariant == Spec => [](Types /\ LockInv /\ KeepInv)
<1>1. Types /\ LockInv /\ KeepInv /\ [Next]_vars => (Types /\ LockInv /\ KeepInv)'
  BY TypesStep, KeepStep
<1>2. Init => Types /\ LockInv /\ KeepInv
  BY TypesInit, KeepInit
<1> QED BY <1>1, <1>2, PTL DEF Spec

(* Spec => []WriteKept: no rotation of the mounted view, after a commit of
   either chain or a peer's edit, drops a local write from what the mount shows. *)
THEOREM WritesKept == Spec => []WriteKept
<1>1. KeepInv => WriteKept
  BY DEF KeepInv, PathInv, WriteKept, Shown
<1> QED BY <1>1, KeepInvariant, PTL

----------------------------------------------------------------------------
(* No edit is forgotten. *)
LEMMA TrackInit ==
    Init => TrackInv
<1> SUFFICES ASSUME Init PROVE TrackInv
  OBVIOUS
<1>1. edited = {}
  BY DEF Init
<1>2. \A f \in Flushers : job[f].pc = "idle" /\ job[f].dirty = {}
  BY NoJobType, ActorFacts DEF Init
<1> QED BY <1>1, <1>2 DEF TrackInv, EditTracked, HandInv, LeftInv

(* The threads outside the lock, at the end of a step of its holder a. *)
LEMMA OthersOutside ==
    ASSUME LockInv, NEW a \in Actors, Holds(a), OthersKeep(a), NEW b \in Actors, b # a
    PROVE  job[b].pc # "commit" /\ job'[b].pc # "commit" /\ job'[b] = job[b]
BY DEF LockInv, Holds, OthersKeep

(* No flush moves and nothing reported is lost. *)
LEMMA TrackMono ==
    ASSUME TrackInv, \A f \in Flushers : job'[f] = job[f],
           edited' \subseteq edited, \A p \in edited' : newest'[p] = newest[p],
           buffer \subseteq buffer',
           \/ handler' = handler
           \/ handler.pc = "push" => handler.path \in buffer'
    PROVE  TrackInv'
<1>1. ASSUME NEW f \in Flushers, NEW p \in Paths, TrackedElse(p, f) PROVE TrackedElse(p, f)'
  BY <1>1 DEF TrackedElse
<1>2. EditTracked'
  BY DEF TrackInv, EditTracked
<1>3. ASSUME NEW f \in Flushers PROVE HandInv(f)'
  BY <1>3 DEF TrackInv, HandInv, owning_chain
<1>4. ASSUME NEW f \in Flushers, NEW p \in Paths PROVE LeftInv(f, p)'
  <2>1. LeftInv(f, p) /\ job'[f] = job[f]
    BY <1>4 DEF TrackInv
  <2> SUFFICES ASSUME job'[f].pc = "commit", p \in edited',
                      \/ p \in job'[f].dirty /\ owning_chain(p) \notin job'[f].todo \cup job'[f].failed
                      \/ newest'[p] > job'[f].cutoff
               PROVE  TrackedElse(p, f)'
    BY DEF LeftInv, owning_chain
  <2>2. TrackedElse(p, f)
    BY <2>1 DEF LeftInv
  <2> QED BY <1>1, <1>4, <2>2
<1> QED BY <1>2, <1>3, <1>4 DEF TrackInv

(* A step of flusher f that keeps its paths in hand. *)
LEMMA TrackOwn ==
    ASSUME TrackInv, NEW f \in Flushers, OthersKeep(f), job'[f].dirty = job[f].dirty,
           edited' \subseteq edited, UNCHANGED <<newest, buffer, handler>>,
           HandInv(f)', \A p \in Paths : LeftInv(f, p)'
    PROVE  TrackInv'
<1>1. \A g \in Flushers : job'[g].dirty = job[g].dirty /\ (g # f => job'[g] = job[g])
  BY ActorFacts DEF OthersKeep
<1>2. ASSUME NEW g \in Flushers, NEW p \in Paths, TrackedElse(p, g) PROVE TrackedElse(p, g)'
  BY <1>1, <1>2 DEF TrackedElse
<1>3. EditTracked'
  BY <1>1 DEF TrackInv, EditTracked
<1>4. ASSUME NEW g \in Flushers, g # f, NEW p \in Paths PROVE HandInv(g)' /\ LeftInv(g, p)'
  <2>1. HandInv(g) /\ LeftInv(g, p) /\ job'[g] = job[g]
    BY <1>1, <1>4 DEF TrackInv
  <2>2. HandInv(g)'
    BY <2>1 DEF HandInv, owning_chain
  <2>3. LeftInv(g, p)'
    <3> SUFFICES ASSUME job'[g].pc = "commit", p \in edited',
                        \/ p \in job'[g].dirty /\ owning_chain(p) \notin job'[g].todo \cup job'[g].failed
                        \/ newest'[p] > job'[g].cutoff
                 PROVE  TrackedElse(p, g)'
      BY DEF LeftInv, owning_chain
    <3>1. TrackedElse(p, g)
      BY <2>1 DEF LeftInv
    <3> QED BY <1>2, <1>4, <3>1
  <2> QED BY <2>2, <2>3
<1>5. Paths # {}
  BY GardenAssumption
<1> QED BY <1>3, <1>4, <1>5 DEF TrackInv

LEMMA TrackTake ==
    ASSUME Types, LockInv, TrackInv, NEW f \in Flushers, Take(f)
    PROVE  TrackInv'
<1>1. /\ UNCHANGED <<garden, handler>> /\ job[f].pc = "take" /\ job'[f].dirty = buffer
      /\ job'[f].pc = IF buffer = {} THEN "clear" ELSE "wait"
      /\ \A g \in Flushers \ {f} : job'[g] = job[g]
  BY TakeEffect, ActorFacts DEF OthersKeep
<1>2. job[f].dirty = {}
  BY <1>1 DEF TrackInv, HandInv
<1>3. UNCHANGED <<edited, newest>>
  BY <1>1 DEF garden
<1>4. EditTracked'
  BY <1>1, <1>2, <1>3 DEF TrackInv, EditTracked
<1>5. ASSUME NEW g \in Flushers, NEW p \in Paths PROVE HandInv(g)' /\ LeftInv(g, p)'
  <2>1. CASE g = f
    BY <1>1, <2>1 DEF HandInv, LeftInv
  <2>2. CASE g # f
    <3>1. HandInv(g) /\ LeftInv(g, p) /\ job'[g] = job[g]
      BY <1>1, <1>5, <2>2 DEF TrackInv
    <3>2. HandInv(g)'
      BY <3>1 DEF HandInv, owning_chain
    <3>3. TrackedElse(p, g) => TrackedElse(p, g)'
      BY <1>1, <1>2, <2>2 DEF TrackedElse
    <3>4. LeftInv(g, p)'
      <4> SUFFICES ASSUME job'[g].pc = "commit", p \in edited',
                          \/ p \in job'[g].dirty /\ owning_chain(p) \notin job'[g].todo \cup job'[g].failed
                          \/ newest'[p] > job'[g].cutoff
                   PROVE  TrackedElse(p, g)'
        BY DEF LeftInv, owning_chain
      <4>1. TrackedElse(p, g)
        BY <1>3, <3>1 DEF LeftInv
      <4> QED BY <3>3, <4>1
    <3> QED BY <3>2, <3>4
  <2> QED BY <2>1, <2>2
<1> QED BY <1>4, <1>5, GardenAssumption DEF TrackInv

(* The end of a flush: what it could not commit is requeued, and the rest of what
   it had in hand is committed or somebody else's. *)
LEMMA TrackEnd ==
    ASSUME Types, LockInv, TrackInv, NEW f \in Flushers,
           SnapshotFails(f) \/ PriorTipFails(f) \/ Finish(f)
    PROVE  TrackInv'
<1>0. f \in Actors /\ job[f].dirty \subseteq Paths
  BY ActorFacts DEF Types, JobTypes, JobType
<1>1. PICK failed :
      /\ OthersKeep(f) /\ UNCHANGED <<garden, handler>>
      /\ job'[f].pc = "idle" /\ job'[f].dirty = {} /\ buffer \subseteq buffer'
      /\ requeue_events(f, failed) \subseteq buffer'
      /\ \/ Holds(f) /\ failed = Chains
         \/ job[f].pc = "commit" /\ job[f].todo = {} /\ failed = job[f].failed
  BY <1>0, EndEffect
<1>2. UNCHANGED <<edited, newest>> /\ Holds(f)
  BY <1>1 DEF garden, Holds
<1>3. ASSUME NEW p \in Paths, p \in edited, p \in job[f].dirty
      PROVE  p \in buffer' \/ TrackedElse(p, f)
  <2>1. CASE owning_chain(p) \in failed
    BY <1>1, <1>3, <2>1 DEF requeue_events
  <2>2. CASE owning_chain(p) \notin failed
    <3>1. job[f].pc = "commit" /\ job[f].todo = {} /\ failed = job[f].failed
      BY <1>1, <1>3, <2>2, PathFacts
    <3>2. LeftInv(f, p)
      BY <1>3 DEF TrackInv
    <3> QED BY <1>3, <2>2, <3>1, <3>2 DEF LeftInv
  <2> QED BY <2>1, <2>2
<1>4. \A g \in Flushers \ {f} : job'[g] = job[g] /\ job[g].pc # "commit"
  BY <1>0, <1>1, <1>2, ActorFacts, OthersOutside
<1>5. EditTracked'
  <2> SUFFICES ASSUME NEW p \in edited' PROVE \/ p \in buffer'
                                              \/ handler'.pc = "push" /\ handler'.path = p
                                              \/ \E g \in Flushers : p \in job'[g].dirty
    BY DEF EditTracked
  <2>1. p \in edited /\ p \in Paths
    BY <1>2 DEF Types, GardenTypes
  <2>2. TrackedElse(p, f) \/ p \in job[f].dirty
    BY <2>1 DEF TrackInv, EditTracked, TrackedElse
  <2>3. p \in buffer' \/ TrackedElse(p, f)
    BY <1>3, <2>1, <2>2
  <2> QED BY <1>1, <1>4, <2>3 DEF TrackedElse
<1>6. ASSUME NEW g \in Flushers, NEW p \in Paths PROVE HandInv(g)' /\ LeftInv(g, p)'
  <2>1. CASE g = f
    BY <1>1, <2>1 DEF HandInv, LeftInv
  <2>2. CASE g # f
    <3>1. HandInv(g) /\ job'[g] = job[g] /\ job[g].pc # "commit"
      BY <1>4, <1>6, <2>2 DEF TrackInv
    <3> QED BY <3>1 DEF HandInv, LeftInv, owning_chain
  <2> QED BY <2>1, <2>2
<1> QED BY <1>5, <1>6, GardenAssumption DEF TrackInv

(* A flush commits a chain: of its paths there, one that is still uncommitted was
   written after the snapshot, and its write is reported anew. *)
LEMMA TrackCommit ==
    ASSUME Types, LockInv, KeepInv, TrackInv, NEW f \in Flushers, NEW c \in job[f].todo,
           Commit(f, c)
    PROVE  TrackInv'
<1>0. f \in Actors
  BY ActorFacts
<1>1. /\ OthersKeep(f) /\ UNCHANGED <<newest, handler, buffer>>
      /\ job[f].pc = "commit" /\ job'[f].pc = "commit" /\ job'[f].dirty = job[f].dirty
      /\ job'[f].cutoff = job[f].cutoff
      /\ job'[f].failed = job[f].failed /\ job'[f].todo = job[f].todo \ {c}
      /\ edited' = edited \ {p \in Owned(c) : overlay[p] = job[f].snap[p]}
      /\ c \in Chains
  BY <1>0, CommitEffect
<1>2. HandInv(f)'
  BY <1>1 DEF HandInv
<1>3. ASSUME NEW p \in Paths PROVE LeftInv(f, p)'
  <2> SUFFICES ASSUME p \in edited',
                      \/ p \in job'[f].dirty /\ owning_chain(p) \notin job'[f].todo \cup job'[f].failed
                      \/ newest'[p] > job'[f].cutoff
               PROVE  TrackedElse(p, f)'
    BY DEF LeftInv, owning_chain
  <2>1. LeftInv(f, p) /\ p \in edited
    BY <1>1, <1>3 DEF TrackInv
  <2>2. TrackedElse(p, f)
    <3>1. CASE owning_chain(p) = c
      <4>1. overlay[p] # job[f].snap[p]
        BY <1>1, <1>3, <3>1, PathFacts
      <4>2. PathInv(p) /\ SnapInv(f, p)
        BY <1>0, <1>3 DEF KeepInv
      <4>3. newest[p] \in Nat /\ job[f].cutoff \in Nat
        BY <1>0, <1>3 DEF Types, GardenTypes, JobTypes, JobType
      <4>4. newest[p] > job[f].cutoff
        BY <1>1, <2>1, <3>1, <4>1, <4>2, <4>3 DEF PathInv, SnapInv
      <4> QED BY <1>1, <2>1, <4>4 DEF LeftInv
    <3>2. CASE owning_chain(p) # c
      BY <1>1, <2>1, <3>2 DEF LeftInv
    <3> QED BY <3>1, <3>2
  <2>3. \A g \in Flushers \ {f} : job'[g] = job[g]
    BY <1>1, ActorFacts DEF OthersKeep
  <2> QED BY <1>1, <2>2, <2>3 DEF TrackedElse
<1>4. edited' \subseteq edited
  BY <1>1
<1> QED BY <1>1, <1>2, <1>3, <1>4, TrackOwn

LEMMA TrackEdit ==
    ASSUME Types, TrackInv, NEW q \in Paths, EditStage(q)
    PROVE  TrackInv'
<1>1. /\ handler.pc = "idle" /\ edited' = edited \cup {q} /\ UNCHANGED <<buffer, job>>
      /\ handler'.pc = "push" /\ handler'.path = q
      /\ newest' = [newest EXCEPT ![q] = gen + 1]
  BY DEF EditStage, Stage, flushing
<1>2. EditTracked'
  BY <1>1 DEF TrackInv, EditTracked
<1>3. ASSUME NEW f \in Flushers, NEW p \in Paths PROVE HandInv(f)' /\ LeftInv(f, p)'
  <2>1. HandInv(f) /\ LeftInv(f, p)
    BY <1>3 DEF TrackInv
  <2>2. HandInv(f)'
    BY <1>1, <2>1 DEF HandInv, owning_chain
  <2>3. CASE p = q
    <3>1. TrackedElse(p, f)'
      BY <1>1, <2>3 DEF TrackedElse
    <3> QED BY <2>2, <3>1 DEF LeftInv
  <2>4. CASE p # q
    <3>1. newest'[p] = newest[p] /\ (p \in edited' => p \in edited)
      BY <1>1, <2>4 DEF Types, GardenTypes
    <3>2. TrackedElse(p, f) => TrackedElse(p, f)'
      BY <1>1 DEF TrackedElse
    <3> SUFFICES ASSUME job'[f].pc = "commit", p \in edited',
                        \/ p \in job'[f].dirty /\ owning_chain(p) \notin job'[f].todo \cup job'[f].failed
                        \/ newest'[p] > job'[f].cutoff
                 PROVE  TrackedElse(p, f)'
      BY <2>2 DEF LeftInv, owning_chain
    <3>3. TrackedElse(p, f)
      BY <1>1, <2>1, <3>1 DEF LeftInv
    <3> QED BY <3>2, <3>3
  <2> QED BY <2>3, <2>4
<1> QED BY <1>2, <1>3, GardenAssumption DEF TrackInv

(* A flusher's snapshot and its failed commit. *)
LEMMA TrackSnapshot ==
    ASSUME Types, LockInv, TrackInv, NEW f \in Flushers,
           NEW deferred \in SUBSET (job[f].todo \cap {"shared"}), Snapshot(f, deferred)
    PROVE  TrackInv'
<1>0. f \in Actors
  BY ActorFacts
<1>1. /\ OthersKeep(f) /\ UNCHANGED <<garden, handler, buffer>>
      /\ job[f].pc = "snapshot" /\ job'[f].pc = "commit" /\ job'[f].dirty = job[f].dirty
      /\ job'[f].cutoff = gen /\ job'[f].todo = job[f].todo \ deferred
      /\ job'[f].failed = deferred
  BY <1>0, SnapshotEffect
<1>2. UNCHANGED <<edited, newest>>
  BY <1>1 DEF garden
<1>3. HandInv(f)'
  BY <1>1 DEF HandInv
<1>4. ASSUME NEW p \in Paths PROVE LeftInv(f, p)'
  <2>1. newest[p] \in Nat /\ gen \in Nat /\ newest[p] <= gen
    BY <1>4, GardenAssumption DEF Types, GardenTypes
  <2>2. ~(newest'[p] > job'[f].cutoff)
    BY <1>1, <1>2, <2>1
  <2>3. p \in job'[f].dirty => owning_chain(p) \in job'[f].todo \cup job'[f].failed
    BY <1>1 DEF TrackInv, HandInv
  <2> QED BY <2>2, <2>3 DEF LeftInv, owning_chain
<1> QED BY <1>1, <1>2, <1>3, <1>4, TrackOwn

LEMMA TrackCommitFails ==
    ASSUME Types, LockInv, TrackInv, NEW f \in Flushers, NEW c \in job[f].todo,
           CommitFails(f, c)
    PROVE  TrackInv'
<1>0. f \in Actors /\ f # "verb"
  BY ActorFacts
<1>1. /\ OthersKeep(f) /\ UNCHANGED <<garden, handler, buffer>>
      /\ job[f].pc = "commit" /\ job'[f].pc = "commit" /\ job'[f].dirty = job[f].dirty
      /\ job'[f].cutoff = job[f].cutoff /\ job'[f].todo = job[f].todo \ {c}
      /\ job'[f].failed = job[f].failed \cup {c}
  BY <1>0, CommitFailsEffect
<1>2. UNCHANGED <<edited, newest>>
  BY <1>1 DEF garden
<1>3. HandInv(f)'
  BY <1>1 DEF HandInv
<1>4. ASSUME NEW p \in Paths PROVE LeftInv(f, p)'
  <2>1. LeftInv(f, p)
    BY <1>4 DEF TrackInv
  <2>2. \A g \in Flushers \ {f} : job'[g] = job[g]
    BY <1>1, ActorFacts DEF OthersKeep
  <2>3. TrackedElse(p, f) => TrackedElse(p, f)'
    BY <1>1, <2>2 DEF TrackedElse
  <2> SUFFICES ASSUME job'[f].pc = "commit", p \in edited',
                      \/ p \in job'[f].dirty /\ owning_chain(p) \notin job'[f].todo \cup job'[f].failed
                      \/ newest'[p] > job'[f].cutoff
               PROVE  TrackedElse(p, f)'
    BY DEF LeftInv, owning_chain
  <2>4. TrackedElse(p, f)
    BY <1>1, <1>2, <2>1 DEF LeftInv
  <2> QED BY <2>3, <2>4
<1> QED BY <1>1, <1>2, <1>3, <1>4, TrackOwn

(* Before the snapshot a flusher only moves on. *)
LEMMA TrackBefore ==
    ASSUME Types, TrackInv, NEW f \in Flushers, OthersKeep(f),
           UNCHANGED <<garden, buffer, handler>>, job'[f].dirty = job[f].dirty,
           \/ job'[f].pc \in {"idle", "take"} /\ job[f].dirty = {}
           \/ job'[f].pc = "snapshot" /\ \A p \in job[f].dirty : owning_chain(p) \in job'[f].todo
    PROVE  TrackInv'
<1>1. UNCHANGED <<edited, newest>>
  BY DEF garden
<1>2. HandInv(f)' /\ \A p \in Paths : LeftInv(f, p)'
  BY DEF HandInv, LeftInv, owning_chain
<1> QED BY <1>1, <1>2, TrackOwn

LEMMA TrackStep ==
    ASSUME Types, LockInv, KeepInv, TrackInv, [Next]_vars
    PROVE  TrackInv'
<1>1. CASE \E p \in Paths : EditStage(p)
  BY <1>1, TrackEdit
<1>2. CASE EditPush \/ EditNudge
  <2>1. /\ UNCHANGED <<garden, job>> /\ buffer \subseteq buffer'
        /\ handler.pc = "push" => handler.path \in buffer'
    BY <1>2 DEF EditPush, EditNudge
  <2>2. UNCHANGED <<edited, newest>>
    BY <2>1 DEF garden
  <2> QED BY <2>1, <2>2, TrackMono
<1>3. ASSUME NEW p \in Paths, VerbStage(p) PROVE TrackInv'
  <2>1. /\ Stage(p) /\ edited' = edited \ {p} /\ OthersKeep("verb") /\ UNCHANGED <<handler, buffer>>
    BY <1>3, VerbStageEffect
  <2>2. \A f \in Flushers : job'[f] = job[f]
    BY <2>1, ActorFacts DEF OthersKeep
  <2>3. \A x \in edited' : newest'[x] = newest[x]
    BY <2>1 DEF Stage, Types, GardenTypes
  <2>4. edited' \subseteq edited
    BY <2>1
  <2> QED BY <2>1, <2>2, <2>3, <2>4, TrackMono
<1>4. CASE run_flush_loop \/ process_batch \/ WatchTimeout
  <2>1. PICK f \in Flushers :
          /\ OthersKeep(f) /\ UNCHANGED <<garden, buffer, handler>>
          /\ job[f].pc = "idle" /\ job'[f].pc = "take" /\ job'[f].dirty = job[f].dirty
    BY <1>4, WakeupEffect
  <2>2. job[f].dirty = {}
    BY <2>1 DEF TrackInv, HandInv
  <2> QED BY <2>1, <2>2, TrackBefore
<1>5. ASSUME NEW f \in Flushers, FlushStep(f) PROVE TrackInv'
  <2>1. CASE Take(f)
    BY <1>5, <2>1, TrackTake
  <2>2. CASE clear_retry(f)
    <3>1. /\ OthersKeep(f) /\ UNCHANGED <<garden, handler, buffer>>
          /\ job[f].pc = "clear" /\ job'[f].pc = "idle" /\ job'[f].dirty = {}
      BY <1>5, <2>2, ClearEffect
    <3>2. job[f].dirty = {}
      BY <1>5, <3>1 DEF TrackInv, HandInv
    <3> QED BY <1>5, <3>1, <3>2, TrackBefore
  <2>3. CASE Begin(f)
    <3>1. /\ OthersKeep(f) /\ UNCHANGED <<garden, handler, buffer>>
          /\ job'[f].pc = "snapshot" /\ job'[f].dirty = job[f].dirty
          /\ job'[f].todo = {owning_chain(p) : p \in job[f].dirty}
      BY <1>5, <2>3, BeginEffect
    <3> QED BY <1>5, <3>1, TrackBefore
  <2> QED BY <1>5, <2>1, <2>2, <2>3 DEF FlushStep
<1>6. CASE VerbFails \/ commit_now
  <2>1. OthersKeep("verb") /\ UNCHANGED <<garden, handler, buffer>>
    BY <1>6, VerbFailsEffect, CommitNowEffect
  <2>2. (\A f \in Flushers : job'[f] = job[f]) /\ UNCHANGED <<edited, newest, handler, buffer>>
    BY <2>1, ActorFacts DEF OthersKeep, garden
  <2> QED BY <2>2, TrackMono
<1>7. ASSUME NEW f \in Flushers, CommitStep(f) PROVE TrackInv'
  BY <1>7, TrackSnapshot, TrackEnd, TrackCommit, TrackCommitFails DEF CommitStep
<1>8. ASSUME CommitStep("verb") PROVE TrackInv'
  <2> DEFINE a == "verb"
  <2>0. a \in Actors
    BY ActorFacts
  <2>1. /\ OthersKeep(a) /\ edited' \subseteq edited /\ newest' = newest
        /\ handler' = handler /\ buffer \subseteq buffer'
    <3>1. ASSUME NEW deferred \in SUBSET (job[a].todo \cap {"shared"}), Snapshot(a, deferred)
          PROVE  OthersKeep(a) /\ UNCHANGED <<garden, handler, buffer>>
      BY <2>0, <3>1, SnapshotEffect
    <3>2. CASE SnapshotFails(a) \/ PriorTipFails(a) \/ Finish(a)
      <4>1. OthersKeep(a) /\ UNCHANGED <<garden, handler>> /\ buffer \subseteq buffer'
        BY <2>0, <3>2, EndEffect
      <4> QED BY <4>1 DEF garden
    <3>3. ASSUME NEW c \in job[a].todo, Commit(a, c)
          PROVE  OthersKeep(a) /\ edited' \subseteq edited /\ UNCHANGED <<newest, handler, buffer>>
      BY <2>0, <3>3, CommitEffect
    <3>4. ASSUME NEW c \in job[a].todo, CommitFails(a, c)
          PROVE  OthersKeep(a) /\ UNCHANGED <<garden, handler, buffer>>
      BY <2>0, <3>4, CommitFailsEffect
    <3> QED BY <1>8, <3>1, <3>2, <3>3, <3>4 DEF CommitStep, garden
  <2>2. \A f \in Flushers : job'[f] = job[f]
    BY <2>1, ActorFacts DEF OthersKeep
  <2> QED BY <2>1, <2>2, TrackMono
<1>9. ASSUME NEW q \in SharedPaths, Pull(q) PROVE TrackInv'
  <2>1. /\ UNCHANGED <<overlay, edited, handler, buffer, job>>
        /\ \A p \in Paths \ {q} : newest'[p] = newest[p]
        /\ newest'[q] = IF overlay[q] = 0 THEN 0 ELSE newest[q]
    BY <1>9, PullEffect
  <2>2. \A p \in edited' : newest'[p] = newest[p]
    <3>1. \A p \in edited : p \in Paths /\ overlay[p] # 0
      BY DEF KeepInv, PathInv, Types, GardenTypes
    <3> QED BY <2>1, <3>1
  <2> QED BY <2>1, <2>2, TrackMono
<1>10. CASE set_registry
  BY <1>10, TrackMono DEF set_registry, flushing
<1>11. CASE UNCHANGED vars
  BY <1>11, TrackMono DEF vars, garden, flushing
<1> QED BY <1>1, <1>2, <1>3, <1>4, <1>5, <1>6, <1>7, <1>8, <1>9, <1>10, <1>11, ActorFacts DEF Next

(* Spec => []EditTracked: however many flushes drain the buffer, fail or are
   refused the shared chain's turn, and whatever is written meanwhile, the path
   of an uncommitted edit is reported, about to be, or in a flush's hands. *)
THEOREM EditsTracked == Spec => []EditTracked
<1>1. Types /\ LockInv /\ KeepInv /\ TrackInv /\ [Next]_vars
        => (Types /\ LockInv /\ KeepInv /\ TrackInv)'
  BY TypesStep, KeepStep, TrackStep
<1>2. Init => Types /\ LockInv /\ KeepInv /\ TrackInv
  BY TypesInit, KeepInit, TrackInit
<1>3. TrackInv => EditTracked
  BY DEF TrackInv
<1> QED BY <1>1, <1>2, <1>3, PTL DEF Spec

=============================================================================
