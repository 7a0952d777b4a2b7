---------------------------- MODULE KillRegistry ----------------------------
(***************************************************************************)
(* The agent harness's spawn path and its two shared registries: the       *)
(* running scopes (live_scopes) and the kill handles (kill_handles). Each  *)
(* spawn of an agent is a new generation with its own scope unit. Four     *)
(* kinds of thread meet here: the drive loop (spawns, kills a hung child), *)
(* one reader thread per generation (reaps it, then clears its entries),   *)
(* and the connection threads (hard kills), over locks that are never held *)
(* together.                                                               *)
(***************************************************************************)
EXTENDS Naturals

CONSTANTS
    Agents,
    MaxGen   \* bound: generations spawned per agent

ASSUME KillRegistryConstants == MaxGen \in Nat \ {0}

Gens == 1..MaxGen
None == 0

VARIABLES
    gen,      \* newest generation spawned for the agent
    proc,     \* per generation: the process, then its reader thread
    child,    \* generation whose handle the supervisor owns
    spawning, \* the drive loop's place in Harness::spawn
    scopes,   \* live_scopes: agent to generation
    handles,  \* kill_handles: agent to generation (LiveKill.scope_token)
    taken     \* generations whose handle a hard kill took out, kill pending

vars == <<gen, proc, child, spawning, scopes, handles, taken>>

(* "unborn", "running", then the reader: "eof" (stdout closed, not reaped),
   "recorded" (exit latched), "unscoped" (scope entry cleared), "gone". *)
ProcStates == {"unborn", "running", "eof", "recorded", "unscoped", "gone"}

Init ==
    /\ gen = [a \in Agents |-> None]
    /\ proc = [a \in Agents |-> [g \in Gens |-> "unborn"]]
    /\ child = [a \in Agents |-> None]
    /\ spawning = [a \in Agents |-> "no"]
    /\ scopes = [a \in Agents |-> None]
    /\ handles = [a \in Agents |-> None]
    /\ taken = [a \in Agents |-> {}]

(* Harness::spawn, to the launched process. Called for an agent whose last
   child the supervisor has given up. *)
Launch(a) ==
    /\ spawning[a] = "no" /\ child[a] = None
    /\ gen[a] < MaxGen
    /\ gen' = [gen EXCEPT ![a] = @ + 1]
    /\ proc' = [proc EXCEPT ![a][gen[a] + 1] = "running"]
    /\ spawning' = [spawning EXCEPT ![a] = "launched"]
    /\ UNCHANGED <<child, scopes, handles, taken>>

(* The live_scopes insert, under its own lock. *)
RecordScope(a) ==
    /\ spawning[a] = "launched"
    /\ scopes' = [scopes EXCEPT ![a] = gen[a]]
    /\ spawning' = [spawning EXCEPT ![a] = "scoped"]
    /\ UNCHANGED <<gen, proc, child, handles, taken>>

(* The kill_handles insert; the reader thread starts and spawn returns. *)
RegisterKill(a) ==
    /\ spawning[a] = "scoped"
    /\ handles' = [handles EXCEPT ![a] = gen[a]]
    /\ child' = [child EXCEPT ![a] = gen[a]]
    /\ spawning' = [spawning EXCEPT ![a] = "no"]
    /\ UNCHANGED <<gen, proc, scopes, taken>>

(* A generation's reader thread exists once its spawn has returned. *)
HasReader(a, g) == g < gen[a] \/ spawning[a] = "no"

(* The process ends by itself and its stdout closes. *)
Exits(a, g) ==
    /\ proc[a][g] = "running"
    /\ proc' = [proc EXCEPT ![a][g] = "eof"]
    /\ UNCHANGED <<gen, child, spawning, scopes, handles, taken>>

(* The reader reaps the child and latches its exit. *)
RecordExit(a, g) ==
    /\ proc[a][g] = "eof" /\ HasReader(a, g)
    /\ proc' = [proc EXCEPT ![a][g] = "recorded"]
    /\ UNCHANGED <<gen, child, spawning, scopes, handles, taken>>

(* Mutant of DropHandle: no token guard. *)
DropHandle_unguarded(a, g) ==
    /\ proc[a][g] = "unscoped"
    /\ handles' = [handles EXCEPT ![a] = None]
    /\ proc' = [proc EXCEPT ![a][g] = "gone"]
    /\ UNCHANGED <<gen, child, spawning, scopes, taken>>

(* Mutant of DropHandle: the reader ends with its handle left behind. *)
DropHandle_forgotten(a, g) ==
    /\ proc[a][g] = "unscoped"
    /\ proc' = [proc EXCEPT ![a][g] = "gone"]
    /\ UNCHANGED <<gen, child, spawning, scopes, handles, taken>>

(* The reader clears its scope entry, then its kill handle, each only if the
   entry is still its own generation's. *)
DropScope(a, g) ==
    /\ proc[a][g] = "recorded"
    /\ scopes' = [scopes EXCEPT ![a] = IF @ = g THEN None ELSE @]
    /\ proc' = [proc EXCEPT ![a][g] = "unscoped"]
    /\ UNCHANGED <<gen, child, spawning, handles, taken>>
DropHandle(a, g) ==
    /\ proc[a][g] = "unscoped"
    /\ handles' = [handles EXCEPT ![a] = IF @ = g THEN None ELSE @]
    /\ proc' = [proc EXCEPT ![a][g] = "gone"]
    /\ UNCHANGED <<gen, child, spawning, scopes, taken>>

(* The supervisor's poll consumes a latched exit: it lets go of the child. *)
ConsumeExit(a) ==
    /\ child[a] # None
    /\ proc[a][child[a]] \in {"recorded", "unscoped", "gone"}
    /\ child' = [child EXCEPT ![a] = None]
    /\ UNCHANGED <<gen, proc, spawning, scopes, handles, taken>>

(* ScopedChild::kill: SIGKILL the scope; stdout closes. *)
Killed(a, g) == IF proc[a][g] = "running" THEN "eof" ELSE proc[a][g]

(* The supervisor gives up a hung or retired child and kills it itself. *)
KillHung(a) ==
    /\ child[a] # None
    /\ proc' = [proc EXCEPT ![a][child[a]] = Killed(a, child[a])]
    /\ child' = [child EXCEPT ![a] = None]
    /\ UNCHANGED <<gen, spawning, scopes, handles, taken>>

(* Daemon::hard_kill_agent: take the handle out under the registry's lock,
   then kill outside it. *)
TakeHandle(a) ==
    /\ handles[a] # None
    /\ taken' = [taken EXCEPT ![a] = @ \cup {handles[a]}]
    /\ handles' = [handles EXCEPT ![a] = None]
    /\ UNCHANGED <<gen, proc, child, spawning, scopes>>
HardKill(a, g) ==
    /\ g \in taken[a]
    /\ proc' = [proc EXCEPT ![a][g] = Killed(a, g)]
    /\ taken' = [taken EXCEPT ![a] = @ \ {g}]
    /\ UNCHANGED <<gen, child, spawning, scopes, handles>>

Spawn(a) == Launch(a) \/ RecordScope(a) \/ RegisterKill(a)
Reader(a, g) == RecordExit(a, g) \/ DropScope(a, g) \/ DropHandle(a, g)

Next ==
    \E a \in Agents :
        \/ Spawn(a) \/ ConsumeExit(a) \/ KillHung(a) \/ TakeHandle(a)
        \/ \E g \in Gens : Exits(a, g) \/ Reader(a, g) \/ HardKill(a, g)

(* Reader and connection threads keep being scheduled, and a spawn returns. *)
Fairness ==
    \A a \in Agents :
        /\ WF_vars(RecordScope(a) \/ RegisterKill(a))
        /\ \A g \in Gens : WF_vars(Reader(a, g)) /\ WF_vars(HardKill(a, g))

Spec == Init /\ [][Next]_vars
FairSpec == Spec /\ Fairness

----------------------------------------------------------------------------
(* Every register holds a generation that was spawned. *)
TypeOK ==
    /\ gen \in [Agents -> 0..MaxGen]
    /\ proc \in [Agents -> [Gens -> ProcStates]]
    /\ child \in [Agents -> 0..MaxGen]
    /\ spawning \in [Agents -> {"no", "launched", "scoped"}]
    /\ scopes \in [Agents -> 0..MaxGen]
    /\ handles \in [Agents -> 0..MaxGen]
    /\ taken \in [Agents -> SUBSET Gens]

(* The generation the supervisor runs. *)
Current(a) == child[a] # None /\ proc[a][child[a]] = "running"

(* While the supervisor's child runs, both registries know it: its handle is
   registered, or a hard kill has taken it and is about to use it, and its
   scope entry, the unit set_resources throttles, is its own. An older
   generation's late exit never clears the newer entries. *)
RunningIsRegistered ==
    \A a \in Agents : Current(a) =>
        /\ handles[a] = child[a] \/ child[a] \in taken[a]
        /\ scopes[a] = child[a]

(* Once a reader has seen its process end, both its registry entries are gone
   in the end, and a kill that took a handle lands. *)
EntriesCleared ==
    \A a \in Agents, g \in Gens :
        /\ (proc[a][g] = "eof") ~> (handles[a] # g /\ scopes[a] # g)
        /\ (g \in taken[a]) ~> (proc[a][g] # "running")
=============================================================================
