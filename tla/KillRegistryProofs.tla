------------------------- MODULE KillRegistryProofs -------------------------
(***************************************************************************)
(* Proofs about KillRegistry for any set of agents and any number of       *)
(* generations: a late reader of an older generation never takes the       *)
(* running one's scope or kill handle away.                                *)
(***************************************************************************)
EXTENDS KillRegistry, TLAPS

(* What the spawn path and the reader threads keep for agent a. The child the
   supervisor owns is the newest generation and its spawn has returned;
   generations not spawned yet have no process, so no reader; the newest one
   cannot be reaped while its spawn is still registering it; from the scope's
   insert until its own reader clears it the scope entry is the newest
   generation's; and while that one runs its handle is registered or taken by
   a kill that has not landed. *)
NewestGeneration(a) ==
    /\ child[a] # None => child[a] = gen[a] /\ spawning[a] = "no"
    /\ \A g \in Gens : g > gen[a] => proc[a][g] = "unborn"
    /\ spawning[a] # "no" =>
         gen[a] # None /\ proc[a][gen[a]] \in {"running", "eof"}
NewestRegistered(a) ==
    /\ spawning[a] = "scoped" => scopes[a] = gen[a]
    /\ gen[a] # None /\ spawning[a] = "no" =>
         /\ proc[a][gen[a]] \in {"running", "eof", "recorded"} =>
              scopes[a] = gen[a]
         /\ proc[a][gen[a]] = "running" =>
              handles[a] = gen[a] \/ gen[a] \in taken[a]
RegistryInv ==
    /\ TypeOK
    /\ \A a \in Agents : NewestGeneration(a) /\ NewestRegistered(a)

(* The registries' registers keep their types through every step of the drive
   loop, the readers and the connection threads. *)
LEMMA TypeStep == TypeOK /\ [Next]_vars => TypeOK'
<1> SUFFICES ASSUME TypeOK, [Next]_vars PROVE TypeOK'
  OBVIOUS
<1> USE KillRegistryConstants DEF TypeOK, Gens, None, ProcStates
<1>1. ASSUME NEW a \in Agents, Launch(a) PROVE TypeOK'
  BY <1>1 DEF Launch
<1>2. ASSUME NEW a \in Agents, RecordScope(a) PROVE TypeOK'
  BY <1>2 DEF RecordScope
<1>3. ASSUME NEW a \in Agents, RegisterKill(a) PROVE TypeOK'
  BY <1>3 DEF RegisterKill
<1>4. ASSUME NEW a \in Agents, ConsumeExit(a) PROVE TypeOK'
  BY <1>4 DEF ConsumeExit
<1>5. ASSUME NEW a \in Agents, KillHung(a) PROVE TypeOK'
  BY <1>5 DEF KillHung, Killed
<1>6. ASSUME NEW a \in Agents, TakeHandle(a) PROVE TypeOK'
  <2>1. handles[a] \in Gens
    BY <1>6 DEF TakeHandle
  <2>2. taken' \in [Agents -> SUBSET Gens]
    BY <1>6, <2>1 DEF TakeHandle
  <2>3. handles' \in [Agents -> 0..MaxGen]
    BY <1>6 DEF TakeHandle
  <2> QED BY <1>6, <2>2, <2>3 DEF TakeHandle
<1>7. ASSUME NEW a \in Agents, NEW g \in Gens, Exits(a, g) PROVE TypeOK'
  BY <1>7 DEF Exits
<1>8. ASSUME NEW a \in Agents, NEW g \in Gens, RecordExit(a, g) PROVE TypeOK'
  BY <1>8 DEF RecordExit
<1>9. ASSUME NEW a \in Agents, NEW g \in Gens, DropScope(a, g) PROVE TypeOK'
  BY <1>9 DEF DropScope
<1>10. ASSUME NEW a \in Agents, NEW g \in Gens, DropHandle(a, g) PROVE TypeOK'
  BY <1>10 DEF DropHandle
<1>11. ASSUME NEW a \in Agents, NEW g \in Gens, HardKill(a, g) PROVE TypeOK'
  BY <1>11 DEF HardKill, Killed
<1>12. CASE UNCHANGED vars
  BY <1>12 DEF vars
<1> QED
  BY <1>1, <1>2, <1>3, <1>4, <1>5, <1>6, <1>7, <1>8, <1>9, <1>10, <1>11, <1>12
     DEF Next, Spawn, Reader

(* One agent's part of the invariant survives a step of that agent: spawning,
   polling and killing. *)
LEMMA DriveLoopStep ==
    ASSUME NEW a \in Agents, TypeOK, NewestGeneration(a), NewestRegistered(a),
           Spawn(a) \/ ConsumeExit(a) \/ KillHung(a) \/ TakeHandle(a)
    PROVE  NewestGeneration(a)' /\ NewestRegistered(a)'
<1> USE KillRegistryConstants
    DEF TypeOK, Gens, None, NewestGeneration, NewestRegistered
<1>1. CASE Launch(a)
  <2>1. gen'[a] = gen[a] + 1 /\ gen'[a] \in Gens /\ child'[a] = 0
    BY <1>1 DEF Launch
  <2>2. proc'[a] = [proc[a] EXCEPT ![gen[a] + 1] = "running"]
    BY <1>1 DEF Launch
  <2>3. spawning'[a] = "launched"
    BY <1>1 DEF Launch
  <2> QED BY <2>1, <2>2, <2>3
<1>2. CASE RecordScope(a)
  BY <1>2 DEF RecordScope
<1>3. CASE RegisterKill(a)
  BY <1>3 DEF RegisterKill
<1>4. CASE ConsumeExit(a)
  BY <1>4 DEF ConsumeExit
<1>5. CASE KillHung(a)
  BY <1>5 DEF KillHung, Killed
<1>6. CASE TakeHandle(a)
  BY <1>6 DEF TakeHandle
<1> QED BY <1>1, <1>2, <1>3, <1>4, <1>5, <1>6 DEF Spawn

(* The same for a generation's end, its reader thread and a pending hard kill:
   an older generation's step leaves the newest one's entries alone. *)
LEMMA GenerationStep ==
    ASSUME NEW a \in Agents, NEW g \in Gens,
           TypeOK, NewestGeneration(a), NewestRegistered(a),
           Exits(a, g) \/ Reader(a, g) \/ HardKill(a, g)
    PROVE  NewestGeneration(a)' /\ NewestRegistered(a)'
<1> USE KillRegistryConstants
    DEF TypeOK, Gens, None, NewestGeneration, NewestRegistered
<1>1. CASE Exits(a, g)
  BY <1>1 DEF Exits
<1>2. CASE RecordExit(a, g)
  BY <1>2 DEF RecordExit, HasReader
<1>3. CASE DropScope(a, g)
  BY <1>3 DEF DropScope
<1>4. CASE DropHandle(a, g)
  BY <1>4 DEF DropHandle
<1>5. CASE HardKill(a, g)
  BY <1>5 DEF HardKill, Killed
<1> QED BY <1>1, <1>2, <1>3, <1>4, <1>5 DEF Reader

(* Agents share the registries' locks but no entry: a step of one leaves the
   other's part of every register alone. *)
LEMMA OthersUntouched ==
    ASSUME TypeOK, NEW a \in Agents, NEW b \in Agents, a # b,
           \/ Spawn(a) \/ ConsumeExit(a) \/ KillHung(a) \/ TakeHandle(a)
           \/ \E g \in Gens : Exits(a, g) \/ Reader(a, g) \/ HardKill(a, g)
    PROVE  /\ gen'[b] = gen[b] /\ proc'[b] = proc[b] /\ child'[b] = child[b]
           /\ spawning'[b] = spawning[b] /\ scopes'[b] = scopes[b]
           /\ handles'[b] = handles[b] /\ taken'[b] = taken[b]
<1>1. CASE Spawn(a) \/ ConsumeExit(a) \/ KillHung(a) \/ TakeHandle(a)
  BY <1>1 DEF TypeOK, Spawn, Launch, RecordScope, RegisterKill, ConsumeExit,
              KillHung, TakeHandle
<1>2. ASSUME NEW g \in Gens, Exits(a, g) \/ Reader(a, g) \/ HardKill(a, g)
      PROVE  /\ gen'[b] = gen[b] /\ proc'[b] = proc[b] /\ child'[b] = child[b]
             /\ spawning'[b] = spawning[b] /\ scopes'[b] = scopes[b]
             /\ handles'[b] = handles[b] /\ taken'[b] = taken[b]
  BY <1>2 DEF TypeOK, Reader, Exits, RecordExit, DropScope, DropHandle, HardKill
<1> QED BY <1>1, <1>2

LEMMA RegistryStep == RegistryInv /\ [Next]_vars => RegistryInv'
<1> SUFFICES ASSUME RegistryInv, [Next]_vars PROVE RegistryInv'
  OBVIOUS
<1>1. TypeOK /\ TypeOK'
  BY TypeStep DEF RegistryInv
<1>2. CASE UNCHANGED vars
  BY <1>1, <1>2 DEF vars, RegistryInv, NewestGeneration, NewestRegistered
<1>3. ASSUME NEW a \in Agents,
             \/ Spawn(a) \/ ConsumeExit(a) \/ KillHung(a) \/ TakeHandle(a)
             \/ \E g \in Gens : Exits(a, g) \/ Reader(a, g) \/ HardKill(a, g)
      PROVE  RegistryInv'
  <2>1. NewestGeneration(a)' /\ NewestRegistered(a)'
    BY <1>1, <1>3, DriveLoopStep, GenerationStep DEF RegistryInv
  <2>2. ASSUME NEW b \in Agents, a # b
        PROVE  NewestGeneration(b)' /\ NewestRegistered(b)'
    <3>1. /\ gen'[b] = gen[b] /\ proc'[b] = proc[b] /\ child'[b] = child[b]
          /\ spawning'[b] = spawning[b] /\ scopes'[b] = scopes[b]
          /\ handles'[b] = handles[b] /\ taken'[b] = taken[b]
      BY <1>1, <1>3, <2>2, OthersUntouched
    <3>2. NewestGeneration(b) /\ NewestRegistered(b)
      BY DEF RegistryInv
    <3> QED BY <3>1, <3>2 DEF NewestGeneration, NewestRegistered
  <2> QED BY <1>1, <2>1, <2>2 DEF RegistryInv
<1> QED BY <1>2, <1>3 DEF Next

(* The registries' inductive invariant holds in every reachable state. *)
THEOREM RegistryInvariant == Spec => []RegistryInv
<1>1. Init => RegistryInv
  BY KillRegistryConstants
     DEF Init, RegistryInv, TypeOK, NewestGeneration, NewestRegistered, Gens,
         None, ProcStates
<1> QED BY <1>1, RegistryStep, PTL DEF Spec

(* While the supervisor's child runs, set_resources finds its scope and a hard
   kill finds its handle (or another kill already has it), however late the
   readers of its predecessors clear their own entries. *)
THEOREM RunningRegistered == Spec => []RunningIsRegistered
<1>1. RegistryInv => RunningIsRegistered
  BY DEF RegistryInv, NewestGeneration, NewestRegistered, RunningIsRegistered,
         Current, None
<1> QED BY <1>1, RegistryInvariant, PTL
=============================================================================
