-------------------------- MODULE SupervisorProofs --------------------------
(***************************************************************************)
(* Proofs about Supervisor for any roster, cap, backoff and limits.        *)
(***************************************************************************)
EXTENDS Supervisor, FiniteSetTheorems, TLAPS

----------------------------------------------------------------------------
(* The Supervised record's operations. *)

(* Backoff::delay is a number of seconds up to the cap. *)
LEMMA DelayCapped == \A n \in Nat : delay(n) \in 0..CapSecs
BY SupervisorConstants DEF delay

(* The fields the supervisor writes, each with a value of its type. *)
LEMMA FieldUpdates ==
    ASSUME NEW s \in Supervised, NEW c \in BOOLEAN, NEW n \in 0..MaxFailures,
           NEW w \in 0..Forever
    PROVE  /\ [s EXCEPT !.child = c] \in Supervised
           /\ [s EXCEPT !.wait = w] \in Supervised
           /\ [s EXCEPT !.child = c, !.wait = w] \in Supervised
           /\ [s EXCEPT !.child = c, !.failures = n, !.wait = w] \in Supervised
           /\ [s EXCEPT !.child = c, !.wait = w, !.refused = TRUE] \in Supervised
BY DEF Supervised
LEMMA SpinUpdates ==
    ASSUME NEW s \in Supervised, NEW l \in NextActions \cup {None},
           NEW k \in 0..StallLimit, NEW r \in SUBSET RepoKeys,
           NEW e \in 0..ExcuseLimit
    PROVE  /\ [s EXCEPT !.lastAction = l, !.streak = k, !.seenRepo = r,
                        !.excused = e] \in Supervised
           /\ [[s EXCEPT !.streak = k] EXCEPT !.lastAction = l] \in Supervised
           /\ [[s EXCEPT !.streak = k, !.seenRepo = r, !.excused = e]
                 EXCEPT !.lastAction = l] \in Supervised
BY DEF Supervised

(* A record that fails, is reset or parked is a record again, and a failure's
   wait is at most the cap. *)
LEMMA FailedType ==
    ASSUME NEW s \in Supervised
    PROVE  Failed(s) \in Supervised /\ Failed(s).wait \in 0..CapSecs
<1> DEFINE n == IF s.failures < MaxFailures THEN s.failures + 1 ELSE MaxFailures
<1>1. n \in 0..MaxFailures /\ n \in Nat
  <2>1. s.failures \in 0..MaxFailures
    BY DEF Supervised
  <2> QED BY <2>1, SupervisorConstants
<1>2. delay(n) \in 0..CapSecs /\ delay(n) \in 0..Forever
  <2>1. delay(n) \in 0..CapSecs
    BY <1>1, DelayCapped
  <2> QED BY <2>1, SupervisorConstants DEF Forever
<1>3. Failed(s) = [s EXCEPT !.child = FALSE, !.failures = n, !.wait = delay(n)]
  BY DEF Failed
<1> HIDE DEF n
<1>4. Failed(s) \in Supervised
  <2>1. [s EXCEPT !.child = FALSE, !.failures = n, !.wait = delay(n)] \in Supervised
    BY <1>1, <1>2, FieldUpdates
  <2> QED BY <1>3, <2>1
<1>5. Failed(s).wait = delay(n)
  BY <1>3 DEF Supervised
<1> QED BY <1>2, <1>4, <1>5

LEMMA ParkedTypes ==
    ASSUME NEW s \in Supervised
    PROVE  /\ ResetSpin(s) \in Supervised
           /\ [s EXCEPT !.child = TRUE] \in Supervised
           /\ [s EXCEPT !.child = FALSE] \in Supervised
           /\ [s EXCEPT !.child = FALSE, !.wait = 0] \in Supervised
           /\ [s EXCEPT !.wait = CountDown(s.wait)] \in Supervised
           /\ [s EXCEPT !.child = FALSE, !.failures = 0, !.wait = 0] \in Supervised
           /\ [s EXCEPT !.child = FALSE, !.wait = Forever, !.refused = TRUE] \in Supervised
<1>1. /\ 0 \in 0..Forever /\ Forever \in 0..Forever /\ 0 \in 0..MaxFailures
      /\ 0 \in 0..StallLimit /\ 0 \in 0..ExcuseLimit
  BY SupervisorConstants DEF Forever
<1>2. CountDown(s.wait) \in 0..Forever
  <2>1. s.wait \in 0..Forever
    BY DEF Supervised
  <2> QED BY <2>1, SupervisorConstants DEF CountDown, Forever
<1>3. ResetSpin(s) \in Supervised
  BY <1>1, SpinUpdates DEF ResetSpin
<1> QED BY <1>1, <1>2, <1>3, FieldUpdates

(* roll_or_spin's count, as long as it has not tripped, is a record. *)
LEMMA CountedType ==
    ASSUME NEW s \in Supervised, NEW action \in NextActions \cup {None},
           NEW key \in RepoKeys \cup {None},
           Counted(s, action, key).streak < StallLimit
    PROVE  Counted(s, action, key) \in Supervised
<1>0. s.streak \in 0..StallLimit /\ s.excused \in 0..ExcuseLimit /\ s.seenRepo \subseteq RepoKeys
  BY DEF Supervised
<1>1. CASE ~(s.lastAction # None /\ s.lastAction = action)
  <2>1. 1 \in 0..StallLimit /\ 0 \in 0..ExcuseLimit /\ {key} \ {None} \in SUBSET RepoKeys
    BY SupervisorConstants
  <2>2. Counted(s, action, key) =
          [[s EXCEPT !.streak = 1, !.seenRepo = {key} \ {None}, !.excused = 0]
             EXCEPT !.lastAction = action]
    BY <1>1 DEF Counted
  <2>3. [[s EXCEPT !.streak = 1, !.seenRepo = {key} \ {None}, !.excused = 0]
           EXCEPT !.lastAction = action] \in Supervised
    BY <2>1, SpinUpdates
  <2> QED BY <2>2, <2>3
<1>2. CASE s.lastAction # None /\ s.lastAction = action
  <2>1. CASE key # None /\ key \notin s.seenRepo /\ s.excused < ExcuseLimit
    <3>1. 1 \in 0..StallLimit /\ s.excused + 1 \in 0..ExcuseLimit
      BY <1>0, <2>1, SupervisorConstants
    <3>2. s.seenRepo \cup {key} \in SUBSET RepoKeys
      BY <1>0, <2>1
    <3>3. Counted(s, action, key) =
            [[s EXCEPT !.streak = 1, !.seenRepo = s.seenRepo \cup {key},
                       !.excused = s.excused + 1]
               EXCEPT !.lastAction = action]
      BY <1>2, <2>1 DEF Counted
    <3>4. [[s EXCEPT !.streak = 1, !.seenRepo = s.seenRepo \cup {key},
                     !.excused = s.excused + 1]
             EXCEPT !.lastAction = action] \in Supervised
      BY <3>1, <3>2, SpinUpdates
    <3> QED BY <3>3, <3>4
  <2>2. CASE ~(key # None /\ key \notin s.seenRepo /\ s.excused < ExcuseLimit)
    <3>1. Counted(s, action, key) =
            [[s EXCEPT !.streak = s.streak + 1] EXCEPT !.lastAction = action]
      BY <1>2, <2>2 DEF Counted
    <3>2. Counted(s, action, key).streak = s.streak + 1
      BY <3>1 DEF Supervised
    <3>3. s.streak + 1 \in 0..StallLimit
      BY <1>0, <3>2, SupervisorConstants
    <3>4. [[s EXCEPT !.streak = s.streak + 1] EXCEPT !.lastAction = action]
            \in Supervised
      BY <1>0, <3>3, SpinUpdates
    <3> QED BY <3>1, <3>4
  <2> QED BY <2>1, <2>2
<1> QED BY <1>1, <1>2

(* The three ways roll_or_spin counts a continue-exit. *)
LEMMA CountedCases ==
    ASSUME NEW s \in Supervised, NEW action \in NextActions \cup {None},
           NEW key \in RepoKeys \cup {None}
    PROVE  LET c == Counted(s, action, key) IN
           /\ c.lastAction = action
           /\ c.wait = s.wait /\ c.refused = s.refused
           /\ \/ ~(s.lastAction # None /\ s.lastAction = action) /\ c.streak = 1
              \/ /\ s.lastAction # None /\ s.lastAction = action
                 /\ \/ s.excused < ExcuseLimit /\ c.streak = 1 /\ c.excused = s.excused + 1
                    \/ c.streak = s.streak + 1 /\ c.excused = s.excused
BY DEF Counted, Supervised

(* A member's record is one of the two shapes, told apart by `registered`. *)
LEMMA RecordShapes ==
    ASSUME TypeOK, NEW a \in Agents
    PROVE  /\ sup[a] \in Supervised \cup {Absent}
           /\ a \in Registered <=> sup[a] \in Supervised
           /\ a \in Registered <=> sup[a] # Absent
           /\ a \in Registered <=> sup[a].registered
           /\ a \in Down <=> (sup[a] \in Supervised /\ sup[a].child = FALSE)
<1>1. sup[a] \in Supervised \cup {Absent}
  BY DEF TypeOK
<1>2. \A s \in Supervised : s.registered /\ s.child \in BOOLEAN
  BY DEF Supervised
<1>3. ~Absent.registered
  BY DEF Absent
<1> QED BY <1>1, <1>2, <1>3 DEF Registered, Down

----------------------------------------------------------------------------
(* Type correctness. *)

(* The part of TypeOK that a poll arm's common tail writes. *)
SettledTypes ==
    /\ sup \in [Agents -> Supervised \cup {Absent}]
    /\ health \in [Agents -> Exits \cup {"none", "alive", "hung"}]
    /\ assigned \subseteq Agents /\ pending \subseteq Agents
    /\ retiring \subseteq Agents /\ stopped \subseteq Agents
    /\ online \in BOOLEAN /\ paused \in BOOLEAN
    /\ tick \in [pc : {"idle", "poll", "roll", "start"}, todo : SUBSET Agents, gated : BOOLEAN]

(* The part only the arms themselves write. *)
ArmTypes ==
    /\ reconnecting \subseteq Agents /\ refusedItems \subseteq Agents
    /\ due \in [Agents -> 0..CapSecs]
    /\ same \in [Agents -> Nat]
RunTypes ==
    /\ max_iterations \in Bounds
    /\ iterations \in 0..(IF max_iterations = None THEN 0 ELSE max_iterations)
    /\ chunks \in Nat /\ chunks >= iterations

LEMMA TypeParts == TypeOK <=> SettledTypes /\ ArmTypes /\ RunTypes
BY DEF TypeOK, SettledTypes, ArmTypes, RunTypes

LEMMA DoneType ==
    ASSUME TypeOK, NEW a \in Agents, Done(a)
    PROVE  /\ tick' \in [pc : {"idle", "poll", "roll", "start"},
                         todo : SUBSET Agents, gated : BOOLEAN]
           /\ tick'.pc = tick.pc /\ tick'.todo = tick.todo \ {a}
           /\ tick'.gated = tick.gated
BY DEF TypeOK, Done

LEMMA SettleType ==
    ASSUME TypeOK, NEW a \in Agents, NEW s \in Supervised \cup {Absent},
           NEW keeps, NEW stops, Settle(a, s, keeps, stops)
    PROVE  SettledTypes'
<1>1. sup' \in [Agents -> Supervised \cup {Absent}]
  BY DEF Settle, TypeOK
<1>2. assigned' \subseteq Agents /\ stopped' \subseteq Agents
  BY DEF Settle, TypeOK
<1>3. Done(a)
  BY DEF Settle
<1> QED BY <1>1, <1>2, <1>3, DoneType DEF Settle, TypeOK, SettledTypes

LEMMA IterationType ==
    ASSUME TypeOK, NEW stopping, record_iteration(stopping)
    PROVE  RunTypes'
<1>1. max_iterations = None \/ max_iterations \in Nat \ {0}
  BY SupervisorConstants DEF TypeOK
<1>2. CASE stopping \/ max_iterations = None
  BY <1>2 DEF record_iteration, runVars, TypeOK, RunTypes
<1>3. CASE ~(stopping \/ max_iterations = None)
  BY <1>1, <1>3 DEF record_iteration, Spent, TypeOK, RunTypes
<1> QED BY <1>2, <1>3

(* A continue-exit either trips the spin guard, or rolls with the count. *)
ContinueTrips(a) ==
    /\ Settle(a, Absent, FALSE, Stopping(a))
    /\ same' = [same EXCEPT ![a] = 0]
    /\ UNCHANGED runVars
ContinueRolls(a, action, key) ==
    LET c == Counted(sup[a], action, key)
    IN  /\ c \in Supervised /\ c.streak < StallLimit
        /\ Settle(a, [c EXCEPT !.child = FALSE, !.failures = 0, !.wait = 0],
                  TRUE, Stopping(a) \/ Spent')
        /\ same' = [same EXCEPT ![a] = IF action = None THEN 0
                                       ELSE IF action = sup[a].lastAction THEN @ + 1 ELSE 1]
        /\ record_iteration(Stopping(a))

LEMMA ContinueShape ==
    ASSUME TypeOK, NEW a \in Agents, PollContinue(a)
    PROVE  /\ sup[a] \in Supervised /\ a \in Registered
           /\ refusedItems' \subseteq refusedItems
           /\ \/ ContinueTrips(a)
              \/ \E action \in NextActions \cup {None}, key \in RepoKeys \cup {None} :
                   ContinueRolls(a, action, key)
<1> PICK action \in NextActions \cup {None}, key \in RepoKeys \cup {None} :
      LET s == Counted(sup[a], action, IF action = None THEN None ELSE key)
          trips == s.streak >= StallLimit
          stops == Stopping(a) \/ (~trips /\ Spent')
      IN  /\ IF trips THEN UNCHANGED runVars ELSE record_iteration(Stopping(a))
          /\ Settle(a, IF trips THEN Absent
                       ELSE [s EXCEPT !.child = FALSE, !.failures = 0, !.wait = 0],
                    ~trips, stops)
          /\ same' = [same EXCEPT ![a] =
                IF trips \/ action = None THEN 0
                ELSE IF action = sup[a].lastAction THEN @ + 1 ELSE 1]
          /\ refusedItems' = IF stops THEN refusedItems \ {a} ELSE refusedItems
  BY DEF PollContinue
<1> DEFINE k == IF action = None THEN None ELSE key
           c == Counted(sup[a], action, k)
           trips == c.streak >= StallLimit
<1>1. sup[a] \in Supervised /\ a \in Registered /\ k \in RepoKeys \cup {None}
  BY RecordShapes DEF PollContinue, CleanlyExited
<1>2. refusedItems' \subseteq refusedItems
  OBVIOUS
<1>3. CASE trips
  <2>1. Settle(a, Absent, FALSE, Stopping(a))
    BY <1>3 DEF Settle
  <2>2. same' = [same EXCEPT ![a] = 0] /\ UNCHANGED runVars
    BY <1>3
  <2> QED BY <1>1, <1>2, <2>1, <2>2 DEF ContinueTrips
<1>4. CASE ~trips
  <2>1. c.streak < StallLimit
    <3>1. sup[a].streak \in 0..StallLimit
      BY <1>1 DEF Supervised
    <3>2. c.streak = 1 \/ c.streak = sup[a].streak + 1
      BY <1>1, CountedCases
    <3> HIDE DEF c
    <3> QED BY <1>4, <3>1, <3>2, SupervisorConstants
  <2>2. c \in Supervised
    BY <1>1, <2>1, CountedType
  <2>3. Settle(a, [c EXCEPT !.child = FALSE, !.failures = 0, !.wait = 0],
               TRUE, Stopping(a) \/ Spent')
    BY <1>4 DEF Settle
  <2>4. record_iteration(Stopping(a))
    BY <1>4
  <2>5. same' = [same EXCEPT ![a] = IF action = None THEN 0
                                    ELSE IF action = sup[a].lastAction THEN @ + 1 ELSE 1]
    BY <1>4
  <2>6. ContinueRolls(a, action, k)
    BY <2>1, <2>2, <2>3, <2>4, <2>5 DEF ContinueRolls
  <2> HIDE DEF k
  <2> QED BY <1>1, <1>2, <2>6
<1> QED BY <1>3, <1>4

(* One poll arm: whatever the member's exit was, the fleet's registers keep
   their types. *)
LEMMA PollType ==
    ASSUME TypeOK, NEW a \in Agents, Poll(a)
    PROVE  TypeOK'
<1> SUFFICES SettledTypes' /\ ArmTypes' /\ RunTypes'
  BY DEF TypeOK, SettledTypes, ArmTypes, RunTypes
<1> USE DEF ArmTypes
<1>0. /\ a \in Registered => sup[a] \in Supervised
      /\ Absent \in Supervised \cup {Absent}
      /\ 0 \in 0..CapSecs
  <2>1. 0 \in 0..CapSecs
    BY SupervisorConstants
  <2> QED BY <2>1, RecordShapes
<1>1. SettledTypes /\ ArmTypes /\ RunTypes
  BY TypeParts
<1>2. CASE PollQuiet(a)
  <2>1. SettledTypes'
    BY <1>1, <1>2, DoneType DEF PollQuiet, SettledTypes
  <2> QED BY <1>1, <1>2, <2>1 DEF PollQuiet, runVars, RunTypes
<1>3. CASE PollContinue(a)
  <2>1. /\ refusedItems' \subseteq Agents /\ reconnecting' \subseteq Agents
        /\ due' \in [Agents -> 0..CapSecs]
    BY <1>0, <1>1, <1>3, ContinueShape DEF PollContinue
  <2>2. CASE ContinueTrips(a)
    <3>1. SettledTypes'
      BY <2>2, <1>0, SettleType DEF ContinueTrips
    <3> QED BY <1>1, <2>1, <2>2, <3>1 DEF ContinueTrips, runVars, RunTypes
  <2>3. ASSUME NEW action \in NextActions \cup {None}, NEW key \in RepoKeys \cup {None},
               ContinueRolls(a, action, key)
        PROVE  SettledTypes' /\ ArmTypes' /\ RunTypes'
    <3>1. SettledTypes'
      <4> DEFINE c == Counted(sup[a], action, key)
      <4>1. [c EXCEPT !.child = FALSE, !.failures = 0, !.wait = 0] \in Supervised
        BY <2>3, ParkedTypes DEF ContinueRolls
      <4> QED BY <2>3, <4>1, SettleType DEF ContinueRolls
    <3>2. RunTypes'
      BY <2>3, IterationType DEF ContinueRolls
    <3>3. same' \in [Agents -> Nat]
      BY <1>1, <2>3 DEF ContinueRolls
    <3> QED BY <2>1, <3>1, <3>2, <3>3
  <2> QED BY <1>3, <2>2, <2>3, ContinueShape
<1>4. CASE PollCompleted(a)
  <2>1. SettledTypes'
    BY <1>0, <1>4, SettleType DEF PollCompleted
  <2>2. RunTypes'
    BY <1>4, IterationType DEF PollCompleted
  <2>3. ArmTypes'
    BY <1>0, <1>1, <1>4 DEF PollCompleted
  <2> QED BY <2>1, <2>2, <2>3
<1>5. CASE PollLeaves(a)
  <2>1. SettledTypes'
    BY <1>0, <1>5, SettleType DEF PollLeaves
  <2>2. RunTypes' /\ ArmTypes'
    BY <1>0, <1>1, <1>5 DEF PollLeaves, RunTypes, runVars
  <2> QED BY <2>1, <2>2
<1>6. CASE PollRateParked(a)
  <2>1. [ResetSpin(sup[a]) EXCEPT !.child = FALSE] \in Supervised
    BY <1>0, <1>6, ParkedTypes DEF PollRateParked, CleanlyExited
  <2>2. SettledTypes'
    BY <1>6, <2>1, SettleType DEF PollRateParked
  <2>3. RunTypes' /\ ArmTypes'
    BY <1>0, <1>1, <1>6 DEF PollRateParked, RunTypes, runVars
  <2> QED BY <2>2, <2>3
<1>7. CASE PollReconnecting(a)
  <2>1. [sup[a] EXCEPT !.child = FALSE, !.wait = 0] \in Supervised
    BY <1>0, <1>7, ParkedTypes DEF PollReconnecting, ErroredOrHung
  <2>2. SettledTypes'
    BY <1>7, <2>1, SettleType DEF PollReconnecting
  <2>3. RunTypes' /\ ArmTypes'
    BY <1>0, <1>1, <1>7 DEF PollReconnecting, RunTypes, runVars
  <2> QED BY <2>2, <2>3
<1>8. CASE PollDown(a)
  <2>1. sup[a] \in Supervised
    BY <1>0, <1>8 DEF PollDown, Down
  <2>2. SettledTypes'
    BY <1>8, <2>1, SettleType DEF PollDown
  <2>3. RunTypes' /\ ArmTypes'
    BY <1>0, <1>1, <1>8 DEF PollDown, RunTypes, runVars
  <2> QED BY <2>2, <2>3
<1>9. CASE PollRateLimitDeath(a)
  <2>1. [ResetSpin(sup[a]) EXCEPT !.child = FALSE, !.wait = 0] \in Supervised
    BY <1>0, <1>9, ParkedTypes DEF PollRateLimitDeath, DiedNow, ErroredOrHung
  <2>2. SettledTypes'
    BY <1>9, <2>1, SettleType DEF PollRateLimitDeath
  <2>3. RunTypes' /\ ArmTypes'
    BY <1>0, <1>1, <1>9 DEF PollRateLimitDeath, RunTypes, runVars
  <2> QED BY <2>2, <2>3
<1>10. CASE PollModelRefused(a)
  <2>1. [ResetSpin(sup[a]) EXCEPT !.child = FALSE, !.wait = Forever,
                                  !.refused = TRUE] \in Supervised
    BY <1>0, <1>10, ParkedTypes DEF PollModelRefused, DiedNow, ErroredOrHung
  <2>2. SettledTypes'
    BY <1>10, <2>1, SettleType DEF PollModelRefused
  <2>3. RunTypes' /\ ArmTypes'
    BY <1>0, <1>1, <1>10 DEF PollModelRefused, RunTypes, runVars
  <2> QED BY <2>2, <2>3
<1>11. CASE PollCrashed(a)
  <2>1. Failed(sup[a]) \in Supervised /\ Failed(sup[a]).wait \in 0..CapSecs
    BY <1>0, <1>11, FailedType DEF PollCrashed, DiedNow, ErroredOrHung
  <2>2. SettledTypes'
    BY <1>11, <2>1, SettleType DEF PollCrashed
  <2>3. RunTypes' /\ ArmTypes'
    BY <1>0, <1>1, <1>11, <2>1 DEF PollCrashed, RunTypes, runVars
  <2> QED BY <2>2, <2>3
<1> QED BY <1>2, <1>3, <1>4, <1>5, <1>6, <1>7, <1>8, <1>9, <1>10, <1>11 DEF Poll

(* Where a tick is. The members to re-roll are down, the ones to start are not
   registered (so RollSpawnFailed and Started each find the record they write),
   and the spawn half of a tick runs only while the bounded run is not over. *)
TickInv ==
    /\ tick.pc = "roll" => tick.todo \subseteq Down
    /\ tick.pc = "start" => tick.todo \cap Registered = {}
    /\ tick.pc \in {"roll", "start"} => ~Spent

(* The other steps: the environment, the clock and the spawn half of a tick. *)
LEMMA OtherType ==
    ASSUME TypeOK, TickInv,
           \/ BeginTick \/ Reconcile \/ BeginStarts \/ EndTick
           \/ Environment \/ TimePasses
           \/ \E a \in Agents : RollHeld(a) \/ Rerolled(a) \/ RollSpawnFailed(a)
                                \/ StartHeld(a) \/ Started(a)
    PROVE  TypeOK'
<1> SUFFICES SettledTypes' /\ ArmTypes' /\ RunTypes'
  BY DEF TypeOK, SettledTypes, ArmTypes, RunTypes
<1> USE DEF fleetVars, runVars
<1>0. SettledTypes /\ ArmTypes /\ RunTypes
  BY TypeParts
<1>1. CASE BeginTick
  BY <1>0, <1>1 DEF BeginTick, SettledTypes, ArmTypes, RunTypes
<1>2. CASE Reconcile
  <2> PICK edited \in SUBSET {a \in refusedItems \cap Registered : sup[a].refused} :
        /\ sup' = [a \in Agents |-> IF a \in edited THEN Absent ELSE sup[a]]
        /\ reconnecting' = reconnecting \ edited
        /\ refusedItems' = refusedItems \ edited
        /\ tick' = IF Gated THEN [tick EXCEPT !.pc = "idle"]
                   ELSE [tick EXCEPT !.pc = "roll", !.todo = Down \ edited]
    BY <1>2 DEF Reconcile
  <2>1. sup' \in [Agents -> Supervised \cup {Absent}]
    BY <1>0 DEF SettledTypes
  <2>2. tick' \in [pc : {"idle", "poll", "roll", "start"}, todo : SUBSET Agents, gated : BOOLEAN]
    <3>1. Down \ edited \in SUBSET Agents
      BY DEF Down, Registered
    <3> HIDE DEF Down
    <3> QED BY <1>0, <3>1 DEF SettledTypes
  <2>3. SettledTypes'
    BY <1>0, <1>2, <2>1, <2>2 DEF Reconcile, SettledTypes
  <2>4. ArmTypes' /\ RunTypes'
    BY <1>0, <1>2 DEF Reconcile, ArmTypes, RunTypes
  <2> QED BY <2>3, <2>4
<1>3. CASE BeginStarts
  <2>1. Agents \ Registered \in SUBSET Agents
    OBVIOUS
  <2>2. tick' \in [pc : {"idle", "poll", "roll", "start"}, todo : SUBSET Agents, gated : BOOLEAN]
    BY <1>0, <1>3, <2>1 DEF BeginStarts, SettledTypes
  <2> QED BY <1>0, <1>3, <2>2 DEF BeginStarts, SettledTypes, ArmTypes, RunTypes
<1>4. CASE EndTick
  BY <1>0, <1>4 DEF EndTick, SettledTypes, ArmTypes, RunTypes
<1>5. CASE Environment
  BY <1>0, <1>5 DEF Environment, ChildActs, KilledChildReaped, RequestStop, NetworkChanges,
                    PauseOrResume, SettledTypes, ArmTypes, RunTypes, Exits, ErrorExits
<1>6. CASE TimePasses
  <2>1. \A a \in Agents : a \in Registered => [sup[a] EXCEPT !.wait = CountDown(sup[a].wait)] \in Supervised
    BY RecordShapes, ParkedTypes
  <2>2. sup' \in [Agents -> Supervised \cup {Absent}]
    BY <1>6, <2>1 DEF TimePasses
  <2>3. due' \in [Agents -> 0..CapSecs]
    BY <1>0, <1>6, SupervisorConstants DEF TimePasses, CountDown, ArmTypes
  <2> QED BY <1>0, <1>6, <2>2, <2>3 DEF TimePasses, SettledTypes, ArmTypes, RunTypes
<1>7. ASSUME NEW a \in Agents, RollHeld(a) \/ StartHeld(a)
      PROVE  SettledTypes' /\ ArmTypes' /\ RunTypes'
  BY <1>0, <1>7, DoneType DEF RollHeld, StartHeld, SettledTypes, ArmTypes, RunTypes
<1>8. ASSUME NEW a \in Agents, Rerolled(a)
      PROVE  SettledTypes' /\ ArmTypes' /\ RunTypes'
  <2>1. sup' = [sup EXCEPT ![a] = [sup[a] EXCEPT !.child = TRUE]]
    BY <1>8 DEF Rerolled
  <2>2. [sup[a] EXCEPT !.child = TRUE] \in Supervised \cup {Absent}
    <3>1. CASE a \in Registered
      BY <3>1, RecordShapes, ParkedTypes
    <3>2. CASE a \notin Registered
      <4>1. sup[a] = Absent
        BY <3>2, RecordShapes
      <4> QED BY <4>1 DEF Absent
    <3> QED BY <3>1, <3>2
  <2>3. sup' \in [Agents -> Supervised \cup {Absent}]
    BY <1>0, <2>1, <2>2 DEF SettledTypes
  <2>4. health' \in [Agents -> Exits \cup {"none", "alive", "hung"}]
    BY <1>0, <1>8 DEF Rerolled, SettledTypes
  <2>5. due' \in [Agents -> 0..CapSecs]
    BY <1>0, <1>8, SupervisorConstants DEF Rerolled, ArmTypes
  <2>6. SettledTypes'
    BY <1>0, <1>8, <2>3, <2>4, DoneType DEF Rerolled, SettledTypes
  <2>7. ArmTypes' /\ RunTypes'
    BY <1>0, <1>8, <2>5 DEF Rerolled, ArmTypes, RunTypes
  <2> QED BY <2>6, <2>7
<1>9. ASSUME NEW a \in Agents, RollSpawnFailed(a)
      PROVE  SettledTypes' /\ ArmTypes' /\ RunTypes'
  <2>1. sup[a] \in Supervised
    BY <1>9, RecordShapes DEF RollSpawnFailed, Rolling, TickInv
  <2> QED BY <1>0, <1>9, <2>1, DoneType, FailedType
             DEF RollSpawnFailed, SettledTypes, ArmTypes, RunTypes
<1>10. ASSUME NEW a \in Agents, Started(a)
       PROVE  SettledTypes' /\ ArmTypes' /\ RunTypes'
  <2>1. Fresh \in Supervised
    <3>1. 0 \in 0..MaxFailures /\ 0 \in 0..Forever /\ 0 \in 0..StallLimit /\ 0 \in 0..ExcuseLimit
      BY SupervisorConstants DEF Forever
    <3> QED BY <3>1 DEF Fresh, Supervised
  <2>2. health' \in [Agents -> Exits \cup {"none", "alive", "hung"}]
    BY <1>0, <1>10 DEF Started, SettledTypes
  <2>3. sup' \in [Agents -> Supervised \cup {Absent}]
    BY <1>0, <1>10, <2>1 DEF Started, SettledTypes
  <2>4. due' \in [Agents -> 0..CapSecs] /\ same' \in [Agents -> Nat]
    BY <1>0, <1>10, SupervisorConstants DEF Started, ArmTypes
  <2> QED BY <1>0, <1>10, <2>2, <2>3, <2>4, DoneType
             DEF Started, SettledTypes, ArmTypes, RunTypes
<1> QED BY <1>1, <1>2, <1>3, <1>4, <1>5, <1>6, <1>7, <1>8, <1>9, <1>10

LEMMA TypeStep == TypeOK /\ TickInv /\ [Next]_vars => TypeOK'
<1> SUFFICES ASSUME TypeOK, TickInv, [Next]_vars PROVE TypeOK'
  OBVIOUS
<1>1. CASE UNCHANGED vars
  BY <1>1 DEF vars, fleetVars, runVars, TypeOK
<1> QED BY <1>1, PollType, OtherType DEF Next, DriveStep

----------------------------------------------------------------------------
(* What a step does to the fleet. *)

(* A poll arm changes member a's record only, and either finds nothing to do,
   or consumes an exit: the member leaves the fleet or is down, and is no
   longer being retired. *)
LEMMA SettleEffect ==
    ASSUME TypeOK, NEW a \in Agents, NEW s \in Supervised \cup {Absent},
           NEW keeps, NEW stops, Settle(a, s, keeps, stops)
    PROVE  /\ sup' = [sup EXCEPT ![a] = sup'[a]]
           /\ sup'[a] = IF stops THEN Absent ELSE s
           /\ stopped' = IF stops THEN stopped \cup {a} ELSE stopped
           /\ retiring' = retiring \ {a} /\ health' = health /\ online' = online
           /\ tick'.pc = tick.pc /\ tick'.todo = tick.todo \ {a}
BY DoneType DEF Settle, TypeOK

(* What consuming an exit of member a leaves behind. *)
Consumed(a) ==
    /\ a \in Registered /\ health[a] # "alive"
    /\ retiring' = retiring \ {a}
    /\ \/ sup'[a] = Absent /\ stopped' \subseteq stopped \cup {a}
       \/ sup'[a] \in Supervised /\ sup'[a].child = FALSE /\ stopped' = stopped

LEMMA ParkedDown ==
    ASSUME NEW s \in Supervised
    PROVE  /\ [s EXCEPT !.child = FALSE].child = FALSE
           /\ [s EXCEPT !.child = FALSE, !.wait = 0].child = FALSE
           /\ [s EXCEPT !.child = FALSE, !.failures = 0, !.wait = 0].child = FALSE
           /\ [s EXCEPT !.child = FALSE, !.wait = Forever, !.refused = TRUE].child = FALSE
           /\ Failed(s).child = FALSE
BY DEF Supervised, Failed

LEMMA PollEffect ==
    ASSUME TypeOK, NEW a \in Agents, Poll(a)
    PROVE  /\ sup' = [sup EXCEPT ![a] = sup'[a]]
           /\ health' = health /\ tick.pc = "poll" /\ tick'.pc = "poll"
           /\ \/ /\ a \notin Registered \/ health[a] = "alive"
                 /\ sup' = sup /\ stopped' = stopped /\ retiring' \subseteq retiring \cup {a}
              \/ Consumed(a)
<1> USE DEF Consumed
<1>0. /\ a \in Registered => sup[a] \in Supervised
      /\ sup \in [Agents -> Supervised \cup {Absent}]
  BY RecordShapes DEF TypeOK
<1>1. CASE PollQuiet(a)
  <2>1. Done(a)
    BY <1>1 DEF PollQuiet
  <2> QED BY <1>0, <1>1, <2>1, DoneType DEF PollQuiet, Polling
<1>2. CASE PollContinue(a)
  <2>1. a \in Registered /\ health[a] # "alive" /\ tick.pc = "poll"
    BY <1>2 DEF PollContinue, CleanlyExited, Polling, CleanExit
  <2>2. CASE ContinueTrips(a)
    BY <2>1, <2>2, SettleEffect DEF ContinueTrips
  <2>3. ASSUME NEW action \in NextActions \cup {None}, NEW key \in RepoKeys \cup {None},
               ContinueRolls(a, action, key)
        PROVE  /\ sup' = [sup EXCEPT ![a] = sup'[a]] /\ health' = health
               /\ tick'.pc = "poll" /\ Consumed(a)
    <3> DEFINE c == Counted(sup[a], action, key)
               s == [c EXCEPT !.child = FALSE, !.failures = 0, !.wait = 0]
    <3>1. s \in Supervised
      BY <2>3, ParkedTypes DEF ContinueRolls
    <3>2. s.child = FALSE
      BY <2>3, ParkedDown DEF ContinueRolls
    <3>3. Settle(a, s, TRUE, Stopping(a) \/ Spent')
      BY <2>3 DEF ContinueRolls
    <3> HIDE DEF s
    <3> QED BY <2>1, <3>1, <3>2, <3>3, SettleEffect
  <2> QED BY <1>2, <2>1, <2>2, <2>3, ContinueShape
<1>3. CASE PollCompleted(a)
  <2>1. a \in Registered /\ health[a] # "alive" /\ tick.pc = "poll"
    BY <1>3 DEF PollCompleted, CleanlyExited, Polling, CleanExit
  <2> QED BY <1>3, <2>1, SettleEffect DEF PollCompleted
<1>4. CASE PollLeaves(a)
  <2>1. a \in Registered /\ health[a] # "alive" /\ tick.pc = "poll"
    BY <1>4 DEF PollLeaves, CleanlyExited, Polling, CleanExit
  <2> QED BY <1>4, <2>1, SettleEffect DEF PollLeaves
<1>5. CASE PollRateParked(a)
  <2>1. a \in Registered /\ health[a] # "alive" /\ tick.pc = "poll"
    BY <1>5 DEF PollRateParked, CleanlyExited, Polling, CleanExit
  <2>2. [ResetSpin(sup[a]) EXCEPT !.child = FALSE] \in Supervised
    BY <1>0, <2>1, ParkedTypes
  <2>3. [ResetSpin(sup[a]) EXCEPT !.child = FALSE].child = FALSE
    BY <1>0, <2>1, ParkedTypes, ParkedDown
  <2> QED BY <1>5, <2>1, <2>2, <2>3, SettleEffect DEF PollRateParked
<1>6. CASE PollReconnecting(a)
  <2>1. a \in Registered /\ health[a] # "alive" /\ tick.pc = "poll"
    BY <1>6 DEF PollReconnecting, ErroredOrHung, Polling, ErrorExits
  <2>2. [sup[a] EXCEPT !.child = FALSE, !.wait = 0] \in Supervised
    BY <1>0, <2>1, ParkedTypes
  <2>3. [sup[a] EXCEPT !.child = FALSE, !.wait = 0].child = FALSE
    BY <1>0, <2>1, ParkedDown
  <2> QED BY <1>6, <2>1, <2>2, <2>3, SettleEffect DEF PollReconnecting
<1>7. CASE PollDown(a)
  <2>1. /\ a \in Registered /\ health[a] # "alive" /\ tick.pc = "poll"
        /\ sup[a] \in Supervised /\ sup[a].child = FALSE
    BY <1>0, <1>7, RecordShapes DEF PollDown, Polling, Exits, ErrorExits, CleanExit
  <2> QED BY <1>7, <2>1, SettleEffect DEF PollDown
<1>8. CASE PollRateLimitDeath(a)
  <2>1. a \in Registered /\ health[a] # "alive" /\ tick.pc = "poll"
    BY <1>8 DEF PollRateLimitDeath, DiedNow, ErroredOrHung, Polling, ErrorExits
  <2>2. [ResetSpin(sup[a]) EXCEPT !.child = FALSE, !.wait = 0] \in Supervised
    BY <1>0, <2>1, ParkedTypes
  <2>3. [ResetSpin(sup[a]) EXCEPT !.child = FALSE, !.wait = 0].child = FALSE
    BY <1>0, <2>1, ParkedTypes, ParkedDown
  <2> QED BY <1>8, <2>1, <2>2, <2>3, SettleEffect DEF PollRateLimitDeath
<1>9. CASE PollModelRefused(a)
  <2>1. a \in Registered /\ health[a] # "alive" /\ tick.pc = "poll"
    BY <1>9 DEF PollModelRefused, DiedNow, ErroredOrHung, Polling, ErrorExits
  <2> DEFINE s == [ResetSpin(sup[a]) EXCEPT !.child = FALSE, !.wait = Forever,
                                            !.refused = TRUE]
  <2>2. s \in Supervised
    BY <1>0, <2>1, ParkedTypes
  <2>3. s.child = FALSE
    BY <1>0, <2>1, ParkedTypes, ParkedDown
  <2>4. Settle(a, s, FALSE, Stopping(a))
    BY <1>9 DEF PollModelRefused
  <2> HIDE DEF s
  <2> QED BY <2>1, <2>2, <2>3, <2>4, SettleEffect
<1>10. CASE PollCrashed(a)
  <2>1. a \in Registered /\ health[a] # "alive" /\ tick.pc = "poll"
    BY <1>10 DEF PollCrashed, DiedNow, ErroredOrHung, Polling, ErrorExits
  <2>2. Failed(sup[a]) \in Supervised
    BY <1>0, <2>1, FailedType
  <2>3. Failed(sup[a]).child = FALSE
    BY <1>0, <2>1, ParkedDown
  <2> QED BY <1>10, <2>1, <2>2, <2>3, SettleEffect DEF PollCrashed
<1> QED BY <1>1, <1>2, <1>3, <1>4, <1>5, <1>6, <1>7, <1>8, <1>9, <1>10 DEF Poll

(* What the steps outside the poll pass do to the records: the environment
   leaves them alone, the clock keeps who is registered and who is down, the
   reconcile takes members out, a re-roll changes a member that is down, and
   a start registers one that was not. *)
SameFleet ==
    /\ Registered' = Registered /\ Down' = Down
    /\ retiring' = retiring /\ stopped' = stopped
LEMMA QuietEffect ==
    ASSUME TypeOK,
           \/ BeginTick \/ BeginStarts \/ EndTick \/ Environment \/ TimePasses
           \/ \E a \in Agents : RollHeld(a) \/ StartHeld(a)
           \/ UNCHANGED vars
    PROVE  SameFleet /\ UNCHANGED runVars
<1> USE DEF SameFleet
<1>1. CASE sup' = sup /\ retiring' = retiring /\ stopped' = stopped /\ UNCHANGED runVars
  BY <1>1 DEF Registered, Down
<1>2. CASE TimePasses
  <2>1. ASSUME NEW a \in Agents
        PROVE  sup'[a].registered = sup[a].registered
               /\ (sup[a].registered => sup'[a].child = sup[a].child)
    <3>1. CASE a \in Registered
      <4>1. sup'[a] = [sup[a] EXCEPT !.wait = CountDown(@)]
        BY <1>2, <3>1 DEF TimePasses
      <4>2. sup[a] \in Supervised
        BY <3>1, RecordShapes
      <4> QED BY <4>1, <4>2 DEF Supervised
    <3>2. CASE a \notin Registered
      <4>1. sup'[a] = Absent /\ sup[a] = Absent
        BY <1>2, <3>2, RecordShapes DEF TimePasses
      <4> QED BY <4>1 DEF Absent
    <3> QED BY <3>1, <3>2
  <2>2. Registered' = Registered
    BY <2>1 DEF Registered
  <2>3. Down' = Down
    <3>1. \A a \in Registered : sup'[a].child = sup[a].child
      BY <2>1 DEF Registered
    <3> QED BY <2>2, <3>1 DEF Down
  <2> QED BY <1>2, <2>2, <2>3 DEF TimePasses
<1> QED BY <1>1, <1>2 DEF BeginTick, BeginStarts, EndTick, Environment, ChildActs,
              KilledChildReaped, RequestStop, NetworkChanges, PauseOrResume, RollHeld,
              StartHeld, vars, fleetVars, runVars

LEMMA ReconcileEffect ==
    ASSUME TypeOK, Reconcile
    PROVE  /\ Registered' \subseteq Registered /\ Down' \subseteq Down
           /\ retiring' = retiring /\ stopped' = stopped /\ UNCHANGED runVars
           /\ tick'.pc \in {"idle", "roll"}
           /\ tick'.pc = "roll" => tick'.todo \subseteq Down' /\ ~Spent
<1> PICK edited \in SUBSET {a \in refusedItems \cap Registered : sup[a].refused} :
      /\ sup' = [a \in Agents |-> IF a \in edited THEN Absent ELSE sup[a]]
      /\ tick' = IF Gated THEN [tick EXCEPT !.pc = "idle"]
                 ELSE [tick EXCEPT !.pc = "roll", !.todo = Down \ edited]
  BY DEF Reconcile
<1>1. ~Absent.registered
  BY DEF Absent
<1>2. Registered' = Registered \ edited
  BY <1>1 DEF Registered
<1>3. Down' = Down \ edited
  <2>1. \A a \in Registered \ edited : sup'[a] = sup[a]
    BY DEF Registered
  <2> QED BY <1>2, <2>1 DEF Down
<1>4. /\ tick'.pc \in {"idle", "roll"}
      /\ tick'.pc = "roll" => tick'.todo = Down \ edited /\ ~Gated
  BY DEF TypeOK
<1> QED BY <1>2, <1>3, <1>4 DEF Reconcile, Gated

LEMMA RollEffect ==
    ASSUME TypeOK, TickInv, NEW a \in Agents, Rerolled(a) \/ RollSpawnFailed(a)
    PROVE  /\ a \in Down /\ sup[a].wait = 0 /\ tick.pc = "roll"
           /\ sup' = [sup EXCEPT ![a] = sup'[a]] /\ sup'[a] \in Supervised
           /\ Registered' = Registered /\ Down' \subseteq Down /\ Down \ {a} \subseteq Down'
           /\ retiring' = retiring /\ stopped' = stopped /\ UNCHANGED runVars
           /\ tick'.pc = tick.pc /\ tick'.todo = tick.todo \ {a}
           /\ \/ a \in Down' /\ health' = health
              \/ a \notin Down' /\ health' = [health EXCEPT ![a] = "alive"]
<1>1. a \in Down /\ sup[a] \in Supervised /\ sup[a].wait = 0 /\ tick.pc = "roll" /\ Done(a)
  BY RecordShapes DEF TickInv, Rerolled, RollSpawnFailed, Rolling
<1>2. ASSUME NEW s \in Supervised, sup' = [sup EXCEPT ![a] = s]
      PROVE  /\ Registered' = Registered /\ Down' \subseteq Down /\ Down \ {a} \subseteq Down'
             /\ sup'[a] = s /\ (a \in Down' <=> s.child = FALSE)
  <2>1. sup'[a] = s /\ \A b \in Agents \ {a} : sup'[b] = sup[b]
    BY <1>2 DEF TypeOK
  <2>2. s.registered /\ s.child \in BOOLEAN /\ sup[a].registered
    BY <1>1 DEF Supervised
  <2>3. Registered' = Registered
    BY <2>1, <2>2 DEF Registered
  <2> QED BY <1>1, <2>1, <2>2, <2>3 DEF Down, Registered
<1>3. CASE Rerolled(a)
  <2> DEFINE s == [sup[a] EXCEPT !.child = TRUE]
  <2>1. s \in Supervised /\ s.child = TRUE
    <3>1. s \in Supervised
      BY <1>1, ParkedTypes
    <3>2. s.child = TRUE
      BY <1>1 DEF Supervised
    <3> QED BY <3>1, <3>2
  <2>2. sup' = [sup EXCEPT ![a] = s]
    BY <1>3 DEF Rerolled
  <2> HIDE DEF s
  <2>3. a \notin Down' /\ sup'[a] = s
    BY <1>2, <2>1, <2>2
  <2> QED BY <1>1, <1>2, <1>3, <2>1, <2>2, <2>3, DoneType DEF Rerolled
<1>4. CASE RollSpawnFailed(a)
  <2>1. Failed(sup[a]) \in Supervised /\ Failed(sup[a]).child = FALSE
    BY <1>1, FailedType, ParkedDown
  <2>2. sup' = [sup EXCEPT ![a] = Failed(sup[a])]
    BY <1>4 DEF RollSpawnFailed
  <2>3. a \in Down' /\ sup'[a] = Failed(sup[a])
    BY <1>2, <2>1, <2>2
  <2> QED BY <1>1, <1>2, <1>4, <2>1, <2>2, <2>3, DoneType DEF RollSpawnFailed
<1> QED BY <1>3, <1>4

LEMMA StartEffect ==
    ASSUME TypeOK, TickInv, NEW a \in Agents, Started(a)
    PROVE  /\ a \notin Registered \cup retiring \cup stopped
           /\ committed_count < MaxConcurrent /\ tick.pc = "start"
           /\ sup' = [sup EXCEPT ![a] = Fresh]
           /\ Registered' = Registered \cup {a} /\ Down' = Down
           /\ retiring' = retiring /\ stopped' = stopped /\ UNCHANGED runVars
           /\ tick'.pc = tick.pc /\ tick'.todo = tick.todo \ {a}
           /\ health' = [health EXCEPT ![a] = "alive"]
<1>1. a \notin Registered /\ tick.pc = "start" /\ Done(a)
  BY DEF Started, Starting, TickInv
<1>2. Fresh.registered /\ Fresh.child
  BY DEF Fresh
<1>3. sup'[a] = Fresh /\ \A b \in Agents \ {a} : sup'[b] = sup[b]
  BY DEF Started, TypeOK
<1>4. Registered' = Registered \cup {a}
  BY <1>2, <1>3 DEF Registered
<1>5. Down' = Down
  BY <1>1, <1>2, <1>3, <1>4 DEF Down, Registered
<1> QED BY <1>1, <1>4, <1>5, DoneType DEF Started, AdmitStart

(* A poll arm, in terms of who is registered and who is down. *)
LEMMA PollFleet ==
    ASSUME TypeOK, TypeOK', NEW a \in Agents, Poll(a)
    PROVE  /\ Registered' \subseteq Registered /\ Down' \subseteq Down \cup {a}
           /\ tick'.pc = "poll" /\ health' = health
           /\ \/ /\ a \notin Down \/ health[a] = "alive"
                 /\ Down' = Down
                 /\ stopped' = stopped /\ retiring' \subseteq retiring \cup {a}
              \/ /\ health[a] # "alive" /\ retiring' = retiring \ {a}
                 /\ stopped' = stopped \/ (stopped' \subseteq stopped \cup {a} /\ a \notin Registered')
<1>1. /\ sup' = [sup EXCEPT ![a] = sup'[a]] /\ health' = health /\ tick'.pc = "poll"
      /\ \/ /\ a \notin Registered \/ health[a] = "alive"
            /\ sup' = sup /\ stopped' = stopped /\ retiring' \subseteq retiring \cup {a}
         \/ Consumed(a)
  BY PollEffect
<1>2. CASE sup' = sup /\ stopped' = stopped /\ retiring' \subseteq retiring \cup {a}
           /\ (a \notin Registered \/ health[a] = "alive")
  BY <1>1, <1>2 DEF Registered, Down
<1>3. CASE Consumed(a)
  <2>1. \A b \in Agents \ {a} : sup'[b] = sup[b]
    BY <1>1 DEF TypeOK
  <2>2. a \in Registered
    BY <1>3 DEF Consumed
  <2>3. Registered' \subseteq Registered /\ Down' \subseteq Down \cup {a}
    BY <2>1, <2>2 DEF Registered, Down
  <2>4. sup'[a] = Absent => a \notin Registered'
    BY DEF Absent, Registered
  <2> QED BY <1>1, <1>3, <2>3, <2>4 DEF Consumed
<1> QED BY <1>1, <1>2, <1>3

----------------------------------------------------------------------------
(* The concurrency cap, the boundary stop and the place in the tick. *)

(* A member that is down is never taken for healthy: its latched exit is not
   "alive". It is what makes PollQuiet's move of a stop into `retiring` safe. *)
StopInv ==
    /\ StopHonoured
    /\ \A a \in Down : health[a] # "alive"

LEMMA TickStep == TypeOK /\ TypeOK' /\ TickInv /\ [Next]_vars => TickInv'
<1> SUFFICES ASSUME TypeOK, TypeOK', TickInv, [Next]_vars PROVE TickInv'
  OBVIOUS
<1> USE DEF TickInv
<1>1. ASSUME NEW a \in Agents, Poll(a) PROVE TickInv'
  BY <1>1, PollFleet
<1>2. CASE Reconcile
  <2>1. Spent' <=> Spent
    BY <1>2, ReconcileEffect DEF runVars, Spent
  <2> QED BY <1>2, <2>1, ReconcileEffect
<1>3. CASE BeginStarts
  <2>1. (Spent' <=> Spent) /\ Registered' = Registered
    BY <1>3, QuietEffect DEF runVars, Spent, SameFleet
  <2>2. tick'.todo = Agents \ Registered /\ tick.pc = "roll" /\ tick'.pc = "start"
    BY <1>3 DEF BeginStarts, TypeOK
  <2> QED BY <2>1, <2>2
<1>4. CASE BeginTick \/ EndTick
  BY <1>4 DEF BeginTick, EndTick
<1>5. CASE TimePasses
  BY <1>5 DEF TimePasses
<1>6. CASE Environment \/ UNCHANGED vars
  <2>1. tick' = tick /\ (Spent' <=> Spent) /\ Registered' = Registered /\ Down' = Down
    <3>1. tick' = tick
      BY <1>6 DEF Environment, ChildActs, KilledChildReaped, RequestStop, NetworkChanges,
                  PauseOrResume, vars
    <3>2. (Spent' <=> Spent) /\ Registered' = Registered /\ Down' = Down
      BY <1>6, QuietEffect DEF runVars, Spent, SameFleet
    <3> QED BY <3>1, <3>2
  <2> QED BY <2>1
<1>7. ASSUME NEW a \in Agents, RollHeld(a) \/ StartHeld(a) PROVE TickInv'
  <2>1. tick'.pc = tick.pc /\ tick'.todo = tick.todo \ {a}
    BY <1>7, DoneType DEF RollHeld, StartHeld
  <2>2. (Spent' <=> Spent) /\ Registered' = Registered /\ Down' = Down
    BY <1>7, QuietEffect DEF runVars, Spent, SameFleet
  <2> QED BY <2>1, <2>2
<1>8. ASSUME NEW a \in Agents, Rerolled(a) \/ RollSpawnFailed(a) PROVE TickInv'
  <2>1. Spent' <=> Spent
    BY <1>8, RollEffect DEF runVars, Spent
  <2> QED BY <1>8, <2>1, RollEffect
<1>9. ASSUME NEW a \in Agents, Started(a) PROVE TickInv'
  <2>1. Spent' <=> Spent
    BY <1>9, StartEffect DEF runVars, Spent
  <2> QED BY <1>9, <2>1, StartEffect
<1> QED BY <1>1, <1>2, <1>3, <1>4, <1>5, <1>6, <1>7, <1>8, <1>9 DEF Next, DriveStep

(* Losing members does not raise the count, and one member less is one less. *)
LEMMA Counts ==
    ASSUME TypeOK, TypeOK'
    PROVE  /\ committed_count \in Nat /\ committed_count' \in Nat
           /\ Registered' \subseteq Registered => committed_count' <= committed_count
           /\ \A a \in Registered :
                Registered' \subseteq Registered \ {a} => committed_count' <= committed_count - 1
           /\ \A a : Registered' = Registered \cup {a} => committed_count' <= committed_count + 1
<1>1. IsFiniteSet(Agents) /\ Registered \subseteq Agents /\ Registered' \subseteq Agents
  BY SupervisorConstants DEF Registered
<1>2. IsFiniteSet(Registered) /\ IsFiniteSet(Registered')
  BY <1>1, FS_Subset
<1>3. committed_count \in Nat /\ committed_count' \in Nat
  BY <1>2, FS_CardinalityType DEF committed_count
<1>4. Registered' \subseteq Registered => committed_count' <= committed_count
  BY <1>2, FS_Subset DEF committed_count
<1>5. ASSUME NEW a \in Registered, Registered' \subseteq Registered \ {a}
      PROVE  committed_count' <= committed_count - 1
  <2>1. /\ IsFiniteSet(Registered \ {a})
        /\ Cardinality(Registered \ {a}) = Cardinality(Registered) - 1
    BY <1>2, <1>5, FS_RemoveElement
  <2>2. Cardinality(Registered') <= Cardinality(Registered \ {a})
    BY <1>5, <2>1, FS_Subset
  <2> QED BY <2>1, <2>2 DEF committed_count
<1>6. ASSUME NEW a, Registered' = Registered \cup {a}
      PROVE  committed_count' <= committed_count + 1
  <2>1. Cardinality(Registered \cup {a}) = Cardinality(Registered)
        \/ Cardinality(Registered \cup {a}) = Cardinality(Registered) + 1
    BY <1>2, FS_AddElement
  <2> QED BY <1>3, <1>6, <2>1 DEF committed_count
<1> QED BY <1>3, <1>4, <1>5, <1>6

LEMMA CapStep ==
    TypeOK /\ TypeOK' /\ TickInv /\ CapRespected /\ [Next]_vars => CapRespected'
<1> SUFFICES ASSUME TypeOK, TypeOK', TickInv, CapRespected, [Next]_vars PROVE CapRespected'
  OBVIOUS
<1>0. MaxConcurrent \in Nat
  BY SupervisorConstants
<1>1. CASE Registered' \subseteq Registered
  BY <1>0, <1>1, Counts DEF CapRespected
<1>2. ASSUME NEW a \in Agents, Started(a) PROVE CapRespected'
  <2>1. committed_count < MaxConcurrent /\ Registered' = Registered \cup {a}
    BY <1>2, StartEffect
  <2>2. committed_count' <= committed_count + 1 /\ committed_count \in Nat /\ committed_count' \in Nat
    BY <2>1, Counts
  <2> QED BY <1>0, <2>1, <2>2 DEF CapRespected
<1>3. \/ Registered' \subseteq Registered
      \/ \E a \in Agents : Started(a)
  <2>1. ASSUME NEW a \in Agents, Poll(a) PROVE Registered' \subseteq Registered
    BY <2>1, PollFleet
  <2>2. ASSUME NEW a \in Agents, Rerolled(a) \/ RollSpawnFailed(a)
        PROVE  Registered' \subseteq Registered
    BY <2>2, RollEffect
  <2>3. CASE Reconcile
    BY <2>3, ReconcileEffect
  <2>4. CASE \/ BeginTick \/ BeginStarts \/ EndTick \/ Environment \/ TimePasses
             \/ \E a \in Agents : RollHeld(a) \/ StartHeld(a)
             \/ UNCHANGED vars
    BY <2>4, QuietEffect DEF SameFleet
  <2> QED BY <2>1, <2>2, <2>3, <2>4 DEF Next, DriveStep
<1> QED BY <1>1, <1>2, <1>3

LEMMA StopStep ==
    TypeOK /\ TypeOK' /\ TickInv /\ StopInv /\ [Next]_vars => StopInv'
<1> SUFFICES ASSUME TypeOK, TypeOK', TickInv, StopInv, [Next]_vars PROVE StopInv'
  OBVIOUS
<1> USE DEF StopInv, StopHonoured
<1>1. ASSUME NEW a \in Agents, Poll(a) PROVE StopInv'
  <2>1. Down' \subseteq Registered'
    BY DEF Down
  <2> QED BY <1>1, <2>1, PollFleet
<1>2. CASE Reconcile
  <2>1. health' = health
    BY <1>2 DEF Reconcile
  <2> QED BY <1>2, <2>1, ReconcileEffect
<1>3. CASE \/ BeginTick \/ BeginStarts \/ EndTick \/ TimePasses
           \/ \E a \in Agents : RollHeld(a) \/ StartHeld(a)
           \/ UNCHANGED vars
  <2>1. health' = health
    BY <1>3 DEF BeginTick, BeginStarts, EndTick, TimePasses, RollHeld, StartHeld, vars, fleetVars
  <2> QED BY <1>3, <2>1, QuietEffect DEF SameFleet
<1>4. CASE Environment
  <2>1. \A a \in Down : health'[a] # "alive"
    <3>1. CASE health' = health
      BY <3>1
    <3>2. ASSUME NEW a \in Agents, ChildActs(a)
          PROVE  \A b \in Down : health'[b] # "alive"
      BY <3>2 DEF ChildActs, Down, TypeOK
    <3>3. ASSUME NEW a \in Agents, KilledChildReaped(a)
          PROVE  \A b \in Down : health'[b] # "alive"
      BY <3>3 DEF KilledChildReaped, TypeOK
    <3> QED BY <1>4, <3>1, <3>2, <3>3 DEF Environment, RequestStop, NetworkChanges,
                                          PauseOrResume, fleetVars
  <2> QED BY <1>4, <2>1, QuietEffect DEF SameFleet
<1>5. ASSUME NEW a \in Agents, Rerolled(a) \/ RollSpawnFailed(a) PROVE StopInv'
  <2>1. Registered' = Registered /\ Down' \subseteq Down /\ retiring' = retiring
        /\ stopped' = stopped
    BY <1>5, RollEffect
  <2>2. \A b \in Down' : health'[b] = health[b]
    BY <1>5, RollEffect DEF Down, Registered, TypeOK
  <2> QED BY <2>1, <2>2
<1>6. ASSUME NEW a \in Agents, Started(a) PROVE StopInv'
  <2>1. \A b \in Down : b \in Registered /\ b \in Agents
    BY DEF Down, Registered
  <2>2. \A b \in Down : health'[b] = health[b]
    BY <1>6, <2>1, StartEffect DEF TypeOK
  <2> QED BY <1>6, <2>1, <2>2, StartEffect
<1> QED BY <1>1, <1>2, <1>3, <1>4, <1>5, <1>6 DEF Next, DriveStep

LEMMA FleetInitially == Init => TypeOK /\ TickInv /\ CapRespected /\ StopInv
<1> SUFFICES ASSUME Init PROVE TypeOK /\ TickInv /\ CapRespected /\ StopInv
  OBVIOUS
<1>1. Registered = {} /\ Down = {}
  BY DEF Init, Registered, Down, Absent
<1>2. CapRespected
  BY <1>1, FS_EmptySet, SupervisorConstants DEF CapRespected, committed_count
<1>3. TickInv /\ StopInv
  BY <1>1 DEF Init, TickInv, StopInv, StopHonoured
<1>4. TypeOK
  <2>1. RunTypes
    <3>1. max_iterations \in Bounds
      BY DEF Init
    <3>2. max_iterations = None \/ max_iterations \in Nat
      BY <3>1, SupervisorConstants
    <3> QED BY <3>1, <3>2 DEF Init, RunTypes
  <2>2. ArmTypes
    BY SupervisorConstants DEF Init, ArmTypes
  <2>3. SettledTypes
    BY DEF Init, SettledTypes
  <2> QED BY <2>1, <2>2, <2>3, TypeParts
<1> QED BY <1>2, <1>3, <1>4

(* Every reachable record has its type: the streaks stay below the limits that
   end them and the backoff below its cap, for any limits. *)
THEOREM TypeCorrect == Spec => [](TypeOK /\ TickInv)
<1>1. Init => TypeOK /\ TickInv
  BY FleetInitially
<1>2. TypeOK /\ TickInv /\ [Next]_vars => (TypeOK /\ TickInv)'
  BY TypeStep, TickStep
<1> QED BY <1>1, <1>2, PTL DEF Spec

(* The per-device cap holds for every fleet size and every interleaving of
   starts, crashes, re-rolls and reconciles: a member that is down keeps its
   slot, so a re-roll never needs a new one. *)
THEOREM CapHolds == Spec => []CapRespected
<1>1. Init => CapRespected
  BY FleetInitially
<1> QED BY <1>1, TypeCorrect, CapStep, PTL DEF Spec

(* A stopped member stays out of the fleet, and a member being retired is in a
   live session: no tick re-rolls it. *)
THEOREM StopsHonoured == Spec => []StopHonoured
<1>1. Init => StopInv
  BY FleetInitially
<1>2. StopInv => StopHonoured
  BY DEF StopInv
<1> QED BY <1>1, <1>2, TypeCorrect, StopStep, PTL DEF Spec

----------------------------------------------------------------------------
(* The bounded run. *)

(* Before the last counted iteration every boundary is counted; from then on
   each straggler's boundary takes its member out of the fleet, so the members
   still registered bound what is to come. *)
RunInv ==
    max_iterations # None =>
        /\ ~Spent => chunks = iterations
        /\ Spent => chunks + committed_count <= max_iterations + MaxConcurrent - 1

(* What a poll arm does to the run's counters: nothing, or it counts one
   boundary of a member that leaves the fleet if the run is over by then. *)
CountsBoundary(a) ==
    /\ max_iterations # None /\ max_iterations' = max_iterations
    /\ iterations' = IF Spent THEN iterations ELSE iterations + 1
    /\ chunks' = chunks + 1
    /\ a \in Registered
    /\ Spent' => Registered' \subseteq Registered \ {a}

LEMMA PollRun ==
    ASSUME TypeOK, TypeOK', NEW a \in Agents, Poll(a)
    PROVE  UNCHANGED runVars \/ CountsBoundary(a)
<1>1. /\ sup' = [sup EXCEPT ![a] = sup'[a]] /\ Registered' \subseteq Registered
      /\ sup'[a] = Absent => Registered' \subseteq Registered \ {a}
  <2>1. sup' = [sup EXCEPT ![a] = sup'[a]] /\ Registered' \subseteq Registered
    BY PollEffect, PollFleet
  <2>2. sup'[a] = Absent => a \notin Registered'
    BY DEF Absent, Registered
  <2> QED BY <2>1, <2>2
<1>2. CASE PollContinue(a)
  <2>1. CASE ContinueTrips(a)
    BY <2>1 DEF ContinueTrips
  <2>2. ASSUME NEW action \in NextActions \cup {None}, NEW key \in RepoKeys \cup {None},
               ContinueRolls(a, action, key)
        PROVE  UNCHANGED runVars \/ CountsBoundary(a)
    <3>1. Spent' => sup'[a] = Absent
      BY <2>2 DEF ContinueRolls, Settle, TypeOK
    <3>2. record_iteration(Stopping(a)) /\ a \in Registered
      BY <1>2, <2>2 DEF ContinueRolls, PollContinue, CleanlyExited
    <3> QED BY <1>1, <3>1, <3>2 DEF record_iteration, CountsBoundary, runVars
  <2> QED BY <1>2, <2>1, <2>2, ContinueShape
<1>3. CASE PollCompleted(a)
  <2>1. sup'[a] = Absent
    BY <1>3 DEF PollCompleted, Settle, TypeOK
  <2>2. record_iteration(Stopping(a)) /\ a \in Registered
    BY <1>3 DEF PollCompleted, CleanlyExited
  <2> QED BY <1>1, <2>1, <2>2 DEF record_iteration, CountsBoundary, runVars
<1>4. CASE ~(PollContinue(a) \/ PollCompleted(a))
  BY <1>4 DEF Poll, PollQuiet, PollLeaves, PollRateParked, PollReconnecting, PollDown,
              PollRateLimitDeath, PollModelRefused, PollCrashed
<1> QED BY <1>2, <1>3, <1>4

(* A boundary counted and a member gone: the sum does not grow. *)
LEMMA SumKept ==
    ASSUME NEW c \in Nat, NEW m \in Nat, NEW n \in Nat, NEW k \in Nat, NEW j \in Nat
    PROVE  /\ c + k <= m + n - 1 /\ j <= k => c + j <= m + n - 1
           /\ c + k <= m + n - 1 /\ j <= k - 1 => (c + 1) + j <= m + n - 1
           /\ c + 1 <= m /\ k <= n /\ j <= k - 1 => (c + 1) + j <= m + n - 1
OBVIOUS

LEMMA RunStep ==
    TypeOK /\ TypeOK' /\ TickInv /\ CapRespected /\ RunInv /\ [Next]_vars => RunInv'
<1> SUFFICES ASSUME TypeOK, TypeOK', TickInv, CapRespected, RunInv, [Next]_vars,
                    max_iterations' # None
             PROVE  /\ ~Spent' => chunks' = iterations'
                    /\ Spent' => chunks' + committed_count' <= max_iterations' + MaxConcurrent - 1
  BY DEF RunInv
<1>0. /\ MaxConcurrent \in Nat /\ chunks \in Nat
      /\ committed_count \in Nat /\ committed_count' \in Nat
  BY Counts, SupervisorConstants DEF TypeOK
<1>1. CASE Registered' \subseteq Registered /\ UNCHANGED runVars
  <2>1. committed_count' <= committed_count
    BY <1>1, Counts
  <2>2. /\ (Spent' <=> Spent) /\ chunks' = chunks /\ iterations' = iterations
        /\ max_iterations' = max_iterations
    BY <1>1 DEF runVars, Spent
  <2>3. max_iterations \in Nat
    BY <2>2, SupervisorConstants DEF TypeOK
  <2>4. CASE Spent
    <3>1. chunks + committed_count <= max_iterations + MaxConcurrent - 1
      BY <2>2, <2>4 DEF RunInv
    <3>2. chunks' = chunks /\ max_iterations' = max_iterations
      BY <2>2
    <3>3. chunks' + committed_count' <= max_iterations' + MaxConcurrent - 1
      BY <1>0, <2>1, <2>3, <3>1, <3>2, SumKept
    <3> QED BY <2>2, <2>4, <3>3
  <2>5. CASE ~Spent
    BY <2>2, <2>5 DEF RunInv
  <2> QED BY <2>4, <2>5
<1>2. ASSUME NEW a \in Agents, CountsBoundary(a)
      PROVE  /\ ~Spent' => chunks' = iterations'
             /\ Spent' => chunks' + committed_count' <= max_iterations' + MaxConcurrent - 1
  <2>1. /\ max_iterations \in Nat /\ max_iterations' = max_iterations
        /\ iterations \in 0..max_iterations /\ iterations' \in 0..max_iterations
    BY <1>2, SupervisorConstants DEF TypeOK, CountsBoundary
  <2>2. committed_count <= MaxConcurrent
    BY DEF CapRespected
  <2>3. Spent' => committed_count' <= committed_count - 1
    BY <1>2, Counts DEF CountsBoundary
  <2>4. CASE Spent
    <3>1. Spent'
      BY <1>2, <2>1, <2>4 DEF Spent, CountsBoundary
    <3>2. /\ chunks + committed_count <= max_iterations + MaxConcurrent - 1
          /\ chunks' = chunks + 1
      BY <1>2, <2>4 DEF RunInv, CountsBoundary
    <3>3. committed_count' <= committed_count - 1
      BY <2>3, <3>1
    <3>4. chunks' + committed_count' <= max_iterations' + MaxConcurrent - 1
      BY <1>0, <2>1, <3>2, <3>3, SumKept
    <3> QED BY <3>1, <3>4
  <2>5. CASE ~Spent
    <3>1. chunks = iterations /\ chunks' = chunks + 1 /\ iterations' = iterations + 1
      BY <1>2, <2>5 DEF RunInv, CountsBoundary
    <3>2. CASE Spent'
      <4>1. committed_count' <= committed_count - 1
        BY <2>3, <3>2
      <4>2. iterations + 1 <= max_iterations
        BY <2>1, <3>1
      <4>3. chunks' + committed_count' <= max_iterations' + MaxConcurrent - 1
        BY <1>0, <2>1, <2>2, <3>1, <4>1, <4>2, SumKept
      <4> QED BY <3>2, <4>3
    <3>3. CASE ~Spent'
      BY <3>1, <3>3
    <3> QED BY <3>2, <3>3
  <2> QED BY <2>4, <2>5
<1>3. ASSUME NEW a \in Agents, Started(a)
      PROVE  /\ ~Spent' => chunks' = iterations'
             /\ Spent' => chunks' + committed_count' <= max_iterations' + MaxConcurrent - 1
  <2>1. ~Spent /\ (Spent' <=> Spent) /\ UNCHANGED runVars
    BY <1>3, StartEffect DEF TickInv, runVars, Spent
  <2> QED BY <2>1 DEF RunInv, runVars
<1>4. \/ Registered' \subseteq Registered /\ UNCHANGED runVars
      \/ \E a \in Agents : CountsBoundary(a) \/ Started(a)
  <2>1. ASSUME NEW a \in Agents, Poll(a)
        PROVE  (Registered' \subseteq Registered /\ UNCHANGED runVars) \/ CountsBoundary(a)
    BY <2>1, PollRun, PollFleet
  <2>2. ASSUME NEW a \in Agents, Rerolled(a) \/ RollSpawnFailed(a)
        PROVE  Registered' \subseteq Registered /\ UNCHANGED runVars
    BY <2>2, RollEffect
  <2>3. CASE Reconcile
    BY <2>3, ReconcileEffect
  <2>4. CASE \/ BeginTick \/ BeginStarts \/ EndTick \/ Environment \/ TimePasses
             \/ \E a \in Agents : RollHeld(a) \/ StartHeld(a)
             \/ UNCHANGED vars
    BY <2>4, QuietEffect DEF SameFleet
  <2> QED BY <2>1, <2>2, <2>3, <2>4 DEF Next, DriveStep
<1> QED BY <1>1, <1>2, <1>3, <1>4

(* A bounded run ends after its N iterations and at most one more boundary of
   each other member that is in a session then, for any N and any cap. *)
THEOREM RunBounded == Spec => []BoundedRun
<1>1. Init => RunInv
  <2> SUFFICES ASSUME Init, max_iterations # None PROVE ~Spent /\ chunks = iterations
    BY DEF RunInv
  <2>1. max_iterations \in Nat \ {0} /\ iterations = 0 /\ chunks = 0
    BY SupervisorConstants DEF Init
  <2> QED BY <2>1 DEF Spent
<1>2. TypeOK /\ RunInv => BoundedRun
  <2> SUFFICES ASSUME TypeOK, RunInv, max_iterations # None
               PROVE  chunks <= max_iterations + MaxConcurrent - 1
    BY DEF BoundedRun
  <2>1. /\ max_iterations \in Nat /\ chunks \in Nat /\ iterations \in Nat
        /\ MaxConcurrent \in Nat
    BY SupervisorConstants DEF TypeOK
  <2>2. committed_count \in Nat
    <3>1. IsFiniteSet(Registered)
      BY FS_Subset, SupervisorConstants DEF Registered
    <3> QED BY <3>1, FS_CardinalityType DEF committed_count
  <2> QED BY <2>1, <2>2 DEF RunInv, Spent
<1> QED BY <1>1, <1>2, TypeCorrect, CapHolds, RunStep, PTL DEF Spec

----------------------------------------------------------------------------
(* The spin guard. *)

(* Member a's count of equal NEXT ACTIONs is what its excuses and its streak
   account for. *)
SpinAccounted(a) ==
    /\ same[a] <= (ExcuseLimit + 1) * (StallLimit - 1)
    /\ a \in Registered =>
         IF sup[a].lastAction = None THEN same[a] = 0
         ELSE /\ sup[a].streak <= StallLimit - 1
              /\ same[a] <= sup[a].excused * (StallLimit - 1) + sup[a].streak
SpinInv == \A a \in Agents : SpinAccounted(a)

SameSpin(s, t) ==
    /\ t.lastAction = s.lastAction /\ t.streak = s.streak /\ t.excused = s.excused

(* The three things a step can do to a member's count: forget it, leave it
   alone, or count one more continue-exit. *)
Forgets(a) == same'[a] = 0 /\ (sup'[a] = Absent \/ sup'[a].lastAction = None)
Keeps(a) ==
    /\ same'[a] = same[a]
    /\ sup'[a] = Absent \/ (sup[a] \in Supervised /\ SameSpin(sup[a], sup'[a]))
CountsExit(a) ==
    /\ a \in Registered
    /\ \E action \in NextActions \cup {None}, key \in RepoKeys \cup {None} :
         ContinueRolls(a, action, key)

LEMMA SpinFields ==
    ASSUME NEW s \in Supervised
    PROVE  /\ ResetSpin(s).lastAction = None
           /\ SameSpin(s, s)
           /\ SameSpin(s, Failed(s))
           /\ SameSpin(s, [s EXCEPT !.child = TRUE])
           /\ SameSpin(s, [s EXCEPT !.child = FALSE])
           /\ SameSpin(s, [s EXCEPT !.child = FALSE, !.wait = 0])
           /\ SameSpin(s, [s EXCEPT !.wait = CountDown(@)])
           /\ SameSpin(s, [s EXCEPT !.child = FALSE, !.failures = 0, !.wait = 0])
           /\ SameSpin(s, [s EXCEPT !.child = FALSE, !.wait = Forever, !.refused = TRUE])
BY DEF Supervised, SameSpin, Failed, ResetSpin

LEMMA PollSpin ==
    ASSUME TypeOK, NEW a \in Agents, Poll(a)
    PROVE  /\ Forgets(a) \/ Keeps(a) \/ CountsExit(a)
           /\ \A b \in Agents \ {a} : Keeps(b)
<1>1. /\ a \in Registered => sup[a] \in Supervised
      /\ sup[a] \in Supervised \cup {Absent}
      /\ sup \in [Agents -> Supervised \cup {Absent}] /\ same \in [Agents -> Nat]
  BY RecordShapes DEF TypeOK
<1>2. \A b \in Agents \ {a} : Keeps(b)
  <2>1. \A b \in Agents \ {a} : sup'[b] = sup[b]
    BY <1>1, PollEffect
  <2>2. \A b \in Agents \ {a} : same'[b] = same[b]
    <3>1. CASE PollContinue(a)
      BY <1>1, <3>1, ContinueShape DEF ContinueTrips, ContinueRolls
    <3>2. CASE ~PollContinue(a)
      BY <1>1, <3>2 DEF Poll, PollQuiet, PollCompleted, PollLeaves, PollRateParked,
                        PollReconnecting, PollDown, PollRateLimitDeath, PollModelRefused, PollCrashed
    <3> QED BY <3>1, <3>2
  <2> QED BY <1>1, <2>1, <2>2, SpinFields DEF Keeps
<1>3. CASE PollQuiet(a)
  BY <1>1, <1>3, SpinFields DEF PollQuiet, Keeps
<1>4. CASE PollContinue(a)
  <2>1. CASE ContinueTrips(a)
    <3>1. sup'[a] = Absent
      BY <2>1, SettleEffect DEF ContinueTrips
    <3> QED BY <1>1, <2>1, <3>1, <1>2 DEF ContinueTrips, Forgets
  <2> QED BY <1>2, <1>4, <2>1, ContinueShape DEF CountsExit
<1>5. CASE PollCompleted(a) \/ PollLeaves(a)
  <2>1. sup'[a] = Absent
    BY <1>5, SettleEffect DEF PollCompleted, PollLeaves
  <2> QED BY <1>1, <1>2, <1>5, <2>1 DEF PollCompleted, PollLeaves, Forgets
<1>6. CASE PollRateParked(a) \/ PollRateLimitDeath(a) \/ PollModelRefused(a)
  <2>1. sup[a] \in Supervised
    BY <1>1, <1>6 DEF PollRateParked, PollRateLimitDeath, PollModelRefused, CleanlyExited,
                      DiedNow, ErroredOrHung
  <2>2. same'[a] = 0
    BY <1>1, <1>6 DEF PollRateParked, PollRateLimitDeath, PollModelRefused
  <2> DEFINE r == ResetSpin(sup[a])
  <2>3. r \in Supervised /\ r.lastAction = None
    BY <2>1, ParkedTypes, SpinFields
  <2>4. ASSUME NEW s \in Supervised, SameSpin(r, s), NEW keeps,
               Settle(a, s, keeps, Stopping(a))
        PROVE  Forgets(a)
    <3>1. sup'[a] = Absent \/ sup'[a] = s
      BY <2>4, SettleEffect
    <3>2. s.lastAction = None
      BY <2>3, <2>4 DEF SameSpin
    <3> QED BY <2>2, <3>1, <3>2 DEF Forgets
  <2>5. CASE PollRateParked(a)
    <3> DEFINE s == [r EXCEPT !.child = FALSE]
    <3>1. s \in Supervised /\ SameSpin(r, s)
      BY <2>3, ParkedTypes, SpinFields
    <3>2. Settle(a, s, TRUE, Stopping(a))
      BY <2>5 DEF PollRateParked
    <3> QED BY <1>2, <2>4, <3>1, <3>2
  <2>6. CASE PollRateLimitDeath(a)
    <3> DEFINE s == [r EXCEPT !.child = FALSE, !.wait = 0]
    <3>1. s \in Supervised /\ SameSpin(r, s)
      BY <2>3, ParkedTypes, SpinFields
    <3>2. Settle(a, s, TRUE, Stopping(a))
      BY <2>6 DEF PollRateLimitDeath
    <3> QED BY <1>2, <2>4, <3>1, <3>2
  <2>7. CASE PollModelRefused(a)
    <3> DEFINE s == [r EXCEPT !.child = FALSE, !.wait = Forever, !.refused = TRUE]
    <3>1. s \in Supervised /\ SameSpin(r, s)
      BY <2>3, ParkedTypes, SpinFields
    <3>2. Settle(a, s, FALSE, Stopping(a))
      BY <2>7 DEF PollModelRefused
    <3> QED BY <1>2, <2>4, <3>1, <3>2
  <2> QED BY <1>6, <2>5, <2>6, <2>7
<1>7. CASE PollReconnecting(a) \/ PollDown(a) \/ PollCrashed(a)
  <2>1. sup[a] \in Supervised
    BY <1>1, <1>7 DEF PollReconnecting, PollDown, PollCrashed, Down, DiedNow, ErroredOrHung
  <2>2. same'[a] = same[a]
    BY <1>7 DEF PollReconnecting, PollDown, PollCrashed
  <2>3. ASSUME NEW s \in Supervised, SameSpin(sup[a], s), Settle(a, s, TRUE, Stopping(a))
        PROVE  Keeps(a)
    <3>1. sup'[a] = Absent \/ sup'[a] = s
      BY <2>3, SettleEffect
    <3> QED BY <2>1, <2>2, <2>3, <3>1 DEF Keeps
  <2>4. CASE PollReconnecting(a)
    <3> DEFINE s == [sup[a] EXCEPT !.child = FALSE, !.wait = 0]
    <3>1. s \in Supervised /\ SameSpin(sup[a], s)
      BY <2>1, ParkedTypes, SpinFields
    <3>2. Settle(a, s, TRUE, Stopping(a))
      BY <2>4 DEF PollReconnecting
    <3> QED BY <1>2, <2>3, <3>1, <3>2
  <2>5. CASE PollDown(a)
    <3>1. SameSpin(sup[a], sup[a]) /\ Settle(a, sup[a], TRUE, Stopping(a))
      BY <2>1, <2>5, SpinFields DEF PollDown
    <3> QED BY <1>2, <2>1, <2>3, <3>1
  <2>6. CASE PollCrashed(a)
    <3>1. Failed(sup[a]) \in Supervised /\ SameSpin(sup[a], Failed(sup[a]))
      BY <2>1, FailedType, SpinFields
    <3>2. Settle(a, Failed(sup[a]), TRUE, Stopping(a))
      BY <2>6 DEF PollCrashed
    <3> QED BY <1>2, <2>3, <3>1, <3>2
  <2> QED BY <1>7, <2>4, <2>5, <2>6
<1> QED BY <1>3, <1>4, <1>5, <1>6, <1>7 DEF Poll

LEMMA OtherSpin ==
    ASSUME TypeOK, TickInv, [Next]_vars, \A a \in Agents : ~Poll(a), NEW a \in Agents
    PROVE  Forgets(a) \/ Keeps(a)
<1>1. /\ a \in Registered => sup[a] \in Supervised
      /\ a \notin Registered => sup[a] = Absent
      /\ sup \in [Agents -> Supervised \cup {Absent}] /\ same \in [Agents -> Nat]
  BY RecordShapes DEF TypeOK
<1>2. CASE sup'[a] = sup[a] /\ same' = same
  BY <1>1, <1>2, SpinFields DEF Keeps
<1>3. CASE Reconcile
  <2>1. sup'[a] \in {Absent, sup[a]} /\ same' = same
    BY <1>3 DEF Reconcile
  <2> QED BY <1>1, <2>1, SpinFields DEF Keeps
<1>4. CASE TimePasses
  <2>1. same' = same
    BY <1>4 DEF TimePasses
  <2>2. CASE a \in Registered
    BY <1>1, <1>4, <2>1, <2>2, SpinFields DEF TimePasses, Keeps
  <2>3. CASE a \notin Registered
    BY <1>4, <2>1, <2>3 DEF TimePasses, Keeps
  <2> QED BY <2>2, <2>3
<1>5. ASSUME NEW b \in Agents, Rerolled(b) PROVE Keeps(a)
  <2>1. b \in Registered /\ sup[b] \in Supervised
    BY <1>5, RollEffect, RecordShapes DEF Down
  <2>2. sup' = [sup EXCEPT ![b] = [sup[b] EXCEPT !.child = TRUE]] /\ same' = same
    BY <1>5 DEF Rerolled
  <2>3. SameSpin(sup[b], sup'[b])
    BY <1>1, <2>1, <2>2, SpinFields
  <2>4. a # b => sup'[a] = sup[a]
    BY <1>1, <2>2
  <2> QED BY <1>1, <2>1, <2>2, <2>3, <2>4, SpinFields DEF Keeps
<1>6. ASSUME NEW b \in Agents, RollSpawnFailed(b) PROVE Keeps(a)
  <2>1. b \in Registered /\ sup[b] \in Supervised
    BY <1>6, RollEffect, RecordShapes DEF Down
  <2>2. sup' = [sup EXCEPT ![b] = Failed(sup[b])] /\ same' = same
    BY <1>6 DEF RollSpawnFailed
  <2>3. SameSpin(sup[b], sup'[b])
    BY <1>1, <2>1, <2>2, SpinFields
  <2>4. a # b => sup'[a] = sup[a]
    BY <1>1, <2>2
  <2> QED BY <1>1, <2>1, <2>2, <2>3, <2>4, SpinFields DEF Keeps
<1>7. ASSUME NEW b \in Agents, Started(b) PROVE Forgets(a) \/ Keeps(a)
  <2>1. CASE a = b
    BY <1>1, <1>7, <2>1 DEF Started, Forgets, Fresh
  <2>2. CASE a # b
    BY <1>1, <1>7, <2>2, SpinFields DEF Started, Keeps
  <2> QED BY <2>1, <2>2
<1>8. CASE \/ BeginTick \/ BeginStarts \/ EndTick \/ Environment
           \/ \E b \in Agents : RollHeld(b) \/ StartHeld(b)
           \/ UNCHANGED vars
  BY <1>2, <1>8 DEF BeginTick, BeginStarts, EndTick, Environment, ChildActs,
              KilledChildReaped, RequestStop, NetworkChanges, PauseOrResume, RollHeld,
              StartHeld, vars, fleetVars
<1> QED BY <1>3, <1>4, <1>5, <1>6, <1>7, <1>8 DEF Next, DriveStep

(* Bounding the count: one excuse is worth a streak below the limit. *)
LEMMA SpinArithmetic ==
    ASSUME NEW K \in Nat, NEW e \in Nat, NEW E \in Nat, NEW k \in Nat, NEW n \in Nat
    PROVE  /\ (E + 1) * K \in Nat /\ e * K \in Nat
           /\ e <= E /\ k <= K /\ n <= e * K + k => n <= (E + 1) * K
           /\ k <= K /\ n <= e * K + k => n + 1 <= (e + 1) * K + 1
           /\ n <= e * K + k => n + 1 <= e * K + (k + 1)
<1>1. (E + 1) * K = E * K + K /\ (e + 1) * K = e * K + K
  BY SMT
<1>2. E * K \in Nat /\ e * K \in Nat
  BY SMT
<1>3. e <= E => e * K <= E * K
  BY SMT
<1> QED BY <1>1, <1>2, <1>3

LEMMA CountsExitStep ==
    ASSUME TypeOK, NEW a \in Agents, SpinAccounted(a), CountsExit(a)
    PROVE  SpinAccounted(a)'
<1> PICK action \in NextActions \cup {None}, key \in RepoKeys \cup {None} :
      ContinueRolls(a, action, key)
  BY DEF CountsExit
<1> DEFINE c == Counted(sup[a], action, key)
           K == StallLimit - 1
           s == [c EXCEPT !.child = FALSE, !.failures = 0, !.wait = 0]
<1>1. /\ sup[a] \in Supervised /\ same[a] \in Nat /\ K \in Nat /\ ExcuseLimit \in Nat
      /\ StallLimit \in Nat /\ same \in [Agents -> Nat]
  <2>1. sup[a] \in Supervised
    BY RecordShapes DEF CountsExit
  <2>2. same[a] \in Nat /\ same \in [Agents -> Nat]
    BY DEF TypeOK
  <2>3. K \in Nat /\ ExcuseLimit \in Nat /\ StallLimit \in Nat
    BY SupervisorConstants
  <2> QED BY <2>1, <2>2, <2>3
<1>2. /\ c \in Supervised /\ c.streak < StallLimit
      /\ Settle(a, s, TRUE, Stopping(a) \/ Spent')
  BY DEF ContinueRolls
<1>3. /\ c.streak \in 0..StallLimit /\ c.excused \in 0..ExcuseLimit
      /\ sup[a].streak \in 0..StallLimit /\ sup[a].excused \in 0..ExcuseLimit
  BY <1>1, <1>2 DEF Supervised
<1>4. s \in Supervised /\ SameSpin(c, s)
  BY <1>2, ParkedTypes, SpinFields
<1>5. sup'[a] = Absent \/ sup'[a] = s
  <2> HIDE DEF s
  <2> QED BY <1>2, <1>4, SettleEffect
<1>6. same'[a] = IF action = None THEN 0
                 ELSE IF action = sup[a].lastAction THEN same[a] + 1 ELSE 1
  BY <1>1 DEF ContinueRolls
<1>7. /\ c.lastAction = action
      /\ \/ ~(sup[a].lastAction # None /\ sup[a].lastAction = action) /\ c.streak = 1
         \/ /\ sup[a].lastAction # None /\ sup[a].lastAction = action
            /\ \/ sup[a].excused < ExcuseLimit /\ c.streak = 1 /\ c.excused = sup[a].excused + 1
               \/ c.streak = sup[a].streak + 1 /\ c.excused = sup[a].excused
  BY <1>1, CountedCases
<1> HIDE DEF c, s
<1>8. CASE action = None
  <2>1. same'[a] = 0 /\ (sup'[a] = Absent \/ sup'[a].lastAction = None)
    BY <1>4, <1>5, <1>6, <1>7, <1>8 DEF SameSpin
  <2>2. sup'[a] = Absent => a \notin Registered'
    BY DEF Absent, Registered
  <2>3. 0 <= (ExcuseLimit + 1) * (StallLimit - 1)
    BY <1>1, SpinArithmetic
  <2> QED BY <2>1, <2>2, <2>3 DEF SpinAccounted
<1>9. CASE action # None
  <2>1. c.streak <= K /\ c.streak \in Nat /\ c.excused \in Nat /\ c.excused <= ExcuseLimit
    BY <1>1, <1>2, <1>3
  <2>2. same'[a] \in Nat /\ same'[a] <= c.excused * K + c.streak
    <3>0. c.excused * K \in Nat
      BY <1>1, <2>1, SpinArithmetic
    <3>1. CASE ~(sup[a].lastAction # None /\ sup[a].lastAction = action)
      <4>1. same'[a] = 1 /\ c.streak = 1
        BY <1>6, <1>7, <1>9, <3>1
      <4> QED BY <3>0, <4>1
    <3>2. CASE sup[a].lastAction # None /\ sup[a].lastAction = action
      <4>1. same'[a] = same[a] + 1
        BY <1>6, <1>9, <3>2
      <4>2. /\ sup[a].streak <= K /\ same[a] <= sup[a].excused * K + sup[a].streak
            /\ sup[a].streak \in Nat /\ sup[a].excused \in Nat
        <5>1. sup[a].streak <= K /\ same[a] <= sup[a].excused * K + sup[a].streak
          BY <3>2 DEF SpinAccounted, CountsExit
        <5>2. sup[a].streak \in Nat /\ sup[a].excused \in Nat
          BY <1>1, <1>3
        <5> QED BY <5>1, <5>2
      <4>3. CASE c.streak = 1 /\ c.excused = sup[a].excused + 1
        <5>1. same[a] + 1 <= (sup[a].excused + 1) * K + 1
          BY <1>1, <4>2, SpinArithmetic
        <5> QED BY <1>1, <4>1, <4>3, <5>1
      <4>4. CASE c.streak = sup[a].streak + 1 /\ c.excused = sup[a].excused
        <5>1. same[a] + 1 <= sup[a].excused * K + (sup[a].streak + 1)
          BY <1>1, <4>2, SpinArithmetic
        <5> QED BY <1>1, <4>1, <4>4, <5>1
      <4> QED BY <1>7, <3>2, <4>3, <4>4
    <3> QED BY <3>1, <3>2
  <2>3. same'[a] <= (ExcuseLimit + 1) * K
    BY <1>1, <2>1, <2>2, SpinArithmetic
  <2>4. /\ sup'[a] = Absent => a \notin Registered'
        /\ sup'[a] = s => sup'[a].lastAction = action /\ sup'[a].streak = c.streak
                          /\ sup'[a].excused = c.excused
    BY <1>4, <1>7 DEF SameSpin, Absent, Registered
  <2> QED BY <1>5, <1>9, <2>1, <2>2, <2>3, <2>4 DEF SpinAccounted
<1> QED BY <1>8, <1>9

LEMMA SpinStep ==
    TypeOK /\ TypeOK' /\ TickInv /\ SpinInv /\ [Next]_vars => SpinInv'
<1> SUFFICES ASSUME TypeOK, TypeOK', TickInv, SpinInv, [Next]_vars, NEW a \in Agents
             PROVE  SpinAccounted(a)'
  BY DEF SpinInv
<1>1. SpinAccounted(a)
  BY DEF SpinInv
<1>2. CASE Forgets(a)
  <2>1. 0 <= (ExcuseLimit + 1) * (StallLimit - 1)
    <3>1. ExcuseLimit \in Nat /\ StallLimit - 1 \in Nat
      BY SupervisorConstants
    <3> QED BY <3>1, SpinArithmetic
  <2>2. sup'[a] = Absent => a \notin Registered'
    BY DEF Absent, Registered
  <2> QED BY <1>2, <2>1, <2>2 DEF Forgets, SpinAccounted
<1>3. CASE Keeps(a)
  <2>1. sup'[a] = Absent => a \notin Registered'
    BY DEF Absent, Registered
  <2>2. sup[a] \in Supervised => a \in Registered
    BY RecordShapes
  <2> QED BY <1>1, <1>3, <2>1, <2>2 DEF Keeps, SameSpin, SpinAccounted
<1>4. ASSUME NEW b \in Agents, Poll(b) PROVE SpinAccounted(a)'
  <2>1. CASE CountsExit(a)
    BY <1>1, <2>1, CountsExitStep
  <2> QED BY <1>2, <1>3, <1>4, <2>1, PollSpin
<1>5. CASE \A b \in Agents : ~Poll(b)
  BY <1>2, <1>3, <1>5, OtherSpin
<1> QED BY <1>4, <1>5

(* One NEXT ACTION is carried through at most (ExcuseLimit + 1) * (StallLimit
   - 1) sessions in a row, for any limits, however the repository moves and
   whatever crashes and parks come between. *)
THEOREM SpinIsBounded == Spec => []SpinBounded
<1>1. Init => SpinInv
  <2> SUFFICES ASSUME Init, NEW a \in Agents PROVE SpinAccounted(a)
    BY DEF SpinInv
  <2>1. same[a] = 0 /\ a \notin Registered
    BY DEF Init, Registered, Absent
  <2>2. ExcuseLimit \in Nat /\ StallLimit - 1 \in Nat
    BY SupervisorConstants
  <2>3. 0 <= (ExcuseLimit + 1) * (StallLimit - 1)
    BY <2>2, SpinArithmetic
  <2> QED BY <2>1, <2>3 DEF SpinAccounted
<1>2. SpinInv => SpinBounded
  BY DEF SpinInv, SpinAccounted, SpinBounded
<1>3. TypeOK /\ TickInv /\ SpinInv /\ [Next]_vars => SpinInv'
  BY TypeStep, SpinStep
<1> QED BY <1>1, <1>2, <1>3, TypeCorrect, PTL DEF Spec

----------------------------------------------------------------------------
(* Backoff and the model-refused park, through every network fault. *)

(* What is left of the failure's backoff is waited for, and a member latched on
   a refused model waits for ever, unless its exit was taken for a lost
   connection; and then it is down, with that exit latched. *)
Waits(a) ==
    /\ a \in reconnecting => a \in Down /\ health[a] \in ErrorExits
    /\ a \in Registered \ Down => due[a] = 0
    /\ a \in Down \ reconnecting =>
           /\ due[a] <= sup[a].wait
           /\ health[a] = "refused" => sup[a].wait = Forever
WaitInv == \A a \in Agents : Waits(a)

LEMMA WaitFields ==
    ASSUME NEW s \in Supervised
    PROVE  /\ ResetSpin(s).wait = s.wait /\ ResetSpin(s).refused = s.refused
           /\ LET t == [s EXCEPT !.child = FALSE]
              IN  t.wait = s.wait /\ t.refused = s.refused
           /\ LET t == [s EXCEPT !.child = FALSE, !.wait = 0]
              IN  t.wait = 0 /\ t.refused = s.refused
           /\ LET t == [s EXCEPT !.child = FALSE, !.failures = 0, !.wait = 0]
              IN  t.wait = 0 /\ t.refused = s.refused
           /\ LET t == [s EXCEPT !.child = FALSE, !.wait = Forever, !.refused = TRUE]
              IN  t.wait = Forever /\ t.child = FALSE
           /\ LET t == [s EXCEPT !.wait = CountDown(@)]
              IN  t.wait = CountDown(s.wait) /\ t.refused = s.refused /\ t.child = s.child
           /\ LET t == [s EXCEPT !.child = TRUE]
              IN  t.wait = s.wait /\ t.refused = s.refused
           /\ Failed(s).refused = s.refused
BY DEF Supervised, ResetSpin, Failed

(* A poll that settles the member's record at s keeps what it waits for. *)
LEMMA SettleWaits ==
    ASSUME TypeOK, NEW a \in Agents, NEW s \in Supervised, NEW keeps, NEW stops,
           Settle(a, s, keeps, stops), s.child = FALSE, a \notin reconnecting',
           due'[a] <= s.wait, health[a] = "refused" => s.wait = Forever
    PROVE  Waits(a)'
<1>1. (sup'[a] = Absent \/ sup'[a] = s) /\ health' = health
  BY SettleEffect
<1>2. sup'[a] = Absent => a \notin Registered'
  BY DEF Absent, Registered
<1>3. sup'[a] = s => (a \in Registered' => a \in Down')
  BY DEF Registered, Down
<1> QED BY <1>1, <1>2, <1>3 DEF Waits, Down

(* So does one that takes the member out of the fleet. *)
LEMMA AbsentWaits ==
    ASSUME NEW a \in Agents, sup'[a] = Absent, a \notin reconnecting'
    PROVE  Waits(a)'
<1>1. a \notin Registered'
  BY DEF Absent, Registered
<1> QED BY <1>1 DEF Waits, Down

LEMMA PollWaits ==
    ASSUME TypeOK, NEW a \in Agents, Waits(a), Poll(a)
    PROVE  Waits(a)'
<1>1. /\ a \in Registered => sup[a] \in Supervised
      /\ sup \in [Agents -> Supervised \cup {Absent}] /\ due \in [Agents -> 0..CapSecs]
  BY RecordShapes DEF TypeOK
<1>2. a \in Registered /\ sup[a].child => due[a] = 0 /\ a \notin reconnecting
  BY DEF Waits, Down
<1>3. CASE PollQuiet(a)
  <2>1. sup' = sup /\ health' = health /\ due' = due
    BY <1>3 DEF PollQuiet
  <2>2. a \notin reconnecting
    BY <1>3 DEF PollQuiet, Waits, Down, ErrorExits
  <2>3. a \notin reconnecting'
    BY <1>3, <2>2 DEF PollQuiet
  <2> QED BY <2>1, <2>2, <2>3 DEF Waits, Down, Registered
<1>4. CASE PollContinue(a)
  <2>1. /\ due'[a] = 0 /\ a \in Registered /\ sup[a].child /\ health[a] = CleanExit
        /\ a \notin reconnecting'
    BY <1>1, <1>4 DEF PollContinue, CleanlyExited
  <2>2. sup[a] \in Supervised
    BY <1>1, <2>1
  <2>3. CASE ContinueTrips(a)
    BY <2>1, <2>3, SettleEffect, AbsentWaits DEF ContinueTrips
  <2>4. ASSUME NEW action \in NextActions \cup {None}, NEW key \in RepoKeys \cup {None},
               ContinueRolls(a, action, key)
        PROVE  Waits(a)'
    <3> DEFINE c == Counted(sup[a], action, key)
               s == [c EXCEPT !.child = FALSE, !.failures = 0, !.wait = 0]
    <3>1. c \in Supervised /\ Settle(a, s, TRUE, Stopping(a) \/ Spent')
      BY <2>4 DEF ContinueRolls
    <3> HIDE DEF c
    <3>2. s \in Supervised /\ s.wait = 0 /\ s.child = FALSE
      BY <3>1, ParkedTypes, ParkedDown, WaitFields
    <3> HIDE DEF s
    <3>3. due'[a] <= s.wait /\ health[a] # "refused"
      BY <2>1, <3>2 DEF CleanExit
    <3> QED BY <2>1, <3>1, <3>2, <3>3, SettleWaits
  <2> QED BY <1>4, <2>3, <2>4, ContinueShape
<1>5. CASE PollCompleted(a) \/ PollLeaves(a)
  <2>1. sup'[a] = Absent /\ a \notin reconnecting'
    BY <1>5, SettleEffect DEF PollCompleted, PollLeaves
  <2> QED BY <2>1, AbsentWaits
<1>6. CASE PollRateParked(a)
  <2>1. sup[a] \in Supervised /\ due[a] = 0 /\ health[a] # "refused" /\ a \notin reconnecting'
    BY <1>1, <1>2, <1>6 DEF PollRateParked, CleanlyExited, CleanExit
  <2> DEFINE s == [ResetSpin(sup[a]) EXCEPT !.child = FALSE]
  <2>2. s \in Supervised /\ s.wait = sup[a].wait /\ s.child = FALSE
    BY <2>1, ParkedTypes, ParkedDown, WaitFields
  <2>3. Settle(a, s, TRUE, Stopping(a)) /\ due'[a] = due[a]
    BY <1>6 DEF PollRateParked
  <2> HIDE DEF s
  <2>4. due'[a] <= s.wait
    <3>1. s.wait \in 0..Forever
      BY <2>2 DEF Supervised
    <3> QED BY <2>1, <2>3, <3>1, SupervisorConstants DEF Forever
  <2> QED BY <2>1, <2>2, <2>3, <2>4, SettleWaits
<1>7. CASE PollReconnecting(a)
  <2> DEFINE s == [sup[a] EXCEPT !.child = FALSE, !.wait = 0]
  <2>1. sup[a] \in Supervised /\ health[a] \in ErrorExits
    BY <1>1, <1>7 DEF PollReconnecting, ErroredOrHung, network_exit
  <2>2. s \in Supervised /\ s.child = FALSE
    BY <2>1, ParkedTypes, ParkedDown
  <2>3. Settle(a, s, TRUE, Stopping(a))
    BY <1>7 DEF PollReconnecting
  <2> HIDE DEF s
  <2>4. sup'[a] = IF Stopping(a) THEN Absent ELSE s
    BY <1>1, <2>3 DEF Settle
  <2>5. CASE Stopping(a)
    BY <1>7, <2>4, <2>5, AbsentWaits DEF PollReconnecting
  <2>6. CASE ~Stopping(a)
    <3>1. a \in Down'
      BY <2>2, <2>4, <2>6 DEF Down, Registered, Supervised
    <3>2. a \in reconnecting' /\ health' = health
      BY <1>7, <2>3, <2>6 DEF PollReconnecting, Settle
    <3> QED BY <2>1, <3>1, <3>2 DEF Waits
  <2> QED BY <2>5, <2>6
<1>8. CASE PollDown(a)
  <2>1. sup[a] \in Supervised /\ a \in Down /\ sup[a].child = FALSE
    BY <1>1, <1>8 DEF PollDown, Down
  <2>2. Settle(a, sup[a], TRUE, Stopping(a)) /\ due'[a] = due[a] /\ a \notin reconnecting'
    BY <1>8 DEF PollDown
  <2>3. a \notin reconnecting
    BY <1>8 DEF PollDown, network_exit, Waits
  <2>4. due[a] <= sup[a].wait /\ (health[a] = "refused" => sup[a].wait = Forever)
    BY <2>1, <2>3 DEF Waits
  <2> QED BY <2>1, <2>2, <2>4, SettleWaits
<1>9. CASE PollRateLimitDeath(a)
  <2>1. sup[a] \in Supervised
    BY <1>1, <1>9 DEF PollRateLimitDeath, DiedNow, ErroredOrHung
  <2> DEFINE s == [ResetSpin(sup[a]) EXCEPT !.child = FALSE, !.wait = 0]
  <2>2. s \in Supervised /\ s.wait = 0 /\ s.child = FALSE
    BY <2>1, ParkedTypes, ParkedDown, WaitFields
  <2>3. /\ Settle(a, s, TRUE, Stopping(a)) /\ due'[a] = 0 /\ a \notin reconnecting'
        /\ health[a] # "refused"
    BY <1>1, <1>9 DEF PollRateLimitDeath
  <2> HIDE DEF s
  <2>4. due'[a] <= s.wait
    BY <2>2, <2>3
  <2> QED BY <2>2, <2>3, <2>4, SettleWaits
<1>10. CASE PollModelRefused(a)
  <2>1. sup[a] \in Supervised
    BY <1>1, <1>10 DEF PollModelRefused, DiedNow, ErroredOrHung
  <2> DEFINE s == [ResetSpin(sup[a]) EXCEPT !.child = FALSE, !.wait = Forever,
                                            !.refused = TRUE]
  <2>2. s \in Supervised /\ s.wait = Forever /\ s.child = FALSE
    BY <2>1, ParkedTypes, WaitFields
  <2>3. Settle(a, s, FALSE, Stopping(a)) /\ due'[a] = 0 /\ a \notin reconnecting'
    BY <1>1, <1>10 DEF PollModelRefused
  <2> HIDE DEF s
  <2>4. due'[a] <= s.wait
    BY <2>2, <2>3, SupervisorConstants DEF Forever
  <2> QED BY <2>2, <2>3, <2>4, SettleWaits
<1>11. CASE PollCrashed(a)
  <2>1. sup[a] \in Supervised
    BY <1>1, <1>11 DEF PollCrashed, DiedNow, ErroredOrHung
  <2>2. Failed(sup[a]) \in Supervised /\ Failed(sup[a]).child = FALSE
        /\ Failed(sup[a]).wait \in 0..CapSecs
    BY <2>1, FailedType, ParkedDown
  <2>3. /\ Settle(a, Failed(sup[a]), TRUE, Stopping(a)) /\ due'[a] = Failed(sup[a]).wait
        /\ a \notin reconnecting' /\ health[a] # "refused"
    BY <1>1, <1>11 DEF PollCrashed
  <2>4. due'[a] <= Failed(sup[a]).wait
    BY <2>2, <2>3, SupervisorConstants
  <2> QED BY <2>2, <2>3, <2>4, SettleWaits
<1> QED BY <1>3, <1>4, <1>5, <1>6, <1>7, <1>8, <1>9, <1>10, <1>11 DEF Poll

(* A poll of one member leaves the others' records and latches alone. *)
LEMMA PollOthers ==
    ASSUME TypeOK, NEW b \in Agents, Poll(b), NEW a \in Agents \ {b}
    PROVE  /\ sup'[a] = sup[a] /\ due'[a] = due[a] /\ health'[a] = health[a]
           /\ a \in reconnecting' <=> a \in reconnecting
<1>1. sup'[a] = sup[a] /\ health' = health
  BY PollEffect DEF TypeOK
<1>2. due \in [Agents -> 0..CapSecs]
  BY DEF TypeOK
<1>3. CASE PollContinue(b)
  BY <1>1, <1>2, <1>3 DEF PollContinue
<1>4. CASE ~PollContinue(b)
  BY <1>1, <1>2, <1>4 DEF Poll, PollQuiet, PollCompleted, PollLeaves, PollRateParked,
        PollReconnecting, PollDown, PollRateLimitDeath, PollModelRefused, PollCrashed
<1> QED BY <1>3, <1>4

LEMMA WaitStep ==
    ASSUME TypeOK, TickInv, WaitInv, [Next]_vars
    PROVE  WaitInv'
<1> SUFFICES ASSUME NEW a \in Agents PROVE Waits(a)'
  BY DEF WaitInv
<1>0. Waits(a)
  BY DEF WaitInv
<1>1. /\ a \in Registered => sup[a] \in Supervised
      /\ sup \in [Agents -> Supervised \cup {Absent}] /\ due \in [Agents -> 0..CapSecs]
      /\ due[a] \in 0..CapSecs
      /\ health \in [Agents -> Exits \cup {"none", "alive", "hung"}]
  BY RecordShapes DEF TypeOK
<1>2. CASE sup'[a] = sup[a] /\ due'[a] = due[a] /\ health'[a] = health[a]
           /\ (a \in reconnecting' <=> a \in reconnecting)
  BY <1>0, <1>2 DEF Waits, Registered, Down
<1>4. ASSUME NEW b \in Agents, Poll(b) PROVE Waits(a)'
  <2>1. CASE a = b
    BY <1>0, <1>4, <2>1, PollWaits
  <2>2. CASE a # b
    BY <1>2, <1>4, <2>2, PollOthers
  <2> QED BY <2>1, <2>2
<1>5. CASE Reconcile
  <2> PICK edited \in SUBSET {m \in refusedItems \cap Registered : sup[m].refused} :
        /\ sup' = [m \in Agents |-> IF m \in edited THEN Absent ELSE sup[m]]
        /\ reconnecting' = reconnecting \ edited
    BY <1>5 DEF Reconcile
  <2>1. due' = due /\ health' = health
    BY <1>5 DEF Reconcile
  <2>2. CASE a \in edited
    <3>1. sup'[a] = Absent /\ a \notin reconnecting'
      BY <2>2
    <3> QED BY <3>1, AbsentWaits
  <2>3. CASE a \notin edited
    BY <1>2, <2>1, <2>3
  <2> QED BY <2>2, <2>3
<1>6. CASE TimePasses
  <2>0. health' = health /\ reconnecting' = reconnecting
    BY <1>6 DEF TimePasses
  <2>1. CASE a \in Registered
    <3>1. sup[a] \in Supervised
      BY <1>1, <2>1
    <3>2. sup'[a] = [sup[a] EXCEPT !.wait = CountDown(@)] /\ due'[a] = CountDown(due[a])
      BY <1>6, <2>1 DEF TimePasses
    <3>3. sup'[a].wait = CountDown(sup[a].wait) /\ sup'[a].child = sup[a].child
          /\ sup'[a].registered
      BY <3>1, <3>2, WaitFields DEF Supervised
    <3>4. sup[a].wait \in 0..Forever
      BY <3>1 DEF Supervised
    <3>5. /\ due[a] <= sup[a].wait => CountDown(due[a]) <= CountDown(sup[a].wait)
          /\ due[a] = 0 => CountDown(due[a]) = 0
      BY <1>1, <3>4, SupervisorConstants DEF CountDown, Forever
    <3>6. CountDown(Forever) = Forever
      BY SupervisorConstants DEF CountDown, Forever
    <3>7. a \in Registered' /\ (a \in Down' <=> a \in Down)
      BY <2>1, <3>3 DEF Registered, Down
    <3>8. CASE a \in Down
      BY <1>0, <2>0, <3>2, <3>3, <3>5, <3>6, <3>7, <3>8 DEF Waits
    <3>9. CASE a \notin Down
      BY <1>0, <2>0, <2>1, <3>2, <3>5, <3>7, <3>9 DEF Waits
    <3> QED BY <3>8, <3>9
  <2>2. CASE a \notin Registered
    <3>1. a \notin reconnecting /\ sup'[a] = Absent
      BY <1>0, <1>6, <2>2 DEF TimePasses, Waits, Down
    <3> QED BY <2>0, <3>1, AbsentWaits
  <2> QED BY <2>1, <2>2
<1>7. ASSUME NEW b \in Agents, Rerolled(b) \/ RollSpawnFailed(b) PROVE Waits(a)'
  <2>1. b \in Down /\ sup[b] \in Supervised /\ sup[b].wait = 0
    BY <1>7, RollEffect, RecordShapes
  <2>2. CASE a # b
    <3>1. /\ sup'[a] = sup[a] /\ due'[a] = due[a] /\ health'[a] = health[a]
          /\ a \in reconnecting' <=> a \in reconnecting
      BY <1>1, <1>7, <2>2 DEF Rerolled, RollSpawnFailed
    <3> QED BY <1>2, <3>1
  <2>3. CASE a = b /\ Rerolled(b)
    <3>1. due'[a] = 0 /\ a \notin reconnecting'
      BY <1>1, <2>3 DEF Rerolled
    <3>2. sup'[a] = [sup[a] EXCEPT !.child = TRUE]
      BY <1>1, <2>3 DEF Rerolled
    <3>3. sup'[a].child = TRUE
      BY <2>1, <2>3, <3>2 DEF Supervised
    <3>4. a \notin Down'
      BY <3>3 DEF Down
    <3> QED BY <3>1, <3>4 DEF Waits
  <2>4. CASE a = b /\ RollSpawnFailed(b)
    <3>1. /\ sup'[a] = Failed(sup[a]) /\ due'[a] = Failed(sup[a]).wait
          /\ health' = health /\ reconnecting' = reconnecting
      BY <1>1, <2>4 DEF RollSpawnFailed
    <3>2. /\ Failed(sup[a]) \in Supervised /\ Failed(sup[a]).wait \in 0..CapSecs
          /\ Failed(sup[a]).child = FALSE
      BY <2>1, <2>4, FailedType, ParkedDown
    <3>3. due'[a] <= sup'[a].wait
      BY <3>1, <3>2, SupervisorConstants
    <3>4. a \in Down'
      BY <3>1, <3>2 DEF Down, Registered, Supervised
    <3>5. a \notin reconnecting => health[a] # "refused"
      <4>1. Forever # 0
        BY SupervisorConstants DEF Forever
      <4> QED BY <1>0, <2>1, <2>4, <4>1 DEF Waits
    <3> QED BY <1>0, <2>1, <2>4, <3>1, <3>3, <3>4, <3>5 DEF Waits
  <2> QED BY <1>7, <2>2, <2>3, <2>4
<1>8. ASSUME NEW b \in Agents, Started(b) PROVE Waits(a)'
  <2>0. b \notin Registered
    BY <1>8, StartEffect
  <2>1. CASE a = b
    <3>1. sup'[a] = Fresh /\ due'[a] = 0 /\ reconnecting' = reconnecting
      BY <1>1, <1>8, <2>1 DEF Started
    <3>2. a \notin reconnecting /\ a \notin Down'
      BY <1>0, <2>0, <2>1, <3>1 DEF Waits, Down, Fresh
    <3> QED BY <3>1, <3>2 DEF Waits
  <2>2. CASE a # b
    BY <1>1, <1>2, <1>8, <2>2 DEF Started
  <2> QED BY <2>1, <2>2
<1>9. ASSUME NEW b \in Agents, ChildActs(b) \/ KilledChildReaped(b) PROVE Waits(a)'
  <2>1. sup' = sup /\ due' = due /\ reconnecting' = reconnecting
    BY <1>9 DEF ChildActs, KilledChildReaped
  <2>2. CASE a # b
    BY <1>1, <1>2, <1>9, <2>1, <2>2 DEF ChildActs, KilledChildReaped
  <2>3. CASE a = b /\ ChildActs(b)
    <3>1. a \in Registered \ Down
      BY <2>3 DEF ChildActs, Down
    <3> QED BY <1>0, <2>1, <3>1 DEF Waits, Registered, Down
  <2>4. CASE a = b /\ KilledChildReaped(b)
    <3>1. health'[a] = "crash" /\ a \notin reconnecting
      BY <1>0, <1>1, <2>4 DEF KilledChildReaped, Waits, ErrorExits
    <3> QED BY <1>0, <2>1, <3>1 DEF Waits, Registered, Down
  <2> QED BY <1>9, <2>2, <2>3, <2>4
<1>10. CASE \/ BeginTick \/ BeginStarts \/ EndTick \/ NetworkChanges \/ PauseOrResume
            \/ \E b \in Agents : RollHeld(b) \/ StartHeld(b) \/ RequestStop(b)
            \/ UNCHANGED vars
  BY <1>2, <1>10 DEF BeginTick, BeginStarts, EndTick, RequestStop, NetworkChanges,
              PauseOrResume, RollHeld, StartHeld, vars, fleetVars
<1> QED BY <1>4, <1>5, <1>6, <1>7, <1>8, <1>9, <1>10 DEF Next, DriveStep, Environment

(* A member that is down gets a session only by a re-roll that waited. *)
LEMMA SessionAfterWait ==
    ASSUME TypeOK, TypeOK', TickInv, [Next]_vars, NEW a \in Down,
           sup'[a].registered, sup'[a].child
    PROVE  sup[a].wait = 0
<1>1. a \in Agents /\ a \in Registered /\ ~sup[a].child
  BY DEF Down, Registered
<1>2. a \in Registered' /\ a \notin Down'
  BY <1>1 DEF Registered, Down
<1>3. ASSUME NEW b \in Agents, Poll(b) PROVE FALSE
  <2>1. CASE a = b
    <3>1. \/ sup' = sup
          \/ sup'[a] = Absent
          \/ sup'[a].child = FALSE
      BY <1>3, <2>1, PollEffect DEF Consumed
    <3> QED BY <1>1, <3>1 DEF Absent
  <2>2. CASE a # b
    BY <1>1, <1>3, <2>2, PollEffect DEF TypeOK
  <2> QED BY <2>1, <2>2
<1>4. ~Reconcile
  <2> SUFFICES ASSUME Reconcile PROVE FALSE
    OBVIOUS
  <2>1. sup'[a] \in {Absent, sup[a]}
    BY <1>1 DEF Reconcile
  <2> QED BY <1>1, <2>1 DEF Absent
<1>5. ASSUME NEW b \in Agents, Rerolled(b) \/ RollSpawnFailed(b) PROVE sup[a].wait = 0
  BY <1>2, <1>5, RollEffect
<1>6. ASSUME NEW b \in Agents, Started(b) PROVE FALSE
  BY <1>2, <1>6, StartEffect
<1>7. ~(\/ BeginTick \/ BeginStarts \/ EndTick \/ Environment \/ TimePasses
        \/ \E b \in Agents : RollHeld(b) \/ StartHeld(b)
        \/ UNCHANGED vars)
  BY <1>2, QuietEffect DEF SameFleet
<1> QED BY <1>3, <1>4, <1>5, <1>6, <1>7 DEF Next, DriveStep

(* The waits account for every backoff and for every park that no poll has taken
   for a lost connection. *)
THEOREM WaitInvariant == Spec => []WaitInv
<1>1. Init => WaitInv
  BY DEF Init, WaitInv, Waits, Registered, Down, Absent
<1>2. TypeOK /\ TickInv /\ WaitInv /\ [Next]_vars => WaitInv'
  BY WaitStep
<1> QED BY <1>1, <1>2, TypeCorrect, PTL DEF Spec

(* A member latched on a refused model is re-rolled only if its latched exit
   was taken for a lost connection, however the device goes offline and back
   and whatever exits, stops and edits come in between. *)
THEOREM ParksKept == Spec => ParkedNotRerolled
<1>1. TypeOK /\ TypeOK' /\ TickInv /\ WaitInv /\ [Next]_vars
      => [\A a \in Down :
              health[a] = "refused" /\ sup'[a].registered /\ sup'[a].child
                  => a \in reconnecting]_vars
  <2> SUFFICES ASSUME TypeOK, TypeOK', TickInv, WaitInv, [Next]_vars, NEW a \in Down,
                      health[a] = "refused", sup'[a].registered, sup'[a].child,
                      a \notin reconnecting
               PROVE  FALSE
    OBVIOUS
  <2>1. sup[a].wait = 0
    BY SessionAfterWait
  <2>2. sup[a].wait = Forever
    BY DEF WaitInv, Waits, Down, Registered
  <2> QED BY <2>1, <2>2, SupervisorConstants DEF Forever
<1> QED BY <1>1, WaitInvariant, TypeCorrect, PTL DEF Spec, ParkedNotRerolled

(* A member that failed gets no session before the backoff that failure armed
   has run out, unless its exit was taken for a lost connection. *)
THEOREM BackoffsHonoured == Spec => BackoffHonoured
<1>1. TypeOK /\ TypeOK' /\ TickInv /\ WaitInv /\ [Next]_vars
      => [\A a \in Down :
              sup'[a].registered /\ sup'[a].child => due[a] = 0 \/ a \in reconnecting]_vars
  <2> SUFFICES ASSUME TypeOK, TypeOK', TickInv, WaitInv, [Next]_vars, NEW a \in Down,
                      sup'[a].registered, sup'[a].child, a \notin reconnecting
               PROVE  due[a] = 0
    OBVIOUS
  <2>1. sup[a].wait = 0
    BY SessionAfterWait
  <2>2. due[a] <= sup[a].wait
    BY DEF WaitInv, Waits, Down, Registered
  <2>3. due[a] \in 0..CapSecs
    BY DEF TypeOK, Down, Registered
  <2> QED BY <2>1, <2>2, <2>3, SupervisorConstants
<1> QED BY <1>1, WaitInvariant, TypeCorrect, PTL DEF Spec, BackoffHonoured
=============================================================================
