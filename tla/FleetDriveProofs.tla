-------------------------- MODULE FleetDriveProofs --------------------------
(***************************************************************************)
(* keeperd's item table, for any clients; and what the drive loop keeps    *)
(* for every roster, every set of queues and parts, and any number of      *)
(* faults: types, one member per part, the part or the latched refusal of  *)
(* every member, the holder keeperd records, one active part per queue,    *)
(* the pinned queues, the order of the rows, and the handed off parts.     *)
(***************************************************************************)
EXTENDS FleetDrive, WellFoundedInduction, TLAPS

----------------------------------------------------------------------------
(* keeperd's item table, for any clients (ItemSpec). Each invariant is
   inductive on its own, given the types. *)

(* What one accepted request does: it leaves the table alone, or moves one
   item and, with it, that item's holder. *)
LEMMA RequestEffect ==
    ASSUME NEW p \in Parts, NEW new \in Statuses, NEW claimant \in Agents \cup {None},
           NEW member \in Agents \cup {None}, NEW if_status \in Statuses \cup {None},
           set_item_status(p, new, claimant, member, if_status)
    PROVE  \/ UNCHANGED itemVars
           \/ /\ status' = [status EXCEPT ![p] = new]
              /\ holder' = [holder EXCEPT ![p] = HolderAfter(p, new, claimant)]
              /\ ClaimAllowed(p, new, claimant)
  BY DEF set_item_status, Accepted

(* The status column and the holder map keep their types. *)
THEOREM ItemTypeCorrect == ItemSpec => []ItemTypeOK
<1>1. ItemInit => ItemTypeOK
  BY DEF ItemInit, ItemTypeOK
<1>2. ItemTypeOK /\ [ItemNext]_itemVars => ItemTypeOK'
  <2> SUFFICES ASSUME ItemTypeOK, [ItemNext]_itemVars PROVE ItemTypeOK'
    OBVIOUS
  <2>1. ASSUME NEW p \in Parts, NEW new \in Statuses, NEW claimant \in Agents \cup {None},
               NEW member \in Agents \cup {None}, NEW if_status \in Statuses \cup {None},
               set_item_status(p, new, claimant, member, if_status)
        PROVE  ItemTypeOK'
    <3>0. \/ UNCHANGED itemVars
          \/ /\ status' = [status EXCEPT ![p] = new]
             /\ holder' = [holder EXCEPT ![p] = HolderAfter(p, new, claimant)]
             /\ ClaimAllowed(p, new, claimant)
      BY <2>1, RequestEffect, Zenon
    <3>1. HolderAfter(p, new, claimant) \in Agents \cup {None}
      BY DEF HolderAfter, ItemTypeOK
    <3> QED
      BY <3>0, <3>1 DEF ItemTypeOK, itemVars
  <2>2. CASE DaemonCycle
    BY <2>2 DEF DaemonCycle, ItemTypeOK
  <2>3. CASE UNCHANGED itemVars
    BY <2>3 DEF itemVars, ItemTypeOK
  <2> QED
    BY <2>1, <2>2, <2>3 DEF ItemNext
<1> QED
  BY <1>1, <1>2, PTL DEF ItemSpec

(* A recorded holder always holds an active item: HolderOp::Clear runs on
   every write that leaves `active`, the idempotent one included. *)
THEOREM HoldersActive == ItemSpec => []HolderMeansActive
<1>1. ItemInit => HolderMeansActive
  BY DEF ItemInit, HolderMeansActive
<1>2. ItemTypeOK /\ HolderMeansActive /\ [ItemNext]_itemVars => HolderMeansActive'
  <2> SUFFICES ASSUME ItemTypeOK, HolderMeansActive, [ItemNext]_itemVars
               PROVE  HolderMeansActive'
    OBVIOUS
  <2>1. ASSUME NEW p \in Parts, NEW new \in Statuses, NEW claimant \in Agents \cup {None},
               NEW member \in Agents \cup {None}, NEW if_status \in Statuses \cup {None},
               set_item_status(p, new, claimant, member, if_status)
        PROVE  HolderMeansActive'
    <3>0. \/ UNCHANGED itemVars
          \/ /\ status' = [status EXCEPT ![p] = new]
             /\ holder' = [holder EXCEPT ![p] = HolderAfter(p, new, claimant)]
             /\ ClaimAllowed(p, new, claimant)
      BY <2>1, RequestEffect, Zenon
    <3>1. HolderAfter(p, new, claimant) # None => new = "active"
      BY DEF HolderAfter
    <3> QED
      BY <3>0, <3>1 DEF ItemTypeOK, HolderMeansActive, itemVars
  <2>2. CASE DaemonCycle
    BY <2>2 DEF DaemonCycle, HolderMeansActive
  <2>3. CASE UNCHANGED itemVars
    BY <2>3 DEF itemVars, HolderMeansActive
  <2> QED
    BY <2>1, <2>2, <2>3 DEF ItemNext
<1> QED
  BY <1>1, <1>2, ItemTypeCorrect, PTL DEF ItemSpec

(* At most one item of a queue is active, whoever asks: the single-active
   rule is checked against the table the write itself goes to. *)
THEOREM OneActivePerQueue == ItemSpec => []SingleActive
<1>1. ItemInit => SingleActive
  BY DEF ItemInit, SingleActive
<1>2. ItemTypeOK /\ SingleActive /\ [ItemNext]_itemVars => SingleActive'
  <2> SUFFICES ASSUME ItemTypeOK, SingleActive, [ItemNext]_itemVars
               PROVE  SingleActive'
    OBVIOUS
  <2>1. ASSUME NEW p \in Parts, NEW new \in Statuses, NEW claimant \in Agents \cup {None},
               NEW member \in Agents \cup {None}, NEW if_status \in Statuses \cup {None},
               set_item_status(p, new, claimant, member, if_status)
        PROVE  SingleActive'
    <3>0. \/ UNCHANGED itemVars
          \/ /\ status' = [status EXCEPT ![p] = new]
             /\ holder' = [holder EXCEPT ![p] = HolderAfter(p, new, claimant)]
             /\ ClaimAllowed(p, new, claimant)
      BY <2>1, RequestEffect, Zenon
    <3>1. CASE UNCHANGED itemVars
      BY <3>1 DEF itemVars, SingleActive
    <3>2. CASE /\ status' = [status EXCEPT ![p] = new]
               /\ ClaimAllowed(p, new, claimant)
      <4>1. new = "active" =>
              \A o \in Parts \ {p} : region_of[o] = region_of[p] => status[o] # "active"
        BY <3>2 DEF ClaimAllowed, SingleActiveAllows, SingleActive
      <4> QED
        BY <3>2, <4>1 DEF SingleActive, ItemTypeOK
    <3> QED
      BY <3>0, <3>1, <3>2
  <2>2. CASE DaemonCycle
    BY <2>2 DEF DaemonCycle, SingleActive
  <2>3. CASE UNCHANGED itemVars
    BY <2>3 DEF itemVars, SingleActive
  <2> QED
    BY <2>1, <2>2, <2>3 DEF ItemNext
<1> QED
  BY <1>1, <1>2, ItemTypeCorrect, PTL DEF ItemSpec

(* The compare-and-set of HolderStore::gate: no step replaces a recorded
   holder by another agent. *)
THEOREM HoldersKept == ItemSpec => HolderNotStolen
<1>1. ItemTypeOK /\ [ItemNext]_itemVars =>
        [\A p \in Parts : holder[p] # None => holder'[p] \in {holder[p], None}]_itemVars
  <2> SUFFICES ASSUME ItemTypeOK, ItemNext, NEW o \in Parts, holder[o] # None
               PROVE  holder'[o] \in {holder[o], None}
    OBVIOUS
  <2>1. ASSUME NEW p \in Parts, NEW new \in Statuses, NEW claimant \in Agents \cup {None},
               NEW member \in Agents \cup {None}, NEW if_status \in Statuses \cup {None},
               set_item_status(p, new, claimant, member, if_status)
        PROVE  holder'[o] \in {holder[o], None}
    <3>0. \/ UNCHANGED itemVars
          \/ /\ status' = [status EXCEPT ![p] = new]
             /\ holder' = [holder EXCEPT ![p] = HolderAfter(p, new, claimant)]
             /\ ClaimAllowed(p, new, claimant)
      BY <2>1, RequestEffect, Zenon
    <3>1. ClaimAllowed(p, new, claimant) /\ holder[p] # None
            => HolderAfter(p, new, claimant) \in {holder[p], None}
      BY DEF ClaimAllowed, HolderAfter, gate
    <3> QED
      BY <3>0, <3>1 DEF ItemTypeOK, itemVars
  <2>2. CASE DaemonCycle
    BY <2>2 DEF DaemonCycle
  <2> QED
    BY <2>1, <2>2 DEF ItemNext
<1> QED
  BY <1>1, ItemTypeCorrect, PTL DEF ItemSpec, HolderNotStolen

----------------------------------------------------------------------------
(* The loop's locals. *)

(* Moving on to the next member keeps the tick's type. *)
LEMMA AdvanceType ==
    ASSUME tick \in TickType, tick.todo # <<>>
    PROVE  /\ Advance \in TickType
           /\ Advance.pc = tick.pc /\ Advance.view = tick.view
           /\ Advance.spoken = tick.spoken /\ Advance.claimed = tick.claimed
           /\ Advance.toBlock = tick.toBlock /\ Advance.rerolled = tick.rerolled
<1>1. tick.todo \in Seq(Agents) /\ Tail(tick.todo) \in Seq(Agents)
  BY DEF TickType
<1>2. Advance \in TickType
  BY <1>1 DEF Advance, TickType
<1> QED
  BY <1>2 DEF Advance, TickType

(* The idle tick is well-typed, and knows no part. *)
LEMMA IdleType ==
    ItemStatusConstants /\ FleetConstants => Idle \in TickType /\ Idle.pc = "idle"
  BY DEF Idle, NoView, TickType

(* A request leaves the table well-typed. *)
LEMMA RequestType ==
    ASSUME ItemTypeOK, NEW p \in Parts, NEW new \in Statuses,
           NEW claimant \in Agents \cup {None}, NEW member, NEW if_status,
           set_item_status(p, new, claimant, member, if_status)
    PROVE  ItemTypeOK'
  BY DEF ItemTypeOK, set_item_status, HolderAfter, itemVars

----------------------------------------------------------------------------
(* Types. *)

(* The fleet boots well typed. *)
LEMMA TypeInit == Init => TypeOK
<1> SUFFICES ASSUME Init PROVE TypeOK
  OBVIOUS
<1>1. tick \in TickType
  BY IdleType, ItemStatusConstants, FleetConstants DEF Init
<1>2. faults \in 0..MaxFaults
  BY FleetConstants DEF Init
<1> QED
  BY <1>1, <1>2 DEF Init, TypeOK, ItemTypeOK, SessionStates, Statuses

(* The environment's steps keep the types. *)
LEMMA TypeEnvironment == TypeOK /\ Environment => TypeOK'
<1> SUFFICES ASSUME TypeOK, Environment PROVE TypeOK'
  OBVIOUS
<1> USE DEF TypeOK
<1>1. CASE KeeperdCycles
  BY <1>1 DEF KeeperdCycles, DaemonCycle, ItemTypeOK, loopVars
<1>2. CASE Restart
  <2>1. [Idle EXCEPT !.pc = "boot", !.reset = orphaned_active] \in TickType
    BY IdleType, ItemStatusConstants, FleetConstants DEF TickType, orphaned_active
  <2>2. tick' \in TickType
    BY <1>2, <2>1, IdleType, ItemStatusConstants, FleetConstants DEF Restart
  <2>3. faults' \in 0..MaxFaults
    BY <1>2, FleetConstants DEF Restart, Fails
  <2>4. ItemTypeOK'
    BY <1>2 DEF Restart, itemVars, ItemTypeOK
  <2> QED
    BY <1>2, <2>2, <2>3, <2>4 DEF Restart, SessionStates
<1>3. ASSUME NEW p \in Parts, HumanSets(p) \/ ResumeReads(p) \/ ResumeWrites(p)
      PROVE  TypeOK'
  <2>1. CASE HumanSets(p)
    <3>1. PICK new \in {"queued", "active"} \cup Handoffs : set_item_status(p, new, None, None, None)
      BY <2>1 DEF HumanSets
    <3>2. new \in Statuses
      BY FleetConstants DEF HandoffStatuses, Statuses
    <3>3. ItemTypeOK'
      BY <3>1, <3>2, RequestType, Zenon
    <3> QED
      BY <2>1, <3>3 DEF HumanSets, loopVars
  <2>2. CASE ResumeReads(p)
    BY <2>2 DEF ResumeReads, itemVars, ItemTypeOK, loopVars
  <2>3. CASE ResumeWrites(p)
    <3>1. "queued" \in Statuses
      BY DEF Statuses
    <3>2. ItemTypeOK'
      BY <2>3, <3>1, RequestType, Zenon DEF ResumeWrites
    <3> QED
      BY <2>3, <3>2 DEF ResumeWrites, loopVars
  <2> QED
    BY <1>3, <2>1, <2>2, <2>3
<1>4. ASSUME NEW a \in Agents, SessionEnds(a)
      PROVE  TypeOK'
  BY <1>4, FleetConstants DEF SessionEnds, itemVars, ItemTypeOK, SessionStates
<1>5. ASSUME NEW a \in Agents, RequestStop(a)
      PROVE  TypeOK'
  BY <1>5 DEF RequestStop, itemVars, ItemTypeOK
<1>6. ASSUME NEW a \in Agents, NEW p \in Parts, MemberSets(a, p)
      PROVE  TypeOK'
  <2>1. PICK new \in Handoffs : set_item_status(p, new, None, a, None)
    BY <1>6 DEF MemberSets
  <2>2. new \in Statuses
    BY FleetConstants DEF HandoffStatuses, Statuses
  <2>3. ItemTypeOK'
    BY <2>1, <2>2, RequestType, Zenon
  <2> QED
    BY <1>6, <2>3 DEF MemberSets, loopVars
<1> QED
  BY <1>1, <1>2, <1>3, <1>4, <1>5, <1>6 DEF Environment

(* What polling a finished session does to the loop's own maps. *)
LEMMA SettleType ==
    ASSUME TypeOK, NEW a \in Agents, NEW s \in SessionStates, NEW keeps \in BOOLEAN,
           NEW latched \in SUBSET Agents, Settle(a, s, keeps, latched)
    PROVE  /\ session' \in [Agents -> SessionStates]
           /\ assignment' \in [Agents -> Parts \cup {None}]
           /\ stop' \in [Agents -> {"no", "pending", "retiring", "stopped"}]
           /\ refused' \subseteq Agents
  BY DEF TypeOK, Settle, SessionStates

(* The members' queues, as the tick records them when it begins. *)
LEMMA DrainingType == ItemStatusConstants /\ TypeOK => Draining \in SUBSET (Agents \X Queues)
  BY DEF ItemStatusConstants, TypeOK, Draining

(* park_item of an assigned part. *)
LEMMA ParkType ==
    ASSUME TypeOK, NEW p \in Parts, park_item(p)
    PROVE  ItemTypeOK' /\ faults' \in 0..MaxFaults
<1>1. CASE set_item_status(p, "blocked", None, None, None) /\ UNCHANGED faults
  <2>1. "blocked" \in Statuses
    BY DEF Statuses
  <2>2. ItemTypeOK'
    BY <1>1, <2>1, RequestType, Zenon DEF TypeOK
  <2> QED
    BY <1>1, <2>2 DEF TypeOK
<1>2. CASE Fails("park") /\ UNCHANGED itemVars
  BY <1>2, FleetConstants DEF TypeOK, Fails, itemVars, ItemTypeOK
<1> QED
  BY <1>1, <1>2 DEF park_item

(* The poll pass and the snapshot keep the types. *)
LEMMA TypePoll ==
    ASSUME TypeOK, PartOrLatch,
           \/ BeginTick \/ ReadSnapshot
           \/ \E a \in Agents : \/ PollQuiet(a) \/ PollDown(a) \/ PollParked(a) \/ PollLeaves(a)
                                \/ PollBlocks(a) \/ PollRefused(a)
    PROVE  TypeOK'
<1> USE DEF TypeOK
<1>1. CASE BeginTick
  <2>1. [Idle EXCEPT !.pc = "poll", !.todo = Fleet, !.draining = Draining] \in TickType
    BY IdleType, DrainingType, ItemStatusConstants, FleetConstants DEF TickType
  <2> QED
    BY <1>1, <2>1 DEF BeginTick, itemVars, ItemTypeOK, loopVars
<1>2. CASE ReadSnapshot
  <2>1. session' \in [Agents -> SessionStates]
    BY <1>2 DEF ReadSnapshot, SessionStates
  <2>2. holds' \subseteq Marked
    BY <1>2 DEF ReadSnapshot
  <2>3. faults' \in 0..MaxFaults
    <3>1. UNCHANGED faults \/ Fails("read")
      BY <1>2, Zenon DEF ReadSnapshot
    <3> QED
      BY <3>1, FleetConstants DEF Fails
  <2>4. tick' \in TickType
    <3> DEFINE View(kept) == [p \in Parts |->
                                IF p \in tick.toBlock THEN "blocked"
                                ELSE IF status[p] = "queued" /\ p \in kept THEN "held"
                                ELSE status[p]]
    <3>0. PICK kept \in SUBSET holds, gated \in BOOLEAN :
            \E v \in {View(kept), NoView} :
               tick' = [tick EXCEPT !.pc = IF gated THEN "start" ELSE "roll",
                                    !.todo = IF gated THEN <<>> ELSE Fleet,
                                    !.view = v, !.toBlock = {}]
      BY <1>2, Zenon DEF ReadSnapshot
    <3>1. PICK v \in {View(kept), NoView} :
            tick' = [tick EXCEPT !.pc = IF gated THEN "start" ELSE "roll",
                                 !.todo = IF gated THEN <<>> ELSE Fleet,
                                 !.view = v, !.toBlock = {}]
      BY <3>0, Zenon
    <3>2. v \in [Parts -> Statuses \cup {"held", "absent"}]
      BY DEF NoView, ItemTypeOK, Statuses
    <3>3. (IF gated THEN <<>> ELSE Fleet) \in Seq(Agents)
      BY FleetConstants
    <3>4. (IF gated THEN "start" ELSE "roll") \in {"start", "roll"}
      OBVIOUS
    <3> QED
      BY <3>1, <3>2, <3>3, <3>4 DEF TickType
  <2> QED
    BY <1>2, <2>1, <2>2, <2>3, <2>4 DEF ReadSnapshot, itemVars, ItemTypeOK
<1>3. ASSUME NEW a \in Agents, PollQuiet(a)
      PROVE  TypeOK'
  BY <1>3, AdvanceType DEF PollQuiet, InLoop, StopTaken, itemVars, ItemTypeOK
<1>4. ASSUME NEW a \in Agents, PollDown(a) \/ PollParked(a)
      PROVE  TypeOK'
  <2>1. PICK s \in {"down", "parked"} : Settle(a, s, TRUE, refused)
    BY <1>4 DEF PollDown, PollParked
  <2>2. s \in SessionStates
    BY DEF SessionStates
  <2>3. /\ session' \in [Agents -> SessionStates]
        /\ assignment' \in [Agents -> Parts \cup {None}]
        /\ stop' \in [Agents -> {"no", "pending", "retiring", "stopped"}]
        /\ refused' \subseteq Agents
    BY <2>1, <2>2, SettleType
  <2> QED
    BY <1>4, <2>3, AdvanceType DEF PollDown, PollParked, InLoop, itemVars, ItemTypeOK
<1>5. ASSUME NEW a \in Agents, PollLeaves(a)
      PROVE  TypeOK'
  <2>1. "out" \in SessionStates
    BY DEF SessionStates
  <2> QED
    BY <1>5, <2>1, AdvanceType, SettleType DEF PollLeaves, InLoop, itemVars, ItemTypeOK
<1>6. ASSUME NEW a \in Agents, PollBlocks(a)
      PROVE  TypeOK'
  <2>1. "out" \in SessionStates
    BY DEF SessionStates
  <2>2. ItemTypeOK' /\ faults' \in 0..MaxFaults
    BY <1>6, ParkType DEF PollBlocks, itemVars, ItemTypeOK
  <2>3. tick' \in TickType
    <3>1. Advance \in TickType
      BY <1>6, AdvanceType DEF PollBlocks, InLoop
    <3>2. {assignment[a]} \ {None} \subseteq Parts
      OBVIOUS
    <3> QED
      BY <1>6, <3>1, <3>2 DEF PollBlocks, TickType
  <2> QED
    BY <1>6, <2>1, <2>2, <2>3, SettleType DEF PollBlocks
<1>7. ASSUME NEW a \in Agents, PollRefused(a)
      PROVE  TypeOK'
  <2>1. "parked" \in SessionStates
    BY DEF SessionStates
  <2>2. ItemTypeOK' /\ faults' \in 0..MaxFaults
    BY <1>7, ParkType DEF PollRefused, itemVars, ItemTypeOK
  <2>3. PICK latched \in SUBSET Agents : Settle(a, "parked", FALSE, latched)
    BY <1>7 DEF PollRefused
  <2>4. /\ session' \in [Agents -> SessionStates]
        /\ assignment' \in [Agents -> Parts \cup {None}]
        /\ stop' \in [Agents -> {"no", "pending", "retiring", "stopped"}]
        /\ refused' \subseteq Agents
    BY <2>1, <2>3, SettleType
  <2> QED
    BY <1>7, <2>2, <2>4, AdvanceType DEF PollRefused, InLoop
<1> QED
  BY <1>1, <1>2, <1>3, <1>4, <1>5, <1>6, <1>7

(* The re-roll pass and the claim heartbeat keep the types. *)
LEMMA TypeRoll ==
    ASSUME TypeOK,
           \/ EndRolls \/ BeginStarts \/ BeginBeat \/ EndTick \/ Booted
           \/ \E a \in Agents : RollHeld(a) \/ Rerolled(a) \/ Reasserts(a)
    PROVE  TypeOK'
<1> USE DEF TypeOK
<1>1. CASE EndRolls \/ BeginStarts
  <2>1. tick' \in TickType
    <3>1. [tick EXCEPT !.pc = "rebeat", !.todo = tick.rerolled, !.rerolled = <<>>] \in TickType
      <4>1. tick.rerolled \in Seq(Agents) /\ <<>> \in Seq(Agents)
        BY DEF TickType
      <4> QED
        BY <4>1 DEF TickType
    <3>2. [tick EXCEPT !.pc = "start", !.todo = Fleet] \in TickType
      BY FleetConstants DEF TickType
    <3> QED
      BY <1>1, <3>1, <3>2 DEF EndRolls, BeginStarts
  <2> QED
    BY <1>1, <2>1 DEF EndRolls, BeginStarts, itemVars, loopVars, ItemTypeOK
<1>2. CASE BeginBeat \/ EndTick \/ Booted
  <2>1. tick' \in TickType
    <3>1. Idle \in TickType
      BY IdleType, ItemStatusConstants, FleetConstants
    <3>2. [Idle EXCEPT !.pc = "beat", !.todo = Fleet] \in TickType
      BY <3>1, FleetConstants DEF TickType
    <3> QED
      BY <1>2, <3>1, <3>2 DEF BeginBeat, EndTick, Booted
  <2> QED
    BY <1>2, <2>1 DEF BeginBeat, EndTick, Booted, itemVars, loopVars, ItemTypeOK
<1>3. ASSUME NEW a \in Agents, RollHeld(a)
      PROVE  TypeOK'
  BY <1>3, AdvanceType DEF RollHeld, InLoop, itemVars, loopVars, ItemTypeOK
<1>4. ASSUME NEW a \in Agents, Rerolled(a)
      PROVE  TypeOK'
  <2>1. session' \in [Agents -> SessionStates]
    BY <1>4 DEF Rerolled, SessionStates
  <2>2. tick' \in TickType
    <3>1. Advance \in TickType /\ Append(Advance.rerolled, a) \in Seq(Agents)
      BY <1>4, AdvanceType DEF Rerolled, InLoop, TickType
    <3>2. [Advance EXCEPT !.rerolled = Append(@, a)] \in TickType
      BY <3>1 DEF TickType
    <3> QED
      BY <1>4, <3>2 DEF Rerolled
  <2> QED
    BY <1>4, <2>1, <2>2 DEF Rerolled, itemVars, ItemTypeOK
<1>5. ASSUME NEW a \in Agents, Reasserts(a)
      PROVE  TypeOK'
  <2>1. tick' \in TickType
    BY <1>5, AdvanceType DEF Reasserts, InLoop
  <2>2. ItemTypeOK' /\ faults' \in 0..MaxFaults
    <3>1. CASE reassert(a) /\ assignment[a] # None
      <4>1. assignment[a] \in Parts /\ "active" \in Statuses
        BY <3>1 DEF Statuses
      <4>2. CASE set_item_status(assignment[a], "active", a, None, "active") /\ UNCHANGED faults
        <5>1. ItemTypeOK'
          BY <4>1, <4>2, RequestType, Zenon
        <5> QED
          BY <4>2, <5>1
      <4>3. CASE UNCHANGED <<itemVars, faults>>
        BY <4>3 DEF itemVars, ItemTypeOK
      <4>4. CASE Fails("reassert") /\ UNCHANGED itemVars
        BY <4>4, FleetConstants DEF Fails, itemVars, ItemTypeOK
      <4> QED
        BY <3>1, <4>2, <4>3, <4>4 DEF reassert
    <3>2. CASE UNCHANGED <<itemVars, faults>>
      BY <3>2 DEF itemVars, ItemTypeOK
    <3> QED
      BY <1>5, <3>1, <3>2 DEF Reasserts
  <2> QED
    BY <1>5, <2>1, <2>2 DEF Reasserts, loopVars
<1> QED
  BY <1>1, <1>2, <1>3, <1>4, <1>5

(* The fresh starts and the boot reap keep the types. *)
LEMMA TypeStart ==
    ASSUME TypeOK, ClaimInHand,
           \/ \E p \in Parts : ResetOrphan(p)
           \/ \E a \in Agents : \/ StartSkips(a) \/ StartsNothing(a) \/ SkipsForeign(a)
                                \/ SkipsMarked(a) \/ Claims(a) \/ Spawned(a) \/ SpawnFails(a)
    PROVE  TypeOK'
<1> USE DEF TypeOK
<1>1. ASSUME NEW p \in Parts, ResetOrphan(p)
      PROVE  TypeOK'
  <2>1. tick' \in TickType
    BY <1>1 DEF ResetOrphan, TickType
  <2>2. CASE set_item_status(p, "queued", None, None, None) /\ UNCHANGED faults
    <3>1. "queued" \in Statuses
      BY DEF Statuses
    <3>2. ItemTypeOK'
      BY <2>2, <3>1, RequestType, Zenon
    <3> QED
      BY <1>1, <2>1, <2>2, <3>2 DEF ResetOrphan, loopVars
  <2>3. CASE Fails("reset") /\ UNCHANGED itemVars
    BY <1>1, <2>1, <2>3, FleetConstants DEF ResetOrphan, Fails, loopVars, itemVars, ItemTypeOK
  <2> QED
    BY <1>1, <2>2, <2>3 DEF ResetOrphan
<1>2. ASSUME NEW a \in Agents, StartSkips(a) \/ StartsNothing(a)
      PROVE  TypeOK'
  BY <1>2, AdvanceType DEF StartSkips, StartsNothing, InLoop, itemVars, loopVars, ItemTypeOK
<1>3. ASSUME NEW a \in Agents, SkipsForeign(a)
      PROVE  TypeOK'
  BY <1>3 DEF SkipsForeign, TickType, itemVars, loopVars, ItemTypeOK
<1>4. ASSUME NEW a \in Agents, SkipsMarked(a)
      PROVE  TypeOK'
  <2>1. tick' \in TickType
    BY <1>4 DEF SkipsMarked, TickType
  <2> QED
    BY <1>4, <2>1 DEF SkipsMarked, itemVars, ItemTypeOK
<1>5. ASSUME NEW a \in Agents, Claims(a)
      PROVE  TypeOK'
  <2>1. picked(a) \in Parts /\ "active" \in Statuses
    BY <1>5 DEF Claims, Fresh, Statuses
  <2>2. tick' \in TickType
    <3>1. Advance \in TickType
      BY <1>5, AdvanceType DEF Claims, InLoop
    <3>2. [tick EXCEPT !.pc = "spawn", !.claimed = picked(a)] \in TickType
      BY <2>1 DEF TickType
    <3> QED
      BY <1>5, <3>1, <3>2, Zenon DEF Claims
  <2>3. CASE set_item_status(picked(a), "active", a, None, None)
    <3>1. ItemTypeOK'
      BY <2>1, <2>3, RequestType, Zenon
    <3>2. UNCHANGED faults \/ Fails("claim")
      BY <1>5, Zenon DEF Claims
    <3>3. faults' \in 0..MaxFaults
      BY <3>2, FleetConstants DEF Fails
    <3> QED
      BY <1>5, <2>2, <3>1, <3>3 DEF Claims, loopVars
  <2>4. CASE UNCHANGED itemVars
    <3>1. UNCHANGED faults \/ Fails("claim")
      BY <1>5, Zenon DEF Claims
    <3>2. faults' \in 0..MaxFaults
      BY <3>1, FleetConstants DEF Fails
    <3> QED
      BY <1>5, <2>2, <2>4, <3>2 DEF Claims, loopVars, itemVars, ItemTypeOK
  <2>5. set_item_status(picked(a), "active", a, None, None) \/ UNCHANGED itemVars
    BY <1>5, Zenon DEF Claims
  <2> QED
    BY <2>3, <2>4, <2>5
<1>6. ASSUME NEW a \in Agents, Spawned(a) \/ SpawnFails(a)
      PROVE  TypeOK'
  <2>1. tick.claimed \in Parts
    BY <1>6 DEF Spawned, SpawnFails, InLoop, ClaimInHand
  <2>2. tick' \in TickType
    <3>1. Advance \in TickType
      BY <1>6, AdvanceType DEF Spawned, SpawnFails, InLoop
    <3>2. ClaimSettled \in TickType
      BY <2>1, <3>1 DEF ClaimSettled, TickType, Statuses
    <3> QED
      BY <1>6, <3>2 DEF Spawned, SpawnFails
  <2>3. CASE Spawned(a)
    BY <2>1, <2>2, <2>3 DEF Spawned, SessionStates, itemVars, ItemTypeOK
  <2>4. CASE SpawnFails(a)
    BY <2>2, <2>4, FleetConstants DEF SpawnFails, Fails, loopVars, itemVars, ItemTypeOK
  <2> QED
    BY <1>6, <2>3, <2>4
<1> QED
  BY <1>1, <1>2, <1>3, <1>4, <1>5, <1>6

----------------------------------------------------------------------------
(* Who works on what. *)

(* The inductive invariant. OneMemberPerPart alone is not inductive: a spawn
   hands over the part that was claimed two steps earlier. *)
FleetInv == TypeOK /\ PartOrLatch /\ ClaimInHand /\ OneMemberPerPart

(* A step that gives no member a part. *)
Quiet ==
    /\ assignment' = assignment
    /\ \A a \in Agents : Registered(a)' => Registered(a) /\ (a \in refused' <=> a \in refused)
    /\ tick'.pc = "spawn" => \/ tick.pc = "spawn" /\ tick'.claimed = tick.claimed
                             \/ tick'.claimed \in Parts \ Assigned

(* A quiet step keeps the parts of the fleet's members apart. *)
LEMMA QuietKeeps ==
    FleetInv /\ Quiet => PartOrLatch' /\ ClaimInHand' /\ OneMemberPerPart'
  BY DEF FleetInv, Quiet, PartOrLatch, ClaimInHand, OneMemberPerPart, Assigned

(* Every step but the end of a session, a spawn and a restart is quiet. *)
LEMMA QuietEnvironment ==
    FleetInv /\ Environment /\ ~Restart => Quiet
<1> SUFFICES ASSUME FleetInv, Environment, ~Restart PROVE Quiet
  OBVIOUS
<1> USE DEF FleetInv, Quiet, Registered
<1>1. CASE KeeperdCycles
  BY <1>1 DEF KeeperdCycles, loopVars
<1>2. ASSUME NEW p \in Parts, HumanSets(p) \/ ResumeReads(p) \/ ResumeWrites(p)
      PROVE  Quiet
  BY <1>2 DEF HumanSets, ResumeReads, ResumeWrites, loopVars
<1>3. ASSUME NEW a \in Agents, SessionEnds(a)
      PROVE  Quiet
  BY <1>3 DEF SessionEnds, TypeOK
<1>4. ASSUME NEW a \in Agents, RequestStop(a)
      PROVE  Quiet
  BY <1>4 DEF RequestStop
<1>5. ASSUME NEW a \in Agents, NEW p \in Parts, MemberSets(a, p)
      PROVE  Quiet
  BY <1>5 DEF MemberSets, loopVars
<1> QED
  BY <1>1, <1>2, <1>3, <1>4, <1>5 DEF Environment

(* The tick's own steps, between its members, are quiet. *)
LEMMA QuietTick ==
    ASSUME FleetInv,
           \/ BeginTick \/ ReadSnapshot \/ EndRolls \/ BeginStarts \/ BeginBeat
           \/ EndTick \/ Booted \/ \E p \in Parts : ResetOrphan(p)
    PROVE  Quiet
<1> USE DEF FleetInv, Quiet, Registered, loopVars
<1> tick \in TickType /\ Idle \in TickType /\ Idle.pc = "idle"
  BY IdleType, ItemStatusConstants, FleetConstants DEF TypeOK
<1>1. CASE BeginTick \/ BeginBeat \/ EndTick \/ Booted
  BY <1>1 DEF BeginTick, BeginBeat, EndTick, Booted, TickType
<1>2. CASE EndRolls \/ BeginStarts
  BY <1>2 DEF EndRolls, BeginStarts, TickType
<1>3. CASE ReadSnapshot
  <2>1. \E gated, v : tick' = [tick EXCEPT !.pc = IF gated THEN "start" ELSE "roll",
                                       !.todo = IF gated THEN <<>> ELSE Fleet,
                                       !.view = v, !.toBlock = {}]
    BY <1>3, Zenon DEF ReadSnapshot
  <2>2. tick'.pc # "spawn"
    BY <2>1 DEF TickType
  <2>3. \A a \in Agents : \/ session'[a] = "out"
                          \/ session'[a] = session[a] /\ (a \in refused' <=> a \in refused)
    BY <1>3 DEF ReadSnapshot, TypeOK
  <2> QED
    BY <1>3, <2>2, <2>3 DEF ReadSnapshot
<1>4. ASSUME NEW p \in Parts, ResetOrphan(p)
      PROVE  Quiet
  BY <1>4 DEF ResetOrphan, TickType
<1> QED
  BY <1>1, <1>2, <1>3, <1>4

(* So are the tick's steps for one member that neither end its session nor
   spawn it. *)
LEMMA QuietMember ==
    ASSUME FleetInv, NEW a \in Agents,
           \/ PollQuiet(a) \/ RollHeld(a) \/ Rerolled(a) \/ Reasserts(a)
           \/ StartSkips(a) \/ StartsNothing(a) \/ SkipsForeign(a) \/ SkipsMarked(a)
           \/ Claims(a) \/ SpawnFails(a)
    PROVE  Quiet
<1> USE DEF FleetInv, Quiet, Registered, loopVars, InLoop
<1> tick \in TickType
  BY DEF TypeOK
<1>1. CASE PollQuiet(a) \/ RollHeld(a) \/ Reasserts(a) \/ StartSkips(a) \/ StartsNothing(a)
  BY <1>1, AdvanceType DEF PollQuiet, RollHeld, Reasserts, StartSkips, StartsNothing
<1>2. CASE Rerolled(a)
  <2>1. tick'.pc = "roll"
    BY <1>2, AdvanceType DEF Rerolled, TickType
  <2>2. \A b \in Agents : session'[b] = session[b] \/ (b = a /\ session[b] = "down")
    BY <1>2 DEF Rerolled, TypeOK
  <2> QED
    BY <1>2, <2>1, <2>2 DEF Rerolled
<1>3. CASE SkipsForeign(a) \/ SkipsMarked(a)
  BY <1>3 DEF SkipsForeign, SkipsMarked, TickType
<1>4. CASE Claims(a)
  <2>1. picked(a) \in Parts \ Assigned
    BY <1>4 DEF Claims, Fresh, spoken_for
  <2>2. \/ tick' = Advance
        \/ tick' = [tick EXCEPT !.pc = "spawn", !.claimed = picked(a)]
    BY <1>4, Zenon DEF Claims
  <2>3. tick'.pc = "spawn" => tick'.claimed = picked(a)
    BY <1>4, <2>2, AdvanceType DEF Claims, TickType
  <2>4. UNCHANGED loopVars
    BY <1>4 DEF Claims
  <2> QED
    BY <2>1, <2>3, <2>4
<1>5. CASE SpawnFails(a)
  <2>1. tick'.pc = "start"
    BY <1>5, AdvanceType DEF SpawnFails, ClaimSettled, TickType
  <2> QED
    BY <1>5, <2>1 DEF SpawnFails
<1> QED
  BY <1>1, <1>2, <1>3, <1>4, <1>5

(* The end of a session takes a part from the member, or leaves it there. *)
LEMMA SettleKeeps ==
    ASSUME FleetInv, NEW a \in Agents,
           PollDown(a) \/ PollParked(a) \/ PollLeaves(a) \/ PollBlocks(a) \/ PollRefused(a)
    PROVE  PartOrLatch' /\ ClaimInHand' /\ OneMemberPerPart'
<1> USE DEF FleetInv, InLoop, TypeOK
<1>1. tick'.pc = "poll"
  BY AdvanceType DEF PollDown, PollParked, PollLeaves, PollBlocks, PollRefused, TickType
<1>2. PICK s \in SessionStates, keeps \in BOOLEAN, latched \in {refused, refused \cup {a}} :
         /\ Settle(a, s, keeps, latched)
         /\ s # "out" => /\ Registered(a)
                         /\ \/ keeps /\ latched = refused
                            \/ ~keeps /\ a \in latched
  <2>1. CASE PollRefused(a)
    <3>1. Registered(a) /\ (assignment[a] = None => a \in refused)
      BY <2>1 DEF PollRefused, Registered, PartOrLatch
    <3>2. Settle(a, "parked", FALSE, refused) \/ Settle(a, "parked", FALSE, refused \cup {a})
      BY <2>1 DEF PollRefused
    <3> QED BY <2>1, <3>1, <3>2 DEF PollRefused, SessionStates
  <2>2. CASE PollDown(a) \/ PollParked(a)
    BY <2>2 DEF PollDown, PollParked, SessionStates, Registered
  <2>3. CASE PollLeaves(a) \/ PollBlocks(a)
    BY <2>3 DEF PollLeaves, PollBlocks, SessionStates
  <2> QED BY <2>1, <2>2, <2>3
<1>3. \A b \in Agents :
         /\ assignment'[b] \in {None, assignment[b]}
         /\ b # a => /\ assignment'[b] = assignment[b] /\ session'[b] = session[b]
                     /\ b \in refused' <=> b \in refused
  BY <1>2 DEF Settle
<1>4. PartOrLatch'
  <2>1. Registered(a)' => (assignment'[a] = None <=> a \in refused')
    <3>1. CASE session'[a] = "out"
      BY <3>1 DEF Registered
    <3>2. CASE session'[a] # "out"
      <4>1. s # "out" /\ StopTaken(a) # "retiring" /\ refused' = latched
        BY <1>2, <3>2 DEF Settle
      <4>2. assignment'[a] = IF keeps THEN assignment[a] ELSE None
        BY <1>2, <4>1 DEF Settle
      <4> QED BY <1>2, <4>1, <4>2 DEF PartOrLatch
    <3> QED BY <3>1, <3>2
  <2> QED BY <1>3, <2>1 DEF PartOrLatch, Registered
<1>5. OneMemberPerPart'
  BY <1>3 DEF OneMemberPerPart
<1> QED
  BY <1>1, <1>4, <1>5 DEF ClaimInHand

(* A spawn gives the member the part claimed for it, which nobody has. *)
LEMMA SpawnKeeps ==
    ASSUME FleetInv, NEW a \in Agents, Spawned(a)
    PROVE  PartOrLatch' /\ ClaimInHand' /\ OneMemberPerPart'
<1> USE DEF FleetInv, InLoop, TypeOK
<1>1. tick'.pc = "start"
  BY AdvanceType DEF Spawned, ClaimSettled, TickType
<1>2. tick.claimed \in Parts \ Assigned /\ tick.claimed # None
  BY FleetConstants DEF Spawned, ClaimInHand
<1>3. \A b \in Agents :
         /\ assignment'[b] = IF b = a THEN tick.claimed ELSE assignment[b]
         /\ b # a => session'[b] = session[b]
         /\ b \in refused' <=> b \in refused \ {a}
  BY DEF Spawned
<1>4. PartOrLatch'
  BY <1>2, <1>3 DEF PartOrLatch, Registered
<1>5. OneMemberPerPart'
  BY <1>2, <1>3 DEF OneMemberPerPart, Assigned
<1> QED
  BY <1>1, <1>4, <1>5 DEF ClaimInHand

(* A restart forgets every assignment together with every session. *)
LEMMA RestartKeeps ==
    ASSUME FleetInv, Restart
    PROVE  PartOrLatch' /\ ClaimInHand' /\ OneMemberPerPart'
<1>1. tick'.pc # "spawn"
  BY IdleType, ItemStatusConstants, FleetConstants DEF Restart, TickType
<1> QED
  BY <1>1 DEF Restart, PartOrLatch, Registered, ClaimInHand, OneMemberPerPart

(* No step of the fleet, the members, the human or a failure ends FleetInv. *)
LEMMA FleetInvNext == FleetInv /\ [Next]_vars => FleetInv'
<1> SUFFICES ASSUME FleetInv, [Next]_vars PROVE FleetInv'
  OBVIOUS
<1>1. CASE UNCHANGED vars
  BY <1>1 DEF FleetInv, vars, itemVars, loopVars, TypeOK, ItemTypeOK, PartOrLatch,
              Registered, ClaimInHand, OneMemberPerPart, Assigned
<1>2. CASE Environment
  <2>1. TypeOK'
    BY <1>2, TypeEnvironment DEF FleetInv
  <2> QED
    BY <1>2, <2>1, QuietEnvironment, QuietKeeps, RestartKeeps DEF FleetInv
<1>3. CASE DriveStep
  <2>1. TypeOK'
    BY <1>3, TypePoll, TypeRoll, TypeStart, Zenon DEF DriveStep, FleetInv
  <2>2. PartOrLatch' /\ ClaimInHand' /\ OneMemberPerPart'
    <3>1. CASE \/ BeginTick \/ ReadSnapshot \/ EndRolls \/ BeginStarts \/ BeginBeat
               \/ EndTick \/ Booted \/ \E p \in Parts : ResetOrphan(p)
      BY <3>1, QuietTick, QuietKeeps
    <3>2. ASSUME NEW a \in Agents,
                 \/ PollQuiet(a) \/ RollHeld(a) \/ Rerolled(a) \/ Reasserts(a)
                 \/ StartSkips(a) \/ StartsNothing(a) \/ SkipsForeign(a) \/ SkipsMarked(a)
                 \/ Claims(a) \/ SpawnFails(a)
          PROVE  PartOrLatch' /\ ClaimInHand' /\ OneMemberPerPart'
      BY <3>2, QuietMember, QuietKeeps
    <3>3. ASSUME NEW a \in Agents,
                 PollDown(a) \/ PollParked(a) \/ PollLeaves(a) \/ PollBlocks(a) \/ PollRefused(a)
          PROVE  PartOrLatch' /\ ClaimInHand' /\ OneMemberPerPart'
      BY <3>3, SettleKeeps
    <3>4. ASSUME NEW a \in Agents, Spawned(a)
          PROVE  PartOrLatch' /\ ClaimInHand' /\ OneMemberPerPart'
      BY <3>4, SpawnKeeps
    <3> QED
      BY <1>3, <3>1, <3>2, <3>3, <3>4, Zenon DEF DriveStep
  <2> QED
    BY <2>1, <2>2 DEF FleetInv
<1> QED
  BY <1>1, <1>2, <1>3 DEF Next

(* It holds at boot, when nobody has a part. *)
LEMMA FleetInvInit == Init => FleetInv
<1> SUFFICES ASSUME Init PROVE FleetInv
  OBVIOUS
<1>1. tick.pc # "spawn"
  BY IdleType, ItemStatusConstants, FleetConstants DEF Init
<1> QED
  BY <1>1, TypeInit DEF Init, FleetInv, PartOrLatch, Registered, ClaimInHand, OneMemberPerPart

(* So it holds in every reachable state. *)
LEMMA FleetInvAlways == Spec => []FleetInv
  BY FleetInvInit, FleetInvNext, PTL DEF Spec

(* The loop's maps and locals and the item table keep their types. *)
THEOREM FleetTypes == Spec => []TypeOK
<1>1. FleetInv => TypeOK
  BY DEF FleetInv
<1> QED
  BY <1>1, FleetInvAlways, PTL

(* A member of the fleet either has its part in the assignments, so that an
   exit on a block has an item to park, or is latched on the model it was
   refused, so that an edit can release it; also after a park was polled
   offline and its member re-rolled. *)
THEOREM MembersHavePartOrLatch == Spec => []PartOrLatch
<1>1. FleetInv => PartOrLatch
  BY DEF FleetInv
<1> QED
  BY <1>1, FleetInvAlways, PTL

(* Never two members of a fleet on one part: for any roster, any pins, any
   backlog, any number of lost answers, keeperd cycles and restarts. *)
THEOREM PartsNotShared == Spec => []OneMemberPerPart
<1>1. FleetInv => OneMemberPerPart
  BY DEF FleetInv
<1> QED
  BY <1>1, FleetInvAlways, PTL

----------------------------------------------------------------------------
(* The drive loop and keeperd. *)

(* Everything the fleet, its members, the human and a resume do to the item
   table is a request keeperd's specification has, or leaves it alone. *)
LEMMA StepIsRequest ==
    ASSUME FleetInv, Next
    PROVE  ItemNext \/ UNCHANGED itemVars
<1> DEFINE Request == \E p \in Parts, new \in Statuses, claimant \in Agents \cup {None},
                         member \in Agents \cup {None}, if_status \in Statuses \cup {None} :
                            set_item_status(p, new, claimant, member, if_status)
<1>s. /\ {"queued", "active", "blocked"} \cup Handoffs \subseteq Statuses
      /\ \A a \in Agents : assignment[a] # None => assignment[a] \in Parts
  BY FleetConstants DEF Statuses, HandoffStatuses, FleetInv, TypeOK
<1>1. ASSUME NEW p \in Parts, HumanSets(p) \/ ResumeReads(p) \/ ResumeWrites(p)
      PROVE  Request \/ UNCHANGED itemVars
  BY <1>1, <1>s, Zenon DEF HumanSets, ResumeReads, ResumeWrites
<1>2. ASSUME NEW a \in Agents, NEW p \in Parts, MemberSets(a, p)
      PROVE  Request
  BY <1>2, <1>s, Zenon DEF MemberSets
<1>3. ASSUME NEW p \in Parts, ResetOrphan(p)
      PROVE  Request \/ UNCHANGED itemVars
  BY <1>3, <1>s, Zenon DEF ResetOrphan
<1>4. ASSUME NEW a \in Agents, PollBlocks(a) \/ PollRefused(a)
      PROVE  Request \/ UNCHANGED itemVars
  <2>1. CASE assignment[a] = None
    BY <1>4, <2>1 DEF PollBlocks, PollRefused
  <2>2. CASE assignment[a] # None
    <3>1. assignment[a] \in Parts /\ park_item(assignment[a])
      BY <1>4, <1>s, <2>2 DEF PollBlocks, PollRefused
    <3> QED BY <3>1, <1>s, Zenon DEF park_item
  <2> QED
    BY <2>1, <2>2
<1>5. ASSUME NEW a \in Agents, Reasserts(a)
      PROVE  Request \/ UNCHANGED itemVars
  <2>1. CASE reassert(a) /\ assignment[a] \in Parts
    BY <2>1, <1>s, Zenon DEF reassert
  <2>2. CASE UNCHANGED itemVars
    BY <2>2
  <2> QED
    BY <1>5, <1>s, <2>1, <2>2 DEF Reasserts
<1>6. ASSUME NEW a \in Agents, Claims(a)
      PROVE  Request \/ UNCHANGED itemVars
  <2>1. picked(a) \in Parts
    BY <1>6 DEF Claims, Fresh
  <2>2. set_item_status(picked(a), "active", a, None, None) \/ UNCHANGED itemVars
    BY <1>6, Zenon DEF Claims
  <2> QED
    BY <2>1, <2>2, <1>s, Zenon
<1>7. CASE Environment
  BY <1>7, <1>1, <1>2, Zenon
     DEF Environment, KeeperdCycles, Restart, SessionEnds, RequestStop, ItemNext
<1>8. CASE DriveStep
  <2>1. ASSUME NEW a \in Agents,
               \/ PollQuiet(a) \/ PollDown(a) \/ PollParked(a) \/ PollLeaves(a) \/ RollHeld(a) \/ Rerolled(a)
               \/ StartSkips(a) \/ StartsNothing(a) \/ SkipsForeign(a) \/ SkipsMarked(a)
               \/ Spawned(a) \/ SpawnFails(a)
        PROVE  UNCHANGED itemVars
    BY <2>1 DEF PollQuiet, PollDown, PollParked, PollLeaves, RollHeld, Rerolled, StartSkips, StartsNothing,
                SkipsForeign, SkipsMarked, Spawned, SpawnFails
  <2>2. BeginTick \/ ReadSnapshot \/ EndRolls \/ BeginStarts \/ BeginBeat \/ EndTick \/ Booted
           => UNCHANGED itemVars
    BY DEF BeginTick, ReadSnapshot, EndRolls, BeginStarts, BeginBeat, EndTick, Booted
  <2> QED
    BY <1>8, <1>3, <1>4, <1>5, <1>6, <2>1, <2>2, Zenon DEF DriveStep, ItemNext
<1> QED
  BY <1>7, <1>8 DEF Next

(* The fleet, its members, the human and a resume are clients of keeperd that
   write the table in no other way than by its verbs. *)
LEMMA FleetIsClient == Spec => ItemSpec
<1>1. Init => ItemInit
  BY DEF Init, ItemInit, Statuses
<1>2. FleetInv /\ [Next]_vars => [ItemNext]_itemVars
  BY StepIsRequest DEF vars
<1> QED
  BY <1>1, <1>2, FleetInvAlways, PTL DEF Spec, ItemSpec

(* At most one item per queue is active in the composed system: keeperd keeps
   the rule for every client. *)
THEOREM FleetOneActive == Spec => []SingleActive
  BY FleetIsClient, OneActivePerQueue, PTL

----------------------------------------------------------------------------
(* Whom keeperd counts as the holder. *)

(* What a claim leaves to the spawn: the claimant, or nobody after a cycle. *)
ClaimHeld == tick.pc = "spawn" => holder[tick.claimed] \in {Head(tick.todo), None}

HolderInv == HolderIsTheMember /\ ClaimHeld

(* A step that records no holder. *)
Clears == \A p \in Parts : holder'[p] \in {holder[p], None}

(* A write without a holder (the human, a resume, a park, a member's handoff)
   records nobody. *)
LEMMA AnonymousClears ==
    ASSUME ItemTypeOK, NEW p \in Parts, NEW new, NEW member, NEW if_status,
           set_item_status(p, new, None, member, if_status)
    PROVE  Clears
  BY DEF ItemTypeOK, Clears, set_item_status, HolderAfter, itemVars

(* A claim changes the holder of its own part only, to the claimant. *)
LEMMA ClaimRecords ==
    ASSUME ItemTypeOK, ItemStatusConstants, NEW p \in Parts, NEW a \in Agents, NEW if_status,
           set_item_status(p, "active", a, None, if_status)
    PROVE  /\ \A o \in Parts \ {p} : holder'[o] = holder[o]
           /\ holder'[p] \in {a, holder[p]}
           /\ if_status = None => holder'[p] = a
  BY DEF ItemTypeOK, ItemStatusConstants, set_item_status, HolderAfter, Applies, itemVars

(* A quiet step that clears at most, and does not touch the list of members
   while a claim is in hand, keeps the holders right. *)
LEMMA ClearsKeeps ==
    ASSUME FleetInv, HolderInv, Quiet, Clears,
           tick'.pc = "spawn" => /\ tick.pc = "spawn" /\ tick'.claimed = tick.claimed
                                 /\ tick'.todo = tick.todo
    PROVE  HolderInv'
<1>1. HolderIsTheMember'
  BY DEF FleetInv, TypeOK, HolderInv, Quiet, Clears, HolderIsTheMember
<1>2. ClaimHeld'
  BY DEF FleetInv, ClaimInHand, HolderInv, Clears, ClaimHeld
<1> QED
  BY <1>1, <1>2 DEF HolderInv

(* A step that does not reach keeperd records nobody. *)
LEMMA UntouchedClears == UNCHANGED itemVars => Clears
  BY DEF itemVars, Clears

(* Whatever happens around the loop records no holder. *)
LEMMA EnvironmentClears ==
    ASSUME FleetInv, Environment, ~Restart
    PROVE  Clears
<1>0. ItemTypeOK
  BY DEF FleetInv, TypeOK
<1>1. CASE KeeperdCycles
  BY <1>1 DEF KeeperdCycles, DaemonCycle, Clears
<1>2. ASSUME NEW p \in Parts, HumanSets(p) \/ ResumeReads(p) \/ ResumeWrites(p)
      PROVE  Clears
  BY <1>2, <1>0, AnonymousClears, UntouchedClears, Zenon
     DEF HumanSets, ResumeReads, ResumeWrites
<1>3. ASSUME NEW a \in Agents, SessionEnds(a) \/ RequestStop(a)
      PROVE  Clears
  BY <1>3, UntouchedClears DEF SessionEnds, RequestStop
<1>4. ASSUME NEW a \in Agents, NEW p \in Parts, MemberSets(a, p)
      PROVE  Clears
  BY <1>4, <1>0, AnonymousClears, Zenon DEF MemberSets
<1> QED
  BY <1>1, <1>2, <1>3, <1>4, Zenon DEF Environment

(* What happens around the loop never records a wrong holder. *)
LEMMA HolderEnvironment ==
    ASSUME FleetInv, HolderInv, Environment
    PROVE  HolderInv'
<1>1. CASE Restart
  <2>1. tick'.pc # "spawn"
    BY <1>1, IdleType, ItemStatusConstants, FleetConstants DEF Restart, TickType
  <2> QED
    BY <1>1, <2>1 DEF Restart, HolderInv, HolderIsTheMember, ClaimHeld
<1>2. CASE ~Restart
  <2>1. Quiet
    BY <1>2, QuietEnvironment
  <2>2. UNCHANGED tick
    BY <1>2 DEF Environment, KeeperdCycles, HumanSets, ResumeReads, ResumeWrites, SessionEnds,
                RequestStop, MemberSets
  <2>3. Clears
    BY <1>2, EnvironmentClears
  <2> QED
    BY <2>1, <2>2, <2>3, ClearsKeeps
<1> QED
  BY <1>1, <1>2

(* Steps of the tick that are not a claim, a heartbeat, a spawn or the end of
   a session. *)
LEMMA HolderTick ==
    ASSUME FleetInv, HolderInv,
           \/ BeginTick \/ ReadSnapshot \/ EndRolls \/ BeginStarts \/ BeginBeat
           \/ EndTick \/ Booted \/ \E p \in Parts : ResetOrphan(p)
           \/ \E a \in Agents :
                \/ PollQuiet(a) \/ RollHeld(a) \/ Rerolled(a) \/ StartSkips(a)
                \/ StartsNothing(a) \/ SkipsForeign(a) \/ SkipsMarked(a) \/ SpawnFails(a)
    PROVE  HolderInv'
<1> USE DEF InLoop, QueueEnd
<1>0. tick \in TickType /\ Idle \in TickType /\ Idle.pc = "idle" /\ ItemTypeOK
  BY IdleType, ItemStatusConstants, FleetConstants DEF FleetInv, TypeOK
<1>1. Quiet
  BY QuietTick, QuietMember, Zenon
<1>2. tick'.pc # "spawn"
  <2>1. CASE BeginTick \/ BeginBeat \/ EndTick \/ Booted \/ EndRolls \/ BeginStarts
    BY <2>1, <1>0 DEF BeginTick, BeginBeat, EndTick, Booted, EndRolls, BeginStarts, TickType
  <2>2. CASE ReadSnapshot
    <3>1. \E gated, v : tick' = [tick EXCEPT !.pc = IF gated THEN "start" ELSE "roll",
                                         !.todo = IF gated THEN <<>> ELSE Fleet,
                                         !.view = v, !.toBlock = {}]
      BY <2>2, Zenon DEF ReadSnapshot
    <3> QED
      BY <3>1, <1>0 DEF TickType
  <2>3. ASSUME NEW p \in Parts, ResetOrphan(p)
        PROVE  tick'.pc # "spawn"
    BY <2>3, <1>0 DEF ResetOrphan, TickType
  <2>4. ASSUME NEW a \in Agents,
               PollQuiet(a) \/ RollHeld(a) \/ StartSkips(a) \/ StartsNothing(a)
        PROVE  tick'.pc # "spawn"
    BY <2>4, <1>0, AdvanceType DEF PollQuiet, RollHeld, StartSkips, StartsNothing
  <2>5. ASSUME NEW a \in Agents,
               Rerolled(a) \/ SkipsForeign(a) \/ SkipsMarked(a) \/ SpawnFails(a)
        PROVE  tick'.pc # "spawn"
    BY <2>5, <1>0, AdvanceType
       DEF Rerolled, SkipsForeign, SkipsMarked, SpawnFails, ClaimSettled, TickType
  <2> QED
    BY <2>1, <2>2, <2>3, <2>4, <2>5
<1>3. Clears
  <2>1. ASSUME NEW p \in Parts, ResetOrphan(p)
        PROVE  Clears
    BY <2>1, <1>0, AnonymousClears, UntouchedClears, Zenon DEF ResetOrphan
  <2>2. ASSUME NEW a \in Agents,
               \/ PollQuiet(a) \/ RollHeld(a) \/ Rerolled(a) \/ StartSkips(a)
               \/ StartsNothing(a) \/ SkipsForeign(a) \/ SkipsMarked(a) \/ SpawnFails(a)
        PROVE  Clears
    BY <2>2, UntouchedClears DEF PollQuiet, RollHeld, Rerolled, StartSkips, StartsNothing,
                                 SkipsForeign, SkipsMarked, SpawnFails
  <2>3. BeginTick \/ ReadSnapshot \/ EndRolls \/ BeginStarts \/ BeginBeat \/ EndTick \/ Booted
           => Clears
    BY UntouchedClears
       DEF BeginTick, ReadSnapshot, EndRolls, BeginStarts, BeginBeat, EndTick, Booted
  <2> QED
    BY <2>1, <2>2, <2>3
<1> QED
  BY <1>1, <1>2, <1>3, ClearsKeeps

(* A claim records its member on a part nobody has. *)
LEMMA HolderClaims ==
    ASSUME FleetInv, HolderInv, NEW a \in Agents, Claims(a)
    PROVE  HolderInv'
<1> USE DEF InLoop
<1>0. tick \in TickType /\ ItemTypeOK
  BY DEF FleetInv, TypeOK
<1>1. picked(a) \in Parts \ Assigned /\ a = Head(tick.todo) /\ tick.todo # <<>> /\ tick.pc = "start"
  BY DEF Claims, Fresh, spoken_for
<1>2. UNCHANGED loopVars
  BY DEF Claims
<1>3. CASE set_item_status(picked(a), "active", a, None, None)
  <2>1. /\ \A o \in Parts \ {picked(a)} : holder'[o] = holder[o]
        /\ holder'[picked(a)] = a
    BY <1>0, <1>1, <1>3, ClaimRecords, ItemStatusConstants, Zenon
  <2>2. HolderIsTheMember'
    <3>1. \A b \in Agents : assignment[b] # None => assignment[b] \in Parts \ {picked(a)}
      BY <1>1 DEF Assigned, FleetInv, TypeOK
    <3> QED
      BY <1>2, <2>1, <3>1 DEF HolderInv, HolderIsTheMember, loopVars
  <2>3. \/ tick' = Advance
        \/ tick' = [tick EXCEPT !.pc = "spawn", !.claimed = picked(a)]
    BY Zenon DEF Claims
  <2>4. ClaimHeld'
    BY <1>0, <1>1, <2>1, <2>3, AdvanceType DEF ClaimHeld, TickType
  <2> QED
    BY <2>2, <2>4 DEF HolderInv
<1>4. CASE ~set_item_status(picked(a), "active", a, None, None)
  <2>1. tick' = Advance /\ UNCHANGED itemVars
    BY <1>4, Zenon DEF Claims
  <2>2. tick'.pc # "spawn"
    BY <1>0, <1>1, <2>1, AdvanceType
  <2>3. Quiet
    BY QuietMember
  <2> QED
    BY <2>1, <2>2, <2>3, ClearsKeeps, UntouchedClears
<1> QED
  BY <1>3, <1>4

(* The heartbeat records the member whose part it is. *)
LEMMA HolderReasserts ==
    ASSUME FleetInv, HolderInv, NEW a \in Agents, Reasserts(a)
    PROVE  HolderInv'
<1> USE DEF InLoop
<1>0. tick \in TickType /\ ItemTypeOK
  BY DEF FleetInv, TypeOK
<1>1. Quiet
  BY QuietMember
<1>2. tick'.pc # "spawn"
  BY <1>0, AdvanceType DEF Reasserts
<1>3. CASE UNCHANGED itemVars
  BY <1>1, <1>2, <1>3, ClearsKeeps, UntouchedClears
<1>4. CASE assignment[a] # None /\ set_item_status(assignment[a], "active", a, None, "active")
  <2>1. assignment[a] \in Parts
    BY <1>4 DEF FleetInv, TypeOK
  <2>2. /\ \A o \in Parts \ {assignment[a]} : holder'[o] = holder[o]
        /\ holder'[assignment[a]] \in {a, holder[assignment[a]]}
    BY <1>0, <1>4, <2>1, ClaimRecords, ItemStatusConstants, Zenon
  <2>3. \A b \in Agents \ {a} : assignment[b] # None => assignment[b] \in Parts \ {assignment[a]}
    BY <1>4 DEF FleetInv, TypeOK, OneMemberPerPart
  <2>4. HolderIsTheMember'
    BY <1>1, <2>2, <2>3 DEF HolderInv, HolderIsTheMember, Quiet
  <2> QED
    BY <1>2, <2>4 DEF HolderInv, ClaimHeld
<1> QED
  BY <1>3, <1>4, Zenon DEF Reasserts, reassert

(* The end of a session and its park leave the other members' holders. *)
LEMMA HolderSettles ==
    ASSUME FleetInv, HolderInv, NEW a \in Agents,
           PollDown(a) \/ PollParked(a) \/ PollLeaves(a) \/ PollBlocks(a) \/ PollRefused(a)
    PROVE  HolderInv'
<1> USE DEF InLoop
<1>0. tick \in TickType /\ ItemTypeOK
  BY DEF FleetInv, TypeOK
<1>1. tick'.pc # "spawn"
  BY <1>0, AdvanceType DEF PollDown, PollParked, PollLeaves, PollBlocks, PollRefused, TickType
<1>2. Clears
  <2>1. CASE PollDown(a) \/ PollParked(a) \/ PollLeaves(a)
    BY <2>1, UntouchedClears DEF PollDown, PollParked, PollLeaves
  <2>2. CASE PollBlocks(a) \/ PollRefused(a)
    <3>1. CASE assignment[a] = None
      BY <2>2, <3>1, UntouchedClears DEF PollBlocks, PollRefused
    <3>2. CASE assignment[a] # None
      <4>1. assignment[a] \in Parts /\ park_item(assignment[a])
        BY <2>2, <3>2 DEF PollBlocks, PollRefused, FleetInv, TypeOK
      <4> QED
        BY <1>0, <4>1, AnonymousClears, UntouchedClears, Zenon DEF park_item
    <3> QED BY <3>1, <3>2
  <2> QED
    BY <2>1, <2>2
<1>3. \E s, keeps, latched : Settle(a, s, keeps, latched)
  BY DEF PollDown, PollParked, PollLeaves, PollBlocks, PollRefused, SessionStates
<1>4. \A b \in Agents : assignment'[b] \in {None, assignment[b]}
  BY <1>3 DEF Settle, FleetInv, TypeOK
<1>5. HolderIsTheMember'
  BY <1>2, <1>4 DEF HolderInv, HolderIsTheMember, Clears, FleetInv, TypeOK
<1> QED
  BY <1>1, <1>5 DEF HolderInv, ClaimHeld

(* The spawn's member is the one the claim recorded. *)
LEMMA HolderSpawns ==
    ASSUME FleetInv, HolderInv, NEW a \in Agents, Spawned(a)
    PROVE  HolderInv'
<1> USE DEF InLoop
<1>0. tick \in TickType
  BY DEF FleetInv, TypeOK
<1>1. tick'.pc # "spawn"
  BY <1>0, AdvanceType DEF Spawned, ClaimSettled, TickType
<1>2. holder[tick.claimed] \in {a, None} /\ UNCHANGED holder
  BY DEF Spawned, HolderInv, ClaimHeld, itemVars
<1>3. \A b \in Agents : assignment'[b] = IF b = a THEN tick.claimed ELSE assignment[b]
  BY DEF Spawned, FleetInv, TypeOK
<1>4. HolderIsTheMember'
  BY <1>2, <1>3 DEF HolderInv, HolderIsTheMember
<1> QED
  BY <1>1, <1>4 DEF HolderInv, ClaimHeld

(* keeperd never counts somebody else as the holder of a part that a member
   of the fleet works on, so a member's handoff is refused only in the time
   from a keeperd cycle to the next beat. *)
THEOREM HoldersAreMembers == Spec => []HolderIsTheMember
<1>1. Init => HolderInv
  BY IdleType, ItemStatusConstants, FleetConstants
     DEF Init, HolderInv, HolderIsTheMember, ClaimHeld
<1>2. FleetInv /\ HolderInv /\ [Next]_vars => HolderInv'
  <2> SUFFICES ASSUME FleetInv, HolderInv, [Next]_vars PROVE HolderInv'
    OBVIOUS
  <2>1. CASE UNCHANGED vars
    BY <2>1 DEF vars, itemVars, loopVars, HolderInv, HolderIsTheMember, ClaimHeld
  <2>2. CASE Environment
    BY <2>2, HolderEnvironment
  <2>3. CASE DriveStep
    BY <2>3, HolderTick, HolderClaims, HolderReasserts, HolderSettles, HolderSpawns, Zenon
       DEF DriveStep
  <2> QED
    BY <2>1, <2>2, <2>3 DEF Next
<1>3. HolderInv => HolderIsTheMember
  BY DEF HolderInv
<1> QED
  BY <1>1, <1>2, <1>3, FleetInvAlways, PTL DEF Spec

----------------------------------------------------------------------------
(* The pick. *)

(* Min of a non-empty set of naturals is its least member. *)
LEMMA LeastMember ==
    ASSUME NEW S \in SUBSET Nat, S # {}
    PROVE  Min(S) \in S /\ \A y \in S : Min(S) <= y
<1>1. \E x \in S : \A y \in S : x <= y
  <2> DEFINE R == OpToRel(<, Nat)
  <2>1. IsWellFoundedOn(R, Nat)
    BY NatLessThanWellFounded
  <2>2. \A x, y \in Nat : <<y, x>> \in R <=> y < x
    BY DEF OpToRel
  <2> HIDE DEF R
  <2>3. PICK x \in S : \A y \in S : ~(<<y, x>> \in R)
    BY <2>1, WFMin, Zenon
  <2>4. ASSUME NEW y \in S PROVE x <= y
    <3>1. x \in Nat /\ y \in Nat /\ ~(<<y, x>> \in R)
      BY <2>3
    <3>2. ~(y < x)
      BY <2>2, <3>1, Zenon
    <3> QED BY <3>1, <3>2
  <2> QED BY <2>4
<1> QED BY <1>1 DEF Min

(* head_part is the first row of the queue that is not rolled past. *)
LEMMA HeadIsFirst ==
    ASSUME NEW view, NEW q \in Queues, head_part(view, q) # None
    PROVE  /\ \E n \in DOMAIN Rows[q] :
                 /\ Rows[q][n] = head_part(view, q)
                 /\ \A i \in 1..(n - 1) :
                       /\ Rows[q][i] \in Parts
                       /\ view[Rows[q][i]] \notin {"active", "queued", "blocked"}
           /\ head_part(view, q) \in Parts /\ region_of[head_part(view, q)] = q
<1> DEFINE D == Deciding(view, q)
<1>1. Rows[q] \in Seq(Parts) /\ D \subseteq DOMAIN Rows[q] /\ D \in SUBSET Nat /\ D # {}
  BY FleetConstants DEF FleetConstants, head_part, Deciding
<1>2. Min(D) \in D /\ \A y \in D : Min(D) <= y
  BY <1>1, LeastMember
<1>3. head_part(view, q) = Rows[q][Min(D)]
  BY <1>1 DEF head_part
<1>4. \A i \in 1..(Min(D) - 1) : i \in DOMAIN Rows[q] /\ i \notin D
  BY <1>1, <1>2
<1>5. \A i \in 1..(Min(D) - 1) :
         Rows[q][i] \in Parts /\ view[Rows[q][i]] \notin {"active", "queued", "blocked"}
  BY <1>1, <1>4 DEF Deciding
<1>6. Rows[q][Min(D)] \in Parts /\ region_of[Rows[q][Min(D)]] = q
  BY <1>1, <1>2, FleetConstants DEF FleetConstants
<1> HIDE DEF D
<1> QED BY <1>1, <1>2, <1>3, <1>5, <1>6

(* A pick is the head of the pinned queue or of one that is not reserved. *)
LEMMA PickIsHead ==
    ASSUME NEW view, NEW pin \in Queues \cup {None}, NEW reserved,
           pick_for(view, pin, reserved) # None
    PROVE  \E q \in Queues : /\ pick_for(view, pin, reserved) = head_part(view, q)
                             /\ q = pin \/ q \notin reserved
<1> DEFINE p == pick_for(view, pin, reserved)
           ready == {i \in DOMAIN QueueOrder :
                       /\ QueueOrder[i] \notin reserved \cup {pin}
                       /\ classify_queue(view, QueueOrder[i]) = "queued"}
<1>1. CASE pin # None /\ classify_queue(view, pin) \in {"active", "queued"}
  BY <1>1 DEF pick_for
<1>2. CASE ~(pin # None /\ classify_queue(view, pin) \in {"active", "queued"})
  <2>1. ready # {} /\ p = head_part(view, QueueOrder[Min(ready)])
    BY <1>2 DEF pick_for
  <2>2. QueueOrder \in Seq(Queues) /\ ready \in SUBSET Nat
    BY FleetConstants DEF FleetConstants
  <2>3. Min(ready) \in ready
    BY <2>1, <2>2, LeastMember
  <2>4. QueueOrder[Min(ready)] \in Queues /\ QueueOrder[Min(ready)] \notin reserved
    BY <2>2, <2>3
  <2> QED BY <2>1, <2>4
<1> QED BY <1>1, <1>2

----------------------------------------------------------------------------
(* The tick, from the snapshot to the last start. *)

InSnap == tick.pc \in {"roll", "rebeat", "start", "spawn"}

(* Moving on to the next member drops it from the list and nothing else. *)
LEMMA AdvanceDrops ==
    ASSUME tick \in TickType
    PROVE  Advance.todo = Tail(tick.todo) /\ Advance.draining = tick.draining
BY DEF Advance, TickType

(* Steps that leave the snapshot, or are not in it. *)
LEMMA OutsideSnap ==
    ASSUME FleetInv,
           \/ BeginTick \/ BeginBeat \/ EndTick \/ Booted \/ Restart
           \/ \E p \in Parts : ResetOrphan(p)
           \/ \E a \in Agents : \/ PollQuiet(a) \/ PollDown(a) \/ PollParked(a) \/ PollLeaves(a) \/ PollBlocks(a)
                                \/ PollRefused(a) \/ (Reasserts(a) /\ tick.pc # "rebeat")
    PROVE  ~InSnap'
<1> USE DEF InSnap, InLoop
<1>0. tick \in TickType /\ Idle \in TickType /\ Idle.pc = "idle"
  BY IdleType, ItemStatusConstants, FleetConstants DEF FleetInv, TypeOK
<1>1. CASE BeginTick \/ BeginBeat \/ EndTick \/ Booted
  BY <1>0, <1>1 DEF BeginTick, BeginBeat, EndTick, Booted, TickType
<1>2. CASE Restart
  BY <1>0, <1>2 DEF Restart, TickType
<1>3. ASSUME NEW p \in Parts, ResetOrphan(p) PROVE ~InSnap'
  BY <1>0, <1>3 DEF ResetOrphan, TickType
<1>4. ASSUME NEW a \in Agents,
             \/ PollQuiet(a) \/ PollDown(a) \/ PollParked(a) \/ PollLeaves(a) \/ PollBlocks(a)
             \/ PollRefused(a) \/ (Reasserts(a) /\ tick.pc # "rebeat")
      PROVE  ~InSnap'
  BY <1>0, <1>4, AdvanceType
     DEF PollQuiet, PollDown, PollParked, PollLeaves, PollBlocks, PollRefused, Reasserts, TickType
<1> QED BY <1>1, <1>2, <1>3, <1>4

(* Any other step outside the drive loop leaves the tick alone. *)
LEMMA AroundTheLoop ==
    ASSUME Environment, ~Restart PROVE UNCHANGED tick
BY DEF Environment, KeeperdCycles, HumanSets, ResumeReads, ResumeWrites, SessionEnds,
       RequestStop, MemberSets

(* What the steps between the snapshot and the last start do to the list of
   members and to the view. *)
SnapSteps(a) ==
    /\ tick.todo # <<>> /\ a = Head(tick.todo) /\ tick'.draining = tick.draining
    /\ \/ /\ RollHeld(a) \/ Rerolled(a) \/ Reasserts(a)
          /\ tick'.pc = tick.pc /\ tick.pc \in {"roll", "rebeat"} /\ tick'.view = tick.view
       \/ /\ StartSkips(a) \/ StartsNothing(a) \/ SkipsForeign(a) \/ Claims(a)
          /\ tick'.pc = "start" /\ tick.pc = "start" /\ tick'.view = tick.view
          /\ tick'.todo \in {tick.todo, Tail(tick.todo)}
          /\ Claims(a) => tick'.todo = Tail(tick.todo)
       \/ /\ SkipsMarked(a)
          /\ tick'.pc = "start" /\ tick.pc = "start" /\ tick'.todo = tick.todo
          /\ tick'.view = [tick.view EXCEPT ![picked(a)] = "held"]
       \/ /\ Claims(a) /\ set_item_status(picked(a), "active", a, None, None)
          /\ tick'.pc = "spawn" /\ tick.pc = "start" /\ tick'.view = tick.view
          /\ tick'.todo = tick.todo /\ tick'.claimed = picked(a)
       \/ /\ Spawned(a) \/ SpawnFails(a)
          /\ tick'.pc = "start" /\ tick.pc = "spawn" /\ tick'.todo = Tail(tick.todo)
          /\ tick'.view = [tick.view EXCEPT ![tick.claimed] = "active"]

LEMMA SnapStepsAre ==
    ASSUME FleetInv, NEW a \in Agents,
           \/ RollHeld(a) \/ Rerolled(a) \/ (Reasserts(a) /\ tick.pc = "rebeat")
           \/ StartSkips(a) \/ StartsNothing(a) \/ SkipsForeign(a) \/ SkipsMarked(a)
           \/ Claims(a) \/ Spawned(a) \/ SpawnFails(a)
    PROVE  SnapSteps(a)
<1> USE DEF InLoop
<1>0. tick \in TickType /\ tick.todo # <<>> /\ a = Head(tick.todo)
  BY DEF FleetInv, TypeOK, RollHeld, Rerolled, Reasserts, StartSkips, StartsNothing,
         SkipsForeign, SkipsMarked, Claims, Spawned, SpawnFails
<1>a. /\ Advance \in TickType /\ Advance.todo = Tail(tick.todo) /\ Advance.pc = tick.pc
      /\ Advance.view = tick.view /\ Advance.draining = tick.draining
      /\ Advance.claimed = tick.claimed
  BY <1>0, AdvanceType, AdvanceDrops
<1>1. CASE RollHeld(a) \/ (Reasserts(a) /\ tick.pc = "rebeat")
  BY <1>0, <1>a, <1>1 DEF RollHeld, Reasserts, SnapSteps
<1>2. CASE Rerolled(a)
  <2>1. tick' = [Advance EXCEPT !.rerolled = Append(@, a)] /\ tick.pc = "roll"
    BY <1>2 DEF Rerolled
  <2>2. tick'.pc = Advance.pc /\ tick'.view = Advance.view /\ tick'.draining = Advance.draining
    BY <1>a, <2>1 DEF TickType
  <2> QED BY <1>0, <1>a, <1>2, <2>1, <2>2 DEF SnapSteps
<1>3. CASE StartSkips(a) \/ StartsNothing(a)
  BY <1>0, <1>a, <1>3 DEF StartSkips, StartsNothing, SnapSteps, Claims
<1>4. CASE SkipsForeign(a)
  <2>1. tick' = [tick EXCEPT !.unpinned = TRUE] /\ tick.pc = "start" /\ ~Claims(a)
    BY <1>4 DEF SkipsForeign, Claims, Fresh
  <2>2. /\ tick'.pc = tick.pc /\ tick'.view = tick.view /\ tick'.todo = tick.todo
        /\ tick'.draining = tick.draining
    BY <1>0, <2>1 DEF TickType
  <2> QED BY <1>0, <1>4, <2>1, <2>2 DEF SnapSteps
<1>5. CASE SkipsMarked(a)
  <2>1. tick' = [tick EXCEPT !.view[picked(a)] = "held"] /\ tick.pc = "start"
    BY <1>5 DEF SkipsMarked
  <2>2. /\ tick'.pc = tick.pc /\ tick'.view = [tick.view EXCEPT ![picked(a)] = "held"]
        /\ tick'.todo = tick.todo /\ tick'.draining = tick.draining
    BY <1>0, <2>1 DEF TickType
  <2> QED BY <1>0, <1>5, <2>1, <2>2 DEF SnapSteps
<1>6. CASE Claims(a)
  <2> DEFINE p == picked(a)
  <2>0. tick.pc = "start"
    BY <1>6 DEF Claims
  <2>1. \/ /\ set_item_status(p, "active", a, None, None)
           /\ tick' = [tick EXCEPT !.pc = "spawn", !.claimed = p]
        \/ tick' = Advance
    BY <1>6, Zenon DEF Claims
  <2>2. CASE tick' = Advance
    BY <1>0, <1>a, <1>6, <2>0, <2>2 DEF SnapSteps
  <2>3. CASE /\ set_item_status(p, "active", a, None, None)
             /\ tick' = [tick EXCEPT !.pc = "spawn", !.claimed = p]
    <3>1. /\ tick'.pc = "spawn" /\ tick'.claimed = p /\ tick'.view = tick.view
          /\ tick'.todo = tick.todo /\ tick'.draining = tick.draining
      BY <1>0, <2>3 DEF TickType
    <3> QED BY <1>0, <1>6, <2>0, <2>3, <3>1 DEF SnapSteps
  <2> QED BY <2>1, <2>2, <2>3
<1>7. CASE Spawned(a) \/ SpawnFails(a)
  <2>1. tick' = ClaimSettled /\ tick.pc = "spawn"
    BY <1>7 DEF Spawned, SpawnFails
  <2>2. /\ ClaimSettled.pc = "start" /\ ClaimSettled.todo = Advance.todo
        /\ ClaimSettled.draining = Advance.draining
        /\ ClaimSettled.view = [Advance.view EXCEPT ![tick.claimed] = "active"]
    BY <1>a DEF ClaimSettled, TickType
  <2> QED BY <1>0, <1>a, <1>7, <2>1, <2>2 DEF SnapSteps
<1> QED BY <1>1, <1>2, <1>3, <1>4, <1>5, <1>6, <1>7

(* What a snapshot shows when it is taken. *)
LEMMA SnapshotShows ==
    ASSUME FleetInv, ReadSnapshot
    PROVE  /\ tick'.pc \in {"roll", "start"}
           /\ tick'.pc = "start" => tick'.todo = <<>>
           /\ UNCHANGED itemVars
           /\ \/ \A p \in Parts : tick'.view[p] = "absent"
              \/ \A p \in Parts :
                    /\ tick'.view[p] \in {status[p], "blocked", "held"}
                    /\ tick'.view[p] = "held" => p \in Marked /\ status[p] = "queued"
<1> DEFINE View(kept) == [p \in Parts |-> IF p \in tick.toBlock THEN "blocked"
                                          ELSE IF status[p] = "queued" /\ p \in kept THEN "held"
                                          ELSE status[p]]
<1>0. tick \in TickType /\ holds \subseteq Marked /\ status \in [Parts -> Statuses]
  BY DEF FleetInv, TypeOK, ItemTypeOK
<1>k. PICK kept \in SUBSET holds, gated \in IF "gate" \in Env THEN BOOLEAN ELSE {FALSE} :
         \E v \in {View(kept), NoView} :
            tick' = [tick EXCEPT !.pc = IF gated THEN "start" ELSE "roll",
                                 !.todo = IF gated THEN <<>> ELSE Fleet,
                                 !.view = v, !.toBlock = {}]
  BY Zenon DEF ReadSnapshot
<1>1. PICK v \in {View(kept), NoView} :
         tick' = [tick EXCEPT !.pc = IF gated THEN "start" ELSE "roll",
                              !.todo = IF gated THEN <<>> ELSE Fleet,
                              !.view = v, !.toBlock = {}]
  BY <1>k, Zenon
<1>2. /\ tick'.pc = (IF gated THEN "start" ELSE "roll")
      /\ tick'.todo = (IF gated THEN <<>> ELSE Fleet) /\ tick'.view = v
  BY <1>0, <1>1 DEF TickType
<1>3. CASE v = NoView
  BY <1>2, <1>3 DEF NoView, ReadSnapshot
<1>4. CASE v = View(kept)
  <2>1. \A p \in Parts : /\ v[p] \in {status[p], "blocked", "held"}
                         /\ v[p] = "held" => p \in Marked /\ status[p] = "queued"
    BY <1>0, <1>4 DEF Statuses
  <2> QED BY <1>2, <2>1 DEF ReadSnapshot
<1> QED BY <1>1, <1>3, <1>4

(* Only a spawn gives a member a part. *)
LEMMA SpawnAssigns ==
    ASSUME FleetInv, Next, NEW a \in Agents, assignment'[a] \notin {None, assignment[a]}
    PROVE  Spawned(a) /\ assignment'[a] = tick.claimed
<1> USE DEF FleetInv, TypeOK
<1>1. CASE Environment
  BY <1>1 DEF Environment, KeeperdCycles, HumanSets, ResumeReads, ResumeWrites, SessionEnds,
              RequestStop, MemberSets, Restart, loopVars
<1>2. CASE \/ BeginTick \/ ReadSnapshot \/ EndRolls \/ BeginStarts \/ BeginBeat \/ EndTick
           \/ Booted \/ \E p \in Parts : ResetOrphan(p)
  BY <1>2 DEF BeginTick, ReadSnapshot, EndRolls, BeginStarts, BeginBeat, EndTick, Booted,
              ResetOrphan, loopVars
<1>3. ASSUME NEW b \in Agents,
             \/ PollQuiet(b) \/ RollHeld(b) \/ Rerolled(b) \/ Reasserts(b)
             \/ StartSkips(b) \/ StartsNothing(b) \/ SkipsForeign(b) \/ SkipsMarked(b)
             \/ Claims(b) \/ SpawnFails(b)
      PROVE  UNCHANGED assignment
  BY <1>3 DEF PollQuiet, RollHeld, Rerolled, Reasserts, StartSkips, StartsNothing, SkipsForeign,
              SkipsMarked, Claims, SpawnFails, loopVars
<1>4. ASSUME NEW b \in Agents, PollDown(b) \/ PollParked(b) \/ PollLeaves(b) \/ PollBlocks(b) \/ PollRefused(b)
      PROVE  assignment'[a] \in {None, assignment[a]}
  <2>1. PICK s, keeps, latched : Settle(b, s, keeps, latched)
    BY <1>4 DEF PollDown, PollParked, PollLeaves, PollBlocks, PollRefused
  <2> QED BY <2>1 DEF Settle
<1>5. ASSUME NEW b \in Agents, Spawned(b) PROVE b = a /\ assignment'[a] = tick.claimed
  BY <1>5 DEF Spawned
<1> QED BY <1>1, <1>2, <1>3, <1>4, <1>5, Zenon DEF Next, DriveStep

----------------------------------------------------------------------------
(* Pinned queues. *)

(* What a claim leaves to the spawn: the claimed part is of the claimant's own
   queue, or of one no other member that keeps running is on. *)
PinInv ==
    tick.pc = "spawn" =>
        \A m \in Agents \ {Head(tick.todo)} :
            (/\ Pin[m] # None /\ Pin[m] # Pin[Head(tick.todo)] /\ stop[m] = "no"
             /\ region_of[tick.claimed] = Pin[m])
               => <<m, Pin[m]>> \notin tick.draining \cup Draining

(* The claim checked it, and until the spawn nobody's assignment changes. *)
LEMMA PinInvNext == FleetInv /\ PinInv /\ [Next]_vars => PinInv'
<1> SUFFICES ASSUME FleetInv, PinInv, [Next]_vars PROVE PinInv'
  OBVIOUS
<1>1. ASSUME UNCHANGED <<tick, assignment>>,
             \A m \in Agents : stop'[m] = "no" => stop[m] = "no"
      PROVE  PinInv'
  BY <1>1 DEF PinInv, Draining
<1>2. CASE UNCHANGED vars
  BY <1>1, <1>2 DEF vars, loopVars
<1>3. ASSUME ~InSnap' PROVE PinInv'
  BY <1>3 DEF InSnap, PinInv
<1>4. CASE Environment /\ ~Restart
  <2>1. UNCHANGED <<tick, assignment>> /\ \A m \in Agents : stop'[m] = "no" => stop[m] = "no"
    BY <1>4, AroundTheLoop
       DEF Environment, KeeperdCycles, HumanSets, ResumeReads, ResumeWrites, SessionEnds,
           RequestStop, MemberSets, loopVars, FleetInv, TypeOK
  <2> QED BY <1>1, <2>1
<1>5. CASE ReadSnapshot \/ EndRolls \/ BeginStarts
  <2>1. tick \in TickType
    BY DEF FleetInv, TypeOK
  <2>2. tick'.pc # "spawn"
    <3>1. CASE ReadSnapshot
      BY <3>1, SnapshotShows
    <3>2. CASE EndRolls \/ BeginStarts
      BY <2>1, <3>2 DEF EndRolls, BeginStarts, TickType
    <3> QED BY <1>5, <3>1, <3>2
  <2> QED BY <2>2 DEF PinInv
<1>6. ASSUME NEW a \in Agents, SnapSteps(a) PROVE PinInv'
  <2>1. CASE tick'.pc # "spawn"
    BY <2>1 DEF PinInv
  <2>2. CASE tick'.pc = "spawn"
    <3>1. /\ Claims(a) /\ a = Head(tick'.todo) /\ tick'.claimed = picked(a)
          /\ tick'.draining = tick.draining
      BY <1>6, <2>2 DEF SnapSteps
    <3>2. UNCHANGED <<assignment, stop>> /\ picked(a) # None
      BY <3>1, FleetConstants DEF Claims, loopVars, Fresh, FleetConstants
    <3>3. PICK q \in Queues : /\ picked(a) = head_part(tick.view, q)
                              /\ q = Pin[a] \/ q \notin reserved_queues(a)
      <4> DEFINE pin == IF tick.unpinned THEN None ELSE Pin[a]
      <4>1. pin \in Queues \cup {None} /\ None \notin Queues
        BY FleetConstants DEF FleetConstants
      <4>2. picked(a) = pick_for(tick.view, pin, reserved_queues(a))
        BY DEF picked
      <4> HIDE DEF pin
      <4>3. PICK q \in Queues : /\ picked(a) = head_part(tick.view, q)
                                /\ q = pin \/ q \notin reserved_queues(a)
        BY <3>2, <4>1, <4>2, PickIsHead
      <4> QED BY <4>1, <4>3 DEF pin
    <3>4. region_of[picked(a)] = q
      BY <3>2, <3>3, HeadIsFirst
    <3> SUFFICES ASSUME NEW m \in Agents \ {a}, Pin[m] # None, Pin[m] # Pin[a], stop[m] = "no",
                        q = Pin[m]
                 PROVE  <<m, Pin[m]>> \notin tick.draining \cup Draining
      BY <3>1, <3>2, <3>4 DEF PinInv, Draining
    <3>5. Pin[m] \notin reserved_queues(a)
      BY <3>3
    <3> QED BY <3>5 DEF reserved_queues
  <2> QED BY <2>1, <2>2
<1> QED
  BY <1>2, <1>3, <1>4, <1>5, <1>6, OutsideSnap, SnapStepsAre, Zenon DEF Next, DriveStep, Environment

(* Falling back past its pin, or having none, a member takes no part of a queue
   another member is pinned to and is on, or left in this tick: for any roster,
   pins, queues and backlog, and everything that goes on around the loop. *)
THEOREM PinsRespected == Spec => PinnedQueueKept
<1>1. Init => PinInv
  BY IdleType, ItemStatusConstants, FleetConstants DEF Init, PinInv
<1>2. FleetInv /\ PinInv /\ [Next]_vars =>
        [\A a, m \in Agents :
          (m # a /\ Pin[m] # None /\ Pin[m] # Pin[a] /\ stop[m] = "no"
             /\ assignment'[a] # None /\ assignment'[a] # assignment[a]
             /\ region_of[assignment'[a]] = Pin[m])
          => <<m, Pin[m]>> \notin tick.draining \cup Draining]_vars
  <2> SUFFICES ASSUME FleetInv, PinInv, Next, NEW a \in Agents, NEW m \in Agents,
                      m # a, Pin[m] # None, Pin[m] # Pin[a], stop[m] = "no",
                      assignment'[a] # None, assignment'[a] # assignment[a],
                      region_of[assignment'[a]] = Pin[m]
               PROVE  <<m, Pin[m]>> \notin tick.draining \cup Draining
    BY DEF vars, loopVars
  <2>1. Spawned(a) /\ assignment'[a] = tick.claimed
    BY SpawnAssigns
  <2> QED BY <2>1 DEF Spawned, InLoop, PinInv
<1> QED
  BY <1>1, <1>2, PinInvNext, FleetInvAlways, PTL DEF Spec, PinnedQueueKept

----------------------------------------------------------------------------
(* The snapshot and the table. *)

(* A recorded holder holds an active part in the composed system too. *)
LEMMA FleetHoldersActive == Spec => []HolderMeansActive
  BY FleetIsClient, HoldersActive, PTL

(* What a write of one part leaves alone. *)
LEMMA WriteChanges ==
    ASSUME ItemTypeOK, NEW p \in Parts, NEW new, NEW claimant, NEW member, NEW if_status,
           set_item_status(p, new, claimant, member, if_status)
    PROVE  /\ \A o \in Parts \ {p} : status'[o] = status[o] /\ holder'[o] = holder[o]
           /\ status'[p] \in {status[p], new}
           /\ holder'[p] \in {holder[p], HolderAfter(p, new, claimant)}
           /\ if_status = None => status'[p] = new /\ holder'[p] = HolderAfter(p, new, claimant)
           /\ status'[p] # status[p] /\ if_status # None => status[p] = if_status
           /\ member # None => holder[p] = member
BY DEF ItemTypeOK, set_item_status, Applies, Accepted, MemberMay, itemVars

(* Which steps move a part while a snapshot is in use: a late resume, the
   human, a member's handoff of what it holds, and a claim. *)
LEMMA MovedInSnap ==
    ASSUME FleetInv, HolderMeansActive, Next, InSnap, ~Restart, NEW p \in Parts,
           status'[p] # status[p]
    PROVE  \/ HumanSets(p)
           \/ ResumeWrites(p) /\ status'[p] = "queued"
           \/ /\ status[p] = "active"
              /\ \E a \in Agents : session[a] = "live" /\ holder[p] = a /\ MemberSets(a, p)
           \/ \E a \in Agents : /\ Claims(a) /\ picked(a) = p /\ status'[p] = "active"
<1>0. ItemTypeOK
  BY DEF FleetInv, TypeOK
<1>1. CASE Environment
  <2>1. ASSUME NEW o \in Parts, HumanSets(o) PROVE o = p
    <3>1. PICK new : set_item_status(o, new, None, None, None)
      BY <2>1 DEF HumanSets
    <3> QED BY <1>0, <3>1, WriteChanges
  <2>2. ASSUME NEW o \in Parts, ResumeWrites(o) PROVE o = p /\ status'[p] = "queued"
    <3>1. set_item_status(o, "queued", None, None, None)
      BY <2>2 DEF ResumeWrites
    <3> QED BY <1>0, <3>1, WriteChanges
  <2>3. ASSUME NEW a \in Agents, NEW o \in Parts, MemberSets(a, o)
        PROVE  o = p /\ status[p] = "active" /\ session[a] = "live" /\ holder[p] = a
    <3>1. PICK new : set_item_status(o, new, None, a, None)
      BY <2>3 DEF MemberSets
    <3>2. o = p /\ holder[p] = a /\ a # None
      BY <1>0, <3>1, WriteChanges, ItemStatusConstants DEF ItemStatusConstants
    <3> QED BY <2>3, <3>2 DEF MemberSets, HolderMeansActive
  <2>4. UNCHANGED status
          \/ (\E o \in Parts : HumanSets(o) \/ ResumeWrites(o))
          \/ (\E a \in Agents, o \in Parts : MemberSets(a, o))
    BY <1>1 DEF Environment, KeeperdCycles, DaemonCycle, ResumeReads, SessionEnds, RequestStop,
                itemVars
  <2> QED BY <2>1, <2>2, <2>3, <2>4
<1>2. CASE DriveStep
  <2>1. ASSUME NEW a \in Agents, Claims(a)
        PROVE  picked(a) = p /\ status'[p] = "active"
    <3>1. picked(a) \in Parts
      BY <2>1 DEF Claims, Fresh
    <3>2. set_item_status(picked(a), "active", a, None, None)
      BY <2>1, Zenon DEF Claims, itemVars
    <3> QED BY <1>0, <3>1, <3>2, WriteChanges
  <2>2. ASSUME NEW a \in Agents, Reasserts(a) PROVE FALSE
    <3>1. assignment[a] \in Parts /\ set_item_status(assignment[a], "active", a, None, "active")
      BY <2>2 DEF Reasserts, reassert, itemVars, FleetInv, TypeOK
    <3>2. "active" # None
      BY ItemStatusConstants DEF ItemStatusConstants, Statuses
    <3> QED BY <1>0, <3>1, <3>2, WriteChanges
  <2>3. ASSUME \/ \E o \in Parts : ResetOrphan(o)
               \/ \E a \in Agents : \/ PollQuiet(a) \/ PollDown(a) \/ PollParked(a) \/ PollLeaves(a)
                                    \/ PollBlocks(a) \/ PollRefused(a)
        PROVE  FALSE
    BY <2>3 DEF InSnap, InLoop, ResetOrphan, PollQuiet, PollDown, PollParked, PollLeaves, PollBlocks,
                PollRefused
  <2>4. ASSUME \/ BeginTick \/ ReadSnapshot \/ EndRolls \/ BeginStarts \/ BeginBeat \/ EndTick
               \/ Booted
        PROVE  FALSE
    BY <2>4 DEF BeginTick, ReadSnapshot, EndRolls, BeginStarts, BeginBeat, EndTick, Booted,
                itemVars
  <2>5. ASSUME NEW a \in Agents,
               \/ RollHeld(a) \/ Rerolled(a) \/ StartSkips(a) \/ StartsNothing(a)
               \/ SkipsForeign(a) \/ SkipsMarked(a) \/ Spawned(a) \/ SpawnFails(a)
        PROVE  FALSE
    BY <2>5 DEF RollHeld, Rerolled, StartSkips, StartsNothing, SkipsForeign, SkipsMarked,
                Spawned, SpawnFails, itemVars
  <2> QED BY <1>2, <2>1, <2>2, <2>3, <2>4, <2>5, Zenon DEF DriveStep
<1> QED BY <1>1, <1>2 DEF Next

----------------------------------------------------------------------------
(* Parts in order. *)

(* While a snapshot is in use: what it shows as finished still is, what it
   shows as held is still queued, as are marked parts it shows as queued; and
   a failed read shows nothing. *)
ShowsTrue(p) ==
    /\ tick.view[p] \in {"done", "deferred"} => status[p] = tick.view[p]
    /\ tick.view[p] = "held" => p \in Marked /\ status[p] = "queued"
    /\ tick.view[p] = "queued" /\ p \in Marked => status[p] = "queued"

ReadWhole == (\E p \in Parts : tick.view[p] = "absent") => \A p \in Parts : tick.view[p] = "absent"

(* A claimed part is the first of its queue the snapshot does not roll past. *)
ClaimedHead ==
    tick.pc = "spawn" =>
        /\ tick.claimed \in Parts /\ tick.view[tick.claimed] = "queued"
        /\ LET rows == Rows[region_of[tick.claimed]]
           IN  \E n \in DOMAIN rows :
                 /\ rows[n] = tick.claimed
                 /\ \A i \in 1..(n - 1) :
                       rows[i] \in Parts /\ tick.view[rows[i]] \in {"done", "deferred", "held"}

ViewInv == InSnap => ReadWhole /\ \A p \in Parts : ShowsTrue(p)
OrderInv == resuming = {} /\ ViewInv /\ ClaimedHead

(* Without the human and late resumes the table moves away from the snapshot
   only by handoffs of active parts and by the loop's own claims. *)
LEMMA ViewInvNext ==
    ASSUME Env \cap {"human", "resume"} = {},
           FleetInv, HolderMeansActive, OrderInv, [Next]_vars
    PROVE  ViewInv'
<1> SUFFICES ASSUME InSnap' PROVE ReadWhole' /\ \A p \in Parts : ShowsTrue(p)'
  BY DEF ViewInv
<1>0. /\ tick \in TickType /\ tick.view \in [Parts -> Statuses \cup {"held", "absent"}]
      /\ \A p \in Parts : ~HumanSets(p) /\ ~ResumeWrites(p)
  BY DEF FleetInv, TypeOK, TickType, OrderInv, HumanSets, ResumeWrites
<1>1. CASE UNCHANGED vars
  BY <1>1 DEF vars, itemVars, OrderInv, ViewInv, InSnap, ReadWhole, ShowsTrue
<1>2. ASSUME Next, InSnap, ~Restart, NEW p \in Parts, tick.view[p] # "queued" \/ p \in Marked,
             ShowsTrue(p)
      PROVE  status'[p] = status[p] \/ (tick.view[p] \notin {"done", "deferred", "held", "queued"})
  <2>1. SUFFICES ASSUME status'[p] # status[p]
                 PROVE  tick.view[p] \notin {"done", "deferred", "held", "queued"}
    OBVIOUS
  <2>2. ~\E a \in Agents : Claims(a) /\ picked(a) = p
    BY <1>2 DEF Claims, Fresh
  <2>3. status[p] = "active"
    BY <1>0, <1>2, <2>1, <2>2, MovedInSnap
  <2> QED BY <1>2, <2>3 DEF ShowsTrue
<1>3. ASSUME Next, InSnap, ~Restart, tick'.view = tick.view
      PROVE  ReadWhole' /\ \A p \in Parts : ShowsTrue(p)'
  <2>1. ReadWhole /\ \A p \in Parts : ShowsTrue(p)
    BY <1>3 DEF OrderInv, ViewInv
  <2>2. ASSUME NEW p \in Parts PROVE ShowsTrue(p)'
    BY <1>2, <1>3, <2>1 DEF ShowsTrue
  <2> QED BY <1>3, <2>1, <2>2 DEF ReadWhole
<1>4. CASE ReadSnapshot
  <2>1. CASE \A p \in Parts : tick'.view[p] = "absent"
    BY <2>1 DEF ReadWhole, ShowsTrue
  <2>2. CASE \A p \in Parts : /\ tick'.view[p] \in {status[p], "blocked", "held"}
                              /\ tick'.view[p] = "held" => p \in Marked /\ status[p] = "queued"
    <3>1. status \in [Parts -> Statuses] /\ UNCHANGED status
      BY <1>4 DEF FleetInv, TypeOK, ItemTypeOK, ReadSnapshot, itemVars
    <3>2. \A p \in Parts : tick'.view[p] # "absent"
      BY <2>2, <3>1 DEF Statuses
    <3> QED BY <2>2, <3>1, <3>2 DEF ReadWhole, ShowsTrue
  <2> QED BY <1>4, <2>1, <2>2, SnapshotShows
<1>5. CASE EndRolls \/ BeginStarts
  <2>1. InSnap /\ tick'.view = tick.view
    BY <1>0, <1>5 DEF EndRolls, BeginStarts, QueueEnd, InSnap, TickType
  <2>2. Next /\ ~Restart
    BY <1>5, OutsideSnap DEF Next, DriveStep
  <2> QED BY <1>3, <2>1, <2>2
<1>6. ASSUME NEW a \in Agents, SnapSteps(a), Next, ~Restart
      PROVE  ReadWhole' /\ \A p \in Parts : ShowsTrue(p)'
  <2>0. InSnap /\ ReadWhole /\ \A p \in Parts : ShowsTrue(p)
    BY <1>6 DEF SnapSteps, InSnap, OrderInv, ViewInv
  <2>1. CASE tick'.view = tick.view
    BY <1>3, <1>6, <2>0, <2>1
  <2>2. ASSUME NEW q \in Parts, NEW shown \in {"held", "active"},
               tick.view[q] = "queued", tick'.view = [tick.view EXCEPT ![q] = shown],
               shown = "held" => q \in Marked
        PROVE  ReadWhole' /\ \A p \in Parts : ShowsTrue(p)'
    <3>1. ReadWhole'
      BY <1>0, <2>0, <2>2 DEF ReadWhole
    <3>2. ASSUME NEW p \in Parts, p # q PROVE ShowsTrue(p)'
      BY <1>0, <1>2, <1>6, <2>0, <2>2, <3>2 DEF ShowsTrue
    <3>3. ShowsTrue(q)'
      <4>1. tick'.view[q] = shown
        BY <1>0, <2>2
      <4>2. shown = "held" => status[q] = "queued" /\ status'[q] = status[q]
        BY <1>2, <1>6, <2>0, <2>2 DEF ShowsTrue
      <4> QED BY <2>2, <4>1, <4>2 DEF ShowsTrue
    <3> QED BY <3>1, <3>2, <3>3
  <2>3. CASE SkipsMarked(a)
    <3>1. picked(a) \in Parts /\ tick.view[picked(a)] = "queued" /\ picked(a) \in Marked
      BY <2>3 DEF SkipsMarked, Fresh
    <3>2. tick'.view = [tick.view EXCEPT ![picked(a)] = "held"]
      BY <1>0, <2>3 DEF SkipsMarked, TickType
    <3> QED BY <2>2, <3>1, <3>2
  <2>4. CASE tick.pc = "spawn" /\ tick'.view = [tick.view EXCEPT ![tick.claimed] = "active"]
    BY <2>2, <2>4 DEF OrderInv, ClaimedHead
  <2> QED BY <1>6, <2>1, <2>3, <2>4 DEF SnapSteps
<1>7. CASE Environment /\ ~Restart
  <2>1. UNCHANGED tick /\ InSnap
    BY <1>7, AroundTheLoop DEF InSnap
  <2> QED BY <1>3, <1>7, <2>1 DEF Next
<1>8. CASE Restart
  BY <1>8, OutsideSnap
<1>9. CASE DriveStep /\ ~Restart
  BY <1>4, <1>5, <1>6, <1>9, OutsideSnap, SnapStepsAre, Zenon DEF DriveStep, Next
<1> QED BY <1>1, <1>7, <1>8, <1>9 DEF Next

(* The claim finds the head of a queue, and the spawn finds the same view. *)
LEMMA ClaimedHeadNext ==
    ASSUME FleetInv, OrderInv, [Next]_vars
    PROVE  ClaimedHead'
<1> SUFFICES ASSUME tick'.pc = "spawn" PROVE ClaimedHead'
  BY DEF ClaimedHead
<1>0. InSnap'
  BY DEF InSnap
<1>1. CASE UNCHANGED tick
  BY <1>1 DEF OrderInv, ClaimedHead
<1>2. CASE ReadSnapshot \/ EndRolls \/ BeginStarts
  <2>1. tick \in TickType
    BY DEF FleetInv, TypeOK
  <2>2. tick'.pc # "spawn"
    <3>1. ReadSnapshot => tick'.pc # "spawn"
      BY SnapshotShows
    <3>2. EndRolls \/ BeginStarts => tick'.pc # "spawn"
      BY <2>1 DEF EndRolls, BeginStarts, TickType
    <3> QED BY <1>2, <3>1, <3>2
  <2> QED BY <2>2
<1>3. ASSUME NEW a \in Agents, SnapSteps(a) PROVE ClaimedHead'
  <2>1. Claims(a) /\ tick'.view = tick.view /\ tick'.claimed = picked(a) /\ tick.pc = "start"
    BY <1>3 DEF SnapSteps
  <2>2. /\ picked(a) \in Parts /\ tick.view[picked(a)] = "queued" /\ picked(a) # None
        /\ tick.view \in [Parts -> Statuses \cup {"held", "absent"}]
    BY <2>1, FleetConstants DEF Claims, Fresh, FleetConstants, FleetInv, TypeOK, TickType
  <2>3. PICK q \in Queues : picked(a) = head_part(tick.view, q)
    <3> DEFINE pin == IF tick.unpinned THEN None ELSE Pin[a]
    <3>1. pin \in Queues \cup {None} /\ picked(a) = pick_for(tick.view, pin, reserved_queues(a))
      BY FleetConstants DEF FleetConstants, picked
    <3> HIDE DEF pin
    <3> QED BY <2>2, <3>1, PickIsHead
  <2>4. /\ region_of[picked(a)] = q
        /\ \E n \in DOMAIN Rows[q] :
              /\ Rows[q][n] = picked(a)
              /\ \A i \in 1..(n - 1) :
                    /\ Rows[q][i] \in Parts
                    /\ tick.view[Rows[q][i]] \notin {"active", "queued", "blocked"}
    BY <2>2, <2>3, HeadIsFirst
  <2>5. \A p \in Parts : tick.view[p] # "absent"
    BY <2>1, <2>2 DEF OrderInv, ViewInv, InSnap, ReadWhole
  <2>6. \A p \in Parts : tick.view[p] \notin {"active", "queued", "blocked"}
                           => tick.view[p] \in {"done", "deferred", "held"}
    BY <2>2, <2>5 DEF Statuses
  <2>7. \E n \in DOMAIN Rows[q] :
              /\ Rows[q][n] = picked(a)
              /\ \A i \in 1..(n - 1) :
                    Rows[q][i] \in Parts /\ tick.view[Rows[q][i]] \in {"done", "deferred", "held"}
    BY <2>4, <2>6, Zenon
  <2> QED BY <2>1, <2>2, <2>4, <2>7, Zenon DEF ClaimedHead
<1>4. CASE UNCHANGED vars
  BY <1>1, <1>4 DEF vars
<1>5. CASE Environment
  BY <1>0, <1>1, <1>5, AroundTheLoop, OutsideSnap
<1>6. CASE DriveStep
  BY <1>0, <1>2, <1>3, <1>6, OutsideSnap, SnapStepsAre, Zenon DEF DriveStep
<1> QED BY <1>4, <1>5, <1>6 DEF Next

(* A member starts on a part only when every row of its queue before it is
   finished, or held for the human: for any queues, rosters, failures, keeperd
   cycles and restarts, as long as nobody else puts parts back to work. *)
THEOREM RowsInOrder ==
    ASSUME Env \cap {"human", "resume"} = {}
    PROVE  Spec => PartsInOrder
<1>1. Init => OrderInv
  BY IdleType, ItemStatusConstants, FleetConstants
     DEF Init, OrderInv, ViewInv, ClaimedHead, InSnap
<1>2. FleetInv /\ HolderMeansActive /\ OrderInv /\ [Next]_vars => OrderInv'
  <2> SUFFICES ASSUME FleetInv, HolderMeansActive, OrderInv, [Next]_vars PROVE OrderInv'
    OBVIOUS
  <2>1. resuming' = {}
    <3>1. CASE Environment
      BY <3>1 DEF Environment, KeeperdCycles, Restart, HumanSets, ResumeReads, ResumeWrites,
                  SessionEnds, RequestStop, MemberSets, OrderInv
    <3>2. DriveStep => UNCHANGED resuming
      BY DEF DriveStep, BeginTick, ReadSnapshot, EndRolls, BeginStarts, BeginBeat, EndTick,
             Booted, ResetOrphan, PollQuiet, PollDown, PollParked, PollLeaves, PollBlocks, PollRefused,
             RollHeld, Rerolled, Reasserts, StartSkips, StartsNothing, SkipsForeign,
             SkipsMarked, Claims, Spawned, SpawnFails
    <3> QED BY <3>1, <3>2 DEF Next, OrderInv, vars
  <2> QED BY <2>1, ViewInvNext, ClaimedHeadNext DEF OrderInv
<1>3. FleetInv /\ OrderInv /\ [Next]_vars =>
        [\A a \in Agents :
          (assignment'[a] # assignment[a] /\ assignment'[a] # None) =>
             LET rows == Rows[region_of[assignment'[a]]]
                 at == CHOOSE i \in DOMAIN rows : rows[i] = assignment'[a]
             IN  \A i \in 1..(at - 1) :
                    \/ status[rows[i]] \in {"done", "deferred"}
                    \/ rows[i] \in Marked /\ status[rows[i]] = "queued"]_vars
  <2> SUFFICES ASSUME FleetInv, OrderInv, Next, NEW a \in Agents,
                      assignment'[a] # assignment[a], assignment'[a] # None
               PROVE  LET rows == Rows[region_of[assignment'[a]]]
                          at == CHOOSE i \in DOMAIN rows : rows[i] = assignment'[a]
                      IN  \A i \in 1..(at - 1) :
                             \/ status[rows[i]] \in {"done", "deferred"}
                             \/ rows[i] \in Marked /\ status[rows[i]] = "queued"
    BY DEF vars, loopVars
  <2> DEFINE p == tick.claimed
             rows == Rows[region_of[p]]
             at == CHOOSE i \in DOMAIN rows : rows[i] = p
  <2>1. Spawned(a) /\ assignment'[a] = p
    BY SpawnAssigns
  <2>2. tick.pc = "spawn" /\ InSnap
    BY <2>1 DEF Spawned, InLoop, InSnap
  <2>3. PICK n \in DOMAIN rows :
           /\ rows[n] = p
           /\ \A i \in 1..(n - 1) :
                 rows[i] \in Parts /\ tick.view[rows[i]] \in {"done", "deferred", "held"}
    BY <2>2 DEF OrderInv, ClaimedHead
  <2>4. at = n
    <3>1. region_of[p] \in Queues
      BY <2>2, ItemStatusConstants DEF OrderInv, ClaimedHead, ItemStatusConstants
    <3>2. \A i \in DOMAIN rows : rows[i] = p => i = n
      BY <2>3, <3>1, FleetConstants DEF FleetConstants
    <3> QED BY <2>3, <3>2
  <2>5. \A o \in Parts : ShowsTrue(o)
    BY <2>2 DEF OrderInv, ViewInv
  <2>6. ASSUME NEW i \in 1..(n - 1)
        PROVE  \/ status[rows[i]] \in {"done", "deferred"}
               \/ rows[i] \in Marked /\ status[rows[i]] = "queued"
    BY <2>3, <2>5 DEF ShowsTrue
  <2> QED BY <2>1, <2>4, <2>6
<1> QED
  BY <1>1, <1>2, <1>3, FleetInvAlways, FleetHoldersActive, PTL DEF Spec, PartsInOrder

----------------------------------------------------------------------------
(* Handoffs kept. *)

Distinct(s) == \A i, j \in DOMAIN s : s[i] = s[j] => i = j
Absent(x, s) == \A i \in DOMAIN s : s[i] # x

(* Who is left when the head of a list of distinct members is served. *)
LEMMA TailOfDistinct ==
    ASSUME NEW s \in Seq(Agents), s # <<>>
    PROVE  /\ Distinct(s) => Distinct(Tail(s)) /\ Absent(Head(s), Tail(s))
           /\ \A x : Absent(x, s) => x # Head(s) /\ Absent(x, Tail(s))
<1>1. /\ Len(s) \in Nat \ {0} /\ DOMAIN s = 1..Len(s) /\ Head(s) = s[1]
      /\ DOMAIN Tail(s) = 1..(Len(s) - 1)
      /\ \A i \in 1..(Len(s) - 1) : Tail(s)[i] = s[i + 1]
  OBVIOUS
<1>2. \A i \in DOMAIN Tail(s) : i + 1 \in DOMAIN s /\ i + 1 # 1 /\ Tail(s)[i] = s[i + 1]
  BY <1>1
<1>3. 1 \in DOMAIN s /\ \A i, j \in DOMAIN Tail(s) : i + 1 = j + 1 => i = j
  BY <1>1
<1>4. ASSUME Distinct(s) PROVE Distinct(Tail(s)) /\ Absent(Head(s), Tail(s))
  BY <1>1, <1>2, <1>3, <1>4 DEF Distinct, Absent
<1>5. ASSUME NEW x, Absent(x, s) PROVE x # Head(s) /\ Absent(x, Tail(s))
  BY <1>1, <1>2, <1>3, <1>5 DEF Absent
<1> QED BY <1>4, <1>5

(* What holds of a part the snapshot shows as queued: if it was taken since,
   then by a claim of this tick whose member has no session yet and whose turn
   is over, or is the one in hand. *)
Untaken(p) ==
    /\ tick.pc \in {"roll", "rebeat"} => status[p] = "queued"
    /\ tick.pc \in {"start", "spawn"} =>
         /\ status[p] \in {"queued", "active"}
         /\ holder[p] # None =>
              /\ session[holder[p]] = "out"
              /\ \/ Absent(holder[p], tick.todo)
                 \/ tick.pc = "spawn" /\ tick.claimed = p /\ holder[p] = Head(tick.todo)

HandInv ==
    /\ tick.pc \in {"start", "spawn"} => Distinct(tick.todo)
    /\ tick.pc = "spawn" => tick.claimed \in Parts /\ tick.view[tick.claimed] = "queued"
    /\ InSnap => \A p \in Parts : tick.view[p] = "queued" => Untaken(p)

(* What goes on around the loop takes up no session and records no holder. *)
LEMMA HandEnvironment ==
    ASSUME "human" \notin Env, FleetInv, HolderMeansActive, HandInv, Environment, ~Restart
    PROVE  HandInv'
<1>1. UNCHANGED tick /\ Clears
  BY AroundTheLoop, EnvironmentClears
<1>2. \A b \in Agents : session[b] = "out" => session'[b] = "out"
  BY DEF Environment, KeeperdCycles, HumanSets, ResumeReads, ResumeWrites, SessionEnds,
         RequestStop, MemberSets, loopVars, FleetInv, TypeOK
<1>3. ASSUME NEW p \in Parts, InSnap, tick.view[p] = "queued" PROVE Untaken(p)'
  <2>1. Untaken(p) /\ holder[p] \in Agents \cup {None}
    BY <1>3 DEF HandInv, FleetInv, TypeOK, ItemTypeOK
  <2>2. CASE status'[p] = status[p]
    BY <1>1, <1>2, <2>1, <2>2 DEF Untaken, Clears
  <2>3. CASE status'[p] # status[p]
    <3>1. ~HumanSets(p)
      BY DEF HumanSets
    <3>2. CASE status'[p] = "queued"
      BY <1>1, <1>2, <2>1, <3>2 DEF Untaken, Clears
    <3>3. ASSUME NEW a \in Agents, status[p] = "active", session[a] = "live", holder[p] = a
          PROVE  FALSE
      BY <1>3, <2>1, <3>3, ItemStatusConstants DEF Untaken, InSnap, ItemStatusConstants
    <3>4. ASSUME NEW a \in Agents, Claims(a) PROVE FALSE
      <4>1. tick \in TickType
        BY DEF FleetInv, TypeOK
      <4>2. SnapSteps(a)
        BY <3>4, SnapStepsAre
      <4>3. tick.pc = "start" /\ tick.todo # <<>> /\ tick.todo \in Seq(Agents)
        BY <3>4, <4>1 DEF Claims, InLoop, TickType
      <4>4. tick'.pc = "spawn" \/ tick'.todo = Tail(tick.todo)
        BY <3>4, <4>2, <4>3
           DEF SnapSteps, Claims, RollHeld, Rerolled, SkipsMarked, Fresh, Spawned, SpawnFails, InLoop
      <4>5. Len(Tail(tick.todo)) # Len(tick.todo)
        BY <4>3
      <4> QED BY <1>1, <4>3, <4>4, <4>5
    <3> QED BY <1>3, <2>3, <3>1, <3>2, <3>3, <3>4, MovedInSnap DEF Next
  <2> QED BY <2>2, <2>3
<1> QED BY <1>1, <1>3 DEF HandInv, InSnap

(* The snapshot and the beginnings of the two passes over it. *)
LEMMA HandBegins ==
    ASSUME FleetInv, HolderMeansActive, HandInv, ReadSnapshot \/ EndRolls \/ BeginStarts
    PROVE  HandInv'
<1>0. tick \in TickType /\ UNCHANGED itemVars
  BY DEF FleetInv, TypeOK, ReadSnapshot, EndRolls, BeginStarts
<1>1. \A p \in Parts : status[p] = "queued" => holder[p] = None
  BY DEF HolderMeansActive
<1>2. CASE ReadSnapshot
  <2>1. ASSUME NEW p \in Parts, tick'.view[p] = "queued" PROVE status[p] = "queued"
    BY <1>2, <2>1, SnapshotShows
  <2>2. tick'.pc \in {"roll", "start"} /\ (tick'.pc = "start" => tick'.todo = <<>>)
    BY <1>2, SnapshotShows
  <2>3. Distinct(<<>>)
    BY DEF Distinct
  <2> QED BY <1>0, <1>1, <2>1, <2>2, <2>3 DEF HandInv, Untaken, itemVars
<1>3. CASE EndRolls
  <2>1. tick.pc = "roll" /\ tick'.pc = "rebeat" /\ tick'.view = tick.view
    BY <1>0, <1>3 DEF EndRolls, QueueEnd, TickType
  <2> QED BY <1>0, <2>1 DEF HandInv, Untaken, InSnap, itemVars
<1>4. CASE BeginStarts
  <2>1. tick.pc = "rebeat" /\ tick'.pc = "start" /\ tick'.view = tick.view /\ tick'.todo = Fleet
    BY <1>0, <1>4 DEF BeginStarts, QueueEnd, TickType
  <2>2. Distinct(Fleet)
    BY RosterDistinct DEF Distinct
  <2> QED BY <1>0, <1>1, <2>1, <2>2 DEF HandInv, Untaken, InSnap, itemVars
<1> QED BY <1>2, <1>3, <1>4

(* A claim takes a part the snapshot shows as queued for a member whose turn
   ends with it, and touches no other. *)
LEMMA HandClaims ==
    ASSUME FleetInv, HolderMeansActive, HandInv, NEW a \in Agents, Claims(a)
    PROVE  HandInv'
<1>0. tick \in TickType /\ ItemTypeOK /\ SnapSteps(a)
  BY SnapStepsAre DEF FleetInv, TypeOK
<1>1. /\ tick.pc = "start" /\ tick.todo \in Seq(Agents) /\ tick.todo # <<>> /\ a = Head(tick.todo)
      /\ session[a] = "out" /\ UNCHANGED session
      /\ picked(a) \in Parts /\ tick.view[picked(a)] = "queued"
  BY <1>0 DEF Claims, InLoop, Startable, Registered, Fresh, TickType, loopVars
<1>2. /\ Distinct(tick.todo) /\ Distinct(Tail(tick.todo)) /\ Absent(a, Tail(tick.todo))
      /\ \A x : Absent(x, tick.todo) => x # a /\ Absent(x, Tail(tick.todo))
  BY <1>1, TailOfDistinct DEF HandInv
<1>3. /\ tick'.view = tick.view
      /\ \/ tick'.pc = "start" /\ tick'.todo = Tail(tick.todo)
         \/ tick'.pc = "spawn" /\ tick'.todo = tick.todo /\ tick'.claimed = picked(a)
  <2>1. ~(RollHeld(a) \/ Rerolled(a) \/ Reasserts(a)) /\ ~SkipsMarked(a)
          /\ ~(Spawned(a) \/ SpawnFails(a))
    BY <1>1 DEF RollHeld, Rerolled, Reasserts, SkipsMarked, Spawned, SpawnFails, InLoop, Claims
  <2> QED BY <1>0, <2>1 DEF SnapSteps
<1>4. \/ UNCHANGED itemVars
      \/ /\ \A o \in Parts \ {picked(a)} : status'[o] = status[o] /\ holder'[o] = holder[o]
         /\ status'[picked(a)] = "active" /\ holder'[picked(a)] = a
  <2>1. UNCHANGED itemVars \/ set_item_status(picked(a), "active", a, None, None)
    BY Zenon DEF Claims
  <2>2. HolderAfter(picked(a), "active", a) = a
    BY ItemStatusConstants DEF HolderAfter, ItemStatusConstants
  <2> QED BY <1>0, <1>1, <2>1, <2>2, WriteChanges
<1>5. ASSUME NEW p \in Parts, tick.view[p] = "queued" PROVE Untaken(p)'
  <2>1. Untaken(p)
    BY <1>1, <1>5 DEF HandInv, InSnap
  <2>2. CASE UNCHANGED itemVars
    BY <1>1, <1>2, <1>3, <2>1, <2>2 DEF Untaken, itemVars
  <2>3. CASE p # picked(a) /\ status'[p] = status[p] /\ holder'[p] = holder[p]
    BY <1>1, <1>2, <1>3, <2>1, <2>3 DEF Untaken
  <2>4. CASE p = picked(a) /\ status'[p] = "active" /\ holder'[p] = a
    BY <1>1, <1>2, <1>3, <2>4 DEF Untaken
  <2> QED BY <1>4, <2>2, <2>3, <2>4
<1> QED BY <1>1, <1>2, <1>3, <1>5 DEF HandInv

(* The other steps for a member of the roll, rebeat and start passes. *)
LEMMA HandMember ==
    ASSUME FleetInv, HolderMeansActive, HandInv, NEW a \in Agents,
           \/ RollHeld(a) \/ Rerolled(a) \/ (Reasserts(a) /\ tick.pc = "rebeat")
           \/ StartSkips(a) \/ StartsNothing(a) \/ SkipsForeign(a) \/ SkipsMarked(a)
           \/ Spawned(a) \/ SpawnFails(a)
    PROVE  HandInv'
<1>0. tick \in TickType /\ ItemTypeOK /\ SnapSteps(a)
  BY SnapStepsAre DEF FleetInv, TypeOK
<1>1. tick.todo \in Seq(Agents) /\ tick.todo # <<>> /\ a = Head(tick.todo)
  BY <1>0 DEF SnapSteps, TickType
<1>2. /\ Distinct(tick.todo) => Distinct(Tail(tick.todo))
      /\ \A x : Absent(x, tick.todo) => x # a /\ Absent(x, Tail(tick.todo))
  BY <1>1, TailOfDistinct
<1>3. CASE RollHeld(a) \/ Rerolled(a) \/ (Reasserts(a) /\ tick.pc = "rebeat")
  <2>1. tick.pc \in {"roll", "rebeat"} /\ tick'.pc = tick.pc /\ tick'.view = tick.view
    BY <1>0, <1>3
       DEF SnapSteps, RollHeld, Rerolled, Reasserts, StartSkips, StartsNothing, SkipsForeign,
           SkipsMarked, Claims, Spawned, SpawnFails, InLoop
  <2>2. ASSUME NEW p \in Parts, status[p] = "queued" PROVE status'[p] = "queued"
    <3>1. UNCHANGED status \/ (assignment[a] \in Parts
                                 /\ set_item_status(assignment[a], "active", a, None, "active"))
      BY <1>3 DEF RollHeld, Rerolled, Reasserts, reassert, itemVars, FleetInv, TypeOK
    <3>2. "active" # None
      BY ItemStatusConstants DEF ItemStatusConstants, Statuses
    <3> QED BY <1>0, <2>2, <3>1, <3>2, WriteChanges
  <2> QED BY <2>1, <2>2 DEF HandInv, Untaken, InSnap
<1>4. CASE StartSkips(a) \/ StartsNothing(a) \/ SkipsForeign(a)
  <2>1. /\ tick.pc = "start" /\ tick'.pc = "start" /\ tick'.view = tick.view
        /\ tick'.todo \in {tick.todo, Tail(tick.todo)}
    <3>1. CASE StartSkips(a) \/ StartsNothing(a)
      BY <1>0, <1>1, <3>1, AdvanceType, AdvanceDrops DEF StartSkips, StartsNothing, InLoop
    <3>2. CASE SkipsForeign(a)
      BY <1>0, <3>2 DEF SkipsForeign, InLoop, TickType
    <3> QED BY <1>4, <3>1, <3>2
  <2>2. UNCHANGED <<itemVars, session>>
    BY <1>4 DEF StartSkips, StartsNothing, SkipsForeign, loopVars
  <2>3. ASSUME NEW p \in Parts, Untaken(p) PROVE Untaken(p)'
    <3>1. Absent(holder[p], tick.todo) => Absent(holder[p], tick'.todo)
      BY <1>2, <2>1
    <3> QED BY <2>1, <2>2, <2>3, <3>1 DEF Untaken, itemVars
  <2>4. (tick.pc \in {"start", "spawn"} => Distinct(tick.todo))
          => (tick'.pc \in {"start", "spawn"} => Distinct(tick'.todo))
    BY <1>2, <2>1
  <2> QED BY <2>1, <2>3, <2>4 DEF HandInv, InSnap
<1>5. CASE SkipsMarked(a)
  <2>1. /\ tick.pc = "start" /\ tick'.pc = "start" /\ tick'.todo = tick.todo
        /\ tick'.view = [tick.view EXCEPT ![picked(a)] = "held"]
    BY <1>0, <1>5 DEF SkipsMarked, InLoop, TickType
  <2>2. UNCHANGED <<itemVars, session>>
    BY <1>5 DEF SkipsMarked
  <2>3. \A p \in Parts : tick'.view[p] = "queued" => tick.view[p] = "queued"
    BY <1>0, <2>1 DEF TickType
  <2> QED BY <2>1, <2>2, <2>3 DEF HandInv, Untaken, InSnap, itemVars
<1>6. CASE Spawned(a) \/ SpawnFails(a)
  <2>1. /\ tick.pc = "spawn" /\ tick'.pc = "start" /\ tick'.todo = Tail(tick.todo)
        /\ tick'.view = [tick.view EXCEPT ![tick.claimed] = "active"]
    BY <1>0, <1>6
       DEF SnapSteps, RollHeld, Rerolled, Reasserts, StartSkips, StartsNothing, SkipsForeign,
           SkipsMarked, Claims, Spawned, SpawnFails, InLoop
  <2>2. UNCHANGED itemVars /\ \A b \in Agents \ {a} : session'[b] = session[b]
    BY <1>6 DEF Spawned, SpawnFails, loopVars, FleetInv, TypeOK
  <2>3. tick.claimed \in Parts /\ \A p \in Parts : tick'.view[p] = "queued" =>
                                     p # tick.claimed /\ tick.view[p] = "queued"
    BY <1>0, <2>1 DEF TickType, HandInv
  <2>4. ASSUME NEW p \in Parts, tick'.view[p] = "queued" PROVE Untaken(p)'
    <3>1. Untaken(p) /\ p # tick.claimed /\ holder[p] \in Agents \cup {None}
      BY <1>0, <2>1, <2>3, <2>4 DEF HandInv, InSnap, ItemTypeOK
    <3>2. CASE holder[p] = None
      BY <2>1, <2>2, <3>1, <3>2 DEF Untaken, itemVars
    <3>3. CASE holder[p] # None
      <4>1. holder[p] \in Agents /\ Absent(holder[p], tick.todo) /\ session[holder[p]] = "out"
        BY <2>1, <3>1, <3>3 DEF Untaken
      <4>2. session'[holder[p]] = "out" /\ Absent(holder[p], tick'.todo)
        BY <1>2, <2>1, <2>2, <4>1
      <4> QED BY <2>1, <2>2, <3>1, <4>2 DEF Untaken, itemVars
    <3> QED BY <3>2, <3>3
  <2> QED BY <1>2, <2>1, <2>4 DEF HandInv
<1> QED BY <1>3, <1>4, <1>5, <1>6

LEMMA HandInvNext ==
    ASSUME "human" \notin Env, FleetInv, HolderMeansActive, HandInv, [Next]_vars
    PROVE  HandInv'
<1>1. ASSUME ~InSnap' PROVE HandInv'
  BY <1>1 DEF InSnap, HandInv
<1>2. CASE UNCHANGED vars
  BY <1>2 DEF vars, itemVars, loopVars, HandInv, InSnap, Untaken
<1>3. CASE Environment
  BY <1>1, <1>3, HandEnvironment, OutsideSnap
<1>4. CASE DriveStep
  BY <1>1, <1>4, HandBegins, HandClaims, HandMember, OutsideSnap, Zenon DEF DriveStep
<1> QED BY <1>2, <1>3, <1>4 DEF Next

(* Of the loop's writes only a claim makes a part active: a park blocks, the
   boot reap requeues, a heartbeat is conditional on active. *)
LEMMA OnlyClaimsActivate ==
    ASSUME FleetInv, DriveStep, NEW p \in Parts, status'[p] = "active", status[p] # "active"
    PROVE  \E a \in Agents : Claims(a) /\ picked(a) = p
<1>0. ItemTypeOK /\ "active" # None
  BY ItemStatusConstants DEF FleetInv, TypeOK, ItemStatusConstants, Statuses
<1>1. ASSUME NEW a \in Agents, Claims(a) PROVE picked(a) = p
  <2>1. picked(a) \in Parts /\ set_item_status(picked(a), "active", a, None, None)
    BY <1>1, Zenon DEF Claims, Fresh, itemVars
  <2> QED BY <1>0, <2>1, WriteChanges
<1>2. ASSUME NEW o \in Parts \cup {None}, set_item_status(o, "blocked", None, None, None) PROVE FALSE
  BY <1>0, <1>2 DEF set_item_status, Applies, ItemTypeOK
<1>3. ASSUME NEW a \in Agents, PollBlocks(a) \/ PollRefused(a) PROVE FALSE
  <2>1. assignment[a] \in Parts \cup {None} /\ (UNCHANGED itemVars \/ park_item(assignment[a]))
    BY <1>3 DEF PollBlocks, PollRefused, FleetInv, TypeOK
  <2>2. UNCHANGED itemVars \/ set_item_status(assignment[a], "blocked", None, None, None)
    BY <2>1 DEF park_item
  <2>3. CASE UNCHANGED itemVars
    BY <2>3 DEF itemVars
  <2> QED BY <1>2, <2>1, <2>2, <2>3
<1>4. ASSUME NEW o \in Parts, ResetOrphan(o) PROVE FALSE
  <2>1. set_item_status(o, "queued", None, None, None)
    BY <1>4 DEF ResetOrphan, itemVars
  <2> QED BY <1>0, <2>1, WriteChanges
<1>5. ASSUME NEW a \in Agents, Reasserts(a) PROVE FALSE
  <2>1. assignment[a] \in Parts /\ set_item_status(assignment[a], "active", a, None, "active")
    BY <1>5 DEF Reasserts, reassert, itemVars, FleetInv, TypeOK
  <2> QED BY <1>0, <2>1, WriteChanges
<1>6. ASSUME \/ BeginTick \/ ReadSnapshot \/ EndRolls \/ BeginStarts \/ BeginBeat \/ EndTick
             \/ Booted
      PROVE  FALSE
  BY <1>6 DEF BeginTick, ReadSnapshot, EndRolls, BeginStarts, BeginBeat, EndTick, Booted, itemVars
<1>7. ASSUME NEW a \in Agents,
             \/ PollQuiet(a) \/ PollDown(a) \/ PollParked(a) \/ PollLeaves(a) \/ RollHeld(a) \/ Rerolled(a)
             \/ StartSkips(a) \/ StartsNothing(a) \/ SkipsForeign(a) \/ SkipsMarked(a)
             \/ Spawned(a) \/ SpawnFails(a)
      PROVE  FALSE
  BY <1>7 DEF PollQuiet, PollDown, PollParked, PollLeaves, RollHeld, Rerolled, StartSkips, StartsNothing,
              SkipsForeign, SkipsMarked, Spawned, SpawnFails, itemVars
<1> QED BY <1>1, <1>3, <1>4, <1>5, <1>6, <1>7, Zenon DEF DriveStep

(* The drive loop never revives a part a member handed off: for any roster of
   distinct members, any queues, faults, stops, late resumes, keeperd cycles
   and restarts. (The human may reopen a part under a claim in flight: then the
   claim is as good as the human's own write.) *)
THEOREM HandoffsStay ==
    ASSUME "human" \notin Env
    PROVE  Spec => HandoffKept
<1>1. Init => HandInv
  BY IdleType, ItemStatusConstants, FleetConstants DEF Init, HandInv, InSnap
<1>2. FleetInv /\ HolderMeansActive /\ HandInv /\ [Next]_vars => HandInv'
  BY HandInvNext
<1>3. FleetInv /\ HandInv /\ [Next]_vars =>
        [\A p \in Parts : (status[p] \in {"done", "deferred"} /\ status'[p] = "active")
            => tick' = tick]_vars
  <2> SUFFICES ASSUME FleetInv, HandInv, Next, NEW p \in Parts,
                      status[p] \in {"done", "deferred"}, status'[p] = "active"
               PROVE  tick' = tick
    OBVIOUS
  <2>1. CASE DriveStep
    <3>1. PICK a \in Agents : Claims(a) /\ picked(a) = p
      BY <2>1, OnlyClaimsActivate
    <3>2. InSnap /\ tick.pc = "start" /\ tick.view[p] = "queued"
      BY <3>1 DEF Claims, InLoop, Fresh, InSnap
    <3> QED BY <3>2 DEF HandInv, Untaken
  <2>2. CASE Restart
    BY <2>2 DEF Restart, itemVars
  <2>3. CASE Environment /\ ~Restart
    BY <2>3, AroundTheLoop
  <2> QED BY <2>1, <2>2, <2>3 DEF Next
<1> QED
  BY <1>1, <1>2, <1>3, FleetInvAlways, FleetHoldersActive, PTL DEF Spec, HandoffKept
=============================================================================
