---------------------------- MODULE LeasesProofs ----------------------------
(***************************************************************************)
(* Proofs about Leases for any sets of agents, resources and threads.      *)
(***************************************************************************)
EXTENDS Leases, SequenceTheorems, TLAPS

(* What the three LeaseTable operations return is again a lease entry. *)
LEMMA TableOperations ==
    ASSUME NEW lease \in LeaseType, NEW a \in Agents
    PROVE  /\ request(lease, a) \in LeaseType
           /\ release(lease) \in LeaseType
           /\ drain(lease) \in LeaseType
BY DEF LeaseType, request, release, drain, Free, Waiting

(* Every reachable state has the types the code declares: the table's entries,
   the connection threads' registers, the kill registry and the replies. *)
THEOREM TypeCorrect == Spec => []TypeOK
<1>1. Init => TypeOK
  BY DEF Init, TypeOK, Free, Idle, NoReply, LeaseType
<1>2. TypeOK /\ [Next]_vars => TypeOK'
  <2> SUFFICES ASSUME TypeOK, [Next]_vars PROVE TypeOK'
    OBVIOUS
  <2> USE LeaseConstants DEF TypeOK, Silent, LeaseConstants
  <2>0. \A k \in RestartKeys : k \in Keys
    BY DEF Keys
  <2>1. ASSUME NEW t \in Threads, NEW a \in Agents, NEW k \in Resources,
               RequestLease(t, a, k)
        PROVE  TypeOK'
    <3>1. k \in Keys
      BY DEF Keys
    <3>2. request(held[k], a) \in LeaseType
      BY <3>1, TableOperations
    <3>3. held' \in [Keys -> LeaseType]
      BY <2>1, <3>1, <3>2 DEF RequestLease
    <3>4. threads' \in [Threads -> ThreadType \cup {Idle}]
      BY <2>1, <3>1 DEF RequestLease, Goto, ThreadType
    <3> QED BY <2>1, <3>3, <3>4 DEF RequestLease
  <2>2. ASSUME NEW t \in Threads, NEW a \in Agents, NEW k \in Resources,
               ReleaseLease(t, a, k)
        PROVE  TypeOK'
    <3>1. k \in Keys
      BY DEF Keys
    <3>2. release(held[k]) \in LeaseType
      BY <3>1, TableOperations
    <3>3. held' \in [Keys -> LeaseType]
      BY <2>2, <3>1, <3>2 DEF ReleaseLease
    <3>4. reply' \in ReplyType
      <4>1. held'[k].holder \in Agents \cup {NoAgent}
        BY <3>1, <3>3 DEF LeaseType
      <4> QED BY <2>2, <3>1, <4>1 DEF ReleaseLease, Answer, ReplyType
    <3> QED BY <2>2, <3>3, <3>4 DEF ReleaseLease, CallsOf
  <2>3. ASSUME NEW t \in Threads, NEW a \in Agents, NEW k \in Resources,
               ReleaseNotHolder(t, a, k)
        PROVE  TypeOK'
    BY <2>3 DEF ReleaseNotHolder, Goto, ThreadType, Keys
  <2>4. ASSUME NEW t \in Threads, NEW a \in Agents, NEW b \in Agents,
               RequestRestart(t, a, b)
        PROVE  TypeOK'
    <3> DEFINE k == restart_key(b)
    <3>1. k \in Keys
      BY DEF Keys, RestartKeys
    <3>2. request(held[k], a) \in LeaseType
      BY <3>1, TableOperations
    <3> HIDE DEF k
    <3>a. held' = [held EXCEPT ![k] = request(@, a)] /\ UNCHANGED <<handles, crossed>>
      BY <2>4 DEF RequestRestart, k
    <3>b. \/ Goto(t, "kill", a, k) /\ Silent
          \/ Answer(a, k, "queued", NoAgent) /\ UNCHANGED threads
      BY <2>4 DEF RequestRestart, k
    <3>3. held' \in [Keys -> LeaseType]
      BY <3>a, <3>1, <3>2
    <3>4. threads' \in [Threads -> ThreadType \cup {Idle}]
      BY <3>b, <3>1 DEF Goto, ThreadType
    <3>5. reply' \in ReplyType \cup {NoReply}
      BY <3>b, <3>1 DEF Answer, ReplyType
    <3> QED BY <3>a, <3>3, <3>4, <3>5
  <2>5. ASSUME NEW t \in Threads, NEW a \in Agents, DenySelfRestart(t, a)
        PROVE  TypeOK'
    <3>1. restart_key(a) \in Keys
      BY DEF Keys, RestartKeys
    <3> QED BY <2>5, <3>1 DEF DenySelfRestart, Answer, ReplyType
  <2>6. ASSUME NEW t \in Threads, threads[t].pc # "idle"
        PROVE  /\ threads[t] \in ThreadType
               /\ held[threads[t].key].holder \in Agents \cup {NoAgent}
    BY <2>6 DEF ThreadType, Idle, LeaseType
  <2>7. ASSUME NEW t \in Threads, AnswerGranted(t)
        PROVE  TypeOK'
    BY <2>6, <2>7 DEF AnswerGranted, Answer, Hangup, ThreadType, ReplyType
  <2>8. ASSUME NEW t \in Threads, AnswerWaiting(t)
        PROVE  TypeOK'
    BY <2>6, <2>8 DEF AnswerWaiting, Answer, Hangup, ThreadType, ReplyType
  <2>9. ASSUME NEW t \in Threads, AnswerDenied(t)
        PROVE  TypeOK'
    BY <2>6, <2>9 DEF AnswerDenied, Answer, Hangup, ThreadType, ReplyType
  <2>10. ASSUME NEW t \in Threads, HardKill(t)
         PROVE  TypeOK'
    <3>1. threads[t] \in ThreadType
      BY <2>6, <2>10 DEF HardKill
    <3>2. [threads[t] EXCEPT !.pc = "drain"] \in ThreadType
      BY <3>1 DEF ThreadType
    <3> QED BY <2>10, <3>2 DEF HardKill
  <2>11. ASSUME NEW t \in Threads, DrainRestart(t)
         PROVE  TypeOK'
    <3>1. threads[t] \in ThreadType
      BY <2>6, <2>11 DEF DrainRestart
    <3>2. drain(held[threads[t].key]) \in LeaseType
      BY DEF drain, Free, LeaseType
    <3>3. held' \in [Keys -> LeaseType]
      BY <2>11, <3>1, <3>2 DEF DrainRestart, ThreadType
    <3> QED BY <2>11, <3>1, <3>3 DEF DrainRestart, Answer, CallsOf, ThreadType, ReplyType
  <2>12. ASSUME NEW a \in Agents, RegisterHandle(a) \/ DropHandle(a)
         PROVE  TypeOK'
    BY <2>12 DEF RegisterHandle, DropHandle
  <2>13. CASE Cycle
    BY <2>13 DEF Cycle, Free, LeaseType
  <2>14. CASE UNCHANGED vars
    BY <2>14 DEF vars
  <2> QED
    BY <2>1, <2>2, <2>3, <2>4, <2>5, <2>7, <2>8, <2>9, <2>10, <2>11, <2>12,
       <2>13, <2>14 DEF Next, Step
<1> QED BY <1>1, <1>2, PTL DEF Spec

----------------------------------------------------------------------------
(* The table. *)

WellFormed(lease) ==
    /\ lease.holder = NoAgent => lease.waiters = <<>>
    /\ lease.holder \notin Waiting(lease)
    /\ \A i, j \in 1..Len(lease.waiters) : lease.waiters[i] = lease.waiters[j] => i = j

(* request keeps an entry well formed: the caller is appended only when it is
   neither the holder nor queued already. *)
LEMMA RequestWellFormed ==
    ASSUME NEW lease \in LeaseType, WellFormed(lease), NEW a \in Agents
    PROVE  /\ WellFormed(request(lease, a))
           /\ request(lease, a).holder \in {lease.holder, a}
           /\ lease.holder # NoAgent => request(lease, a).holder = lease.holder
           /\ lease.holder = NoAgent => request(lease, a).holder = a
           /\ Waiting(lease) \subseteq Waiting(request(lease, a))
           /\ a \in {request(lease, a).holder} \cup Waiting(request(lease, a))
<1> USE LeaseConstants DEF LeaseConstants
<1>1. CASE lease.holder = NoAgent
  <2>1. request(lease, a) = [holder |-> a, waiters |-> <<>>]
    BY <1>1 DEF request
  <2>2. Waiting(lease) = {}
    BY <1>1 DEF WellFormed, Waiting
  <2> QED BY <1>1, <2>1, <2>2 DEF WellFormed, Waiting
<1>2. CASE lease.holder # NoAgent /\ (lease.holder = a \/ a \in Waiting(lease))
  BY <1>2 DEF request
<1>3. CASE lease.holder # NoAgent /\ lease.holder # a /\ a \notin Waiting(lease)
  <2> DEFINE w == lease.waiters
             new == Append(w, a)
  <2>1. request(lease, a) = [lease EXCEPT !.waiters = new]
    BY <1>3 DEF request
  <2>2. w \in Seq(Agents) /\ Len(w) \in Nat /\ Len(new) = Len(w) + 1
    BY DEF LeaseType
  <2>3. \A i \in 1..Len(w) : new[i] = w[i] /\ w[i] # a /\ w[i] # lease.holder
    BY <1>3, <2>2 DEF Waiting, WellFormed
  <2>4. new[Len(w) + 1] = a
    BY <2>2
  <2>5. request(lease, a).holder = lease.holder /\ request(lease, a).waiters = new
    BY <2>1 DEF LeaseType
  <2>6. \A i, j \in 1..Len(new) : new[i] = new[j] => i = j
    <3> SUFFICES ASSUME NEW i \in 1..Len(new), NEW j \in 1..Len(new), new[i] = new[j]
                 PROVE  i = j
      OBVIOUS
    <3>1. (i \in 1..Len(w) \/ i = Len(w) + 1) /\ (j \in 1..Len(w) \/ j = Len(w) + 1)
      BY <2>2
    <3> HIDE DEF new
    <3> QED BY <3>1, <2>2, <2>3, <2>4 DEF WellFormed
  <2>7. lease.holder \notin Waiting(request(lease, a))
    <3> SUFFICES ASSUME NEW i \in 1..Len(new) PROVE new[i] # lease.holder
      BY <2>5 DEF Waiting
    <3>1. i \in 1..Len(w) \/ i = Len(w) + 1
      BY <2>2
    <3> HIDE DEF new
    <3> QED BY <3>1, <2>3, <2>4, <1>3
  <2>8. Waiting(lease) \subseteq Waiting(request(lease, a)) /\ a \in Waiting(request(lease, a))
    <3> HIDE DEF new
    <3> QED BY <2>2, <2>3, <2>4, <2>5 DEF Waiting
  <2> HIDE DEF new
  <2> QED BY <1>3, <2>5, <2>6, <2>7, <2>8 DEF WellFormed
<1> QED BY <1>1, <1>2, <1>3

(* release keeps an entry well formed, and nobody but its holder and the
   promoted head leaves the queue. *)
LEMMA ReleaseWellFormed ==
    ASSUME NEW lease \in LeaseType, WellFormed(lease)
    PROVE  /\ WellFormed(release(lease))
           /\ Waiting(lease) \subseteq {release(lease).holder} \cup Waiting(release(lease))
<1> USE LeaseConstants DEF LeaseConstants
<1> DEFINE w == lease.waiters
           new == Tail(w)
<1>0. w \in Seq(Agents) /\ Len(w) \in Nat
  BY DEF LeaseType
<1>1. CASE w = <<>>
  BY <1>1 DEF release, Free, WellFormed, Waiting
<1>2. CASE w # <<>>
  <2>1. release(lease).holder = w[1] /\ release(lease).waiters = new
    BY <1>2 DEF release
  <2>2. Len(new) = Len(w) - 1 /\ (\A i \in 1..Len(new) : new[i] = w[i + 1]) /\ Len(w) > 0
    BY <1>0, <1>2
  <2>3. w[1] \in Agents
    BY <1>0, <2>2
  <2> HIDE DEF new
  <2>4. \A i, j \in 1..Len(new) : new[i] = new[j] => i = j
    BY <1>0, <2>2 DEF WellFormed
  <2>5. w[1] \notin Waiting(release(lease))
    BY <1>0, <2>1, <2>2 DEF WellFormed, Waiting
  <2>6. Waiting(lease) \subseteq {w[1]} \cup Waiting(release(lease))
    <3> SUFFICES ASSUME NEW i \in 1..Len(w), i # 1
                 PROVE  \E j \in 1..Len(new) : new[j] = w[i]
      BY <2>1 DEF Waiting
    <3>1. i - 1 \in 1..Len(new) /\ new[i - 1] = w[i]
      BY <1>0, <2>2
    <3> QED BY <3>1
  <2> QED BY <2>1, <2>3, <2>4, <2>5, <2>6 DEF WellFormed
<1> QED BY <1>1, <1>2

(* Every step leaves each entry alone, frees it, or applies request or release
   to it. *)
EntrySteps ==
    \A k \in Keys :
        \/ held'[k] \in {held[k], Free}
        \/ \E a \in Agents : held'[k] = request(held[k], a)
        \/ held'[k] = release(held[k])

(* That is all any verb, thread step or daemon restart does to the table. *)
LEMMA StepsOfEntries == TypeOK /\ [Next]_vars => EntrySteps
<1> SUFFICES ASSUME TypeOK, [Next]_vars PROVE EntrySteps
  OBVIOUS
<1> USE DEF TypeOK
<1>1. ASSUME UNCHANGED held PROVE EntrySteps
  BY <1>1 DEF EntrySteps
<1>2. ASSUME NEW a \in Agents, NEW k \in Keys, held' = [held EXCEPT ![k] = request(@, a)]
      PROVE  EntrySteps
  BY <1>2 DEF EntrySteps
<1>3. ASSUME NEW t \in Threads, NEW a \in Agents, NEW k \in Resources,
             \/ RequestLease(t, a, k) \/ ReleaseLease(t, a, k) \/ ReleaseNotHolder(t, a, k)
      PROVE  EntrySteps
  <2>1. k \in Keys
    BY DEF Keys
  <2>2. CASE RequestLease(t, a, k)
    BY <1>2, <2>1, <2>2 DEF RequestLease
  <2>3. CASE ReleaseLease(t, a, k)
    BY <2>1, <2>3 DEF ReleaseLease, EntrySteps
  <2>4. CASE ReleaseNotHolder(t, a, k)
    BY <1>1, <2>4 DEF ReleaseNotHolder
  <2> QED BY <1>3, <2>2, <2>3, <2>4
<1>4. ASSUME NEW t \in Threads, NEW a \in Agents, NEW b \in Agents, RequestRestart(t, a, b)
      PROVE  EntrySteps
  <2>1. restart_key(b) \in Keys
    BY DEF Keys, RestartKeys
  <2>2. held' = [held EXCEPT ![restart_key(b)] = request(@, a)]
    BY <1>4 DEF RequestRestart
  <2> QED BY <1>2, <2>1, <2>2
<1>5. ASSUME NEW t \in Threads, NEW a \in Agents, DenySelfRestart(t, a)
      PROVE  EntrySteps
  BY <1>1, <1>5 DEF DenySelfRestart
<1>6. ASSUME NEW t \in Threads, Step(t) PROVE EntrySteps
  <2>1. CASE DrainRestart(t)
    BY <2>1 DEF DrainRestart, drain, EntrySteps
  <2>2. CASE ~DrainRestart(t)
    BY <1>1, <1>6, <2>2 DEF Step, AnswerGranted, AnswerWaiting, AnswerDenied, HardKill
  <2> QED BY <2>1, <2>2
<1>7. ASSUME NEW a \in Agents, RegisterHandle(a) \/ DropHandle(a) PROVE EntrySteps
  BY <1>1, <1>7 DEF RegisterHandle, DropHandle
<1>8. CASE Cycle
  BY <1>8 DEF Cycle, EntrySteps
<1>9. CASE UNCHANGED vars
  BY <1>1, <1>9 DEF vars
<1> QED BY <1>3, <1>4, <1>5, <1>6, <1>7, <1>8, <1>9 DEF Next

(* The lease table is well formed in every reachable state, for any number of
   agents, keys and connections: no waiters on a free key, no holder behind
   itself, nobody queued twice. *)
THEOREM TableCorrect == Spec => []TableWellFormed
<1> USE LeaseConstants DEF LeaseConstants
<1>0. TableWellFormed <=> \A k \in Keys : WellFormed(held[k])
  BY DEF TableWellFormed, WellFormed
<1>1. Init => TableWellFormed
  BY DEF Init, TableWellFormed, Free, Waiting
<1>2. TypeOK /\ TableWellFormed /\ [Next]_vars => TableWellFormed'
  <2> SUFFICES ASSUME TypeOK, TableWellFormed, [Next]_vars, NEW k \in Keys
               PROVE  WellFormed(held'[k])
    BY DEF TableWellFormed, WellFormed
  <2>1. EntrySteps
    BY StepsOfEntries
  <2>2. held[k] \in LeaseType /\ WellFormed(held[k])
    BY <1>0 DEF TypeOK
  <2>3. WellFormed(Free)
    BY DEF WellFormed, Free, Waiting
  <2> QED BY <2>1, <2>2, <2>3, RequestWellFormed, ReleaseWellFormed DEF EntrySteps
<1> QED BY <1>1, <1>2, TypeCorrect, PTL DEF Spec

(* request never moves a holder away and only adds to the end of the queue. *)
LEMMA RequestKeepsPlaces ==
    ASSUME NEW lease \in LeaseType, lease.holder # NoAgent, NEW a \in Agents
    PROVE  /\ request(lease, a).holder = lease.holder
           /\ SubSeq(request(lease, a).waiters, 1, Len(lease.waiters)) = lease.waiters
<1> DEFINE w == lease.waiters
<1>1. w \in Seq(Agents) /\ Len(w) \in Nat
  BY DEF LeaseType
<1>2. CASE request(lease, a) = lease
  BY <1>1, <1>2
<1>3. CASE request(lease, a) = [lease EXCEPT !.waiters = Append(@, a)]
  <2>1. request(lease, a).holder = lease.holder /\ request(lease, a).waiters = Append(w, a)
    BY <1>3 DEF LeaseType
  <2>2. SubSeq(Append(w, a), 1, Len(w)) = w
    BY <1>1
  <2> QED BY <2>1, <2>2
<1> QED BY <1>2, <1>3 DEF request

(* release promotes the head of the queue and keeps the rest of it. *)
LEMMA ReleasePromotesHead ==
    ASSUME NEW lease \in LeaseType, release(lease).holder # NoAgent
    PROVE  lease.waiters = <<release(lease).holder>> \o release(lease).waiters
<1> DEFINE w == lease.waiters
<1>1. w \in Seq(Agents) /\ w # <<>>
  BY DEF LeaseType, release, Free
<1>2. release(lease).holder = Head(w) /\ release(lease).waiters = Tail(w)
  BY <1>1 DEF release
<1>3. w = <<Head(w)>> \o Tail(w)
  BY <1>1, HeadTailProperties
<1> QED BY <1>2, <1>3

(* Hand-over is first come, first served, whatever verbs are in flight: no
   assumption about how many calls an agent has open. *)
THEOREM HandOverIsFifo == Spec => FifoHandOver
<1>1. TypeOK /\ TableWellFormed /\ [Next]_vars =>
        [\A k \in Keys :
           LET old == held[k]
               new == held'[k]
           IN  (old.holder # NoAgent /\ new.holder # NoAgent) =>
                 IF new.holder = old.holder
                   THEN SubSeq(new.waiters, 1, Len(old.waiters)) = old.waiters
                   ELSE old.waiters = <<new.holder>> \o new.waiters]_vars
  <2> SUFFICES ASSUME TypeOK, TableWellFormed, [Next]_vars, NEW k \in Keys,
                      held[k].holder # NoAgent, held'[k].holder # NoAgent
               PROVE  IF held'[k].holder = held[k].holder
                        THEN SubSeq(held'[k].waiters, 1, Len(held[k].waiters)) = held[k].waiters
                        ELSE held[k].waiters = <<held'[k].holder>> \o held'[k].waiters
    OBVIOUS
  <2> DEFINE old == held[k]
             new == held'[k]
  <2>1. /\ old \in LeaseType /\ old.waiters \in Seq(Agents)
        /\ old.holder \notin Waiting(old)
    BY DEF TypeOK, LeaseType, TableWellFormed
  <2>2. \/ new \in {old, Free}
        \/ \E a \in Agents : new = request(old, a)
        \/ new = release(old)
    BY StepsOfEntries DEF EntrySteps
  <2>3. old.holder # NoAgent /\ new.holder # NoAgent
    OBVIOUS
  <2> HIDE DEF old, new
  <2>4. CASE new = old
    BY <2>1, <2>4 DEF old, new
  <2>5. CASE new = Free
    BY <2>3, <2>5 DEF Free
  <2>6. ASSUME NEW a \in Agents, new = request(old, a)
        PROVE  new.holder = old.holder /\ SubSeq(new.waiters, 1, Len(old.waiters)) = old.waiters
    BY <2>1, <2>3, <2>6, RequestKeepsPlaces
  <2>7. CASE new = release(old)
    <3>1. old.waiters = <<new.holder>> \o new.waiters
      BY <2>1, <2>3, <2>7, ReleasePromotesHead
    <3>2. old.waiters # <<>> /\ new.holder = old.waiters[1]
      BY <2>1, <2>3, <2>7 DEF release, Free
    <3>3. new.holder # old.holder
      BY <2>1, <3>2 DEF Waiting
    <3> QED BY <3>1, <3>3 DEF old, new
  <2> QED BY <2>2, <2>4, <2>5, <2>6, <2>7 DEF old, new
<1> QED BY <1>1, TypeCorrect, TableCorrect, PTL DEF Spec, FifoHandOver

----------------------------------------------------------------------------
(* Restarts and replies, however many calls an agent has in flight. *)

(* Lease calls carry resources, restarts carry restart keys. *)
KeysByKind ==
    \A t \in Threads :
        /\ threads[t].pc \in {"granted", "waiting"} => threads[t].key \in Resources
        /\ threads[t].pc \in {"kill", "drain"} => threads[t].key \in RestartKeys

(* What a thread between its two lock sections knows of its key. *)
Knows(thread, lease) ==
    /\ thread.pc \in {"granted", "kill", "drain"} => lease.holder = thread.agent
    /\ thread.pc = "waiting" => thread.agent \in {lease.holder} \cup Waiting(lease)

InFlight == \A t \in Threads \ crossed : Knows(threads[t], held[threads[t].key])

LeaseInv ==
    /\ TypeOK /\ TableWellFormed /\ KeysByKind
    /\ InFlight /\ NoPhantomRestartHolder

(* What the step lemmas use of LeaseInv. *)
LEMMA LeaseFacts ==
    ASSUME LeaseInv
    PROVE  /\ \A k \in Keys : held[k] \in LeaseType /\ WellFormed(held[k])
           /\ \A t \in Threads : \/ threads[t] = Idle
                                 \/ threads[t] \in ThreadType /\ threads[t].pc # "idle"
           /\ Idle.pc = "idle" /\ Idle.agent = NoAgent /\ NoAgent \notin Agents
           /\ Resources \subseteq Keys /\ RestartKeys \subseteq Keys
           /\ Resources \cap RestartKeys = {}
  BY LeaseConstants DEF LeaseInv, TypeOK, TableWellFormed, WellFormed, Idle, ThreadType,
                        LeaseConstants, Keys

(* A step that leaves the table alone and takes at most one thread to the end
   of its call keeps the invariant. *)
LEMMA HangupKeeps ==
    ASSUME LeaseInv, NEW t \in Threads, threads[t].pc \notin {"kill", "drain"},
           Hangup(t) \/ UNCHANGED <<threads, crossed>>, UNCHANGED held, TypeOK',
           TableWellFormed'
    PROVE  LeaseInv'
<1>1. \A u \in Threads : /\ threads'[u] \in {threads[u], Idle}
                         /\ u \in crossed \ crossed' => threads'[u] = Idle
  BY DEF LeaseInv, TypeOK, Hangup
<1>2. \A u \in Threads : threads[u].pc \in {"kill", "drain"} => threads'[u] = threads[u]
  BY DEF LeaseInv, TypeOK, Hangup
<1>3. KeysByKind' /\ InFlight'
  BY <1>1, LeaseFacts DEF LeaseInv, KeysByKind, InFlight, Knows
<1>4. NoPhantomRestartHolder'
  BY <1>2 DEF LeaseInv, NoPhantomRestartHolder
<1> QED BY <1>3, <1>4 DEF LeaseInv

(* A new call is written into the registers of a thread that was idle. *)
LEMMA AcceptKeeps ==
    ASSUME LeaseInv, NEW t \in Threads, NEW a, NEW k, NEW pc,
           Accept(t), Goto(t, pc, a, k)
    PROVE  /\ threads'[t] = [pc |-> pc, agent |-> a, key |-> k]
           /\ \A u \in Threads \ {t} : threads'[u] = threads[u]
           /\ threads[t] = Idle
  BY DEF LeaseInv, TypeOK, Goto, Accept

(* Somebody's request leaves what every other thread knows of its key. *)
LEMMA RequestKeepsInFlight ==
    ASSUME LeaseInv, NEW k \in Keys, NEW a \in Agents, NEW u \in Threads \ crossed,
           held' = [held EXCEPT ![k] = request(@, a)], threads'[u] = threads[u]
    PROVE  Knows(threads'[u], held'[threads'[u].key])
<1> DEFINE j == threads[u].key
<1>1. CASE threads[u] = Idle
  BY <1>1, LeaseFacts DEF Knows
<1>2. CASE threads[u] \in ThreadType
  <2>1. j \in Keys /\ threads[u].agent \in Agents
    BY <1>2 DEF ThreadType
  <2>2. held[j] \in LeaseType /\ WellFormed(held[j])
    BY <2>1, LeaseFacts
  <2>3. CASE j # k
    <3>1. held'[j] = held[j]
      BY <2>1, <2>3 DEF LeaseInv, TypeOK
    <3> QED BY <3>1 DEF LeaseInv, InFlight, Knows
  <2>4. CASE j = k
    <3>1. held'[j] = request(held[j], a)
      BY <2>1, <2>4 DEF LeaseInv, TypeOK
    <3>2. held[j].holder = NoAgent => Waiting(held[j]) = {}
      BY <2>2 DEF WellFormed, Waiting
    <3>3. threads[u].pc \in {"granted", "kill", "drain", "waiting"} => held[j].holder # NoAgent
      BY <2>1, <3>2, LeaseFacts DEF LeaseInv, InFlight, Knows
    <3> QED BY <2>2, <3>1, <3>3, RequestWellFormed DEF LeaseInv, InFlight, Knows
  <2> QED BY <2>3, <2>4
<1> QED BY <1>1, <1>2, LeaseFacts

(* No step ends the invariant: the second lock section of every verb finds what
   its first one decided, unless the agent itself gave it up. *)
LEMMA LeaseInvNext ==
    ASSUME LeaseInv, [Next]_vars, TypeOK', TableWellFormed'
    PROVE  LeaseInv'
<1>1. ASSUME NEW t \in Threads, NEW a \in Agents, NEW k \in Resources, RequestLease(t, a, k)
      PROVE  LeaseInv'
  <2> DEFINE pc == IF held'[k].holder = a THEN "granted" ELSE "waiting"
  <2>1. k \in Keys /\ k \notin RestartKeys
    BY LeaseFacts
  <2>2. /\ Accept(t) /\ Goto(t, pc, a, k) /\ held' = [held EXCEPT ![k] = request(@, a)]
        /\ UNCHANGED crossed
    BY <1>1 DEF RequestLease
  <2> HIDE DEF pc
  <2>3. /\ threads'[t] = [pc |-> pc, agent |-> a, key |-> k] /\ threads[t] = Idle
        /\ \A u \in Threads \ {t} : threads'[u] = threads[u]
    BY <2>2, AcceptKeeps
  <2>4. held'[k] = request(held[k], a) /\ \A j \in RestartKeys : held'[j] = held[j]
    BY <2>1, <2>2, LeaseFacts DEF LeaseInv, TypeOK
  <2>5. KeysByKind'
    BY <2>3, LeaseFacts DEF LeaseInv, KeysByKind, pc
  <2>6. a \in {held'[k].holder} \cup Waiting(held'[k])
    BY <2>1, <2>4, LeaseFacts, RequestWellFormed
  <2>7. InFlight'
    <3>1. Knows(threads'[t], held'[k])
      BY <2>3, <2>6 DEF Knows, pc
    <3>2. \A u \in Threads \ (crossed \cup {t}) : Knows(threads'[u], held'[threads'[u].key])
      BY <2>1, <2>2, <2>3, RequestKeepsInFlight
    <3> QED BY <2>2, <2>3, <3>1, <3>2 DEF InFlight
  <2>8. NoPhantomRestartHolder'
    BY <2>3, <2>4, LeaseFacts DEF LeaseInv, NoPhantomRestartHolder
  <2> QED BY <2>5, <2>7, <2>8 DEF LeaseInv
<1>2. ASSUME NEW t \in Threads, NEW a \in Agents, NEW k \in Resources, ReleaseLease(t, a, k)
      PROVE  LeaseInv'
  <2>1. k \in Keys /\ k \notin RestartKeys
    BY LeaseFacts
  <2>2. /\ held'[k] = release(held[k]) /\ held[k].holder = a
        /\ \A j \in Keys \ {k} : held'[j] = held[j]
    BY <1>2, <2>1 DEF ReleaseLease, LeaseInv, TypeOK
  <2>3. UNCHANGED threads /\ crossed' = crossed \cup CallsOf(a, k)
    BY <1>2 DEF ReleaseLease
  <2>4. Waiting(held[k]) \subseteq {held'[k].holder} \cup Waiting(held'[k])
    BY <2>1, <2>2, LeaseFacts, ReleaseWellFormed
  <2>5. InFlight'
    <3> SUFFICES ASSUME NEW u \in Threads \ crossed'
                 PROVE  Knows(threads[u], held'[threads[u].key])
      BY <2>3 DEF InFlight, Knows
    <3>1. CASE threads[u] = Idle
      BY <3>1, LeaseFacts DEF Knows
    <3>2. CASE threads[u] \in ThreadType /\ threads[u].key = k
      <4>1. threads[u].agent # a /\ u \notin crossed
        BY <2>3, <3>2 DEF CallsOf
      <4> QED BY <2>2, <2>4, <3>2, <4>1 DEF LeaseInv, InFlight, Knows
    <3>3. CASE threads[u] \in ThreadType /\ threads[u].key # k
      <4>1. held'[threads[u].key] = held[threads[u].key] /\ u \notin crossed
        BY <2>2, <2>3, <3>3 DEF ThreadType
      <4> QED BY <4>1 DEF LeaseInv, InFlight, Knows
    <3> QED BY <3>1, <3>2, <3>3, LeaseFacts
  <2>6. KeysByKind'
    BY <2>3 DEF LeaseInv, KeysByKind
  <2>7. NoPhantomRestartHolder'
    BY <2>1, <2>2, <2>3, LeaseFacts DEF LeaseInv, NoPhantomRestartHolder
  <2> QED BY <2>5, <2>6, <2>7 DEF LeaseInv
<1>3. ASSUME NEW t \in Threads, NEW a \in Agents, NEW k \in Resources,
             ReleaseNotHolder(t, a, k)
      PROVE  LeaseInv'
  <2>1. Accept(t) /\ Goto(t, "denied", a, k) /\ UNCHANGED <<held, crossed>>
    BY <1>3 DEF ReleaseNotHolder
  <2>2. /\ threads'[t] = [pc |-> "denied", agent |-> a, key |-> k] /\ threads[t] = Idle
        /\ \A u \in Threads \ {t} : threads'[u] = threads[u]
    BY <2>1, AcceptKeeps
  <2>3. KeysByKind' /\ InFlight'
    BY <2>1, <2>2 DEF LeaseInv, KeysByKind, InFlight, Knows
  <2>4. NoPhantomRestartHolder'
    BY <2>1, <2>2, LeaseFacts DEF LeaseInv, NoPhantomRestartHolder
  <2> QED BY <2>3, <2>4 DEF LeaseInv
<1>4. ASSUME NEW t \in Threads, NEW a \in Agents, NEW b \in Agents, RequestRestart(t, a, b)
      PROVE  LeaseInv'
  <2> DEFINE k == restart_key(b)
  <2>1. k \in Keys /\ k \in RestartKeys
    BY DEF RestartKeys, Keys
  <2>2. /\ Accept(t) /\ held' = [held EXCEPT ![k] = request(@, a)] /\ UNCHANGED crossed
        /\ IF held'[k].holder = a
             THEN Goto(t, "kill", a, k)
             ELSE UNCHANGED threads
    BY <1>4 DEF RequestRestart
  <2> HIDE DEF k
  <2>3. held'[k] = request(held[k], a) /\ \A j \in Keys \ {k} : held'[j] = held[j]
    BY <2>1, <2>2 DEF LeaseInv, TypeOK
  <2>4. CASE held'[k].holder = a
    <3>1. /\ threads'[t] = [pc |-> "kill", agent |-> a, key |-> k] /\ threads[t] = Idle
          /\ \A u \in Threads \ {t} : threads'[u] = threads[u]
      BY <2>2, <2>4, AcceptKeeps
    <3>2. KeysByKind'
      BY <2>1, <3>1 DEF LeaseInv, KeysByKind
    <3>3. InFlight'
      <4>1. Knows(threads'[t], held'[k])
        BY <2>4, <3>1 DEF Knows
      <4>2. \A u \in Threads \ (crossed \cup {t}) : Knows(threads'[u], held'[threads'[u].key])
        BY <2>1, <2>2, <3>1, RequestKeepsInFlight
      <4> QED BY <2>2, <3>1, <4>1, <4>2 DEF InFlight
    <3>4. NoPhantomRestartHolder'
      <4> SUFFICES ASSUME NEW j \in RestartKeys, held'[j].holder # NoAgent
                   PROVE  \E u \in Threads : /\ threads'[u].pc \in {"kill", "drain"}
                                             /\ threads'[u].agent = held'[j].holder
                                             /\ threads'[u].key = j
        BY DEF NoPhantomRestartHolder
      <4>1. CASE j = k
        BY <2>4, <3>1, <4>1
      <4>2. CASE j # k
        BY <2>3, <3>1, <4>2, LeaseFacts DEF LeaseInv, NoPhantomRestartHolder
      <4> QED BY <4>1, <4>2
    <3> QED BY <3>2, <3>3, <3>4 DEF LeaseInv
  <2>5. CASE held'[k].holder # a
    <3>1. UNCHANGED threads
      BY <2>2, <2>5
    <3>2. held'[k].holder = held[k].holder
      BY <2>1, <2>3, <2>5, LeaseFacts, RequestWellFormed
    <3>3. InFlight'
      BY <2>1, <2>2, <3>1, RequestKeepsInFlight DEF InFlight
    <3>4. NoPhantomRestartHolder'
      BY <2>3, <3>1, <3>2, LeaseFacts DEF LeaseInv, NoPhantomRestartHolder
    <3>5. KeysByKind'
      BY <3>1 DEF LeaseInv, KeysByKind
    <3> QED BY <3>3, <3>4, <3>5 DEF LeaseInv
  <2> QED BY <2>4, <2>5
<1>5. ASSUME NEW t \in Threads, NEW a \in Agents, DenySelfRestart(t, a)
      PROVE  LeaseInv'
  <2>1. UNCHANGED <<held, threads, crossed>> /\ threads[t] = Idle
    BY <1>5 DEF DenySelfRestart, Accept
  <2> QED BY <2>1, HangupKeeps, LeaseFacts
<1>6. ASSUME NEW t \in Threads, AnswerGranted(t) \/ AnswerWaiting(t) \/ AnswerDenied(t)
      PROVE  LeaseInv'
  <2>1. UNCHANGED held /\ Hangup(t) /\ threads[t].pc \notin {"kill", "drain"}
    BY <1>6 DEF AnswerGranted, AnswerWaiting, AnswerDenied
  <2> QED BY <2>1, HangupKeeps
<1>7. ASSUME NEW t \in Threads, HardKill(t) PROVE LeaseInv'
  <2>1. /\ threads[t] \in ThreadType
        /\ threads'[t] = [threads[t] EXCEPT !.pc = "drain"] /\ threads[t].pc = "kill"
        /\ UNCHANGED <<held, crossed>> /\ \A u \in Threads \ {t} : threads'[u] = threads[u]
    BY <1>7, LeaseFacts DEF HardKill, LeaseInv, TypeOK
  <2>2. /\ threads'[t].pc = "drain" /\ threads'[t].agent = threads[t].agent
        /\ threads'[t].key = threads[t].key
    BY <2>1 DEF ThreadType
  <2>3. \A u \in Threads : threads'[u].agent = threads[u].agent /\ threads'[u].key = threads[u].key
    BY <2>1, <2>2
  <2>4. KeysByKind'
    BY <2>1, <2>2 DEF LeaseInv, KeysByKind
  <2>5. InFlight'
    <3>1. t \notin crossed => Knows(threads'[t], held[threads[t].key])
      BY <2>1, <2>2 DEF LeaseInv, InFlight, Knows
    <3> QED BY <2>1, <2>3, <3>1 DEF LeaseInv, InFlight
  <2>6. NoPhantomRestartHolder'
    <3>1. \A u \in Threads : threads[u].pc \in {"kill", "drain"} =>
                                  threads'[u].pc \in {"kill", "drain"}
      BY <2>1, <2>2
    <3> QED BY <2>1, <2>3, <3>1 DEF LeaseInv, NoPhantomRestartHolder
  <2> QED BY <2>4, <2>5, <2>6 DEF LeaseInv
<1>8. ASSUME NEW t \in Threads, DrainRestart(t) PROVE LeaseInv'
  <2> DEFINE a == threads[t].agent
             k == threads[t].key
  <2>1. threads[t].pc = "drain" /\ threads[t] \in ThreadType
    BY <1>8, LeaseFacts DEF DrainRestart
  <2>2. k \in RestartKeys /\ k \in Keys /\ k \notin Resources /\ a \in Agents
    BY <2>1, LeaseFacts DEF LeaseInv, KeysByKind, ThreadType
  <2>3. /\ held[k].holder = a => held'[k] = Free
        /\ held[k].holder # a => held'[k] = held[k]
        /\ \A j \in Keys \ {k} : held'[j] = held[j]
    BY <1>8, <2>2 DEF DrainRestart, drain, LeaseInv, TypeOK
  <2>4. threads'[t] = Idle /\ \A u \in Threads \ {t} : threads'[u] = threads[u]
    BY <1>8 DEF DrainRestart, LeaseInv, TypeOK
  <2>5. crossed' = (crossed \cup CallsOf(a, k)) \ {t}
    BY <1>8 DEF DrainRestart
  <2>6. KeysByKind'
    BY <2>4, LeaseFacts DEF LeaseInv, KeysByKind
  <2>7. InFlight'
    <3> SUFFICES ASSUME NEW u \in Threads \ crossed'
                 PROVE  Knows(threads'[u], held'[threads'[u].key])
      BY DEF InFlight
    <3>1. CASE threads'[u] = Idle
      BY <3>1, LeaseFacts DEF Knows
    <3>2. CASE threads[u] \in ThreadType /\ threads'[u] = threads[u] /\ threads[u].key # k /\ u # t
      <4>1. held'[threads[u].key] = held[threads[u].key] /\ u \notin crossed
        BY <2>3, <2>5, <3>2 DEF ThreadType
      <4> QED BY <3>2, <4>1 DEF LeaseInv, InFlight, Knows
    <3>3. CASE threads[u] \in ThreadType /\ threads'[u] = threads[u] /\ threads[u].key = k /\ u # t
      <4>1. threads[u].agent # a /\ u \notin crossed
        BY <2>5, <3>3 DEF CallsOf
      <4>2. threads[u].pc \in {"denied", "kill", "drain"}
        BY <2>2, <3>3 DEF LeaseInv, KeysByKind, ThreadType
      <4>3. threads[u].pc \in {"kill", "drain"} => held[k].holder # a
        BY <3>3, <4>1 DEF LeaseInv, InFlight, Knows
      <4> QED BY <2>3, <3>3, <4>1, <4>2, <4>3 DEF LeaseInv, InFlight, Knows
    <3> QED BY <2>4, <3>1, <3>2, <3>3, LeaseFacts
  <2>8. NoPhantomRestartHolder'
    <3> SUFFICES ASSUME NEW j \in RestartKeys, held'[j].holder # NoAgent
                 PROVE  \E u \in Threads : /\ threads'[u].pc \in {"kill", "drain"}
                                           /\ threads'[u].agent = held'[j].holder
                                           /\ threads'[u].key = j
      BY DEF NoPhantomRestartHolder
    <3>1. held'[j] = held[j] /\ (j = k => held[j].holder # a)
      BY <2>3, LeaseFacts DEF Free
    <3>2. PICK u \in Threads : /\ threads[u].pc \in {"kill", "drain"}
                               /\ threads[u].agent = held[j].holder
                               /\ threads[u].key = j
      BY <3>1 DEF LeaseInv, NoPhantomRestartHolder
    <3>3. u # t
      BY <3>1, <3>2
    <3> QED BY <2>4, <3>1, <3>2, <3>3
  <2> QED BY <2>6, <2>7, <2>8 DEF LeaseInv
<1>9. ASSUME UNCHANGED <<held, threads, crossed>>
      PROVE  LeaseInv'
  BY <1>9 DEF LeaseInv, KeysByKind, InFlight, Knows, NoPhantomRestartHolder
<1>10. ASSUME NEW a \in Agents, RegisterHandle(a) \/ DropHandle(a) PROVE LeaseInv'
  BY <1>9, <1>10 DEF RegisterHandle, DropHandle
<1>11. CASE Cycle
  <2>1. \A u \in Threads : threads'[u] = Idle
    BY <1>11 DEF Cycle
  <2>2. \A k \in Keys : held'[k].holder = NoAgent
    BY <1>11 DEF Cycle, Free
  <2> QED BY <2>1, <2>2, LeaseFacts
          DEF LeaseInv, KeysByKind, InFlight, Knows, NoPhantomRestartHolder
<1>12. CASE UNCHANGED vars
  BY <1>9, <1>12 DEF vars
<1> QED
  BY <1>1, <1>2, <1>3, <1>4, <1>5, <1>6, <1>7, <1>8, <1>10, <1>11, <1>12 DEF Next, Step

(* The inductive invariant holds of every behaviour. *)
LEMMA LeaseInvAlways == Spec => []LeaseInv
<1>1. Init => LeaseInv
  <2> SUFFICES ASSUME Init PROVE LeaseInv
    OBVIOUS
  <2>1. TypeOK
    BY LeaseConstants DEF Init, TypeOK, Free, Idle, NoReply, LeaseType, LeaseConstants
  <2>2. TableWellFormed
    BY LeaseConstants DEF Init, TableWellFormed, Free, Waiting, LeaseConstants
  <2>3. \A t \in Threads : threads[t] = Idle /\ threads[t].pc = "idle"
    BY DEF Init, Idle
  <2>4. KeysByKind /\ InFlight
    BY <2>3 DEF KeysByKind, InFlight, Knows
  <2>5. NoPhantomRestartHolder
    BY DEF Init, Free, Keys, NoPhantomRestartHolder
  <2> QED BY <2>1, <2>2, <2>4, <2>5 DEF LeaseInv
<1>2. LeaseInv /\ [Next]_vars /\ TypeOK' /\ TableWellFormed' => LeaseInv'
  BY LeaseInvNext
<1> QED BY <1>1, <1>2, TypeCorrect, TableCorrect, PTL DEF Spec

(* A restart holds its key from its grant to its drain: nobody else's request,
   release, restart or drain ends the hold, only another restart that the same
   requester asked of the same target. *)
THEOREM RestartsExclude == Spec => []RestartHeld
<1>1. LeaseInv => RestartHeld
  BY DEF LeaseInv, InFlight, Knows, RestartHeld
<1> QED BY <1>1, LeaseInvAlways, PTL

(* No restart key is left to a holder whose call is over, however many
   restarts of one target one requester has in flight. *)
THEOREM NoRestartStranded == Spec => []NoPhantomRestartHolder
<1>1. LeaseInv => NoPhantomRestartHolder
  BY DEF LeaseInv
<1> QED BY <1>1, LeaseInvAlways, PTL

(* What a lease reply says is so when it is sent, whatever the other agents
   did since the verb dropped the lock. *)
THEOREM RepliesTrue == Spec => AnswersTrue
<1> DEFINE Truthful(t) ==
      (threads[t].pc \in {"granted", "waiting"} /\ threads'[t] = Idle /\ reply' # NoReply) =>
        LET lease == held'[reply'.key]
        IN  IF reply'.state = "granted" THEN lease.holder = reply'.agent
            ELSE reply'.agent \in {lease.holder} \cup Waiting(lease)
<1>1. LeaseInv /\ [Next]_vars => [\A t \in Threads \ crossed : Truthful(t)]_vars
  <2> SUFFICES ASSUME LeaseInv, [Next]_vars, NEW t \in Threads \ crossed,
                      threads[t].pc \in {"granted", "waiting"}, threads'[t] = Idle,
                      reply' # NoReply
               PROVE  LET lease == held'[reply'.key]
                      IN  IF reply'.state = "granted" THEN lease.holder = reply'.agent
                          ELSE reply'.agent \in {lease.holder} \cup Waiting(lease)
    OBVIOUS
  <2>1. threads'[t] # threads[t] /\ threads[t] # Idle
    BY DEF Idle
  <2>2. \A u \in Threads : Accept(u) => u # t
    BY <2>1 DEF Accept
  <2>3. AnswerGranted(t) \/ AnswerWaiting(t)
    <3>1. ASSUME NEW u \in Threads, NEW a, NEW k, NEW pc, Accept(u), Goto(u, pc, a, k) PROVE FALSE
      BY <2>1, <2>2, <3>1, AcceptKeeps
    <3>2. ASSUME NEW u \in Threads, NEW a \in Agents, NEW k \in Resources,
                 \/ RequestLease(u, a, k) \/ ReleaseLease(u, a, k) \/ ReleaseNotHolder(u, a, k)
          PROVE  FALSE
      BY <2>1, <3>1, <3>2 DEF RequestLease, ReleaseLease, ReleaseNotHolder
    <3>3. ASSUME NEW u \in Threads, NEW a \in Agents, NEW b \in Agents,
                 RequestRestart(u, a, b) \/ DenySelfRestart(u, a)
          PROVE  FALSE
      BY <2>1, <3>1, <3>3 DEF RequestRestart, DenySelfRestart
    <3>4. ASSUME NEW u \in Threads, Step(u), u # t PROVE FALSE
      BY <2>1, <3>4 DEF Step, AnswerGranted, AnswerWaiting, AnswerDenied, HardKill,
                        DrainRestart, Hangup, LeaseInv, TypeOK
    <3>5. ASSUME Step(t) PROVE AnswerGranted(t) \/ AnswerWaiting(t)
      BY <3>5 DEF Step, AnswerDenied, HardKill, DrainRestart
    <3>6. ASSUME \/ \E a \in Agents : RegisterHandle(a) \/ DropHandle(a)
                 \/ Cycle \/ UNCHANGED vars
          PROVE  FALSE
      BY <2>1, <3>6 DEF RegisterHandle, DropHandle, Cycle, Silent, vars
    <3> QED BY <3>2, <3>3, <3>4, <3>5, <3>6 DEF Next
  <2>4. Knows(threads[t], held[threads[t].key])
    BY DEF LeaseInv, InFlight
  <2> QED BY <2>3, <2>4 DEF AnswerGranted, AnswerWaiting, Answer, Knows
<1> QED BY <1>1, LeaseInvAlways, PTL DEF Spec, AnswersTrue

=============================================================================
