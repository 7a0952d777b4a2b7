------------------------------- MODULE Leases -------------------------------
(***************************************************************************)
(* growlightd's lease arbitration: the pure LeaseTable and the daemon      *)
(* verbs request_lease, release_lease and request_restart that drive it.   *)
(*                                                                         *)
(* Every verb runs on its own connection thread (one thread per accepted   *)
(* connection). A verb takes the daemon lock more than once: it decides    *)
(* under the lock, drops it, does its side effect, and may take the lock   *)
(* again. Each lock section is one step here, so the verbs interleave      *)
(* between their sections exactly where the code lets them.                *)
(***************************************************************************)
EXTENDS Naturals, Sequences

CONSTANTS
    Agents,      \* agent (work-stream) ids; also the restart targets
    Supervised,  \* the agents growlightd launches children for
    Resources,   \* opaque lease keys the agents name themselves
    Threads,     \* connection threads that can be in flight at once
    NoAgent      \* Option::None for a holder

(* The key of the lease that arbitrates restarts of `target`. *)
restart_key(target) == <<"restart", target>>

RestartKeys == {restart_key(t) : t \in Agents}
Keys == Resources \cup RestartKeys

(* Lease keys are opaque strings: nothing in the daemon stops an agent from
   naming a "restart:" key itself, so that it does not is an assumption. *)
ASSUME LeaseConstants ==
    /\ NoAgent \notin Agents
    /\ Supervised \subseteq Agents
    /\ Resources \cap RestartKeys = {}

VARIABLES
    held,     \* LeaseTable: per key the holder and the FIFO of waiters
    threads,  \* per connection thread: where its verb is
    handles,  \* agents whose running child is registered for a hard kill
    reply,    \* the LeaseReply / RestartReply the last step sent, or NoReply
    crossed   \* history, read by no step: the calls in flight whose agent has
              \* given up their key in another call of its own meanwhile

vars == <<held, threads, handles, reply, crossed>>

Free == [holder |-> NoAgent, waiters |-> <<>>]
Idle == [pc |-> "idle", agent |-> NoAgent, key |-> <<>>]
NoReply == [agent |-> NoAgent, key |-> <<>>, state |-> "none", holder |-> NoAgent]

LeaseType == [holder : Agents \cup {NoAgent}, waiters : Seq(Agents)]
ThreadType ==
    [pc : {"granted", "waiting", "denied", "kill", "drain"},
     agent : Agents, key : Keys]
ReplyType ==
    [agent : Agents, key : Keys,
     state : {"granted", "waiting", "released", "denied", "restarted", "queued"},
     holder : Agents \cup {NoAgent}]

----------------------------------------------------------------------------
(* The LeaseTable. An absent key is Free. *)

Waiting(lease) == {lease.waiters[i] : i \in 1..Len(lease.waiters)}

(* Mutant of request: queues without looking for an earlier slot. *)
request_no_position_check(lease, agent) ==
    IF lease.holder = NoAgent THEN [holder |-> agent, waiters |-> <<>>]
    ELSE IF lease.holder = agent THEN lease
    ELSE [lease EXCEPT !.waiters = Append(@, agent)]

(* LeaseTable::request: the entry of a key after `agent` asked for it. *)
request(lease, agent) ==
    IF lease.holder = NoAgent THEN [holder |-> agent, waiters |-> <<>>]
    ELSE IF lease.holder = agent \/ agent \in Waiting(lease) THEN lease
    ELSE [lease EXCEPT !.waiters = Append(@, agent)]

(* Mutant of release: promotes the newest waiter. *)
release_lifo(lease) ==
    IF lease.waiters = <<>> THEN Free
    ELSE [holder |-> lease.waiters[Len(lease.waiters)],
          waiters |-> SubSeq(lease.waiters, 1, Len(lease.waiters) - 1)]

(* Mutant of release: frees the key, its waiters forgotten. *)
release_forgets(lease) == Free

(* LeaseTable::release by the holder: the head waiter is promoted. *)
release(lease) ==
    IF lease.waiters = <<>> THEN Free
    ELSE [holder |-> Head(lease.waiters), waiters |-> Tail(lease.waiters)]

(* Mutant of drain: promotes the head waiter, as release does. *)
drain_promotes(lease) == release(lease)

(* LeaseTable::drain by the holder: the entry goes, its waiters with it. *)
drain(lease) == Free

----------------------------------------------------------------------------
Init ==
    /\ held = [k \in Keys |-> Free]
    /\ threads = [t \in Threads |-> Idle]
    /\ handles \in SUBSET Supervised
    /\ reply = NoReply
    /\ crossed = {}

(* An accepted connection: a free thread takes up a call. Every connection has
   a thread of its own, so an agent may have several calls in flight. *)
Accept(t) == threads[t] = Idle

Goto(t, pc, a, k) == threads' = [threads EXCEPT ![t] = [pc |-> pc, agent |-> a, key |-> k]]
Hangup(t) ==
    /\ threads' = [threads EXCEPT ![t] = Idle]
    /\ crossed' = crossed \ {t}

(* The calls of `a` on `k` that are between two lock sections. *)
CallsOf(a, k) == {u \in Threads : threads[u].agent = a /\ threads[u].key = k}
Silent == reply' = NoReply
Answer(a, k, state, holder) ==
    reply' = [agent |-> a, key |-> k, state |-> state, holder |-> holder]

(* Daemon::request_lease, first lock section: decide. *)
RequestLease(t, a, k) ==
    /\ Accept(t)
    /\ held' = [held EXCEPT ![k] = request(@, a)]
    /\ Goto(t, IF held'[k].holder = a THEN "granted" ELSE "waiting", a, k)
    /\ Silent
    /\ UNCHANGED <<handles, crossed>>

(* Granted: outside the lock the (unbound) thrash hook, the event, the reply. *)
AnswerGranted(t) ==
    /\ threads[t].pc = "granted"
    /\ Answer(threads[t].agent, threads[t].key, "granted", threads[t].agent)
    /\ Hangup(t)
    /\ UNCHANGED <<held, handles>>

(* Queued: a second lock section reads the holder for the reply. *)
AnswerWaiting(t) ==
    /\ threads[t].pc = "waiting"
    /\ Answer(threads[t].agent, threads[t].key, "waiting", held[threads[t].key].holder)
    /\ Hangup(t)
    /\ UNCHANGED <<held, handles>>

(* Daemon::release_lease by the holder: one lock section; event and reply. *)
ReleaseLease(t, a, k) ==
    /\ Accept(t)
    /\ held[k].holder = a
    /\ held' = [held EXCEPT ![k] = release(@)]
    /\ Answer(a, k, "released", held'[k].holder)
    /\ crossed' = crossed \cup CallsOf(a, k)
    /\ UNCHANGED <<threads, handles>>

(* Daemon::release_lease by anyone else: nothing changes; the denial's holder
   is read in a second lock section. *)
ReleaseNotHolder(t, a, k) ==
    /\ Accept(t)
    /\ held[k].holder # a
    /\ Goto(t, "denied", a, k)
    /\ Silent
    /\ UNCHANGED <<held, handles, crossed>>

AnswerDenied(t) ==
    /\ threads[t].pc = "denied"
    /\ Answer(threads[t].agent, threads[t].key, "denied", held[threads[t].key].holder)
    /\ Hangup(t)
    /\ UNCHANGED <<held, handles>>

(* Daemon::request_restart: a self-restart is denied before the table. *)
DenySelfRestart(t, a) ==
    /\ Accept(t)
    /\ Answer(a, restart_key(a), "denied", NoAgent)
    /\ UNCHANGED <<held, threads, handles, crossed>>

(* Daemon::request_restart, first lock section: decide. A queued caller is
   answered and leaves; a granted one goes on to kill. *)
RequestRestart(t, requester, target) ==
    LET k == restart_key(target) IN
    /\ Accept(t)
    /\ requester # target
    /\ held' = [held EXCEPT ![k] = request(@, requester)]
    /\ IF held'[k].holder = requester
         THEN Goto(t, "kill", requester, k) /\ Silent
         ELSE Answer(requester, k, "queued", NoAgent) /\ UNCHANGED threads
    /\ UNCHANGED <<handles, crossed>>

(* Mutant of HardKill: the lease is drained before the kill is issued. *)
HardKill_drains_first(t) ==
    /\ threads[t].pc = "kill"
    /\ handles' = handles \ {threads[t].key[2]}
    /\ threads' = [threads EXCEPT ![t].pc = "drain"]
    /\ held' = [held EXCEPT ![threads[t].key] = drain(@)]
    /\ Silent
    /\ UNCHANGED crossed

(* Daemon::hard_kill_agent: take the handle under the registry's own lock. *)
HardKill(t) ==
    /\ threads[t].pc = "kill"
    /\ handles' = handles \ {threads[t].key[2]}
    /\ threads' = [threads EXCEPT ![t].pc = "drain"]
    /\ Silent
    /\ UNCHANGED <<held, crossed>>

(* Second lock section: drain the restart lease if the caller still holds it;
   the other restarts it has asked for under this key lose their hold too. *)
DrainRestart(t) ==
    LET a == threads[t].agent
        k == threads[t].key IN
    /\ threads[t].pc = "drain"
    /\ held' = IF held[k].holder = a THEN [held EXCEPT ![k] = drain(@)] ELSE held
    /\ Answer(a, k, "restarted", NoAgent)
    /\ threads' = [threads EXCEPT ![t] = Idle]
    /\ crossed' = (crossed \cup CallsOf(a, k)) \ {t}
    /\ UNCHANGED handles

(* A spawn registers the child's kill handle; its reader thread drops the
   handle when the child exits. KillRegistry models both by generation. *)
RegisterHandle(a) ==
    /\ a \in Supervised \ handles
    /\ handles' = handles \cup {a}
    /\ Silent
    /\ UNCHANGED <<held, threads, crossed>>

DropHandle(a) ==
    /\ a \in handles
    /\ handles' = handles \ {a}
    /\ Silent
    /\ UNCHANGED <<held, threads, crossed>>

(* A growlightd restart: leases and connections are in-memory only. *)
Cycle ==
    /\ held' = [k \in Keys |-> Free]
    /\ threads' = [t \in Threads |-> Idle]
    /\ handles' = {}
    /\ crossed' = {}
    /\ Silent

Step(t) ==
    AnswerGranted(t) \/ AnswerWaiting(t) \/ AnswerDenied(t) \/ HardKill(t) \/ DrainRestart(t)

Next ==
    \/ \E t \in Threads, a \in Agents :
         \/ \E k \in Resources : RequestLease(t, a, k)
         \/ \E k \in Resources : ReleaseLease(t, a, k)
         \/ \E k \in Resources : ReleaseNotHolder(t, a, k)
         \/ \E b \in Agents : RequestRestart(t, a, b)
         \/ DenySelfRestart(t, a)
    \/ \E t \in Threads : Step(t)
    \/ \E a \in Agents : RegisterHandle(a) \/ DropHandle(a)
    \/ Cycle

(* A connection thread that is in flight keeps being scheduled. *)
Fairness == \A t \in Threads : WF_vars(Step(t))

Spec == Init /\ [][Next]_vars
FairSpec == Spec /\ Fairness

----------------------------------------------------------------------------
(* The table, the thread registers and the replies have their types. *)
TypeOK ==
    /\ held \in [Keys -> LeaseType]
    /\ threads \in [Threads -> ThreadType \cup {Idle}]
    /\ handles \subseteq Supervised
    /\ reply \in ReplyType \cup {NoReply}
    /\ crossed \subseteq Threads

(* However requests, releases, promotions and drains interleave, a key nobody
   holds has no waiters (an absent BTreeMap entry and a free lease are the same
   thing), the holder is not queued behind itself and no agent waits twice. *)
TableWellFormed ==
    \A k \in Keys :
        /\ held[k].holder = NoAgent => held[k].waiters = <<>>
        /\ held[k].holder \notin Waiting(held[k])
        /\ \A i, j \in 1..Len(held[k].waiters) :
              held[k].waiters[i] = held[k].waiters[j] => i = j

(* A restart lease is held only while its holder's restart is in flight:
   drain never promotes a queued requester, which has already been answered
   and would strand the key (the phantom holder of LeaseTable::drain). It holds
   also when one requester has several restarts of one target in flight. *)
NoPhantomRestartHolder ==
    \A k \in RestartKeys : held[k].holder # NoAgent =>
        \E t \in Threads : /\ threads[t].pc \in {"kill", "drain"}
                           /\ threads[t].agent = held[k].holder
                           /\ threads[t].key = k

(* A restart holds its key from its grant to its drain, across the hard kill
   that is issued outside the lock, so a second requester is queued: nothing
   ends the hold but the drain of another restart the SAME requester asked of
   the same target (the table grants its holder again). Of those, in `crossed`,
   request_restart's debug_assert is not true: "the requester just held the
   restart lease, so its drain must succeed". *)
RestartHeld ==
    \A t \in Threads \ crossed :
        threads[t].pc \in {"kill", "drain"} => held[threads[t].key].holder = threads[t].agent

(* What a lease reply says is still so when it is sent, although it is sent
   after the lock was dropped: a granted agent is the holder, and one that was
   told to wait has its place in the queue, or has been promoted meanwhile;
   unless the agent itself gave the key up in another call. *)
AnswersTrue ==
    [][\A t \in Threads \ crossed :
         (threads[t].pc \in {"granted", "waiting"} /\ threads'[t] = Idle /\ reply' # NoReply) =>
            LET lease == held'[reply'.key]
            IN  IF reply'.state = "granted" THEN lease.holder = reply'.agent
                ELSE reply'.agent \in {lease.holder} \cup Waiting(lease)]_vars

(* FIFO hand-over: a key passes from one holder to another only by promoting
   the agent at the head of the queue, and nobody queued loses its turn to a
   later arrival (short of a daemon restart or a drain, which empty the key). *)
FifoHandOver ==
    [][\A k \in Keys :
         LET old == held[k]
             new == held'[k]
         IN  (old.holder # NoAgent /\ new.holder # NoAgent) =>
               IF new.holder = old.holder
                 THEN SubSeq(new.waiters, 1, Len(old.waiters)) = old.waiters
                 ELSE old.waiters = <<new.holder>> \o new.waiters]_vars

(* Every restart lease is eventually free again, so a later restart of the
   same target is always admitted in the end ("repeatable, not one-shot"). *)
RestartRepeatable ==
    \A k \in RestartKeys : held[k].holder # NoAgent ~> held[k].holder = NoAgent

=============================================================================
