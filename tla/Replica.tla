------------------------------ MODULE Replica ------------------------------
(***************************************************************************)
(* Backup of one device's chain on one host: the owner's push loop         *)
(* (softfig-keeperd/src/net.rs), the pull that the host drives over the    *)
(* connection (softfig-net/src/replica.rs) and the host's mirror           *)
(* (softfig-keeperd/src/replica.rs).                                       *)
(*                                                                         *)
(* The owner is honest: its chain is the linear sequence of commits 1, 2,  *)
(* ... and 0 stands for "no commit".  It pushes from one thread, one       *)
(* connection after the other.  The host serves every connection in a      *)
(* thread of its own and holds no lock for a mirror: when the owner hung   *)
(* up after a timeout and dials again, the thread of the first connection  *)
(* may still be storing what it has read.  Every row the host stores is a  *)
(* transaction of its own, so it may crash between any two of them.        *)
(***************************************************************************)
EXTENDS Naturals, FiniteSets, FiniteSetsExt

CONSTANTS
    MaxCommits,   \* bound: the owner's chain is 1 .. MaxCommits
    Sessions,     \* connections the host can serve at the same time
    Trees, Blobs, \* content addresses of trees and of ciphertext objects
    Root,         \* Root[c]: the root tree of commit c
    Children,     \* Children[t]: the subtrees and objects t lists
    MaxFaults,    \* bound on dial failures, hang-ups, disk errors, crashes
    NoSession

Commits == 1 .. MaxCommits
Nodes == Trees \cup Blobs

ASSUME ReplicaAssumption ==
    /\ MaxCommits \in Nat
    /\ Root \in [Commits -> Trees]
    /\ Children \in [Trees -> SUBSET Nodes]
    /\ Trees \cap Blobs = {}
    /\ NoSession \notin Sessions
    /\ MaxFaults \in Nat

VARIABLES
    tip,      \* the owner's newest commit
    push,     \* the connection the push loop serves, or NoSession
    announced, \* the tip of the newest announce
    health,   \* PushState of the host in the owner's health record
    commits, trees, blobs, \* what the mirror holds
    mtip,     \* TIP_REF of the mirror, 0 when unset
    sess,     \* the host's ingest threads
    ingest,   \* how the last ingest of the host ended
    ended,    \* history: how the ingest of the owner's newest push ended
    faults

owner == <<tip, push, announced, health>>
mirror == <<commits, trees, blobs, mtip>>
vars == <<owner, mirror, sess, ingest, ended, faults>>

Idle == [phase |-> "idle", piped |-> TRUE, ann |-> 0, cur |-> 0, missing |-> {},
         want |-> {}, got |-> {}, open |-> {}, pending |-> [t \in Trees |-> {}]]

Init ==
    /\ tip = 0 /\ push = NoSession /\ announced = 0 /\ health = "none"
    /\ commits = {} /\ trees = {} /\ blobs = {} /\ mtip = 0
    /\ sess = [s \in Sessions |-> Idle]
    /\ ingest = "none" /\ ended = "none"
    /\ faults = 0

Fault == faults < MaxFaults /\ faults' = faults + 1

---------------------------------------------------------------------------
(* The owner. *)

(* A commit advances the tip and wakes the push loop (signal_commit).  The *)
(* loop also wakes every REPLICA_RECONCILE_INTERVAL, so a push may start   *)
(* at any time and the flag itself is not kept.                            *)
Commit ==
    /\ tip < MaxCommits
    /\ tip' = tip + 1
    /\ UNCHANGED <<push, announced, health, mirror, sess, ingest, ended, faults>>

(* One pass of the loop: the announce is taken from the tip under the      *)
(* daemon lock, then the host is dialed, directly (the pipelined pull) or  *)
(* through the relay (the sequential one), and sent the grant; the host's  *)
(* accept loop starts a thread for the connection.                         *)
StartPush(s) ==
    /\ push = NoSession
    /\ sess[s].phase = "idle"
    /\ \E piped \in BOOLEAN :
         sess' = [sess EXCEPT ![s] = [Idle EXCEPT !.phase = "grant", !.ann = tip,
                                                  !.piped = piped]]
    /\ push' = s /\ announced' = tip /\ ended' = "running"
    /\ UNCHANGED <<tip, health, mirror, ingest, faults>>

(* No route to the host, or no route that answers. *)
PushFails(outcome) ==
    /\ push = NoSession
    /\ Fault
    /\ health' = outcome
    /\ UNCHANGED <<tip, push, announced, mirror, sess, ingest, ended>>

(* The host's end is gone: ReplicaDone, or the end of the stream, which    *)
(* serve_replication takes for a clean close.  Both are PushOutcome::Ok,   *)
(* whatever made the host close the connection.                            *)
PushEnds ==
    /\ push # NoSession
    /\ sess[push].phase = "idle"
    /\ health' = "ok"
    /\ push' = NoSession
    /\ UNCHANGED <<tip, announced, mirror, sess, ingest, ended, faults>>

(* PUSH_IO_TIMEOUT or a broken connection: the owner hangs up; the host's  *)
(* thread goes on.                                                         *)
HangUp ==
    /\ push # NoSession
    /\ Fault
    /\ health' = "error"
    /\ push' = NoSession
    /\ UNCHANGED <<tip, announced, mirror, sess, ingest, ended>>

(* The owner answers a request out of the announced closure. *)
Serve(s) ==
    /\ push = s
    /\ \E n \in sess[s].want :
         sess' = [sess EXCEPT ![s].want = @ \ {n}, ![s].got = @ \cup {n}]
    /\ UNCHANGED <<owner, mirror, ingest, ended, faults>>

---------------------------------------------------------------------------
(* The host's thread for connection s: negotiation. *)

Closes(s, how) == sess' = [sess EXCEPT ![s] = Idle] /\ ingest' = how
End(s, how) == Closes(s, how) /\ ended' = IF s = push THEN how ELSE ended

(* serve_replica_ingest reads the grant.  A host whose role is switched    *)
(* off, or for which the grant does not verify, returns: the connection is *)
(* closed, and only the host's journal says why.                           *)
IgnoresGrant(s) ==
    /\ sess[s].phase = "grant"
    /\ End(s, "ignored")
    /\ UNCHANGED <<owner, mirror, faults>>

(* Otherwise the mirror is opened.                                         *)
AcceptsGrant(s) ==
    /\ sess[s].phase = "grant"
    /\ \/ /\ sess' = [sess EXCEPT ![s].phase = "tip"]
          /\ UNCHANGED <<ingest, ended, faults>>
       \/ End(s, "failed") /\ Fault
    /\ UNCHANGED <<owner, mirror>>

(* Mutant: the mirror taken for up to date when it holds the announced     *)
(* commit.                                                                 *)
GetTip_has_commit(s) ==
    /\ sess[s].phase = "tip"
    /\ push = s
    /\ \/ /\ sess[s].ann \in commits \cup {0}
          /\ End(s, "done")
       \/ /\ sess[s].ann \notin commits \cup {0}
          /\ sess' = [sess EXCEPT ![s].phase = "walk", ![s].cur = sess[s].ann]
          /\ UNCHANGED <<ingest, ended>>
    /\ UNCHANGED <<owner, mirror, faults>>

(* negotiate_pull, the announce: nothing to do when the owner has no       *)
(* commit or the mirror is at the announced tip.                           *)
GetTip(s) ==
    /\ sess[s].phase = "tip"
    /\ push = s
    /\ \/ /\ sess[s].ann \in {0, mtip}
          /\ End(s, "done")
       \/ /\ sess[s].ann \notin {0, mtip}
          /\ sess' = [sess EXCEPT ![s].phase = "walk", ![s].cur = sess[s].ann]
          /\ UNCHANGED <<ingest, ended>>
    /\ UNCHANGED <<owner, mirror, faults>>

(* The walk back from the announced tip to a commit the mirror holds, or   *)
(* past the first commit (cur = 0).                                        *)
AtBase(s) == sess[s].cur \in commits \cup {0}

Walk(s) ==
    /\ sess[s].phase = "walk"
    /\ \/ /\ AtBase(s)
          /\ sess' = [sess EXCEPT ![s].phase = "base"]
       \/ /\ ~AtBase(s)
          /\ push = s
          /\ sess' = [sess EXCEPT ![s].missing = @ \cup {sess[s].cur},
                                  ![s].cur = @ - 1]
    /\ UNCHANGED <<owner, mirror, ingest, ended, faults>>

(* The roots a driver asks for: the pipelined one those of all missing     *)
(* commits, the sequential one that of the oldest.                         *)
Seed(piped, missing) ==
    IF piped \/ missing = {} THEN {Root[c] : c \in missing}
                             ELSE {Root[Min(missing)]}

(* Fast-forward only: the base must be the mirror's tip, else the pull is  *)
(* refused as a fork or rollback and the host logs a tamper alarm.         *)
CheckBase(s) ==
    /\ sess[s].phase = "base"
    /\ \/ /\ mtip = sess[s].cur
          /\ sess' = [sess EXCEPT
                        ![s].phase = "fetch",
                        ![s].want = Seed(sess[s].piped, sess[s].missing) \ trees]
          /\ UNCHANGED <<ingest, ended>>
       \/ /\ mtip # sess[s].cur
          /\ End(s, "refused")
    /\ UNCHANGED <<owner, mirror, faults>>

---------------------------------------------------------------------------
(* The host's thread: backfill. *)

(* Mutant: a tree stored before its children. *)
Ready_at_once(s) == sess[s].open

Ready(s) == {t \in sess[s].open : sess[s].pending[t] = {}}
Present == trees \cup blobs

(* n is stored: no open tree of this thread waits for it any more. *)
Satisfied(s, n) == [t \in Trees |-> sess[s].pending[t] \ {n}]

(* A tree arrives: the children the mirror lacks are its dependencies, and *)
(* those not yet asked for are asked for.                                  *)
RecvTree(s) ==
    /\ sess[s].phase = "fetch" /\ Ready(s) = {}
    /\ \E t \in sess[s].got \cap Trees :
         LET lacking == Children[t] \ Present
             asked == sess[s].want \cup sess[s].got \cup sess[s].open
         IN  sess' = [sess EXCEPT ![s].got = @ \ {t},
                                  ![s].open = @ \cup {t},
                                  ![s].pending[t] = lacking,
                                  ![s].want = @ \cup (lacking \ asked)]
    /\ UNCHANGED <<owner, mirror, ingest, ended, faults>>

RecvObject(s) ==
    /\ sess[s].phase = "fetch" /\ Ready(s) = {}
    /\ \E b \in sess[s].got \cap Blobs :
         /\ blobs' = blobs \cup {b}
         /\ sess' = [sess EXCEPT ![s].got = @ \ {b},
                                 ![s].pending = Satisfied(s, b)]
    /\ UNCHANGED <<owner, commits, trees, mtip, ingest, ended, faults>>

(* One step of the cascade: a tree whose last child is stored is stored,   *)
(* in a transaction of its own.                                            *)
StoreTree(s) ==
    /\ sess[s].phase = "fetch"
    /\ \E t \in Ready(s) :
         /\ trees' = trees \cup {t}
         /\ sess' = [sess EXCEPT ![s].open = @ \ {t},
                                 ![s].pending = Satisfied(s, t)]
    /\ UNCHANGED <<owner, commits, blobs, mtip, ingest, ended, faults>>

Drained(s) ==
    /\ sess[s].phase = "fetch"
    /\ sess[s].want \cup sess[s].got \cup sess[s].open = {}

(* Commits are stored oldest first; the sequential driver fetches the next *)
(* commit's trees in between.                                              *)
StoreCommit(s) ==
    /\ Drained(s) /\ sess[s].missing # {}
    /\ LET c == Min(sess[s].missing)
           rest == sess[s].missing \ {c}
       IN  /\ commits' = commits \cup {c}
           /\ sess' = [sess EXCEPT
                ![s].missing = rest,
                ![s].want = IF sess[s].piped THEN {} ELSE Seed(FALSE, rest) \ trees]
    /\ UNCHANGED <<owner, trees, blobs, mtip, ingest, ended, faults>>

(* Mutant: the commits are stored and the tip stays. *)
AdvanceTip_forgotten(s) ==
    /\ Drained(s) /\ sess[s].missing = {}
    /\ End(s, "done")
    /\ UNCHANGED <<owner, mirror, faults>>

(* The tip moves last, to the announced commit, whatever it is by now; the *)
(* notes on it that follow (last sync, height) may still fail.             *)
AdvanceTip(s) ==
    /\ Drained(s) /\ sess[s].missing = {}
    /\ mtip' = sess[s].ann
    /\ \/ Closes(s, "done") /\ UNCHANGED faults
       \/ Closes(s, "failed") /\ Fault
    /\ ended' = IF s = push THEN ingest'
                ELSE IF ended = "done" THEN "overtaken" ELSE ended
    /\ UNCHANGED <<owner, commits, trees, blobs>>

---------------------------------------------------------------------------
(* Failures of the host. *)

(* The owner has hung up and the thread reads from the connection. *)
ReadFails(s) ==
    /\ push # s
    /\ \/ sess[s].phase = "tip"
       \/ sess[s].phase = "walk" /\ ~AtBase(s)
       \/ sess[s].phase = "fetch" /\ Ready(s) = {} /\ ~Drained(s)
    /\ End(s, "failed")
    /\ UNCHANGED <<owner, mirror, faults>>

(* A store call fails: the thread ends, with what it stored before.  The   *)
(* pipelined driver even sends ReplicaDone.                                *)
StoreFails(s) ==
    /\ sess[s].phase = "fetch"
    /\ Fault
    /\ End(s, "failed")
    /\ UNCHANGED <<owner, mirror>>

HostCrash ==
    /\ Fault
    /\ sess' = [s \in Sessions |-> Idle]
    /\ ingest' = "none"
    /\ ended' = IF ended = "running" THEN "crashed" ELSE ended
    /\ UNCHANGED <<owner, mirror>>

---------------------------------------------------------------------------
Ingest(s) ==
    \/ IgnoresGrant(s) \/ AcceptsGrant(s)
    \/ GetTip(s) \/ Walk(s) \/ CheckBase(s)
    \/ RecvTree(s) \/ RecvObject(s) \/ StoreTree(s)
    \/ StoreCommit(s) \/ AdvanceTip(s) \/ ReadFails(s)

Next ==
    \/ Commit \/ PushEnds \/ HangUp \/ HostCrash
    \/ \E o \in {"noroute", "error"} : PushFails(o)
    \/ \E s \in Sessions : StartPush(s) \/ Serve(s) \/ Ingest(s) \/ StoreFails(s)

Spec == Init /\ [][Next]_vars

(* The push loop wakes at the latest after the reconcile interval, and     *)
(* every thread of the host that can go on does.                           *)
Fairness ==
    /\ WF_vars(PushEnds)
    /\ WF_vars(\E s \in Sessions : StartPush(s))
    /\ \A s \in Sessions : WF_vars(Serve(s)) /\ WF_vars(Ingest(s))

FairSpec == Spec /\ Fairness

---------------------------------------------------------------------------
(* Properties. *)

SessionType ==
    [phase : {"idle", "grant", "tip", "walk", "base", "fetch"}, piped : BOOLEAN,
     ann : 0 .. MaxCommits, cur : 0 .. MaxCommits, missing : SUBSET Commits,
     want : SUBSET Nodes, got : SUBSET Nodes, open : SUBSET Trees,
     pending : [Trees -> SUBSET Nodes]]

(* Every variable keeps its type. *)
TypeOK ==
    /\ tip \in 0 .. MaxCommits /\ announced \in 0 .. MaxCommits
    /\ push \in Sessions \cup {NoSession}
    /\ health \in {"none", "ok", "noroute", "error"}
    /\ commits \subseteq Commits /\ trees \subseteq Trees /\ blobs \subseteq Blobs
    /\ mtip \in 0 .. MaxCommits
    /\ sess \in [Sessions -> SessionType]
    /\ ingest \in {"none", "done", "ignored", "refused", "failed"}
    /\ ended \in {"none", "running", "done", "overtaken", "ignored", "refused",
                  "failed", "crashed"}
    /\ faults \in 0 .. MaxFaults

(* The mirror is closed at every moment, also after a crash, a disk error  *)
(* or a hang-up in the middle of a pull, and while two pulls overlap: a    *)
(* stored tree has all its children (what makes has_tree a sound           *)
(* short-circuit), a stored commit its root tree and its parent, and the   *)
(* tip names a stored commit.                                              *)
MirrorComplete ==
    /\ \A t \in trees : Children[t] \subseteq Present
    /\ \A c \in commits : Root[c] \in trees /\ c - 1 \in commits \cup {0}
    /\ mtip \in commits \cup {0}

(* What a push that the owner records as successful has done.  The row is  *)
(* written when the host's end is gone, so it alone says little; the host  *)
(* may have ignored the grant, and after a broken connection, a failed     *)
(* write or a crash it may have refused or cut short the pull.  Otherwise  *)
(* the mirror's tip is all that was announced, however commits and pulls   *)
(* fall, until the thread of a connection the owner had given up advances  *)
(* the tip to an older announce; even then the mirror keeps the commit.    *)
HonestPushMirrored ==
    health = "ok" /\ push = NoSession =>
       \/ ended = "done" /\ mtip = announced
       \/ ended = "overtaken" /\ announced \in commits \cup {0}
       \/ ended = "ignored"
       \/ ended \in {"refused", "failed", "crashed"} /\ faults > 0

(* Once the faults are over, the mirror catches up with the owner, or the  *)
(* host turns away pull after pull, and its journal says so: it never      *)
(* stays behind quietly.                                                   *)
RecoversOrAlarms == <>[](mtip = tip) \/ []<>(ingest \in {"refused", "ignored"})

=============================================================================
