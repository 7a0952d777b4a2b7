---------------------------- MODULE SharedChain ----------------------------
(***************************************************************************)
(* Synchronisation of one shared chain between its members:                *)
(*   - the sweep that pushes a member's tip to the others                  *)
(*     (softfig-keeperd/src/net.rs, reconcile_shared_pushes),              *)
(*   - the receiver that adopts it (serve_shared_chain_push,               *)
(*     actions/shared_pull.rs), and                                        *)
(*   - the resolution of a conflict (actions/sync_conflict.rs).            *)
(*                                                                         *)
(* History is per device and convergence is by content: a device re-authors*)
(* what it adopts as a commit of its own, with its own time.  The members  *)
(* are paired, unlocked and hold the genesis of the chain; the write turn, *)
(* which orders local commits of members that reach each other and never   *)
(* stops a pull, is not part of the model.                                 *)
(***************************************************************************)
EXTENDS Naturals, FiniteSets

CONSTANTS
    Devices,   \* the members, by name: names are ordered
    Writers,   \* the members that edit
    Paths,     \* the files of the chain
    MaxEvents, \* bound on edits, clock ticks and lost pushes together
    MaxTime,   \* bound on the clocks, in seconds
    MaxWire,   \* bound on pushes under way when a sweep starts another
    None

ASSUME SharedChainAssumption ==
    /\ Devices \subseteq Nat /\ Writers \subseteq Devices
    /\ MaxEvents \in Nat /\ MaxTime \in Nat /\ MaxWire \in Nat \ {0}
    /\ None \notin Paths

VARIABLES
    tip,    \* the newest commit of each device's chain
    wire,   \* pushes on their way
    clock,  \* each device's own: they need not agree
    edits,  \* number of edits so far: the contents are 1 .. edits
    events, \* number of edits, clock ticks and lost pushes so far
    over,   \* history: the contents somebody wrote over
    dropped \* history: the contents resolutions gave up in other files

vars == <<tip, wire, clock, edits, events, over, dropped>>
history == <<over, dropped>>

(* A tree maps names to contents.  <<p>> is the file p, <<p, d, t>> its    *)
(* sidecar p.conflict-d-t.md.                                              *)
Names == {<<p>> : p \in Paths} \cup (Paths \X Devices \X (0 .. MaxTime))
EmptyTree == [n \in {} |-> 0]

(* insert_file: adds the file or overwrites it. *)
Graft(tree, name, body) ==
    [n \in DOMAIN tree \cup {name} |-> IF n = name THEN body ELSE tree[n]]

(* A commit: its tree, the tree of its parent (None for the genesis), the  *)
(* time it was authored, and the origin its payload names.                 *)
Commit(d, tree, base, writer, file) ==
    [tree |-> tree, base |-> base, ts |-> clock[d], writer |-> writer, file |-> file]

Init ==
    /\ tip = [d \in Devices |-> [tree |-> EmptyTree, base |-> None, ts |-> 0,
                                 writer |-> d, file |-> None]]
    /\ wire = {}
    /\ clock = [d \in Devices |-> 0] /\ edits = 0 /\ events = 0
    /\ over = {} /\ dropped = {}

Happens == events < MaxEvents /\ events' = events + 1

Tick(d) ==
    /\ clock[d] < MaxTime /\ Happens
    /\ clock' = [clock EXCEPT ![d] = @ + 1]
    /\ UNCHANGED <<tip, wire, edits, history>>

(* A local commit of new content.  The payload of an edit the watcher      *)
(* found lists its files; that of most action verbs does not.              *)
Edit(d, p, file) ==
    /\ Happens
    /\ edits' = edits + 1
    /\ tip' = [tip EXCEPT ![d] =
                 Commit(d, Graft(@.tree, <<p>>, edits + 1), @.tree, d, file)]
    /\ over' = over \cup {tip[d].tree[n] : n \in {<<p>>} \cap DOMAIN tip[d].tree}
    /\ UNCHANGED <<wire, clock, dropped>>

---------------------------------------------------------------------------
(* Pushing. *)

(* One hop of the sweep: the tip and its parent's tree are read under the  *)
(* daemon lock, then sent.  A chain at its genesis has nothing to push,    *)
(* and the loop waits for one push to end before the next.                 *)
Push(d, e) ==
    /\ d # e
    /\ tip[d].base # None
    /\ \A m \in wire : ~(m.from = d /\ m.sweep)
    /\ Cardinality(wire) < MaxWire
    /\ wire' = wire \cup {[from |-> d, to |-> e, sweep |-> TRUE, edit |-> tip[d]]}
    /\ UNCHANGED <<tip, clock, edits, events, history>>

(* No route, or the transfer breaks off: the next sweep tries again. *)
Lose(m) ==
    /\ Happens
    /\ wire' = wire \ {m}
    /\ UNCHANGED <<tip, clock, edits, history>>

---------------------------------------------------------------------------
(* Receiving the push m: what serve_shared_chain_push does after the tree  *)
(* is fetched, in one section of the daemon lock.                          *)

AlreadyPresent(m) == m.edit.tree = tip[m.to].tree
(* Mutant: the base is compared with the parent of the tip. *)
FastForward_parent(m) == ~AlreadyPresent(m) /\ tip[m.to].base = m.edit.base
FastForward(m) == ~AlreadyPresent(m) /\ tip[m.to].tree = m.edit.base
Conflict(m) == ~AlreadyPresent(m) /\ ~FastForward(m)

Keep(m) ==
    /\ wire' = wire \ {m}
    /\ UNCHANGED <<tip, dropped>>

(* The peer's tree becomes a commit of this device, and the push goes on   *)
(* to the other members as it came.                                        *)
Adopt(m) ==
    /\ FastForward(m)
    /\ tip' = [tip EXCEPT ![m.to] =
                 Commit(m.to, m.edit.tree, @.tree, m.edit.writer, m.edit.file)]
    /\ wire' = (wire \ {m}) \cup
               {[from |-> m.to, to |-> e, sweep |-> FALSE, edit |-> m.edit] :
                  e \in Devices \ {m.from, m.to}}
    /\ UNCHANGED dropped

(* Last writer wins by (time, device name). *)
IncomingWins(m) ==
    LET local == tip[m.to] IN
    \/ m.edit.ts > local.ts
    \/ m.edit.ts = local.ts /\ m.edit.writer > m.to

Winner(m) == IF IncomingWins(m) THEN m.edit.tree ELSE tip[m.to].tree
(* Mutant: the bytes set aside are always the incoming ones. *)
Loser_incoming(m) == m.edit.tree
Loser(m) == IF IncomingWins(m) THEN tip[m.to].tree ELSE m.edit.tree

(* The file is the first one the push names; without it, or when the       *)
(* loser's tree has no such file, the conflict is left as it is.           *)
Resolvable(m) == m.edit.file # None /\ <<m.edit.file>> \in DOMAIN Loser(m)

(* The sidecar is named after the losing side. *)
Sidecar(m) ==
    IF IncomingWins(m) THEN <<m.edit.file, m.to, tip[m.to].ts>>
                       ELSE <<m.edit.file, m.edit.writer, m.edit.ts>>

Resolution(m) == Graft(Winner(m), Sidecar(m), Loser(m)[<<m.edit.file>>])

Bodies(t) == {t[n] : n \in DOMAIN t}

(* What the device held under any other name, earlier sidecars among them, *)
(* and does not hold after the resolution: of the loser's tree one file is *)
(* set aside, and a sidecar of the same name is overwritten.               *)
GivenUp(m) ==
    {tip[m.to].tree[n] : n \in DOMAIN tip[m.to].tree \ {<<m.edit.file>>}}
        \ Bodies(Resolution(m))

(* One sync_conflict commit, unless the tree is the tip's already.  Its    *)
(* payload names no files.                                                 *)
Resolve(m) ==
    /\ Conflict(m) /\ Resolvable(m)
    /\ wire' = wire \ {m}
    /\ dropped' = dropped \cup GivenUp(m)
    /\ tip' = IF Resolution(m) = tip[m.to].tree THEN tip
              ELSE [tip EXCEPT ![m.to] = Commit(m.to, Resolution(m), @.tree, m.to, None)]

Receive(m) ==
    /\ \/ (AlreadyPresent(m) \/ (Conflict(m) /\ ~Resolvable(m))) /\ Keep(m)
       \/ Adopt(m)
       \/ Resolve(m)
    /\ UNCHANGED <<clock, edits, events, over>>

---------------------------------------------------------------------------
Next ==
    \/ \E d \in Devices : Tick(d)
    \/ \E d \in Writers, p \in Paths : \E file \in {p, None} : Edit(d, p, file)
    \/ \E d, e \in Devices : Push(d, e)
    \/ \E m \in wire : Lose(m) \/ Receive(m)

Spec == Init /\ [][Next]_vars

(* Every sweep tries every member, and a push that is not lost arrives. *)
Fairness ==
    /\ \A d, e \in Devices : SF_vars(Push(d, e))
    /\ WF_vars(\E m \in wire : Receive(m))

FairSpec == Spec /\ Fairness

---------------------------------------------------------------------------
(* Properties. *)

IsTree(t) == DOMAIN t \subseteq Names /\ \A n \in DOMAIN t : t[n] \in 1 .. edits

IsCommit(c) ==
    /\ DOMAIN c = {"tree", "base", "ts", "writer", "file"}
    /\ IsTree(c.tree) /\ (c.base = None \/ IsTree(c.base))
    /\ c.ts \in 0 .. MaxTime /\ c.writer \in Devices /\ c.file \in Paths \cup {None}

(* Every variable keeps its type: trees hold contents somebody wrote, and  *)
(* times are within the clocks' bound.                                     *)
TypeOK ==
    /\ DOMAIN tip = Devices /\ \A d \in Devices : IsCommit(tip[d])
    /\ \A m \in wire : /\ m.from \in Devices /\ m.to \in Devices \ {m.from}
                       /\ m.sweep \in BOOLEAN /\ IsCommit(m.edit)
    /\ clock \in [Devices -> 0 .. MaxTime] /\ events \in 0 .. MaxEvents /\ edits \in 0 .. events
    /\ over \subseteq 1 .. edits /\ dropped \subseteq 1 .. edits

(* No edit vanishes: what somebody wrote is on some member's chain, live   *)
(* or in a sidecar, until it is written over by somebody who had it, or a  *)
(* resolution that is about another file gives it up.  So a fast-forward   *)
(* never buries an edit its author had not seen, and a conflict keeps both *)
(* versions of its file through later pulls, relays and conflicts.  The    *)
(* exception is real: "without losing work" (sync_conflict.rs:2) holds of  *)
(* the one file the push names, not of the rest of the loser's tree.       *)
NoEditVanishes ==
    \A n \in 1 .. edits :
        \/ n \in over \cup dropped
        \/ \E d \in Devices : n \in Bodies(tip[d].tree)

InSync == \A d, e \in Devices : tip[d].tree = tip[e].tree

(* The members end up with the same content, and keep it. *)
Converges == <>[]InSync

(* A lone edit reaches every member, over pushes that fail and clocks that *)
(* disagree, directly or passed on by another member.                      *)
LoneEditSpreads == [](edits <= 1) => Converges

=============================================================================
