------------------------- MODULE SharedChainProofs -------------------------
(***************************************************************************)
(* Proofs about SharedChain for any members, files, clocks, numbers of     *)
(* edits and lost pushes, and pushes under way.                            *)
(***************************************************************************)
EXTENDS SharedChain, Sequences, TLAPS

(* Trees and commits whose contents are among the first n edits. *)
TreeOf(t, n) == DOMAIN t \subseteq Names /\ \A x \in DOMAIN t : t[x] \in 1 .. n

CommitOf(c, n) ==
    /\ DOMAIN c = {"tree", "base", "ts", "writer", "file"}
    /\ TreeOf(c.tree, n) /\ (c.base = None \/ TreeOf(c.base, n))
    /\ c.ts \in 0 .. MaxTime /\ c.writer \in Devices /\ c.file \in Paths \cup {None}

PushOf(m, n) ==
    /\ m.from \in Devices /\ m.to \in Devices \ {m.from}
    /\ m.sweep \in BOOLEAN /\ CommitOf(m.edit, n)

(* The parts of TypeOK that an edit changes, with the number of edits named. *)
TipsOf(t, n) == DOMAIN t = Devices /\ \A d \in Devices : CommitOf(t[d], n)
WireOf(w, n) == \A m \in w : PushOf(m, n)
CountersOK ==
    /\ clock \in [Devices -> 0 .. MaxTime] /\ events \in 0 .. MaxEvents /\ edits \in 0 .. events
HistoryOK == over \subseteq 1 .. edits /\ dropped \subseteq 1 .. edits

LEMMA TypeParts ==
    TypeOK <=> TipsOf(tip, edits) /\ WireOf(wire, edits) /\ CountersOK /\ HistoryOK
BY DEF TypeOK, TipsOf, WireOf, CountersOK, HistoryOK, PushOf, CommitOf, TreeOf, IsCommit, IsTree

(* What is stored stays a tree, a commit or a push as more is written. *)
LEMMA ContentsLast ==
    ASSUME NEW n \in Nat, NEW k \in Nat, n <= k
    PROVE  /\ \A t : TreeOf(t, n) => TreeOf(t, k)
           /\ \A c : CommitOf(c, n) => CommitOf(c, k)
           /\ \A m : PushOf(m, n) => PushOf(m, k)
<1>1. ASSUME NEW t, TreeOf(t, n) PROVE TreeOf(t, k)
  BY <1>1 DEF TreeOf
<1>2. ASSUME NEW c, CommitOf(c, n) PROVE CommitOf(c, k)
  BY <1>1, <1>2 DEF CommitOf
<1>3. ASSUME NEW m, PushOf(m, n) PROVE PushOf(m, k)
  BY <1>2, <1>3 DEF PushOf
<1> QED BY <1>1, <1>2, <1>3

(* insert_file adds or overwrites one name and leaves the others alone. *)
LEMMA GraftInserts ==
    ASSUME NEW tree, NEW name, NEW body
    PROVE  /\ name \in DOMAIN Graft(tree, name, body) /\ Graft(tree, name, body)[name] = body
           /\ \A x \in DOMAIN tree \ {name} :
                 x \in DOMAIN Graft(tree, name, body) /\ Graft(tree, name, body)[x] = tree[x]
           /\ \A n : TreeOf(tree, n) /\ name \in Names /\ body \in 1 .. n
                        => TreeOf(Graft(tree, name, body), n)
BY DEF Graft, TreeOf

(* A commit a device authors from well-formed parts is well formed. *)
LEMMA AuthoredCommit ==
    ASSUME NEW d \in Devices, NEW n \in Nat, CountersOK, NEW tree, TreeOf(tree, n),
           NEW base, TreeOf(base, n), NEW writer \in Devices, NEW file \in Paths \cup {None}
    PROVE  /\ CommitOf(Commit(d, tree, base, writer, file), n)
           /\ Commit(d, tree, base, writer, file).tree = tree
<1> DEFINE c == Commit(d, tree, base, writer, file)
<1>1. /\ DOMAIN c = {"tree", "base", "ts", "writer", "file"}
      /\ c.tree = tree /\ c.base = base /\ c.ts = clock[d] /\ c.writer = writer /\ c.file = file
  BY DEF Commit
<1>2. c.ts \in 0 .. MaxTime
  BY <1>1 DEF CountersOK
<1> HIDE DEF c
<1> QED BY <1>1, <1>2 DEF CommitOf, c

(* The tree of a resolution: well formed, and all the device held is in it or
   given up with the rest of the loser's tree. *)
LEMMA ResolutionKeeps ==
    ASSUME TypeOK, NEW m \in wire, Resolvable(m)
    PROVE  /\ TreeOf(Resolution(m), edits)
           /\ Bodies(tip[m.to].tree) \subseteq Bodies(Resolution(m)) \cup GivenUp(m)
           /\ GivenUp(m) \subseteq 1 .. edits
<1> DEFINE f == m.edit.file
           local == tip[m.to]
           w == Winner(m)
           l == Loser(m)
           s == Sidecar(m)
           r == Resolution(m)
<1>1. /\ m.to \in Devices /\ m.edit.writer \in Devices /\ f \in Paths
      /\ m.edit.ts \in 0 .. MaxTime /\ local.ts \in 0 .. MaxTime
      /\ TreeOf(local.tree, edits) /\ TreeOf(m.edit.tree, edits)
  BY TypeParts DEF TipsOf, WireOf, PushOf, CommitOf, Resolvable
<1>2. {w, l} = {local.tree, m.edit.tree} /\ TreeOf(w, edits) /\ TreeOf(l, edits)
  BY <1>1 DEF Winner, Loser
<1>3. s \in Names /\ <<f>> # s
  <2>1. \E e \in Devices, t \in 0 .. MaxTime : s = <<f, e, t>>
    BY <1>1 DEF Sidecar
  <2>2. \A e, t : <<f>> # <<f, e, t>>
    <3>1. Len(<<f>>) = 1 /\ \A e, t : Len(<<f, e, t>>) = 3
      OBVIOUS
    <3> QED BY <3>1
  <2> QED BY <1>1, <2>1, <2>2 DEF Names
<1>4. <<f>> \in DOMAIN l /\ l[<<f>>] \in 1 .. edits
  BY <1>2 DEF Resolvable, TreeOf
<1>5. r = Graft(w, s, l[<<f>>])
  BY DEF Resolution
<1> HIDE DEF f, local, w, l, s, r
<1>6. TreeOf(r, edits)
  BY <1>2, <1>3, <1>4, <1>5, GraftInserts
<1>7. l[<<f>>] \in Bodies(r)
  BY <1>5, GraftInserts DEF Bodies
<1>8. <<f>> \in DOMAIN w => w[<<f>>] \in Bodies(r)
  BY <1>3, <1>5, GraftInserts DEF Bodies
<1>9. \A t \in {local.tree, m.edit.tree} : <<f>> \in DOMAIN t => t[<<f>>] \in Bodies(r)
  BY <1>2, <1>7, <1>8
<1>10. Bodies(local.tree) \subseteq
           Bodies(r) \cup ({local.tree[n] : n \in DOMAIN local.tree \ {<<f>>}} \ Bodies(r))
  BY <1>9 DEF Bodies
<1>11. {local.tree[n] : n \in DOMAIN local.tree \ {<<f>>}} \subseteq 1 .. edits
  BY <1>1 DEF TreeOf
<1> QED BY <1>6, <1>10, <1>11 DEF f, local, r, GivenUp

----------------------------------------------------------------------------
(* A device's tip replaced by a commit leaves the tips well formed. *)
LEMMA TipReplaced ==
    ASSUME NEW n, TipsOf(tip, n), NEW d \in Devices, NEW c, CommitOf(c, n)
    PROVE  /\ TipsOf([tip EXCEPT ![d] = c], n)
           /\ [tip EXCEPT ![d] = c][d] = c
BY DEF TipsOf

(* Every reachable state has the types of the code: trees hold only contents
   somebody wrote, under names of the chain, and pushes go to other members. *)
THEOREM TypeCorrect == Spec => []TypeOK
<1> USE SharedChainAssumption DEF SharedChainAssumption
<1>1. Init => TypeOK
  <2> SUFFICES ASSUME Init PROVE TypeOK
    OBVIOUS
  <2>1. ASSUME NEW d \in Devices PROVE CommitOf(tip[d], edits)
    <3>1. tip[d] = [tree |-> EmptyTree, base |-> None, ts |-> 0, writer |-> d, file |-> None]
      BY DEF Init
    <3>2. TreeOf(EmptyTree, edits)
      BY DEF EmptyTree, TreeOf
    <3> QED BY <3>1, <3>2 DEF CommitOf
  <2>2. CountersOK /\ HistoryOK
    BY DEF Init, CountersOK, HistoryOK
  <2> QED BY <2>1, <2>2, TypeParts DEF Init, TipsOf, WireOf
<1>2. TypeOK /\ [Next]_vars => TypeOK'
  <2> SUFFICES ASSUME TypeOK, [Next]_vars PROVE TypeOK'
    OBVIOUS
  <2>0. TipsOf(tip, edits) /\ WireOf(wire, edits) /\ CountersOK /\ HistoryOK
        /\ edits \in Nat
    BY TypeParts DEF CountersOK
  <2>p. TipsOf(tip', edits') /\ WireOf(wire', edits') /\ CountersOK' /\ HistoryOK' => TypeOK'
    BY DEF TypeOK, TipsOf, WireOf, CountersOK, HistoryOK, PushOf, CommitOf, TreeOf, IsCommit, IsTree
  <2>1. ASSUME NEW d \in Devices, Tick(d) PROVE TypeOK'
    <3>1. clock' \in [Devices -> 0 .. MaxTime]
      BY <2>0, <2>1 DEF Tick, CountersOK
    <3>2. CountersOK'
      BY <2>0, <2>1, <3>1 DEF Tick, Happens, CountersOK
    <3> QED BY <2>0, <2>p, <2>1, <3>2 DEF Tick, HistoryOK, history
  <2>2. ASSUME NEW d \in Writers, NEW p \in Paths, NEW file \in {p, None}, Edit(d, p, file)
        PROVE  TypeOK'
    <3> DEFINE t == Graft(tip[d].tree, <<p>>, edits + 1)
               c == Commit(d, t, tip[d].tree, d, file)
    <3>1. edits' = edits + 1 /\ edits' \in Nat /\ CountersOK'
      BY <2>0, <2>2 DEF Edit, Happens, CountersOK
    <3>2. /\ \A x : TreeOf(x, edits) => TreeOf(x, edits')
          /\ \A x : CommitOf(x, edits) => CommitOf(x, edits')
          /\ \A x : PushOf(x, edits) => PushOf(x, edits')
      BY <2>0, <3>1, ContentsLast
    <3>3. TipsOf(tip, edits') /\ WireOf(wire, edits') /\ TreeOf(tip[d].tree, edits')
      BY <2>0, <3>2 DEF TipsOf, WireOf, CommitOf
    <3>4. TreeOf(t, edits')
      <4>1. <<p>> \in Names /\ edits + 1 \in 1 .. edits'
        BY <2>0, <3>1 DEF Names
      <4> QED BY <3>3, <4>1, GraftInserts
    <3> HIDE DEF t
    <3>5. CommitOf(c, edits')
      BY <2>0, <3>1, <3>3, <3>4, AuthoredCommit
    <3>6. tip' = [tip EXCEPT ![d] = c]
      BY <2>2 DEF Edit, t
    <3> HIDE DEF c
    <3>7. TipsOf(tip', edits')
      BY <3>3, <3>5, <3>6, TipReplaced
    <3>8. HistoryOK'
      <4>1. {tip[d].tree[n] : n \in {<<p>>} \cap DOMAIN tip[d].tree} \subseteq 1 .. edits'
        BY <3>3 DEF TreeOf
      <4>2. 1 .. edits \subseteq 1 .. edits'
        BY <2>0, <3>1
      <4> QED BY <2>0, <2>2, <4>1, <4>2 DEF Edit, HistoryOK
    <3> QED BY <2>p, <2>2, <3>1, <3>3, <3>7, <3>8 DEF Edit
  <2>3. ASSUME NEW d \in Devices, NEW e \in Devices, Push(d, e) PROVE TypeOK'
    <3> DEFINE m == [from |-> d, to |-> e, sweep |-> TRUE, edit |-> tip[d]]
    <3>1. PushOf(m, edits)
      BY <2>0, <2>3 DEF Push, PushOf, TipsOf
    <3>2. wire' = wire \cup {m} /\ UNCHANGED <<tip, clock, edits, events, history>>
      BY <2>3 DEF Push
    <3> HIDE DEF m
    <3> QED BY <2>0, <2>p, <3>1, <3>2 DEF WireOf, CountersOK, HistoryOK, history
  <2>4. ASSUME NEW m \in wire, Lose(m) PROVE TypeOK'
    BY <2>0, <2>p, <2>4 DEF Lose, Happens, WireOf, CountersOK, HistoryOK, history
  <2>5. ASSUME NEW m \in wire, Receive(m) PROVE TypeOK'
    <3>1. UNCHANGED <<clock, edits, events, over>> /\ CountersOK'
      BY <2>0, <2>5 DEF Receive, CountersOK
    <3>2. /\ m.from \in Devices /\ m.to \in Devices /\ CommitOf(m.edit, edits)
          /\ CommitOf(tip[m.to], edits) /\ TreeOf(tip[m.to].tree, edits)
      BY <2>0 DEF WireOf, PushOf, TipsOf, CommitOf
    <3>3. CASE Keep(m)
      BY <2>0, <2>p, <3>1, <3>3 DEF Keep, WireOf, HistoryOK
    <3>4. CASE Adopt(m)
      <4> DEFINE c == Commit(m.to, m.edit.tree, tip[m.to].tree, m.edit.writer, m.edit.file)
                 On(e) == [from |-> m.to, to |-> e, sweep |-> FALSE, edit |-> m.edit]
      <4>0. /\ TreeOf(m.edit.tree, edits) /\ m.edit.writer \in Devices
            /\ m.edit.file \in Paths \cup {None}
        BY <3>2 DEF CommitOf
      <4>1. CommitOf(c, edits)
        <5> DEFINE t == m.edit.tree
                   b == tip[m.to].tree
                   w == m.edit.writer
                   f == m.edit.file
        <5> HIDE DEF t, b, w, f
        <5>1. CommitOf(Commit(m.to, t, b, w, f), edits)
          <6>1. TreeOf(t, edits) /\ TreeOf(b, edits) /\ w \in Devices /\ f \in Paths \cup {None}
            BY <3>2, <4>0 DEF t, b, w, f
          <6> QED BY <2>0, <3>2, <6>1, AuthoredCommit
        <5> QED BY <5>1 DEF t, b, w, f
      <4>2. tip' = [tip EXCEPT ![m.to] = c]
        BY <3>4 DEF Adopt
      <4>3. wire' = (wire \ {m}) \cup {On(e) : e \in Devices \ {m.from, m.to}}
        BY <3>4 DEF Adopt
      <4>4. \A e \in Devices \ {m.from, m.to} : PushOf(On(e), edits)
        BY <3>2 DEF PushOf
      <4> HIDE DEF c, On
      <4>5. TipsOf(tip', edits) /\ WireOf(wire', edits)
        BY <2>0, <3>2, <4>1, <4>2, <4>3, <4>4, TipReplaced DEF WireOf
      <4>6. HistoryOK'
        BY <2>0, <3>1, <3>4 DEF Adopt, HistoryOK
      <4> QED BY <2>p, <3>1, <4>5, <4>6
    <3>5. CASE Resolve(m)
      <4> DEFINE c == Commit(m.to, Resolution(m), tip[m.to].tree, m.to, None)
      <4>1. TreeOf(Resolution(m), edits) /\ GivenUp(m) \subseteq 1 .. edits
        BY <3>5, ResolutionKeeps DEF Resolve
      <4>2. CommitOf(c, edits)
        BY <2>0, <3>2, <4>1, AuthoredCommit
      <4>3. tip' \in {tip, [tip EXCEPT ![m.to] = c]} /\ wire' = wire \ {m}
        BY <3>5 DEF Resolve
      <4> HIDE DEF c
      <4>r. TipsOf([tip EXCEPT ![m.to] = c], edits)
        BY <2>0, <3>2, <4>2, TipReplaced
      <4>4. TipsOf(tip', edits) /\ WireOf(wire', edits)
        BY <2>0, <4>3, <4>r DEF WireOf
      <4>5. HistoryOK'
        BY <2>0, <3>1, <3>5, <4>1 DEF Resolve, HistoryOK
      <4> QED BY <2>p, <3>1, <4>4, <4>5
    <3> QED BY <2>5, <3>3, <3>4, <3>5 DEF Receive
  <2>6. CASE UNCHANGED vars
    BY <2>0, <2>p, <2>6 DEF vars, CountersOK, HistoryOK
  <2> QED BY <2>1, <2>2, <2>3, <2>4, <2>5, <2>6 DEF Next
<1> QED BY <1>1, <1>2, PTL DEF Spec

----------------------------------------------------------------------------
(* No edit vanishes. *)

(* What a commit no longer holds of its parent's tree was written over or
   given up by a resolution. *)
Builds(c) == Bodies(c.base) \subseteq Bodies(c.tree) \cup over \cup dropped

(* A tip builds on its parent, unless it is the genesis; what is pushed is
   never the genesis. *)
AllBuild ==
    /\ \A d \in Devices : tip[d].base = None \/ Builds(tip[d])
    /\ \A m \in wire : m.edit.base # None /\ Builds(m.edit)

VanishInv == AllBuild /\ NoEditVanishes

(* A device's own step leaves commits that build as they are, and no edit
   vanishes, when the device's new tree accounts for its old one. *)
LEMMA AccountedStep ==
    ASSUME TypeOK, VanishInv, NEW d \in Devices, NEW c,
           tip' = [tip EXCEPT ![d] = c], over \subseteq over', dropped \subseteq dropped',
           Bodies(tip[d].tree) \subseteq Bodies(c.tree) \cup over' \cup dropped',
           c.base = tip[d].tree,
           \A n \in 1 .. edits' : n \in 1 .. edits \/ n \in Bodies(c.tree),
           \A m \in wire' : \/ m \in wire
                            \/ \E k \in wire : m.edit = k.edit
    PROVE  VanishInv'
<1>1. tip'[d] = c /\ \A e \in Devices \ {d} : tip'[e] = tip[e]
  BY DEF TypeOK
<1>2. ASSUME NEW e \in Devices PROVE (tip[e].base = None \/ Builds(tip[e]))'
  BY <1>1 DEF VanishInv, AllBuild, Builds
<1>3. ASSUME NEW m \in wire' PROVE m.edit.base # None /\ Builds(m.edit)'
  BY DEF VanishInv, AllBuild, Builds
<1>4. ASSUME NEW n \in 1 .. edits'
      PROVE  n \in over' \cup dropped' \/ \E e \in Devices : n \in Bodies(tip'[e].tree)
  <2>1. CASE n \in Bodies(c.tree)
    BY <1>1, <2>1
  <2>2. CASE n \in 1 .. edits
    <3>1. n \in over \cup dropped \/ \E e \in Devices : n \in Bodies(tip[e].tree)
      BY <2>2 DEF VanishInv, NoEditVanishes
    <3> QED BY <1>1, <3>1
  <2> QED BY <2>1, <2>2
<1> QED BY <1>2, <1>3, <1>4 DEF VanishInv, AllBuild, NoEditVanishes

(* No edit vanishes by a push, a fast-forward or a conflict about its file:
   every commit on a chain or under way accounts for what its parent held, and
   a device adopts only what was built on the very tree it holds. *)
THEOREM EditsNeverVanish == Spec => []NoEditVanishes
<1> USE SharedChainAssumption DEF SharedChainAssumption
<1>1. Init => VanishInv
  <2> SUFFICES ASSUME Init PROVE VanishInv
    OBVIOUS
  <2>1. \A d \in Devices : tip[d].base = None
    BY DEF Init
  <2>2. wire = {} /\ 1 .. edits = {}
    BY DEF Init
  <2> QED BY <2>1, <2>2 DEF VanishInv, AllBuild, NoEditVanishes
<1>2. TypeOK /\ VanishInv /\ [Next]_vars => VanishInv'
  <2> SUFFICES ASSUME TypeOK, VanishInv, [Next]_vars PROVE VanishInv'
    OBVIOUS
  <2>0. edits \in Nat /\ DOMAIN tip = Devices
    BY DEF TypeOK
  <2>1. ASSUME NEW d \in Devices, Tick(d) PROVE VanishInv'
    BY <2>1 DEF Tick, history, VanishInv, AllBuild, Builds, NoEditVanishes
  <2>2. ASSUME NEW d \in Writers, NEW p \in Paths, NEW file \in {p, None}, Edit(d, p, file)
        PROVE  VanishInv'
    <3> DEFINE old == tip[d].tree
               t == Graft(old, <<p>>, edits + 1)
               c == Commit(d, t, old, d, file)
    <3>1. c.tree = t /\ c.base = old /\ tip' = [tip EXCEPT ![d] = c]
      BY <2>2 DEF Edit, Commit
    <3>2. edits' = edits + 1 /\ wire' = wire /\ dropped' = dropped
          /\ over' = over \cup {old[n] : n \in {<<p>>} \cap DOMAIN old}
      BY <2>2 DEF Edit
    <3>3. edits + 1 \in Bodies(t)
      <4>1. <<p>> \in DOMAIN t /\ t[<<p>>] = edits + 1
        BY GraftInserts
      <4> HIDE DEF t
      <4> QED BY <4>1 DEF Bodies
    <3>4. Bodies(old) \subseteq Bodies(t) \cup over' \cup dropped'
      <4>1. ASSUME NEW n \in DOMAIN old, n # <<p>> PROVE old[n] \in Bodies(t)
        BY <4>1, GraftInserts DEF Bodies
      <4> HIDE DEF t, old
      <4> QED BY <3>2, <4>1 DEF Bodies
    <3>5. \A n \in 1 .. edits' : n \in 1 .. edits \/ n \in Bodies(c.tree)
      BY <2>0, <3>1, <3>2, <3>3
    <3> HIDE DEF c, t
    <3> QED BY <3>1, <3>2, <3>4, <3>5, AccountedStep
  <2>3. ASSUME NEW d \in Devices, NEW e \in Devices, Push(d, e) PROVE VanishInv'
    <3> DEFINE m == [from |-> d, to |-> e, sweep |-> TRUE, edit |-> tip[d]]
    <3>1. wire' = wire \cup {m} /\ UNCHANGED <<tip, edits, over, dropped>>
      BY <2>3 DEF Push, history
    <3>2. m.edit = tip[d] /\ tip[d].base # None /\ Builds(tip[d])
      BY <2>3 DEF Push, VanishInv, AllBuild
    <3> HIDE DEF m
    <3> QED BY <3>1, <3>2 DEF VanishInv, AllBuild, Builds, NoEditVanishes
  <2>4. ASSUME NEW m \in wire, Lose(m) PROVE VanishInv'
    BY <2>4 DEF Lose, history, VanishInv, AllBuild, Builds, NoEditVanishes
  <2>5. ASSUME NEW m \in wire, Receive(m) PROVE VanishInv'
    <3>1. edits' = edits /\ over' = over /\ m.to \in Devices
      BY <2>5 DEF Receive, TypeOK
    <3>2. CASE Keep(m)
      BY <3>1, <3>2 DEF Keep, VanishInv, AllBuild, Builds, NoEditVanishes
    <3>3. CASE Adopt(m)
      <4> DEFINE c == Commit(m.to, m.edit.tree, tip[m.to].tree, m.edit.writer, m.edit.file)
                 On(e) == [from |-> m.to, to |-> e, sweep |-> FALSE, edit |-> m.edit]
      <4>1. c.tree = m.edit.tree /\ c.base = tip[m.to].tree
        BY DEF Commit
      <4>2. tip' = [tip EXCEPT ![m.to] = c] /\ dropped' = dropped
        BY <3>3 DEF Adopt
      <4>3. Bodies(tip[m.to].tree) \subseteq Bodies(m.edit.tree) \cup over \cup dropped
        <5>1. tip[m.to].tree = m.edit.base
          BY <3>3 DEF Adopt, FastForward
        <5> QED BY <5>1 DEF VanishInv, AllBuild, Builds
      <4>4. wire' = (wire \ {m}) \cup {On(e) : e \in Devices \ {m.from, m.to}}
        BY <3>3 DEF Adopt
      <4>5. \A k \in wire' : k \in wire \/ \E x \in wire : k.edit = x.edit
        BY <4>4
      <4> HIDE DEF c, On
      <4> QED BY <2>0, <3>1, <4>1, <4>2, <4>3, <4>5, AccountedStep
    <3>4. CASE Resolve(m)
      <4> DEFINE c == Commit(m.to, Resolution(m), tip[m.to].tree, m.to, None)
      <4>1. c.tree = Resolution(m) /\ c.base = tip[m.to].tree
        BY DEF Commit
      <4>2. Bodies(tip[m.to].tree) \subseteq Bodies(Resolution(m)) \cup GivenUp(m)
        BY <3>4, ResolutionKeeps DEF Resolve
      <4>3. wire' = wire \ {m} /\ dropped' = dropped \cup GivenUp(m)
        BY <3>4 DEF Resolve
      <4>4. CASE tip' = tip
        BY <3>1, <4>3, <4>4 DEF VanishInv, AllBuild, Builds, NoEditVanishes
      <4>5. CASE tip' = [tip EXCEPT ![m.to] = c]
        <5> HIDE DEF c
        <5> QED BY <2>0, <3>1, <4>1, <4>2, <4>3, <4>5, AccountedStep
      <4> QED BY <3>4, <4>4, <4>5 DEF Resolve
    <3> QED BY <2>5, <3>2, <3>3, <3>4 DEF Receive
  <2>6. CASE UNCHANGED vars
    BY <2>6 DEF vars, VanishInv, AllBuild, Builds, NoEditVanishes
  <2> QED BY <2>1, <2>2, <2>3, <2>4, <2>5, <2>6 DEF Next
<1>3. VanishInv => NoEditVanishes
  BY DEF VanishInv
<1> QED BY <1>1, <1>2, <1>3, TypeCorrect, PTL DEF Spec

=============================================================================
